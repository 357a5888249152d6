SPECIFICATION FairSpec
CONSTANTS
    Entitlements <- MCEntitlements
    MaxVersion = 3
    Conflicts = TRUE
    MaxIssue = 2
    MaxCrash = 1
    MaxFault = 1
    MaxLate = 1
    Unheeded = {"enabled", "days"}
INVARIANTS TypeOK ReceiptIsTrue ReplacedIsGone
PROPERTIES NoRevert DeliveredIsKept Settles
CHECK_DEADLOCK FALSE
