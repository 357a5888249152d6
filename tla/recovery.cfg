SPECIFICATION FairSpec
CONSTANTS
    Runtimes = {"BLOCKED", "FALLBACK"}
    MaxRequest = 2
    MaxGrant = 2
    MaxFault = 2
    MaxCrash = 2
    MaxManual = 1
INVARIANTS TypeOK NoSecondSign IssuedIsKept AcknowledgedIsActive AcceptedIsClean
 
CHECK_DEADLOCK FALSE
