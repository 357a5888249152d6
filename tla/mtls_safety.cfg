SPECIFICATION FairSpec
CONSTANTS
    Modes = {"bearer", "bootstrap-mtls", "mtls"}
    Life = 5
    DeliveryTtl = 3
    RotateBefore = 3
    RetryMax = 3
    Cooldown = 3
    Permanent = TRUE
    MaxRequest = 3
    MaxFault = 4
    MaxCrash = 2
INVARIANTS TypeOK DeliveryCompletable AcknowledgedIsActive ReadyIsAcknowledged
PROPERTIES OutageSparesRenewal Recovers
CHECK_DEADLOCK FALSE
