SPECIFICATION FairSpec
CONSTANTS
    Managed = {2}
    Foreign = {1, 3}
    NameEcho <- SharedName
    KeyEcho <- SharedKey
    Cycle = 2
    MaxRecords = 3
    MaxAttempts = 2
    Spare = 2
    MaxCommand = 1
    MaxHand = 1
    MaxFault = 1
    MaxCrash = 1
INVARIANTS ManagedIsNotReported JournalIsSound
PROPERTIES ForeignIsReported
CHECK_DEADLOCK FALSE
