SPECIFICATION FairSpec
CONSTANTS
    Runtimes = {"BLOCKED"}
    MaxRequest = 1
    MaxGrant = 1
    MaxFault = 0
    MaxCrash = 1
    MaxManual = 0
PROPERTIES ReconcileResumes
CHECK_DEADLOCK FALSE
