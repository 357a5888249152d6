SPECIFICATION Spec
CONSTANTS
    c1 = c1
    c2 = c2
    agent = agent
    none = none
    Cli <- MCCli
    Agent = agent
    NoProc = none
    Parts = {"xray", "config", "subs", "db"}
    Role = "entry"
    Backend = "generated"
    AbsentParts = {}
    Keep = 1
    CrashAt = {"locked", "result", "snap", "copy", "mutate", "recopy", "resnap", "marked", "gate", "restore", "check", "chosen", "resolve", "fence", "write"}
    AbortAt = {"snap", "copy", "mutate", "recopy", "resnap", "marked"}
    FaultyCopy = {"config"}
    MaxTx = 2
    MaxAgent = 1
    MaxCrash = 2
    MaxFault = 1
    MaxOverride = 1
SYMMETRY MCSymmetry
INVARIANTS TypeOK OneIncomplete AgentWritesSurvive
PROPERTIES RolledBackRestores CommitIsFinal
CHECK_DEADLOCK FALSE
