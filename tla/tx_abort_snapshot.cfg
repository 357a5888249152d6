SPECIFICATION Spec
CONSTANTS
    c1 = c1
    c2 = c2
    agent = agent
    none = none
    Cli <- MCCli
    Agent = agent
    NoProc = none
    Parts = {"config", "subs", "db"}
    Role = "entry"
    Backend = "xui-native"
    AbsentParts = {}
    Keep = 2
    CrashAt = {}
    AbortAt = {"snap", "copy", "mutate", "recopy", "resnap", "marked"}
    FaultyCopy = {}
    MaxTx = 2
    MaxAgent = 1
    MaxCrash = 0
    MaxFault = 0
    MaxOverride = 0
SYMMETRY MCSymmetry
INVARIANTS FailedCommandRollsBack
CHECK_DEADLOCK FALSE
