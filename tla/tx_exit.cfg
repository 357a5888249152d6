SPECIFICATION FairSpec
CONSTANTS
    c1 = c1
    c2 = c2
    agent = agent
    none = none
    Cli <- MCCli
    Agent = agent
    NoProc = none
    Parts = {"xray", "config", "subs", "db"}
    Role = "exit"
    Backend = "xui-native"
    AbsentParts = {}
    Keep = 1
    CrashAt = {"plan", "result", "snap", "copy", "mutate", "marked", "gate", "restore", "check", "write"}
    AbortAt = {"snap", "copy", "mutate", "marked"}
    FaultyCopy = {}
    MaxTx = 2
    MaxAgent = 1
    MaxCrash = 1
    MaxFault = 1
    MaxOverride = 0
PROPERTIES ImplementsAtomicNode FenceReopens NoWriteOverInterrupted
CHECK_DEADLOCK FALSE
