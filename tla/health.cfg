SPECIFICATION FairSpec
CONSTANTS
    Exits = {"e1"}
    Autos = {"a"}
    MaxCommand = 3
    MaxEarly = 1
    MaxDrift = 1
INVARIANTS TypeOK CommittedIsLive
PROPERTIES ReconcileRepairs RuntimeCatchesUp
