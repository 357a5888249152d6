SPECIFICATION Spec
CONSTANTS
    Exits = {"e1", "e2"}
    Autos = {"a"}
    MaxCommand = 3
    MaxEarly = 2
    MaxDrift = 0
INVARIANTS SelectorsExist
