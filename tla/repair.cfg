SPECIFICATION Spec
CONSTANTS
    s1 = s1
    s2 = s2
    Sessions <- TwoSessions
    MaxObject = 1
    MaxCommand = 3
    MaxStray = 1
    MaxOther = 2
SYMMETRY MCSymmetry
INVARIANTS TypeOK RootIsAttributed RequestsAreSanctioned
PROPERTIES ChownIsQuiet NoStartOverReplaced RestoredIsBaseline
CHECK_DEADLOCK FALSE
