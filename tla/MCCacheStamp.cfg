SPECIFICATION Spec
CONSTANTS
    profile = profile
    include1 = include1
    include2 = include2
    p1 = p1
    p2 = p2
    Main = profile
    Files <- OneInclude
    Procs <- TwoProcs
    MaxEdits = 2
    TornUpdates = FALSE
SYMMETRY ProcSymmetry
INVARIANTS
    StampSound
    LoadsCurrentPolicy
CHECK_DEADLOCK FALSE
