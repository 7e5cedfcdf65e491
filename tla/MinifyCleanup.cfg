SPECIFICATION Spec
CONSTANTS
    w1 = w1  w2 = w2
    Workers <- TwoWorkers
    Outstanding = 1
    MaxCalls = 2
CHECK_DEADLOCK FALSE
SYMMETRY Symmetry
INVARIANTS CleanupAlone
