SPECIFICATION Spec
CONSTANTS
    w1 = w1  w2 = w2
    Workers <- TwoWorkers
    Outstanding = 2
    MaxCalls = 4
CHECK_DEADLOCK FALSE
SYMMETRY Symmetry
INVARIANTS ServedOnce PopsLiveNodes
