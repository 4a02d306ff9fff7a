SPECIFICATION DSpec
CONSTANTS
    p1 = p1
    p2 = p2
    p3 = p3
    Procs <- MCProcs
    Sites <- MCSites
    MaxInodes = 6
SYMMETRY Symmetry
PROPERTY DeleteRefusedWhileRunning
CHECK_DEADLOCK FALSE
