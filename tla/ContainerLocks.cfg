SPECIFICATION Spec
CONSTANTS
    p1 = p1
    p2 = p2
    p3 = p3
    Procs <- MCProcs
    Sites <- MCSites
SYMMETRY Symmetry
INVARIANT TypeOK
INVARIANT LockExclusion
INVARIANT NoCircularWait
PROPERTY PromiseKept
