CONSTANTS
    p1 = p1
    p2 = p2
    Proc <- MCProc
    NamedMutex = NamedMutex
    NoProc = NoProc
    NoHandle = NoHandle
    Debug = FALSE
    MaxLocks = 2
SYMMETRY MCSymmetry
SPECIFICATION Spec
INVARIANT NeverAbandoned
