CONSTANTS
    u1 = u1
    u2 = u2
    u3 = u3
    Usr <- MCUsr
    RawIdBits = 2
    NoId = NoId
    NoUsr = NoUsr

SYMMETRY MCSymmetry

SPECIFICATION Spec

INVARIANT TypeOK
INVARIANT IdCacheConsistent
INVARIANT IdentityStable

PROPERTY ImplementsIdentityMap
