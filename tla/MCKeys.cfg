\* Two instances and two rotations.
CONSTANTS
    Keys = {k0, k1, k2}
    FirstKey = k0
    Instances = {i1, i2}
    AccessTtl = 1
    MaxAge = 1
    MaxTime = 5
SPECIFICATION Spec
SYMMETRY Symmetry
INVARIANTS
    TokensAccepted
    CopiesSuffice
\* Time runs out.
CHECK_DEADLOCK FALSE
