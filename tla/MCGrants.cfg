\* Two handlers on one connection, any of which may die; the clock passes every expiry.
CONSTANTS
    None = None
    Conns = {c1}
    Workers = {w1, w2}
    Scopes = {a}
    AccessTtl = 2
    Tolerance = 1
    RefreshTtl = 3
    AbsoluteTtl = 4
    MaxGen = 3
    MaxTime = 7
SPECIFICATION FairSpec
INVARIANTS
    LivePairNotDenied
    RetiredPairRefused
    ConnectionIsMortal
PROPERTIES
    ImplementsRotatingTokens
    RetiredPairEventuallyRefused
\* The clock and the generations run out in the instance.
CHECK_DEADLOCK FALSE
