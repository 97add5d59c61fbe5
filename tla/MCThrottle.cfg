\* Two accounts tried from one address by two logins at a time.
CONSTANTS
    NoAccount = NoAccount
    Emails = {e1, e2}
    Ips = {a1}
    Workers = {w1, w2}
    MaxFailed = 2
    FailThreshold = 1
    Window = 2
    MaxTime = 2
    MaxTries = 5
    MaxLost = 1
SPECIFICATION ThrottleSpec
SYMMETRY Symmetry
INVARIANTS
    ThrottleTypeOK
    PairTriesBounded
    LocksAreEarned
\* Time and tries run out in the instance.
CHECK_DEADLOCK FALSE
