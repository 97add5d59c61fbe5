\* Three handlers on one device, any of which may die.
CONSTANTS
    u1 = u1
    None = None
    SessionIds = {s1}
    Users = {u1}
    UserOf <- OneUser
    Workers = {w1, w2, w3}
    MaxGen = 3
    MaxPwd = 2
SPECIFICATION FairSpec
INVARIANTS
    ReuseIsSpent
    LateIssueOnce
    DeviceCanRefresh
PROPERTIES
    ImplementsRotatingTokens
    RevocationTakesEffect
\* Ids, generations and password versions run out in the instance.
CHECK_DEADLOCK FALSE
