\* One device with one token and two sockets on two instances, one of which loses its subscriber once.
CONSTANTS
    None = None
    u1 = u1
    Instances = {i1, i2}
    Ids = {k1, k2}
    Tokens = {t1}
    Sessions = {s1}
    SessionOf <- OneSession
    s1 = s1
    Users = {u1}
    UserOf <- OneUser
    Rooms = {r1}
    MaxConnections = 2
    MaxDrops = 1
    MaxQueue = 1
SPECIFICATION Spec
SYMMETRY Symmetry
INVARIANTS
    TypeOK
    RegistriesAgree
    HostedAreSubscribed
    RevokedSocketsExplained
\* Every socket may be gone.
CHECK_DEADLOCK FALSE
