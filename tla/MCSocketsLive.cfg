\* Two sockets on one instance, and two tokens of one device.
CONSTANTS
    None = None
    u1 = u1
    Instances = {i1}
    Ids = {k1, k2}
    Tokens = {t1, t2}
    Sessions = {s1}
    SessionOf <- OneSession
    s1 = s1
    Users = {u1}
    UserOf <- OneUser
    Rooms = {}
    MaxConnections = 1
    MaxDrops = 0
    MaxQueue = 0
SPECIFICATION FairSpec
PROPERTY
    RevokedSocketsEnd
\* Every socket may be gone.
CHECK_DEADLOCK FALSE
