\* One login and one reset of the password.
CONSTANTS
    u1 = u1
    None = None
    SessionIds = {s1}
    Users = {u1}
    UserOf <- OneUser
    Workers = {w1, w2}
    MaxGen = 2
    MaxPwd = 2
SPECIFICATION Spec
PROPERTY
    OldSessionsKilled
\* Ids, generations and password versions run out in the instance.
CHECK_DEADLOCK FALSE
