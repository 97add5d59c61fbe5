\* One browser, two people, two tabs; one pending request and two codes.
CONSTANTS
    None = None
    client = client
    a = a
    b = b
    unknown = unknown
    Users = {u1, u2}
    Clients = {client}
    Metadata <- SomeMetadata
    Requests <- SomeRequests
    Scopes = {a, b}
    Tickets = {t1}
    Codes = {c1, c2}
    Workers = {w1, w2}
SPECIFICATION Spec
SYMMETRY Symmetry
INVARIANTS
    TypeOK
    CodesAreConsented
    MistakesNeedARace
    TicketsAreSpentOnce
    ImmortalTicketsAreCrossed
\* Tickets and codes run out in the instance.
CHECK_DEADLOCK FALSE
