\* All three stores, one of them down at a time, one health probe and one connection.
CONSTANTS
    Services = {"postgres", "redis", "mongo"}
    Probes = {h1}
    MaxConns = 1
    MaxDown = 1
SPECIFICATION FairSpec
INVARIANTS
    StoresOutliveRequests
PROPERTIES
    ShutdownEnds
    FlagsSettle
\* The process ends.
CHECK_DEADLOCK FALSE
