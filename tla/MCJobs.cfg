\* One message, two processes that may crash, hang, come back or be told to stop.
CONSTANTS
    None = None
    Jobs = {j1}
    Procs = {p1, p2}
    MaxBatch = 1
    MaxReceives = 3
SPECIFICATION FairSpec
INVARIANTS
    NeverDropped
    DuplicatesExplained
    CleanStopAbandonsNothing
PROPERTIES
    JobsSettle
    StopEnds
\* Every message may be deleted and every process stopped.
CHECK_DEADLOCK FALSE
