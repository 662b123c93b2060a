\* Three connections, one of which may stay silent, and two descriptors.
CONSTANTS
    Clients = {c1, c2, c3}
    Silent = {c3}
    Threads = 2
    FileLimit = 2
    MaxRuns = 2
    None = None
SPECIFICATION FairSpec
INVARIANTS
    TypeOK
    NothingElseForgotten
    IdleIsClean
    HostOutlived
PROPERTIES
    RequestAnswered
    StopEndsRun
\* The host may have been run as often as the bound allows, and the process ends
\* when an exception leaves a thread.
CHECK_DEADLOCK FALSE
