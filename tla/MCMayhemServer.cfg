\* Two connections and three descriptors, of which the process has two below MAX_FD,
\* one below and one above, or a single one; every client closes its side in the end.
CONSTANTS
    Clients = {c1, c2}
    Fds = {4, 5, 6}
    Tables = {{4, 5}, {4, 6}, {4}}
    MaxFd = 6
    Threads = 2
    Kinds = {"good", "malformed", "throws"}
    MaxPieces = 2
    MaxRuns = 2
    None = None
    Polite = {c1, c2}
SPECIFICATION FairSpec
CHECK_DEADLOCK FALSE
INVARIANTS
    TypeOK
    EventHasItsBuilder
    WorkerOwnsStream
    DispatchedIsSilent
    NoDescriptorLost
PROPERTIES
    RequestServed
    StopEndsServe
