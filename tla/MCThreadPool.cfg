\* Two workers with queues of two slots, two submitters.  The tasks that worker 0
\* runs need not return; the pool may be destroyed at any time.
CONSTANTS
    Threads = 2
    Submitters = {s1, s2}
    Capacity = 2
    MaxTasks = 5
    Stuck = {0}
SPECIFICATION FairSpec
INVARIANTS
    StoppedClean
PROPERTIES
    TaskPoolSpec
    QueuesFollow
    AcceptedTaskStarts
    DestructorReturns
