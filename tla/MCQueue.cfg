\* Two threads on both sides; the third position is the second lap of a slot.
\* In the pool a queue has one producer; the class allows several.  One producer
\* and one consumer keep running; the other two may be suspended for ever at
\* any step.
CONSTANTS
    Producers = {p1, p2}
    Consumers = {c1, c2}
    Values = {p1, p2}
    Capacity = 2
    MaxPush = 3
    Moved = Moved
    Running = {p1, c1}
SPECIFICATION FairSpec
INVARIANTS
    SlotExclusion
    WithinCapacity
    QueueInv
PROPERTIES
    PushRefusedByOldest
    PopRefusedByOldest
    FifoSpec
    ClaimSpec
    OperationReturns
