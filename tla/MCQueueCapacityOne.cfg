\* The smallest capacity the constructor accepts.
CONSTANTS
    Producers = {p1}
    Consumers = {c1}
    Values = {v1}
    Capacity = 1
    MaxPush = 2
    Moved = Moved
    Running = {}
SPECIFICATION Spec
INVARIANT WithinCapacity
