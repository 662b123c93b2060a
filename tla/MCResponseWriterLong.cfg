\* A body that does not fit in the buffer.
CONSTANTS
    BufferSize = 3
    MaxParts = 2
    MaxLength = 4
SPECIFICATION Spec
CHECK_DEADLOCK FALSE
INVARIANT BodyHasItsLength
