\* Bodies that are empty, that fit in the reader's buffer and that do not, one
\* that is too long; responses whose parts are empty, fit in the writer's
\* buffer, fill it and are longer.
CONSTANTS
    ReaderSize = 3
    HeaderLength = 2
    MaxContent = 5
    MaxExtra = 2
    MaxBody = 4
    Word = 64
    BufferSize = 3
    MaxParts = 4
    MaxLength = 4
SPECIFICATION FairExchange
CHECK_DEADLOCK FALSE
INVARIANTS
    NothingTwice
    ShortResponseWhole
    BytesInOrder
    BodyExact
    RefusedHasCause
PROPERTY
    RequestAnswered
