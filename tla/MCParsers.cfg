CONSTANT Inputs <- MCInputs
SPECIFICATION Spec
CHECK_DEADLOCK FALSE
INVARIANTS
    SameRequest
    SameEnd
    AsyncAcceptsNoMore
    BlockingAcceptsNoMore
