\* Three spellings of two paths; two handlers and one error handler besides those
\* the builder registers itself; an int of 20 bits.
CONSTANTS
    Paths <- MCPaths
    Verbs <- MCVerbs
    Codes = {400, 403, 404, 405, 500}
    MaxRegistered = 2
    MaxErrors = 5
    Width = 20
    WrongType = WrongType
    Missing = Missing
    NoJson = NoJson
    Disks <- MCDisks
    Machines <- MCMachines
    Loggers = {"WebHost", "Demo", ""}
SPECIFICATION BoundedSpec
\* A request is answered and the builder does nothing more.
CHECK_DEADLOCK FALSE
INVARIANTS
    AnsweredByRight
    AnsweredOnce
    StartsAsConfigured
    LoggersAsConfigured
