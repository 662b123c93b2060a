\* Two handlers for one path and method, against the comment of RegisterHandler.
CONSTANTS
    Paths <- MCPaths
    Verbs <- MCVerbs
    Codes = {400, 403, 404, 405, 500}
    MaxRegistered = 2
    MaxErrors = 5
    Width = 20
    WrongType = WrongType
    Missing = Missing
    NoJson = NoJson
    Disks <- MCDisks
    Machines <- MCMachines
    Loggers = {"WebHost", "Demo", ""}
SPECIFICATION BoundedSpec
CHECK_DEADLOCK FALSE
INVARIANT HandlerReplaced
