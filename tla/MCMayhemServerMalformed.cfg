\* A malformed request, against the comment of Feed.
CONSTANTS
    Clients = {c1}
    Fds = {4}
    Tables = {{4}}
    MaxFd = 5
    Threads = 1
    Kinds = {"malformed"}
    MaxPieces = 2
    MaxRuns = 1
    None = None
    Polite = {}
SPECIFICATION Spec
CHECK_DEADLOCK FALSE
PROPERTY ErrorEndsParsing
