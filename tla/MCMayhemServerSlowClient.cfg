\* A client that sends half a request and stays silent.
CONSTANTS
    Clients = {c1}
    Fds = {4}
    Tables = {{4}}
    MaxFd = 5
    Threads = 1
    Kinds = {"good"}
    MaxPieces = 2
    MaxRuns = 1
    None = None
    Polite = {}
SPECIFICATION FairSpec
CHECK_DEADLOCK FALSE
PROPERTY ParseReturns
