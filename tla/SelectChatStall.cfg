SPECIFICATION FairSpec
CONSTANTS
    Clients = {a, b}
    Speakers = {a, b}
    Leavers = {}
    server_sock = 3
    Fds = {4, 5}
    MaxPending = 0
    MaxUnits = 3
    UpCap = 1
    DownCap = 1
    RecvMax = 1
    MAX_CLIENTS = 2
    MaxPresent = 2
PROPERTIES
    BroadcastEnds
\* The server may wait in select() for ever.
CHECK_DEADLOCK FALSE
