SPECIFICATION Spec
CONSTANTS
    Clients = {a, b, c}
    Speakers = {}
    Leavers = {a}
    server_sock = 3
    Fds = {4, 5, 6}
    MaxPending = 0
    MaxUnits = 1
    UpCap = 1
    DownCap = 1
    RecvMax = 1
    MAX_CLIENTS = 2
    MaxPresent = 2
INVARIANTS
    SupportsMaxClients
\* The server may wait in select() for ever.
CHECK_DEADLOCK FALSE
