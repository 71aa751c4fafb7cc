SPECIFICATION FairSpec
CONSTANTS
    Clients = {a, b, c}
    Speakers = {a, b}
    Leavers = {b, c}
    server_sock = 3
    Fds = {4, 5}
    MaxPending = 0
    MaxUnits = 2
    UpCap = 2
    DownCap = 2
    RecvMax = 2
    MAX_CLIENTS = 3
    MaxPresent = 3
INVARIANTS
    TypeOK
    NeverBlocksReading
    TableConsistent
PROPERTIES
    ImplementsRoom
    ListedServed
\* The server may have been killed, or may wait in select() for ever.
CHECK_DEADLOCK FALSE
