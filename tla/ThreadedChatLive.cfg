SPECIFICATION FairSpec
CONSTANTS
    Clients = {a, b, c}
    Speakers = {a, b}
    Leavers = {c}
    Enders = {a}
    Fds = {4, 5}
    MaxPending = 0
    MaxUnits = 2
    UpCap = 1
    DownCap = 1
    RecvMax = 1
    MAX_CLIENTS = 2
    MaxPresent = 3
PROPERTIES
    HandlersAdvance
    ClientsFollowServer
\* The server may have been killed, or may wait in accept() for ever.
CHECK_DEADLOCK FALSE
