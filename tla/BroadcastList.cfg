SPECIFICATION FairSpec
CONSTANTS
    Clients = {a, b, c}
    Speakers = {b}
    Leavers = {b}
    Fds = {4, 5}
    MaxPending = 0
    MaxUnits = 1
    UpCap = 1
    DownCap = 1
    RecvMax = 1
    MAXCLIENTS = 2
    MaxLines = 2
INVARIANTS
    ListConsistent
    StreamsFaithful
    SendsGetThrough
PROPERTIES
    LineSent
    QuitEndsWhenSpokenTo
\* The server may have been killed, or wait in accept() for ever.
CHECK_DEADLOCK FALSE
