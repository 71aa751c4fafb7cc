SPECIFICATION FairSpec
CONSTANTS
    Clients = {a, b, c}
    Fds = {4, 5}
    MaxPending = 2
    MaxUnits = 2
    UpCap = 2
    DownCap = 2
    RecvMax = 2
    ForkLimit = 2
    Lengths = {2}
    Leavers = {a, b}
    a = a
    PortOf <- MCPortOf
INVARIANTS
    TypeOK
    EchoFaithful
    ChildrenReaped
    DeathHasCause
    NobodyWaitsInVain
PROPERTIES
    ClientsServed
\* Clients connect once, and the server waits for ever for another.
CHECK_DEADLOCK FALSE
