SPECIFICATION Spec
CONSTANTS
    Clients = {a, b, c}
    Speakers = {a, b}
    Leavers = {a, b}
    Enders = {}
    Fds = {4, 5, 6}
    MaxPending = 0
    MaxUnits = 2
    UpCap = 2
    DownCap = 2
    RecvMax = 2
    MAX_CLIENTS = 2
    MaxPresent = 3
SYMMETRY RoleSymmetry
INVARIANTS
    TableConsistent
    MutexNotHostage
PROPERTIES
    EntryKept
    ImplementsRoom
\* The server may have been killed, or may wait in accept() for ever.
CHECK_DEADLOCK FALSE
