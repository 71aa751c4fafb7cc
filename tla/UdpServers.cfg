SPECIFICATION FairSpec
CONSTANTS
    Clients = {a, b, c, d}
    a = a
    b = b
    c = c
    AddrOf <- MCAddrOf
    Server = "server"
    Listeners = {"l"}
    MAX_CLIENTS = 2
    MaxTexts = 1
    QueueCap = 2
    Killable = {a}
    Finite = {b}
INVARIANTS
    TypeOK
    HeardRight
PROPERTIES
    Served
\* The servers wait for ever for another datagram.
CHECK_DEADLOCK FALSE
