SPECIFICATION FairSpec
CONSTANTS
    Clients = {a, b}
    NoClient = NoClient
    Chunks = 3
    MaxLost = 3
INVARIANTS
    InOrder
    MissesOnlyLost
    PatientEnough
PROPERTIES
    BothEnd
\* Both programs end; and the server waits for ever when the request is lost.
CHECK_DEADLOCK FALSE
