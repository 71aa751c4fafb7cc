SPECIFICATION FairSpec
CONSTANTS
    Clients = {a, b}
    Names = {f}
    f = f
    MaxPieces = 2
    Requests <- MCRequests
INVARIANTS
    TypeOK
    ConsentFirst
    CopyFaithful
    NeverBothWait
PROPERTIES
    TransferEnds
\* Clients connect once, and nobody has to answer a prompt.
CHECK_DEADLOCK FALSE
