SPECIFICATION FairSpec
CONSTANTS
    MaxUnits = 3
    Cap = 3
    RecvMax = 2
    Killable = {"server", "client"}
INVARIANTS
    CopyWhole
PROPERTIES
    PairEnds
\* A process that is over does nothing more, and a user may not type.
CHECK_DEADLOCK FALSE
