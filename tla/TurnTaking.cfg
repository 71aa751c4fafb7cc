SPECIFICATION Spec
CONSTANTS
    Clients = {a, b, c}
    MaxTurns = 3
SYMMETRY ClientSymmetry
INVARIANTS
    TypeOK
    OneInFlight
    StuckHasCause
    LateLinesBounded
\* Users stop typing, and parties wait for each other for ever.
CHECK_DEADLOCK FALSE
