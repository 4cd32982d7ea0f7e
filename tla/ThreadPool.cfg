CONSTANTS
    Worker = {w1, w2, w3}
    Main = Main
    Conn = {c1, c2, c3, c4}
    Fd = {0, 1, 2}
    Backlog = 1
    None = None
SPECIFICATION Spec
SYMMETRY Symmetry
INVARIANTS
    TypeOK
    OneOwner
    NoLostWakeup
    NeverPopsEmpty
    NobodySleepsThroughExit
PROPERTY ImplementsService
\* the server process ends
CHECK_DEADLOCK FALSE
