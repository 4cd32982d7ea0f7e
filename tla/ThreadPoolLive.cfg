CONSTANTS
    Worker = {w1, w2}
    Main = Main
    Conn = {c1, c2}
    Fd = {0, 1}
    Backlog = 1
    None = None
SPECIFICATION FairSpec
PROPERTIES
    QueuedGetsWorker
    ShutdownCompletes
\* the server process ends
CHECK_DEADLOCK FALSE
