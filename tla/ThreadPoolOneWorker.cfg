CONSTANTS
    Worker = {w1}
    Main = Main
    Conn = {c1, c2, c3}
    Fd = {0, 1, 2}
    Backlog = 0
    None = None
SPECIFICATION FairSpec
PROPERTY QueuedIsServed
\* the server process ends
CHECK_DEADLOCK FALSE
