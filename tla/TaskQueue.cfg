CONSTANTS
    Node = {n1, n2, n3}
    Null = Null
    Fd = {f1, f2}
    NoFd = NoFd
SPECIFICATION Spec
INVARIANTS TypeOK NoLeak ListShape
PROPERTY ImplementsFifo
\* a failed malloc ends the process: the queue really may stop
CHECK_DEADLOCK FALSE
