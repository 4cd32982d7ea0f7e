CONSTANT MaxTyped = 3
SPECIFICATION FairSpec
INVARIANTS
    TypeOK
    GarbledWorkerNeedsBarePut
    LoopFindsCommands
    GarbledClientNeedsLeftOver
    StuckOnlyOnSilence
PROPERTIES
    WorkerSeesClientLeave
    SessionWindsDown
\* the session ends, or hangs
CHECK_DEADLOCK FALSE
