CONSTANTS
    Trains = 3
    Start <- Ends
    Header = 2
    Capacity = 4
    Handlers = {"server"}
SPECIFICATION FairSpec
INVARIANTS
    TypeOK
    BufferIsBeginningOfNext
    NoStoreBeforeBuffer
PROPERTIES
    ImplementsChannel
    SentIsReceived
