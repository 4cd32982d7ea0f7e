CONSTANTS
    Token <- Tokens
    Line <- Lines
    Long <- LongLine
    Halves <- HalvesOf
    MaxLines = 4
SPECIFICATION FairSpec
INVARIANTS
    TypeOK
    InStep
    LostLinesArePipedOrLong
    CommandIsTheLine
    NoMutualWait
PROPERTIES
    ImplementsProtocol
    VerdictArrives
    LoginEndsWithInput
\* the client exits
CHECK_DEADLOCK FALSE
