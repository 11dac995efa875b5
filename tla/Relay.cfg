\* How a stream may end, what the client has received by then, and that it
\* ends, with an upstream that may stop at any point.
SPECIFICATION FairSpec
CONSTANTS
    Wire <- MCWire
    Configs <- MCRoutes
    Cap = 1
    MaxPayloads = 3
INVARIANTS
    TypeOK
    NothingAfterTerminal
    FailedNotCompleted
    MarkerMeansNoError
    OpenAIErrorNotCompleted
    OkMeansComplete
    ContentIntact
    BlocksWellFormed
PROPERTIES
    StreamEnds
    DisconnectEndsRelay
