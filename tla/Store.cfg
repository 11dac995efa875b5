\* Any schedule of handlers, actor, failing storage, shutdowns, crashes and
\* restarts, with a clock that may be set back, and that shutdown() returns.
CONSTANTS
    QueueCap = 1
    Ttl = 1
    Flush = 1
    MaxTime = 3
    MaxBack = 1
    MaxCalls = 2
SPECIFICATION FairSpec
INVARIANTS
    TypeOK
    AcceptedKept
    LedgerMatchesStore
    IdleSweepsOnTime
    ShutdownDrains
PROPERTIES
    ShutdownEnds
    NoEarlyForget
    Implements
