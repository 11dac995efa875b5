\* Every route, every early return.
CONSTANTS
    Routes <- MCRoutes
    Bodies <- MCBodies
SPECIFICATION FairSpec
INVARIANTS
    TypeOK
    RecordMatchesAnswer
    JsonStreamWhole
PROPERTIES
    ForwardedEnds
