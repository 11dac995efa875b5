\* Which forwarded requests leave a record.
CONSTANTS
    Routes <- MCRoutes
    Bodies <- MCBodies
SPECIFICATION FairSpec
INVARIANT EveryRequestRecorded
