\* What the client gets of an upstream's error.
CONSTANTS
    Routes <- MCRoutes
    Bodies <- MCBodies
SPECIFICATION FairSpec
INVARIANT ClientSeesOriginals
