SPECIFICATION Spec
CONSTANTS
    Wire <- MCWire
    Configs <- MCAllRoutes
    Cap = 1
    MaxPayloads = 2
INVARIANTS
    ErrorNotCompleted
