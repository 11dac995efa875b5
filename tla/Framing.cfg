\* Every cut of a short stream, with a cap small enough for chunks, lines and
\* events to exceed it.
CONSTANTS
    Byte = {"nl", "cr", "data:", "sp", "x", "bad"}
    Cap = 4
    MaxChunk = 5
    MaxRead = 7
SPECIFICATION Spec
INVARIANTS
    TypeOK
    ChunkingIrrelevant
