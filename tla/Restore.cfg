\* Every cut of every short text over token pieces, a wide character and a
\* JSON escape.
CONSTANTS
    StreamTokens <- MCTokens
    Original <- MCOriginal
    Fragments <- MCFragments
    MaxTokenLen = 4
    MaxFed = 8
SPECIFICATION StreamSpec
INVARIANTS
    StreamMatchesWhole
    HoldBackBounded
    ArgumentsAgree
