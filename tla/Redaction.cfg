\* Three texts per request, four tokens per session, binary counters.
CONSTANTS
    RuleSets <- MCRuleSets
    Allowed <- MCAllowed
    Texts <- MCTexts
    NameChars <- MCNameChars
    Base = 2
    MaxTokens = 4
    MaxBlocks = 3
SPECIFICATION Spec
INVARIANTS
    TypeOK
    RoundTrip
    NothingLeaks
    RejectedOnlyWhenFull
