SPECIFICATION Spec
CONSTANTS
    TokenBits = 4
    DefaultMaxTokens = 8
    Routes <- MCIdlessRoutes
    SettingsSet <- MCSettingsIdless
    Questions <- MCQuestions
    Reports <- MCReports
    Answers <- MCAnswers
    Statuses = {304, 400, 401, 403, 404, 429, 500, 503, 529}
    Embedded <- MCEmbedded
    MaxRequests = 3
INVARIANT
    EveryResultReachesItsCall
