\* Two agents of two rounds, up to two calls a round, one rework route; attempts of
\* at most one unit of time and backoffs of 1, 2 and 2.
SPECIFICATION Spec
CONSTANTS
    Pipeline <- TwoAgents
    MaxRounds <- Rounds
    Calls <- OneOrTwo
    MaxRetries = 3
    Base = 1
    Cap = 2
    Timeout = 1
    MaxWallTime = 4
    MaxRework = 1
    MaxTurns = 1
INVARIANTS
    TypeOK
    RetriesPaced
    OvershootBounded
    HistoryAlternates
CHECK_DEADLOCK FALSE
