\* Without a model: the deterministic agents, feedback from the rules alone.
SPECIFICATION Spec
CONSTANTS
    HasModel = FALSE
    EnableRework = TRUE
    HasDeadline = TRUE
    MaxRework = 2
    MaxNewSources = 1
    MaxNewClaims = 2
    MaxOpinions = 2
    MaxVerdicts = 0
INVARIANTS
    TypeOK
    ShippedWasReviewed
    FreshAfterRework
    OneReport
    ReworkNeverCollides
PROPERTIES
    RejectedNotConsumed
    RunEnds
CHECK_DEADLOCK FALSE
