\* Two attempts for a feedback triple, with a target the store holds.
SPECIFICATION Spec
CONSTANTS
    HasModel = TRUE
    EnableRework = TRUE
    HasDeadline = FALSE
    MaxRework = 2
    MaxNewSources = 1
    MaxNewClaims = 1
    MaxOpinions = 1
    MaxVerdicts = 0
INVARIANT
    ReworkNeverCollides
CHECK_DEADLOCK FALSE
