\* docs/modules/33 against a deadline that passes in a route of the rework loop.
SPECIFICATION Spec
CONSTANTS
    HasModel = FALSE
    EnableRework = TRUE
    HasDeadline = TRUE
    MaxRework = 2
    MaxNewSources = 1
    MaxNewClaims = 1
    MaxOpinions = 1
    MaxVerdicts = 0
INVARIANT
    LateNeverApproved
CHECK_DEADLOCK FALSE
