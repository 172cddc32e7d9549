\* With a model: it may name any artifact in its feedback and find fault with claims.
SPECIFICATION Spec
CONSTANTS
    HasModel = TRUE
    EnableRework = TRUE
    HasDeadline = FALSE
    MaxRework = 1
    MaxNewSources = 1
    MaxNewClaims = 1
    MaxOpinions = 1
    MaxVerdicts = 1
INVARIANTS
    ApprovedRestsOnEvidence
    MissingSourceNeverCaveat
    LineageKept
CHECK_DEADLOCK FALSE
