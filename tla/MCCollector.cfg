\* A collector with a model, invoked up to three times.
SPECIFICATION Spec
CONSTANTS
    acme = acme
    rival = rival
    u1 = u1
    u2 = u2
    u3 = u3
    d1 = d1
    d2 = d2
    d3 = d3
    rework = rework
    None = None
    Required <- AcmeAndRival
    Dimensions = {}
    Found <- TwoUrls
    Candidates <- RivalGuesses
    Placeholder = rework
    HasModel = TRUE
    MaxPicks = 1
    Inventions = {}
    FirstTarget = 3
    MaxSelected = 2
    MaxBatch = 2
    MaxRounds = 5
    RepeatedToolLimit = 3
    MaxRetries = 1
    MaxInvocations = 3
INVARIANTS
    TypeOK
    OneSourcePerPage
    PartialSignalled
    NothingSelectedDropped
    NeverStartsOver
PROPERTY
    CoverageFirst
SYMMETRY UrlSymmetry
CHECK_DEADLOCK FALSE
