\* docs/modules/26 against a targeted search after every entity is covered, without a model.
SPECIFICATION Spec
CONSTANTS
    acme = acme
    rival = rival
    u1 = u1
    u2 = u2
    u3 = u3
    d1 = d1
    d2 = d2
    d3 = d3
    rework = rework
    None = None
    Required <- AcmeAndRival
    Dimensions = {}
    Found <- TwoUrls
    Candidates <- Guesses
    Placeholder = rework
    HasModel = FALSE
    MaxPicks = 1
    Inventions = {"new angle"}
    FirstTarget = 2
    MaxSelected = 2
    MaxBatch = 1
    MaxRounds = 8
    RepeatedToolLimit = 3
    MaxRetries = 2
    MaxInvocations = 2
PROPERTY
    ReworkCollects
CHECK_DEADLOCK FALSE
