\* Three artifacts over two runs and all types: chains of replacements, two artifacts
\* that claim to replace the same one, replacements of rejected and superseded
\* artifacts, ids and replacements that would cross runs or types.
SPECIFICATION Spec
CONSTANTS
    x = x
    y = y
    z = z
    run1 = run1
    run2 = run2
    NoId = NoId
    Ids <- ThreeIds
    Runs <- TwoRuns
    Versions <- TwoVersions
    MetaKeys = {"analyst_assessment"}
SYMMETRY StoreSymmetry
INVARIANTS
    TypeOK
    LineageAuditable
    LineageHasHead
PROPERTY
    NothingForgotten
