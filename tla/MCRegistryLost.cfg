\* docs/modules/20 against threads that save at the same time.
SPECIFICATION Spec
CONSTANTS
    r1 = r1
    r2 = r2
    r3 = r3
    Runs <- ThreeRuns
    MaxKills = 0
INVARIANT
    ResultsSurvive
CHECK_DEADLOCK FALSE
