\* Two runs of the server or of the CLI, in the background or not, a round of one or two
\* saves each; one process is killed; a client pages through the list of runs.
SPECIFICATION WorkspaceSpec
CONSTANTS
    r1 = r1
    r2 = r2
    Server = Server
    NoConnection = NoConnection
    Runs <- TwoRuns
    Threads <- TwoRuns
    Files <- TwoFiles
    Connections <- AllConnections
    Shared <- Servers
    FileOf <- FileOfAll
    Rows <- AllRows
    MaxKills = 1
    MaxSaves <- Saves
    Limit = 1
INVARIANTS
    WorkspaceTypeOK
    RegistryExact
    SavedSurvives
    LockExplained
    EventsResolve
    PagingComplete
PROPERTIES
    PollingEnds
CHECK_DEADLOCK FALSE
