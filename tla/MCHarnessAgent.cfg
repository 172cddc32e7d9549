\* One agent invoked again and again, two tool signatures: breaker, retries, budget,
\* journal and the contract.
SPECIFICATION Spec
CONSTANTS
    collector = collector
    search = search
    fetch = fetch
    NoAgent = NoAgent
    Agents <- OneAgent
    MaxRounds <- OneAgentBudget
    Signatures <- Tools
    MaxCalls = 2
    RepeatedToolLimit = 3
    MaxRetries = 1
    HasCheckpoints = TRUE
INVARIANTS
    TypeOK
    RepeatsBroken
    RetriesBounded
    JournalReplays
    NeverDuplicates
PROPERTIES
    ImplementsBudget
CHECK_DEADLOCK FALSE
