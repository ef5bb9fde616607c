\* The time to live is shorter than a fetch may take; two runs of the benchmark
\* with a session that may go down in each.
CONSTANTS
    Installed = {"tools", "raw"}
    Ttl = 2
    TierTime = 2
    AgeMax = 5
    PeerList <- MCPeers
    Target = "pop"
    Expected = 2
    MaxPrefixes = 2
    MaxMoves = 4
    Timeout = 2
    MaxDelay = 1
    MaxRuns = 2
SPECIFICATION MCSpec
INVARIANTS
    TypeOK
    AnswersAgree
    RecordsAreTrue
    LogIsChain
PROPERTIES
    CachedAnswerIsFresh
    DishIsFoundAgain
    RunsEnd
\* The benchmark stops after its runs.
CHECK_DEADLOCK FALSE
