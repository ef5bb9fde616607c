\* One session that goes down twice, watched during a run of four polls.
CONSTANTS
    Installed = {}
    Ttl = 0
    TierTime = 0
    AgeMax = 0
    PeerList <- MCOnePeer
    Target = "pop"
    Expected = 2
    MaxPrefixes = 1
    MaxMoves = 6
    Timeout = 4
    MaxDelay = 1
    MaxRuns = 1
SPECIFICATION MCSpec
INVARIANTS MeasuresLastCycle
CHECK_DEADLOCK FALSE
