\* The lab's two links.  The grid takes in the budgets of voice and video, their
\* next value, and values that drive a sub-score to zero.  Three entries of the
\* log are a link that goes and comes back, and a class that moves.
CONSTANTS
    LinkList <- LabLinks
    Priority <- LabPriority
    Latencies = {45, 150, 151, 401, 700}
    Losses = {10, 51, 201, 400}
    Bandwidths = {0, 60, 999, 14000}
    ClassList <- TwoClasses
    Injectable = {"voice"}
    Readings <- LabReadings
    StaleAfter = 0
    MaxEvents = 3
SPECIFICATION MCSpec
INVARIANTS DominantLinkWins LogReplays
PROPERTIES NoSpuriousFailover
