CONSTANTS
    Scenarios <- MCScenarios
    Bodies <- MCBodies
    Duration = 2
    HistoryMax = 2
    MaxLives = 2
SPECIFICATION Spec
INVARIANTS TypeOK
PROPERTIES
    BannerTellsProfile
    DemoCycles
    StreamFollows
\* A monitor that gave up does nothing with the API any more.
CHECK_DEADLOCK FALSE
