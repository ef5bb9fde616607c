\* Three scripts: two failures and the restore between or after them.
CONSTANTS
    MaxScripts = 3
    MaxSamples = 7
SPECIFICATION MCSpec
INVARIANTS
    FaultIsFound
    SnapshotIsHonest
    VerdictIsOfShownExperiment
    EventsAreWindows
PROPERTIES
    
    RestoreUndoesInjections
    WorseNeverScoresHigher
    ReportsStand
\* Only so many scripts are started.
CHECK_DEADLOCK FALSE
