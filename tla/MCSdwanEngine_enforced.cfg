CONSTANTS
    LinkList <- LabLinks
    Priority <- LabPriority
    ClassList <- TwoClasses
    Injectable = {"voice", "bulk"}
    Readings <- LabReadings
    StaleAfter = 1
SPECIFICATION Spec
INVARIANTS DecisionsEnforced
