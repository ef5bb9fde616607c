\* The lab's two links and two classes that rank their readings in opposite ways.
CONSTANTS
    LinkList <- LabLinks
    Priority <- LabPriority
    ClassList <- TwoClasses
    Injectable = {"voice", "bulk"}
    Readings <- LabReadings
    StaleAfter = 1
SPECIFICATION FairSpec
INVARIANTS TypeOK AppliedLinksCarryTraffic
PROPERTIES FailoverHappens
