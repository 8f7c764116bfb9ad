\* Two editors, three requests, every method.
CONSTANTS
    None = None
    ann = ann
    ben = ben
    hp = hp
    mp = mp
    gone = gone
    Editors <- MCEditors
    SeedLabels <- MCSeedLabels
    Labels <- MCLabels
    PhysicalNames <- MCPhysicalNames
    RelationTypes <- MCRelationTypes
    TagId <- MCTagId
    Commands <- MCCommands
    MaxRequests = 3

SPECIFICATION Spec

INVARIANTS
    TypeOK
    SerialEditsKeepRowsInStep
    PhysicalNamesStayUnique
    NoOrphanRows

PROPERTIES
    VariantsGoOnlyWithTheirConcept

CHECK_DEADLOCK FALSE
