\* Two issues, one request at a time on each.
CONSTANTS
    None = None
    alice = alice
    bob = bob
    i1 = i1
    i2 = i2
    gone = gone
    hp = hp
    mp = mp
    k1 = k1
    k2 = k2
    Reviewers <- MCReviewers
    Issues = {i1, i2}
    Commands <- ContractCommands
    SeedLabels <- MCSeedLabels
    Labels <- MCLabels
    RelationTypes <- MCRelationTypes
    TagId <- MCTagId
    MaxAttempts = 2
    MaxChecks = 1
    MaxPerIssue = 1

SPECIFICATION Spec

INVARIANTS
    TypeOK

PROPERTIES
    ImplementsContract

CHECK_DEADLOCK FALSE
