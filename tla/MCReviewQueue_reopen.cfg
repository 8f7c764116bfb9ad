\* One reviewer at a time, and a second check of the same document.
CONSTANTS
    None = None
    alice = alice
    bob = bob
    i1 = i1
    i2 = i2
    gone = gone
    hp = hp
    mp = mp
    k1 = k1
    k2 = k2
    Reviewers <- MCReviewers
    Issues = {i1}
    Commands <- RaceCommands
    SeedLabels <- MCSeedLabels
    Labels <- MCLabels
    RelationTypes <- MCRelationTypes
    TagId <- MCTagId
    MaxAttempts = 1
    MaxChecks = 1
    MaxPerIssue = 1

SPECIFICATION Spec

PROPERTIES
    TerminalStatesAreFinal

CHECK_DEADLOCK FALSE
