\* Two reviewers decide the same open issue; no document check runs.
CONSTANTS
    None = None
    alice = alice
    bob = bob
    i1 = i1
    i2 = i2
    gone = gone
    hp = hp
    mp = mp
    k1 = k1
    k2 = k2
    Reviewers <- MCReviewers
    Issues = {i1}
    Commands <- RaceCommands
    SeedLabels <- MCSeedLabels
    Labels <- MCLabels
    RelationTypes <- MCRelationTypes
    TagId <- MCTagId
    MaxAttempts = 1
    MaxChecks = 0
    MaxPerIssue = 2

SPECIFICATION Spec

PROPERTIES
    OnlyOpenIssuesChange

CHECK_DEADLOCK FALSE
