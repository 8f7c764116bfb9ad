\* Two reviewers race on one issue; checks, deletions, crashes and retries.
CONSTANTS
    None = None
    alice = alice
    bob = bob
    i1 = i1
    i2 = i2
    gone = gone
    hp = hp
    mp = mp
    k1 = k1
    k2 = k2
    Reviewers <- MCReviewers
    Issues = {i1}
    Commands <- RaceCommands
    SeedLabels <- MCSeedLabels
    Labels <- MCLabels
    RelationTypes <- MCRelationTypes
    TagId <- MCTagId
    MaxAttempts = 2
    MaxChecks = 1
    MaxPerIssue = 2

SPECIFICATION FairSpec

INVARIANTS
    LockMatchesTransaction
    VersionIsClosedFlag
    LabelsStayUnique
    VariantListsStayInStep

PROPERTIES
    DecisionIsAtomic
    WriteLockFreed

CHECK_DEADLOCK FALSE
