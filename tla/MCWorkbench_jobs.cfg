\* Jobs that read the glossary, with edits between their reads.
SPECIFICATION FairSpec
CONSTANTS
    None = None
    c1 = c1
    c2 = c2
    a1 = a1
    TagId <- MCTagId
    Concepts <- MCConcepts
    AliasIds = {a1}
    Labels = {"fee", "rent"}
    Seeds <- MCSeeds
    RelationTypes = {"depends_on", "synonym_of"}
    Edits = {"create", "status", "retag", "rename", "alias", "relate", "delete", "review"}
    MaxEdits = 1
    Agendas <- MCAgendas
    Queries <- MCQueries
    MaxConceptCards = 1
    MaxIssueCards = 1
    NearScores = {5}
    MaxNear = 2
    Mentioned = {"fee"}
    Answers <- MCAnswers
    MaxAttempts = 2
INVARIANTS
    TypeOK
    ExportDirsAreOfOnePiece
    TagScoresAddUp
    AttemptsAgree
    KnownTermsRaiseNothing
    IssuesNameLiveConcepts
PROPERTIES
    QuietExportIsComplete
    QuietContextIsCurrent
    JobsEnd
CHECK_DEADLOCK FALSE
