\* Exports of a glossary whose concepts are deprecated, undisturbed.
SPECIFICATION Spec
CONSTANTS
    None = None
    c1 = c1
    c2 = c2
    a1 = a1
    TagId <- MCTagId
    Concepts <- MCConcepts
    AliasIds = {a1}
    Labels = {"fee", "rent"}
    Seeds <- MCSeeds
    RelationTypes = {"depends_on"}
    Edits = {"status", "alias", "relate"}
    MaxEdits = 2
    Agendas <- MCExports
    Queries <- MCQueries
    MaxConceptCards = 1
    MaxIssueCards = 1
    NearScores = {5}
    MaxNear = 2
    Mentioned = {"fee"}
    Answers <- MCAnswers
    MaxAttempts = 1
PROPERTIES
    ExportsSucceed
CHECK_DEADLOCK FALSE
