\* Checks and reconciles that overlap, die, and are repaired by later ones.
CONSTANTS
    None = None
    readme = readme
    guide = guide
    hp = hp
    cli = cli
    api = api
    Files <- MCFiles
    Texts = {"old", "new"}
    ChunksOf <- MCChunksOf
    Concepts = {hp}
    Mentions <- MCMentions
    RelPath <- MCRelPath
    AbsPath <- MCAbsPath
    Spellings <- MCSpellings
    Workers = {cli, api}
    MaxEvidence = 1
    MaxRuns = 2
    MaxChanges = 1

SPECIFICATION Spec

INVARIANTS
    TypeOK
    RowsPointToRows
    QuietIndexComplete

PROPERTIES
    ReconcileRepairs
    CheckCovers

CHECK_DEADLOCK FALSE
