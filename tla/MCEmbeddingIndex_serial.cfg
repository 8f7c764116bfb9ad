\* One pass at a time: crashes, edits, and a provider of another dimension,
\* in the settings or in the environment.
CONSTANTS
    None = None
    old = old
    new = new
    mock = mock
    voyage = voyage
    api = api
    cli = cli
    NumConcepts = 2
    Texts = {old, new}
    Dimension <- Both
    DefaultModel <- BothModels
    Mock = mock
    Overrides = {None, mock}
    Indexers = {api}
    MaxRunning = 1
    MaxPasses = 3
    MaxChanges = 2

SPECIFICATION Spec

INVARIANTS
    TypeOK
    VectorsMatchMetadata
    StoredDimensionsAgree

PROPERTIES
    FinishedPassCoversAll
    FinishedPassIsSearchable

CHECK_DEADLOCK FALSE
