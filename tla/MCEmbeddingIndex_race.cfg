\* Two passes overlap, with one provider; one concept is edited.
CONSTANTS
    None = None
    old = old
    new = new
    mock = mock
    voyage = voyage
    api = api
    cli = cli
    NumConcepts = 2
    Texts = {old, new}
    Dimension <- OnlyMock
    DefaultModel <- OnlyMockModel
    Mock = mock
    Overrides = {None}
    Indexers = {api, cli}
    MaxRunning = 2
    MaxPasses = 2
    MaxChanges = 1

SPECIFICATION Spec

INVARIANTS
    SuccessfulPassesAgree

CHECK_DEADLOCK FALSE
