CONSTANTS
    Null = Null
    Torn = Torn
    MaxChars = 5
    MinChars = 2
    Fetchers = {f1, f2}
    Versions = {1, 2}
    Chunks = 2
    Pages <- MCPages
    Sections <- MCSections
    Scenarios <- MCScenarios
SYMMETRY Symmetry
SPECIFICATION Spec
INVARIANTS TypeOK ArtefactPinned NothingSilentlyLost VouchedIsWhole CutOnlyByDeath CorpusKept
CHECK_DEADLOCK FALSE
