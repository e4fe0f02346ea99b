CONSTANTS
    Null = Null
    Torn = Torn
    MaxChars = 5
    MinChars = 2
    Fetchers = {f1}
    Versions = {1}
    Chunks = 1
    Pages <- MCPages
    Sections <- MCSections
    Scenarios <- Alone
SPECIFICATION Spec
INVARIANT DroppedTextRaises
CHECK_DEADLOCK FALSE
