SPECIFICATION Spec
CONSTANTS
    Files <- MCFiles
    Chunks <- MCChunks
    OldHistory <- MCHistory
    MaxChunks = 3
    MaxItems = 2
    PageSize = 2
INVARIANTS
    SplitExactly
    HistoryReplays
    TerminalInv
PROPERTIES
    ReplEnds
CHECK_DEADLOCK FALSE
