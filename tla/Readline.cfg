\* The user stops entering lines at MaxEntries.
CHECK_DEADLOCK FALSE
SPECIFICATION Spec
CONSTANTS
    MAX_HISTORY = 3
    LDISC_MAX_LINE = 4
    PromptWidth = 1
    MaxEntries = 4
    NULL = NULL
    Lines <- MCLines
INVARIANTS
    TypeOK
    LineTerminated
    ArrowsWalkListing
PROPERTIES
    HistoryKept
    CursorFollowsEdit
