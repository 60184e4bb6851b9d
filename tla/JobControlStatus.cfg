SPECIFICATION FairSpec
CONSTANTS
    Pids <- MCTwoPids
    Programs <- MCOne
    ExitCodes <- MCExitCodes
PROPERTIES
    PromptShowsStatus
