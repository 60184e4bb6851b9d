SPECIFICATION FairSpec
CONSTANTS
    Pids <- MCTwoPids
    Programs <- MCBackground
    ExitCodes <- MCExitCodes
PROPERTIES
    BackgroundNotAwaited
