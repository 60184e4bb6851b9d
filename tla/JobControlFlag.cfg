SPECIFICATION FairSpec
CONSTANTS
    Pids <- MCTwoPids
    Programs <- MCAfterBuiltin
    ExitCodes <- MCExitCodes
PROPERTIES
    FailureShowsRed
