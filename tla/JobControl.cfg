SPECIFICATION FairSpec
CONSTANTS
    Pids <- MCPids
    Programs <- MCPrograms
    ExitCodes <- MCExitCodes
INVARIANTS
    TypeOK
    NoLostZombie
    OneForeground
    TerminalRestored
PROPERTIES
    GreenWithoutBuiltin
    OperatorsObeyed
    PromptStaysRaw
    ZombiesReaped
    PromptReturns
