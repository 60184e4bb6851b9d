\* The user need not type a line, and the shell may crash.
CHECK_DEADLOCK FALSE
SPECIFICATION Spec
CONSTANTS
    NULL = NULL
    Letters = {"a", "b"}
    MaxLine = 10
    MaxWord = 3
    MAX_TOKENS = 11
    WordsAtFirst = 2
    CommandsAtFirst = 2
    Slots = 3
    Names <- MCNames
    FNV1a <- MCFNV1a
    Builtins <- MCBuiltins
    Envs <- MCEnvs
    Leftovers <- MCLeftovers
    Typed <- MCTyped
INVARIANTS
    TypeOK
    TokensRight
    TokensFit
    TreeRight
    ArgvTerminated
    RunsWhatWasTyped
PROPERTIES
    TableKept
    LastDirectoryWins
    CrashExplained
    Responds
