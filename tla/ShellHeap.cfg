\* The shell waits for a line that MaxLines does not allow any more.
CHECK_DEADLOCK FALSE
SPECIFICATION Spec
CONSTANTS
    HeaderSize = 40
    InitSize = 8192
    Envs <- MCEnvs
    Lines <- MCLines
    MaxLines = 4
    HistorySize = 2
INVARIANTS
    TypeOK
    NoOverlap
    HeapTiled
    LineLeavesOnlyHistory
    CallsLegal
