\* One pipeline is executed and then everything has ended: the system stops.
CHECK_DEADLOCK FALSE
SPECIFICATION Spec
CONSTANTS
    Pipelines <- MCBuiltinFirst
    Limits <- MCLimits
    Capacity = 1
    Output = 2
PROPERTIES
    EveryStageEnds
