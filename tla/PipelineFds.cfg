\* One pipeline is executed and then everything has ended: the system stops.
CHECK_DEADLOCK FALSE
SPECIFICATION Spec
CONSTANTS
    Pipelines <- MCPipelines
    Limits <- MCLimits
    Capacity = 1
    Output = 2
INVARIANTS
    TypeOK
    NoFdLeak
    StagesWired
PROPERTIES
    SecondCloseIsHarmless
    EofIsTrue
    PipelineEnds
