\* One routine is called and returns: the system stops.
CHECK_DEADLOCK FALSE
SPECIFICATION Spec
CONSTANTS
    MACHINE_ALIGNMENT = 4
    Size = 36
    Calls <- MCCalls
    IntMax = 127
    Strings <- MCStrings
    Formats <- MCFormats
    Sizes = {0, 1, 4, 6, 9}
INVARIANTS
    MemTypeOK
    RoutinesRight
    AtoiSaturates
    PrintfExact
PROPERTIES
    RoutinesReturn
