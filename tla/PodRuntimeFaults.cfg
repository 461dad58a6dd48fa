SPECIFICATION Spec
CONSTANTS
    MaxGen = 2
    Faults <- AllFaults
PROPERTY ExitedIsFinal
CHECK_DEADLOCK FALSE
