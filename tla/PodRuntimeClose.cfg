SPECIFICATION Spec
CONSTANTS
    MaxGen = 1
    Faults <- NoFaults
INVARIANT NoSendOnClosedChannel
CHECK_DEADLOCK FALSE
