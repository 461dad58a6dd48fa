SPECIFICATION FairSpec
CONSTANTS
    MaxGen = 1
    Faults <- CreateFault
PROPERTY FailedCreateReported
CHECK_DEADLOCK FALSE
