CONSTANTS
    a1 = a1
    a2 = a2
    Autoscalers = {a1}
    Specs <- MCSpecs
    RingSize = 2
    Levels = {0, 2}
    MaxReplicas = 2
    MaxQueue = 2
    MaxChanges = 3
    MaxLoops = 2
    MaxFails = 1
SPECIFICATION FairSpec
INVARIANTS LoopsCanBeStopped ClosedOnce
PROPERTIES DeletedStaysDeleted StoppedLoopEnds ScalesToBound
CHECK_DEADLOCK FALSE
