CONSTANTS
    s1 = s1
    s2 = s2
    Subs = {s1, s2}
    MaxRetry = 2
    MaxDrops = 2
    Stoppable = {s2}
    Late = {s2}
SPECIFICATION FairSpec
INVARIANTS LogIsComplete OneChannel
PROPERTIES Resumed StopWins
CHECK_DEADLOCK FALSE
