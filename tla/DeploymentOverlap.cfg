SPECIFICATION FairSpec
CONSTANTS
    MaxReplicas = 1
    MaxSurge = 1
    MaxApplies = 3
    MaxDeletes = 0
    MaxFailures = 0
PROPERTY ExpectedReplicasReached
CHECK_DEADLOCK FALSE
