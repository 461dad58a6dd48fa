SPECIFICATION FairSpec
CONSTANTS
    PodKeys = {1, 2, 3}
    MaxReplicas = 2
    MaxApplies = 2
    MaxBacklog = 1
    MaxUpsets = 0
PROPERTY ReplicasConverge
CHECK_DEADLOCK FALSE
