SPECIFICATION FairSpec
CONSTANTS
    NumPods = 2
    MaxEndpoints = 1
    MaxStarts = 2
    MaxApplies = 1
    MaxDeletes = 0
    MaxFails = 0
PROPERTY EndpointsFollowPods
CHECK_DEADLOCK FALSE
