SPECIFICATION FairSpec
CONSTANTS
    PodKeys = {1, 2, 3, 4}
    MaxReplicas = 2
    MaxApplies = 1
    MaxBacklog = 1
    MaxUpsets = 1
INVARIANTS
    NeverDeletesTooMany
PROPERTY SteadyConverges
CHECK_DEADLOCK FALSE
