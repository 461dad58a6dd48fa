SPECIFICATION FairSpec
CONSTANTS
    NoNode = NoNode
    Nodes = {n1, n2}
    Kubelets = {n1}
    Clients = {c1, c2}
    MaxApplies = 3
    MaxDeletes = 1
    UpdatesCap = 1
    MaxBacklog = 3
    MaxFails = 1
INVARIANTS
    AssignedPodRuns
    LostUpdateLeavesError
PROPERTY UnassignedGetsNode
CHECK_DEADLOCK FALSE
