CONSTANTS
    n1 = n1
    n2 = n2
    Nodes = {n1, n2}
    MaxVersions = 2
    MaxRemovals = 1
    MaxRefusals = 1
SPECIFICATION FairGatewaySpec
INVARIANTS LastWordStands NodesServe
PROPERTY GetsDeployed
CHECK_DEADLOCK FALSE
