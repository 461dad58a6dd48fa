CONSTANTS
    n1 = n1
    n2 = n2
    Nodes = {n1, n2}
    MaxVersions = 1
    MaxRemovals = 1
    MaxRefusals = 0
SPECIFICATION FairGatewaySpec
PROPERTY DeletedHostGoes
CHECK_DEADLOCK FALSE
