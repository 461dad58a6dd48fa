SPECIFICATION FairSpec
CONSTANTS
    NoNode = NoNode
    Nodes = {n1}
    Kubelets = {n1}
    Clients = {c1}
    MaxApplies = 1
    MaxDeletes = 1
    UpdatesCap = 1
    MaxBacklog = 3
    MaxFails = 0
PROPERTY DeleteHonoured
CHECK_DEADLOCK FALSE
