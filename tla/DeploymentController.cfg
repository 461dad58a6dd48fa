SPECIFICATION FairSpec
CONSTANTS
    MaxReplicas = 2
    MaxSurge = 1
    MaxApplies = 3
    MaxDeletes = 1
    MaxFailures = 2
INVARIANTS
    TypeOK
    SurgeRespected
    StaysAvailable
PROPERTY RolloutCompletes
CHECK_DEADLOCK FALSE
