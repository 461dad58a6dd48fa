SPECIFICATION FairSpec
CONSTANTS
    MaxGen = 2
    Faults <- DockerFaults
INVARIANTS
    ChannelsNeverFill
    ProbesCarryIds
    OrphanOnlyIfDeleteOvertook
    GhostEntryIsResurrected
PROPERTIES
    PendingResolves
    DeleteCompletes
CHECK_DEADLOCK FALSE
