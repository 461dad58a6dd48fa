SPECIFICATION FairSpec
CONSTANTS
    NumPods = 2
    MaxEndpoints = 1
    MaxStarts = 2
    MaxApplies = 2
    MaxDeletes = 1
    MaxFails = 1
INVARIANTS
    EntryIsSelection
    EntryHasOwner
PROPERTIES
    RecoversWithPods
    DeadPodIsDropped
    ManagerProceeds
CHECK_DEADLOCK FALSE
