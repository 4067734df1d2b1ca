CONSTANTS
    None = None
    Refs = {1, 2, 3, 4}
    Images = {"v1", "v2"}
    MaxRuntimes = 4
    MaxOperations = 3
    MaxCrashes = 1
    MaxFaults = 2
    MaxDrifts = 1
SPECIFICATION FairSpec
INVARIANTS
    TypeOK
    OnlyCurrentComputes
    UsageFollowsRuntime
    NothingIsLeftBehind
PROPERTIES
    UsageEndsWithCompute
    VolumeIsHandedOver
    
CHECK_DEADLOCK FALSE
