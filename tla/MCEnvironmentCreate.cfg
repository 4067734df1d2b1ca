CONSTANTS
    None = None
    Refs = {0, 1}
    Images = {img}
    MaxKeys = 2
    Inputs <- Commands
    Lockable = {"v1", "v2"}
    MaxRequests = 2
    MaxOperations = 2
    MaxLosses = 1
    MaxCrashes = 1
    MaxFaults = 1
    BatchSize = 2
    MaxForeign = 1
SPECIFICATION MCSpec
INVARIANTS
    CreationIsWhole
PROPERTIES
    UnfailingCreationsEnd
CHECK_DEADLOCK FALSE
