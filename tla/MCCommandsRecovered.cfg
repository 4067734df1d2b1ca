CONSTANTS
    None = None
    Environments = {e1, e2}
    Keys = {k1, k2}
    Kinds = {"stop"}
    MaxRequests = 2
    MaxOperations = 2
    MaxTime = 0
    MaxLosses = 1
    MaxSkews = 0
    MaxReplacements = 0
    BatchSize = 1
SPECIFICATION FairSpec
PROPERTIES
    OperationsAreRun
CHECK_DEADLOCK FALSE
