CONSTANTS
    None = None
    Environments = {e1}
    Keys = {k1, k2}
    Kinds = {"start", "stop", "apply", "connect"}
    MaxRequests = 2
    MaxOperations = 2
    MaxTime = 1
    MaxLosses = 1
    MaxSkews = 1
    MaxReplacements = 1
    BatchSize = 1
SPECIFICATION Spec
SYMMETRY Symmetry
INVARIANTS
    KeyNamesOneCommand
    OneWorkflowPerEnvironment
PROPERTIES
    IntentsHold
CHECK_DEADLOCK FALSE
