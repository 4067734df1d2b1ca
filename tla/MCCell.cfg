SPECIFICATION CellSpec
CONSTANTS
    None = None
    ImageKey = ImageKey
    BatchSize = 3
    FileOf <- MCFileOf
    Requests = {1, 2, 3}
    Kinds = {"seed", "identity", "materialize", "shutdown"}
    MaxStops = 1
    MaxEdits = 1
    MaxFaults = 2
    Nil = Nil
    Connections = {1, 2}
    Intents = {1, 2}
    IntentEnv <- MCIntentEnv
    MaxWaiting = 2
    MaxWaitingPerEnvironment = 1
    MaxRuntimeStops = 2
    MaxFailures = 1
INVARIANTS
    ShutdownIsQuiet
    
    AdmissionsAreExact
    ConnectionsSpendOnce
PROPERTIES
    DurableStateStays
    ConnectionsEnd
CHECK_DEADLOCK FALSE
