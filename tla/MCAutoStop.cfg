CONSTANTS
    Modes = {"when_agents_finish", "manual"}
    Activities = {{}, {"agents"}}
    Types = {"start", "stop"}
    MaxRuntimes = 2
    MaxGenerations = 2
    MaxSamples = 2
    MaxObservations = 2
    MaxOperations = 2
    MaxCrashes = 0
    MaxFaults = 1
SPECIFICATION Spec
INVARIANTS
    GraceHasItsTimer
PROPERTIES
    StopIsEvidenced
CHECK_DEADLOCK FALSE
