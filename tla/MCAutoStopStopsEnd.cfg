CONSTANTS
    Modes = {"when_agents_finish"}
    Activities = {{}}
    Types = {"stop"}
    MaxRuntimes = 1
    MaxGenerations = 1
    MaxSamples = 2
    MaxObservations = 1
    MaxOperations = 2
    MaxCrashes = 0
    MaxFaults = 0
SPECIFICATION FairSpec
PROPERTIES
    StopsEnd
CHECK_DEADLOCK FALSE
