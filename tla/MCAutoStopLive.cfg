CONSTANTS
    Modes = {"when_agents_finish"}
    Activities = {{}}
    Types = {"apply"}
    MaxRuntimes = 1
    MaxGenerations = 3
    MaxSamples = 2
    MaxObservations = 1
    MaxOperations = 1
    MaxCrashes = 1
    MaxFaults = 0
SPECIFICATION FairSpec
PROPERTIES
    PolicyIsTaken
CHECK_DEADLOCK FALSE
