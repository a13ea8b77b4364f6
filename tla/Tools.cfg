SPECIFICATION MCSpec
CONSTANTS
    Calls = {"b", "c"}
    Tool <- SomeTools
    Line <- SomeLines
    Policies <- SomePolicies
    Kernels = {TRUE, FALSE}
    MaxSwaps = 2
    MaxFaults = 1
    Engines = {e1, e2, e3}
    Configs <- SomeConfigs
    MaxFails = 1
    MaxToggles = 1
    HostLayers <- SomeHostLayers
    ProjectLayers <- SomeProjectLayers
    MaxPaths = 1
    Hosts <- TwoHosts
    Uses <- OwnIds
    Pids = {1, 2}
    MaxStarts = 3
SYMMETRY AnyEngine
INVARIANTS AllOrNothing  EnginesApart
 
CHECK_DEADLOCK FALSE
