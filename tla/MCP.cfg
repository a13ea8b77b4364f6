SPECIFICATION MCSpec
CONSTANTS
    Calls = {1, 2}
    MaxStarts = 3
    MaxCancels = 1
    MaxDeaths = 1
    MaxNoise = 1
    MaxTokens = 3
    MaxExpiries = 1
    MaxRevokes = 1
    Callers = {c1, c2}
    Processes = {p1, p2}
    Keys = {k1, k2}
    Workspaces = {w1, w2}
    MaxCrashes = 1
INVARIANTS ServersKept
PROPERTIES  RulesKept 
CHECK_DEADLOCK FALSE
