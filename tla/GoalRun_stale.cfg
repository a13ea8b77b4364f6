SPECIFICATION MCSpec
CONSTANTS
    c1 = c1
    c2 = c2
    c3 = c3
    p1 = p1
    p2 = p2
    Calls = {c1, c3}
    Procs = {p1, p2}
    On <- MCOn
    May <- MCBoth
    Mortal = {}
    MaxSteps = 1
    Raises = {2}
    MaxStepRetries = 1
    MaxTransientSteps = 2
    MaxTurnBudgetSteps = 2
    Cancellable = {}
    MaxLostSaves = 0
    None = None
    Items = {1}
    Isolated = {1}
    ParallelMax = 2
    Lists <- MCLists
    Marks = {"done"}
    Errors = {"upstream"}
    MaxReports = 0
    GoalSteps = 2
    MaxPhases = 2
PROPERTY DoneIsLeftAlone
CHECK_DEADLOCK FALSE
