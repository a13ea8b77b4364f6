SPECIFICATION MCSpec
CONSTANTS
    c1 = c1
    c2 = c2
    c3 = c3
    p1 = p1
    p2 = p2
    Calls = {c1, c2, c3}
    Procs = {p1, p2}
    On <- MCOn
    May <- MCMay
    Mortal = {p2}
    MaxSteps = 1
    Raises = {2}
    MaxStepRetries = 1
    MaxTransientSteps = 2
    MaxTurnBudgetSteps = 2
    Cancellable = {c1}
    MaxLostSaves = 1
    None = None
    Items = {1, 2}
    Isolated = {1}
    ParallelMax = 2
    Lists <- MCLists
    Marks = {"done"}
    Errors = {"upstream"}
    MaxReports = 1
    GoalSteps = 2
    MaxPhases = 2
INVARIANTS OneHolder RunningIsLive
PROPERTIES OnlyRunWrites  PhasesInOrder EveryCallEnds
CHECK_DEADLOCK FALSE
