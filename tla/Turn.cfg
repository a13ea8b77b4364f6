SPECIFICATION MCSpec
CONSTANTS
    Tools = {"plain", "delegate", "refused", "unknown", "capped", "ask"}
    Refused = {"refused"}
    Unknown = {"unknown"}
    Alone = {"ask"}
    Delegates = {"delegate"}
    MaxParallel <- MCMaxParallel
    Batches <- MCBatches
    Priors <- MCPriors
    ParallelLimit = 2
    HaltRefused = FALSE
    MaxTurns = 2
    MaxSteers = 1
    TruncatedLimit = 2
    FinishLimit = 1
    OverflowLimit = 1
    StallLimit = 2
    StallDelegate = 1
    WarnAfter = 1
    Plugins <- MCPlugins
    MaxCalls = 1
    MaxContinuations = 2
    Kids = {k1, k2, k3}
    Tasks = {"second"}
    Budget = 24
    ToolLimit = 12
    OlderAfter = 2
    KeepLast = 4
    MaxPins = 2
    HostTargets = {10}
    MaxForced = 1
    MaxCompacts = 1
    MaxAsks = 2
    MaxAnswers = 2
    Sessions <- MCSessions
    Replies <- MCReplies
INVARIANTS TurnsAreReplies ResultsWhole WithinLimits GuardsHold
PROPERTIES RequestsWhole FailFast CallsEnd
CHECK_DEADLOCK FALSE
