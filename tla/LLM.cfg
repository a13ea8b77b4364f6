SPECIFICATION MCSpec
CONSTANTS
    MaxHTTPAttempts = 2
    MaxConnRefusedAttempts = 2
    Callers = {p1, p2}
    Configs <- MCConfigs
    Recorded <- MCRecorded
    Catalogs <- MCCatalogs
    HostCalls <- MCCalls
    MaxCalls = 3
    NoRuntime = NoRuntime
    Nobody = Nobody
    Histories <- MCHistories
    Models = {"m1", "m3"}
    PrefixLens = {0, 1}
    Frames <- MCFrames
    CallAt <- MCCallAt
    PlaceOf <- MCPlaceOf
    Bodies <- MCBodies
    MaxFrames = 3
INVARIANTS BudgetsSeparate ExchangeWhole ChoicesKept
PROPERTIES OwnFailure 
CHECK_DEADLOCK FALSE
