SPECIFICATION MCSpec
CONSTANTS
    Callers = {1, 2}
    Agents <- OneAgent
    HostsOf <- TwoEngines
    MaxSpawns = 2
    MaxCalls = 2
    MaxChunks = 1
    Editors <- FourEditors
    Sids = {1}
    QueueCap = 1
INVARIANTS ReplyIsOwn  PromptsKept
PROPERTIES KeepsPeerInUse 
CHECK_DEADLOCK FALSE
