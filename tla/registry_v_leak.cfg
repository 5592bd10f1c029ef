SPECIFICATION Spec
CONSTANTS
    Callers = {c1}
    Threads = {t1}
    Paths = {}
    None = None
    Reserved = Reserved
    SpawnKinds = {"bare"}
    SpawnLimited = TRUE
    MaxThreads = 2
    Ops = {"spawn", "resume", "unload"}
    MaxSessions = 2
INVARIANT
    SlotsAccounted
CHECK_DEADLOCK FALSE
