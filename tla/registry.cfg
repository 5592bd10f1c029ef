SPECIFICATION FairSpec
CONSTANTS
    Callers = {c1, c2}
    Threads = {t1, t2}
    Paths = {p1}
    None = None
    Reserved = Reserved
    SpawnKinds = {"path", "bare"}
    SpawnLimited = TRUE
    MaxThreads = 2
    Ops = {"spawn", "resume", "close", "send", "unload"}
    MaxSessions = 3
INVARIANTS
    IndexMatchesTree
    PathsHeldOnce
    NeverUndercounts
    RegisteredWithinLimit
PROPERTIES
    PathNeverRebound
    CallsReturn
CHECK_DEADLOCK FALSE
