SPECIFICATION FairSpec
CONSTANTS
    Callers = {c1, c2}
    Threads = {t1, t2}
    Tasks = {m1, m2}
    Notes = {}
    Capacity = 1
    Ops = {"spawn", "message", "unload"}
    None = None
    Shutdown = Shutdown
    MaxSessions = 3
    MaxStrays = 1
INVARIANTS
    ResidencyInv
    MessageHeldOnce
PROPERTIES
    CallsReturn
CHECK_DEADLOCK FALSE
