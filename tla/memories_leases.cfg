CONSTANTS
    Threads = {t1, t2}
    Workers = {w1, w2}
    Nobody = nobody
    Gone = gone
    NoRepo = noRepo
    DefaultRetries = 1
    MaxRunning = 1
    UserOps = {"prune"}
    MaxSource = 1
    MaxFaults = 1
    MaxResets = 1
SPECIFICATION Spec
SYMMETRY Symmetry
INVARIANTS
    JobsInv
CHECK_DEADLOCK FALSE
