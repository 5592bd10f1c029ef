CONSTANTS
    Threads = {t1}
    Workers = {w1, w2}
    Nobody = nobody
    Gone = gone
    NoRepo = noRepo
    DefaultRetries = 1
    MaxRunning = 1
    UserOps = {"change", "pollute", "delete"}
    MaxSource = 2
    MaxFaults = 1
    MaxResets = 0
SPECIFICATION Spec
INVARIANTS
    JobsInv
    DeletedLeavesNoOutput
PROPERTIES
    OutputNeverGoesBack
    SuccessIsExtracted
    BaselineSettles
    ExtractionSettles
CHECK_DEADLOCK FALSE
