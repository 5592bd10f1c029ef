SPECIFICATION Spec
CONSTANTS
    Turns = {t1, t2}
    States = {s1, s2, s3}
    UserInputs = {u1}
    Notices = {n1}
    TriggerMails = {}
    QueueMails = {}
    BlockedInputs = {}
    Routers = {R}
    Loop = Loop
    Guard = Guard
    None = None
    Ops = {"StartIfIdle", "Recover", "Inject", "Guardian", "StartOrSteer", "Compact"}
    MaxSamples = 1
    DurableSleep = TRUE
INVARIANTS
    ItemsConserved
CHECK_DEADLOCK FALSE
