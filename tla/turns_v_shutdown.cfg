SPECIFICATION Spec
CONSTANTS
    Turns = {t1, t2}
    States = {s1, s2, s3}
    UserInputs = {u1}
    Notices = {}
    TriggerMails = {m1}
    QueueMails = {}
    BlockedInputs = {}
    Routers = {}
    Loop = Loop
    Guard = Guard
    None = None
    Ops = {"StartOrSteer", "Mail", "Shutdown"}
    MaxSamples = 1
    DurableSleep = FALSE
INVARIANTS
    ShutdownIsLast
CHECK_DEADLOCK FALSE
