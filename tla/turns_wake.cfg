SPECIFICATION FairSpec
CONSTANTS
    Turns = {t1, t2, t3, t4}
    States = {s1, s2, s3, s4}
    UserInputs = {u1}
    Notices = {}
    TriggerMails = {m1}
    QueueMails = {q1}
    BlockedInputs = {}
    Routers = {}
    Loop = Loop
    Guard = Guard
    None = None
    Ops = {"Mail", "StartIfIdle", "Steer"}
    MaxSamples = 1
    DurableSleep = FALSE
INVARIANTS
    MailInOrder
    NoOrphanedInput
PROPERTIES
    ImplementsSequentialSession
    EveryTurnEnds
    TriggerMailDelivered
CHECK_DEADLOCK FALSE
