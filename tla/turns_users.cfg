SPECIFICATION Spec
CONSTANTS
    Turns = {t1, t2}
    States = {s1, s2, s3}
    UserInputs = {u1, u2}
    Notices = {}
    TriggerMails = {}
    QueueMails = {q1}
    BlockedInputs = {u2}
    Routers = {}
    Loop = Loop
    Guard = Guard
    None = None
    Ops = {"StartOrSteer", "Interrupt", "Mail", "Compact", "Suspend", "Shutdown"}
    MaxSamples = 1
    DurableSleep = FALSE
INVARIANTS
    TypeOK
    SlotGuardsTask
    TurnEndsOnce
    ClosedTurnHoldsOnlyMail
    SettledWhenQuiet
    Ownership
    ItemsConserved
CHECK_DEADLOCK FALSE
