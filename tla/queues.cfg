CONSTANTS
    Keys = {config}
    Conns = {c1}
    Background = background
    NoKey = noKey
    ConfigKey = config
    Accesses = {"exclusive", "read"}
    MayPanic = TRUE
    MaxRequests = 4
SPECIFICATION Spec
INVARIANTS
    QueueInv
    NoHandlerAfterShutdown
CHECK_DEADLOCK FALSE
PROPERTIES
    ImplementsSerializedAccess
    RequestsEnd
    ShutdownReturns
