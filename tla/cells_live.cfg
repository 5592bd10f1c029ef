CONSTANTS
    Observations = {o1, o2}
    First = o1
    Terminations = {t1}
    NoOne = noOne
    MaxItems = 0
    MaxCalls = 1
SPECIFICATION Spec
PROPERTIES
    ObservationsAnswered
    ClosesWhenCancelled
CHECK_DEADLOCK FALSE
