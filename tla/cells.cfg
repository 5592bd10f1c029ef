CONSTANTS
    Observations = {o1, o2}
    First = o1
    Terminations = {t1, t2}
    NoOne = noOne
    MaxItems = 2
    MaxCalls = 1
SPECIFICATION Spec
INVARIANTS
    ActorInv
    OneOutcome
    OutputConserved
CHECK_DEADLOCK FALSE
SYMMETRY Symmetry
