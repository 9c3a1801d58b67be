SPECIFICATION Spec
CONSTANTS
    MaxAttempts = 2
    MaxStalls = 1
    Opps = {o1}
    Persisters = {p1}
    Signals = {"open", "closed", "unknown"}
    Dates = {1}
    MaxTime = 2
    Horizon = 0
    Never = Never
    Budget = 1
INVARIANTS
    AmbiguousClosureIsFiled
PROPERTIES
    ClosureIsFinal
    LapsedRowsExpire
