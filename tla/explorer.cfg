SPECIFICATION Spec
CHECK_DEADLOCK FALSE
CONSTANTS
    Opps = {1, 2, 3}
    Tables <- Tied
    Overlays <- OneSaved
    Sorts = {"newest"}
    Filters = {"all", "saved"}
    Muts = {m1, m2}
    Limit = 1
    MaxTouches = 1
    None = None
SYMMETRY Symmetric
INVARIANTS
    NewestComplete
    MarksAgree
