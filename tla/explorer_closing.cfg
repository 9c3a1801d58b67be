SPECIFICATION Spec
CHECK_DEADLOCK FALSE
CONSTANTS
    Opps = {1, 2, 3}
    Tables <- Closing
    Overlays <- OneSaved
    Sorts = {"closingSoon"}
    Filters = {"all", "saved", "needsReview"}
    Muts = {m1, m2}
    Limit = 1
    MaxTouches = 2
    None = None
SYMMETRY Symmetric
INVARIANTS
    ClosingSoonComplete
