\* Two postings whose URLs answer with the same bytes, one row falls due.
SPECIFICATION Spec
CONSTANTS
    Refs = {p1, p2}
    Urls = {p1, p2}
    Contents = {c1}
    Bodies <- SharedBodies
    RefUrl <- OwnUrl
    PageUrl <- OwnUrl
    ListUrls <- NoUrls
    Narrow <- SharedNarrow
    Unparsable <- OneUnparsable
    NoContent = NoContent
    BatchSize = 1
    MaxAttempts = 2
    MaxStalls = 0
    Budget <- SharedBudget
INVARIANT
    OwnRetentionHolds
CHECK_DEADLOCK FALSE
