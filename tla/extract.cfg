\* One posting fetched by two jobs from two processes, one unit of clock apart.
SPECIFICATION Spec
CONSTANTS
    MaxAttempts = 2
    MaxStalls = 1
    None = None
    Absent = Absent
    Domains = {board, other}
    Home = board
    Allowed = {board}
    Fetches = {f1, f2}
    Procs = {p1, p2}
    Lag <- MCLag
    Capacity = 1
    Window = 2
    MaxRedirects = 1
    MaxTime = 2
    Unclear = Unclear
    Malformed = Malformed
    Id = Id
    OtherId = OtherId
    Tracking = {1}
    BoardUrl <- MCBoardUrl
    DetailUrl <- MCDetailUrl
    TitleForm <- MCTitleForm
    ArrangementOf <- MCArrangement
    TypeOf <- MCType
    PeriodOf <- MCPeriod
    Versions = {"whole", "title", "more", "gone", "alone"}
    Site <- MCSite
    First = "whole"
    Config <- MCConfig
    Budget <- MCBudget
SYMMETRY Interchangeable
INVARIANTS
    Paced
    NewestArrives
    FactsAreEvidenced
CHECK_DEADLOCK FALSE
