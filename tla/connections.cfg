\* Two connections, two requests and one discovery job at a time, one fault.
SPECIFICATION ConnectionsSpec
CONSTANTS
    MaxAttempts = 2
    MaxStalls = 1
    Conns = {c1, c2}
    Runs = {r1, r2}
    Requests = {q1, q2}
    Slots = {j1}
    NoId = NoId
    Budget = 1
SYMMETRY Interchangeable
INVARIANTS
    ErasedStaysErased
PROPERTIES
    RemovalHolds
CHECK_DEADLOCK FALSE
