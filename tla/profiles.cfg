SPECIFICATION Spec
CHECK_DEADLOCK FALSE
CONSTANTS
    Profiles = {1, 2, 3, 4}
    Bodies = {c1, c2}
    Keys = {k1}
    Requests = {r1, r2, r3}
    Existing = {1, 2}
    MaxDeaths = 1
    None = None
SYMMETRY Symmetric
INVARIANTS
    KeyCreatesOnce
    ReplayIsOwn
    CollectionsWhole
    ActiveExists
    AloneActiveEligible
