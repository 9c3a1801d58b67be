\* Two handlers that may overlap, three failures or lost locks.
SPECIFICATION ExportsSpec
CONSTANTS
    MaxAttempts = 2
    MaxStalls = 1
    Handlers = {h1, h2}
    Nobody = Nobody
    Failures = 3
PROPERTIES
    SettledStays
    OutcomeIsShown
    StreamComesBack
CHECK_DEADLOCK FALSE
