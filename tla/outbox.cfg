SPECIFICATION OutboxSpec
CHECK_DEADLOCK FALSE
CONSTANTS
    Events = {e1, e2, e3}
    Relays = {r1, r2}
    BatchSize = 2
    None = None
    Losses = 2
PROPERTIES
    DeliversAtLeastOnce
