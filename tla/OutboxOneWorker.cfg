SPECIFICATION FairSpec
CONSTANTS
    Msgs = {"m1", "m2"}
    Agg <- MCAgg
    Legible = {"m1", "m2"}
    Workers = {w1}
    Limit = 50
    MaxAttempts = 2
    MaxDeliver = 2
    MaxFaults = 1
CHECK_DEADLOCK FALSE
INVARIANTS StreamOrder
PROPERTIES ImplementsDelivery Receipted
