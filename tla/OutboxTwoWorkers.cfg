SPECIFICATION Spec
CONSTANTS
    Msgs = {"m1", "m3"}
    Agg <- MCAgg
    Legible = {"m1"}
    Workers = {w1, w2}
    Limit = 1
    MaxAttempts = 2
    MaxDeliver = 2
    MaxFaults = 1
SYMMETRY MCSymmetry
CHECK_DEADLOCK FALSE
PROPERTIES KeepsPromise
