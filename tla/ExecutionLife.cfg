SPECIFICATION Spec
CONSTANTS
    WorkOrders = {"long", "short"}
    Ops <- MCOps
    Plan = 1
    Quantity = 2
    Clients = {c1, c2}
    MaxHolds = 1
    MaxDowntimes = 1
    Disturbed <- MCLast
    Repeatable = {"resume"}
SYMMETRY MCSymmetry
CHECK_DEADLOCK FALSE
INVARIANTS AppliedOnce RoutingOrder DoneMeansDone SerialOrderFollows
PROPERTIES SerialMaintenance
