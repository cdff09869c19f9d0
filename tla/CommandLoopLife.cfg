SPECIFICATION Spec
CONSTANTS
    Nodes = {n1}
    Orders = {}
    Rates = {r1, r2}
    Threads = {t1, t2}
    Issued = {"manual"}
    Decisions = {"cancel", "retry"}
    Scenes = {}
    Primary = FALSE
    MaxId = 2
    HistoryLimit = 2
    MinObs = 1
    MaxObs = 1
    MaxPosts = 1
    MaxRequests = 2
    MaxFails = 0
    MaxRestarts = 0
SYMMETRY Symmetry
CHECK_DEADLOCK FALSE
INVARIANTS OneOpenPerSlot ClaimedOnce WithdrawnNeverRuns LatestWins
