SPECIFICATION Spec
CONSTANTS
    Nodes = {n1}
    Orders = {o1}
    Rates = {r1}
    Threads = {t1, t2}
    Issued = {"dispatch", "ai_review", "isolate"}
    Decisions = {"approve", "reject", "cancel"}
    Scenes = {"effect", "harm"}
    Primary = FALSE
    MaxId = 1
    HistoryLimit = 2
    MinObs = 1
    MaxObs = 1
    MaxPosts = 1
    MaxRequests = 3
    MaxFails = 1
    MaxRestarts = 1
SYMMETRY Symmetry
CHECK_DEADLOCK FALSE
INVARIANTS TypeOK HighRiskGoverned
PROPERTIES ExecutedOnce
