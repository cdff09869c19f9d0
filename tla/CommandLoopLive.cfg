SPECIFICATION FairSpec
CONSTANTS
    Nodes = {n1}
    Orders = {}
    Rates = {r1}
    Threads = {t1}
    Issued = {"manual"}
    Decisions = {"cancel"}
    Scenes = {"effect", "missing"}
    Primary = TRUE
    MaxId = 1
    HistoryLimit = 2
    MinObs = 1
    MaxObs = 2
    MaxPosts = 1
    MaxRequests = 3
    MaxFails = 0
    MaxRestarts = 0
CHECK_DEADLOCK FALSE
PROPERTIES ClaimsResolve AppliedIsJudged
