CONSTANTS
    Nodes = {n1}
    t1 = t1
    t2 = t2
    Types = {t1, t2}
    Requests = {q1, q2}
    AlertLimit = 2
    MaxAlerts = 3
    Threads = {r1}
    QueueLimit = 2
    MaxParts = 3
    MaxTokens = 1
    MaxDelta = 1
    MaxBeats = 1
    MaxRecords = 1
    Limit = 1
    Chain <- TwoProviders
    VaultKinds = {"deepseek"}
    Inferences = {i1}
    Overall = 3
    Retries = 1
    MaxCall = 4
    MaxUnlocks = 1
SPECIFICATION PlantSpec
CHECK_DEADLOCK FALSE
PROPERTIES IsolationHolds
