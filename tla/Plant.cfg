CONSTANTS
    Nodes = {n1}
    t1 = t1
    t2 = t2
    Types = {t1, t2}
    Requests = {q1, q2}
    AlertLimit = 2
    MaxAlerts = 3
    Threads = {r1, r2}
    QueueLimit = 2
    MaxParts = 3
    MaxTokens = 2
    MaxDelta = 2
    MaxBeats = 4
    MaxRecords = 3
    Limit = 1
    Chain <- TwoProviders
    VaultKinds = {"deepseek"}
    Inferences = {i1}
    Overall = 3
    Retries = 1
    MaxCall = 4
    MaxUnlocks = 1
SPECIFICATION PlantSpec
SYMMETRY Symmetry
CHECK_DEADLOCK FALSE
INVARIANTS  PartsWithinOutput ArchivedOnce NumbersNotReused EndsAsTried
PROPERTIES EscalationKept AlertRowsKept
