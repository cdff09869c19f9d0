SPECIFICATION FairSpec
CONSTANTS
    Procs = {"db", "api"}
    Deps <- MCDeps
    Probed = {"api"}
    Clients = {c1}
    Retries = 2
    MaxGen = 4
    MaxFaults = 1
    MaxRequests = 1
    MaxTimeouts = 1
CHECK_DEADLOCK FALSE
INVARIANTS Watched SerialSafe
PROPERTIES CrashIsRepaired StopReturns
