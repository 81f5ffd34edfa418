SPECIFICATION FairSpec
CONSTANTS
    w1 = w1  w2 = w2  w3 = w3  a = a  b = b  c = c  d1 = d1  d2 = d2
    old = old  new1 = new1  new2 = new2  child1 = child1
    auditor = auditor  api = api  None = None
    RequiredTasks = {"tau2", "vita"}
    OtherTasks = {}
    ReuseColumn = TRUE
    Names = {old, new1, new2, child1}
    Workers = {w1, w2}
    RowIds = {a, b}
    FirstOrder <- TwoRows
    FirstRows <- Contents
    Deployments = {d1, d2}
    Processes = {auditor}
    ProcessOf <- OneProcess
    PlannedRow <- Plans
    Target <- Targets
    Child <- InAChild
    Converts = {d1, d2}
    RowsMayGo = TRUE
    CarefulEditors = TRUE
    RetryFrom = {"failed"}
    MaxEdits = 1
    MaxRetries = 0
    MaxDeaths = 1
    MaxTroubles = 2
INVARIANTS LocksHeld SeparateWorkers
PROPERTIES EventuallyEnds
CHECK_DEADLOCK FALSE
