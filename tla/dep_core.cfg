SPECIFICATION Spec
CONSTANTS
    w1 = w1  w2 = w2  w3 = w3  a = a  b = b  c = c  d1 = d1  d2 = d2
    old = old  new1 = new1  new2 = new2  child1 = child1
    auditor = auditor  api = api  None = None
    RequiredTasks = {"tau2", "vita"}
    OtherTasks = {}
    ReuseColumn = TRUE
    Names = {old, new1, new2}
    Workers = {w1, w2}
    RowIds = {a, b}
    FirstOrder <- TwoRows
    FirstRows <- Contents
    Deployments = {d1, d2}
    Processes = {auditor, api}
    ProcessOf <- TwoProcesses
    PlannedRow <- Plans
    Target <- Targets
    Child <- AsGiven
    Converts = {}
    RowsMayGo = FALSE
    CarefulEditors = TRUE
    RetryFrom = {"failed"}
    MaxEdits = 2
    MaxRetries = 1
    MaxDeaths = 1
    MaxTroubles = 2
INVARIANTS TypeOK FinishedRowAccepted
PROPERTIES ReservedWhileReplaced WritesOwnRow OnlyRepeatsStopTests
CHECK_DEADLOCK FALSE
