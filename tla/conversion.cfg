SPECIFICATION FairSpec
CONSTANTS
    e1 = e1  e2 = e2    auditor = auditor  api = api
    run1 = run1  run2 = run2  iter = iter  chosen = chosen  None = None
    Entries = {e1, e2}
    Procs = {auditor, api}
    Dirs = {run1, run2}
    Names = {iter, chosen}
    Sources <- MCSources
    Asks <- MCAsks
    Mounted = TRUE
    MaxRetries = 1
    MaxTroubles = 1
INVARIANTS TypeOK OneConversionPerProcess
PROPERTIES DeploysWhole DeploysOwnWeights EveryDeploymentEnds
CHECK_DEADLOCK FALSE
