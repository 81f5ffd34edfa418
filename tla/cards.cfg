SPECIFICATION Spec
CONSTANTS
    Pollers = {loop, hook}
    Executors = {auditor, api}
    Converts = TRUE
    Tries = 2
    MaxRuns = 3
    MaxTroubles = 1
SYMMETRY Alike
INVARIANTS TypeOK OneCard RedOffersRetry CardShowsStored
PROPERTIES DeployedIsGreen
CHECK_DEADLOCK FALSE
