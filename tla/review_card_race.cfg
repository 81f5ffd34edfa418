SPECIFICATION Spec
CONSTANTS
    r1 = r1  r2 = r2  r3 = r3  w1 = w1  w2 = w2  None = None
    Reviews = {r1, r2}
    Workers = {w1, w2}
    WorkerOf <- TwoOnOne
    ErrorStage = {}
    Reusable = {r1, r2}
    PolicyOK = {}
    MaxParallel = 1
    AutoDeploy = TRUE
    CardActions = TRUE
    OperatorActsOn <- HandedToHumans
    MaxCrashes = 0
    MaxRounds = 1
INVARIANTS SerializedPerWorker
