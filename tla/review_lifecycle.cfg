SPECIFICATION FairSpec
CONSTANTS
    r1 = r1  r2 = r2  r3 = r3  w1 = w1  w2 = w2  None = None
    Reviews = {r1, r2, r3}
    Workers = {w1, w2}
    WorkerOf <- ThreeOnTwo
    ErrorStage = {}
    Reusable = {r1, r2}
    PolicyOK = {r1}
    MaxParallel = 1
    AutoDeploy = TRUE
    CardActions = FALSE
    OperatorActsOn <- HandedToHumans
    MaxCrashes = 1
    MaxRounds = 2
INVARIANTS ParallelBound
PROPERTIES ImplementsLifecycle RequeueOnlyAfterRestart EventuallySettled
