SPECIFICATION Spec
CONSTANTS
    r1 = r1  r2 = r2  r3 = r3  w1 = w1  w2 = w2  None = None
    Reviews = {r1, r2, r3}
    Workers = {w1, w2}
    WorkerOf <- ThreeOnTwo
    ErrorStage = {r3}
    Reusable = {r1, r2}
    PolicyOK = {r1}
    MaxParallel = 2
    AutoDeploy = TRUE
    CardActions = TRUE
    OperatorActsOn <- AnyStatus
    MaxCrashes = 1
    MaxRounds = 1
INVARIANTS TypeOK WorkerExclusion
PROPERTIES ClaimsRespectDecisions
