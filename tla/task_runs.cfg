SPECIFICATION Spec
CONSTANTS
    t1 = t1  t2 = t2  t3 = t3  a = a  a2 = a2  b = b  r1 = r1
    Tasks = {t1}
    Keys = {a, a2}
    Rows = {r1}
    TaskOf <- Home
    Checkpoint <- Spelled
    NoTask = NoTask  NoKey = NoKey  Loop = Loop  api = api
    Hooks = {api}
    FirstListed = {a}
    Withdraw = FALSE
    KnownLimit = 2
    MaxPerTick = 1
    MaxReviews = 3
    MaxEvents = 1
    MaxTroubles = 1
INVARIANTS TypeOK 
CHECK_DEADLOCK FALSE
