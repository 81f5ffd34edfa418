SPECIFICATION FairSpec
CONSTANTS
    t1 = t1  t2 = t2  t3 = t3  a = a  a2 = a2  b = b  r1 = r1
    Tasks = {t1, t2}
    Keys = {a, a2, b}
    Rows = {r1}
    TaskOf <- Home
    Checkpoint <- Spelled
    NoTask = NoTask  NoKey = NoKey  Loop = Loop  api = api
    Hooks = {}
    FirstListed = {a, b}
    Withdraw = TRUE
    KnownLimit = 2
    MaxPerTick = 1
    MaxReviews = 3
    MaxEvents = 0
    MaxTroubles = 1
CHECK_DEADLOCK FALSE
PROPERTIES DueIsRetried
