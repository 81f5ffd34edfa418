SPECIFICATION FairSpec
CONSTANTS
    m1 = m1  u1 = u1  c1 = c1  k1 = k1  x1 = x1
    d0 = d0  d1 = d1  q1 = q1  q2 = q2
    Messages = {m1, u1, c1, k1, x1}
    Kind <- KindOf
    Contents = {d0, d1}
    FirstContent = d0
    RequestOf <- Spells
    None = None
    Requests = {q1, q2}
    Optional = {"env"}
    DryRun = FALSE
    Unplannable = {q2}
    Scenes = {{m1}, {u1}, {c1, k1}, {x1}}
    Threshold = 2
    Overlap = 1
    Lag = 1
    Lookback = 1
    MaxTime = 3
    MaxEvents = 2
    MaxTroubles = 1
INVARIANTS TypeOK CommandsSentOnce AlertsBounded ObeyedPerDelivery
PROPERTIES NothingPassed DocumentFollowed MessagesHandled RequestsFinish
    ImplementsLifecycle
CHECK_DEADLOCK FALSE
