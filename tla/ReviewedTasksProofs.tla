------------------------ MODULE ReviewedTasksProofs ------------------------
(***************************************************************************)
(* What TLAPS proves of the poller beside the queue: the queue's statuses  *)
(* take the edges of ReviewLifecycle whatever the poller does, and every   *)
(* edge of the queue is a step that TaskPoller allows its surroundings,    *)
(* so what is proved of the poller holds beside the queue.                 *)
(***************************************************************************)
EXTENDS ReviewedTasks, TaskPollerProofs

\* How the poller sees a status.
LEMMA SeenStatus ==
    /\ \A s \in Reserving : Seen(s) = "pending"
    /\ \A s \in Finished : Seen(s) = "ended"
    /\ \A s \in Shelved : Seen(s) = "aside"
    /\ Seen("deploying") = "deploying"
    /\ \A s \in Statuses : /\ Seen(s) \in ReviewStatuses
                           /\ Seen(s) = "deploying" <=> s = "deploying"
                           /\ Seen(s) \in Live <=> s \in Reserving \cup {"deploying"}
BY DEF Seen, Reserving, Finished, Shelved, Statuses, ReviewStatuses, Live

\* A step of the queue changes the status of one review that it has.
LEMMA QueueEdge ==
    ASSUME ViewIsTrue, NEW i \in DOMAIN reviews, NEW from, NEW to \in SUBSET Statuses,
           Queue!Edge(i, from, to), DOMAIN reviews \subseteq Ids
    PROVE  /\ status[i] \in from /\ status'[i] \in to
           /\ status' \in [Ids -> Statuses \cup {"absent"}]
           /\ \A j \in Ids : j # i => status'[j] = status[j]
BY DEF ViewIsTrue, Queue!Edge

\* The edges that the queue's servers take are moves that the poller expects.
LEMMA ServesEdges ==
    ASSUME ViewIsTrue, DOMAIN reviews \subseteq Ids, NEW i, Serves(i)
    PROVE  /\ i \in DOMAIN reviews /\ status'[i] \in Statuses
           /\ status' \in [Ids -> Statuses \cup {"absent"}]
           /\ \A j \in Ids : j # i => status'[j] = status[j]
           /\ \/ Seen(status'[i]) = Seen(status[i])
              \/ <<Seen(status[i]), Seen(status'[i])>> \in Moves
<1>1. i \in DOMAIN reviews
  BY DEF Serves
<1>2. \/ status[i] = "pending" /\ Queue!Edge(i, {"pending"}, {"codex_reviewing"})
      \/ Queue!Edge(i, {"approved"}, {"deploying"})
      \/ Queue!Edge(i, {"codex_reviewing"},
                    {"approved", "blocked", "retry_requested", "needs_human"})
      \/ Queue!Edge(i, {"deploying"}, {"deployed", "deploy_failed"})
      \/ Queue!Edge(i, {"approved", "deploying"}, {"needs_human"})
  BY DEF Serves, Queue!Take, Queue!Judge, Queue!Conclude, Queue!Edge
<1>3. ASSUME NEW from, NEW to \in SUBSET Statuses, Queue!Edge(i, from, to)
      PROVE  /\ status[i] \in from /\ status'[i] \in to /\ status'[i] \in Statuses
             /\ status' \in [Ids -> Statuses \cup {"absent"}]
             /\ \A j \in Ids : j # i => status'[j] = status[j]
  BY <1>1, <1>3, QueueEdge
<1>4. {"codex_reviewing", "approved", "blocked", "retry_requested", "needs_human",
       "deploying", "deployed", "deploy_failed"} \subseteq Statuses
  BY DEF Statuses, Reserving, Finished, Shelved
<1>5. /\ status'[i] \in Statuses /\ status' \in [Ids -> Statuses \cup {"absent"}]
      /\ \A j \in Ids : j # i => status'[j] = status[j]
  BY <1>2, <1>3, <1>4
<1>6. \/ status[i] = "pending" /\ status'[i] = "codex_reviewing"
      \/ status[i] = "approved" /\ status'[i] \in {"deploying", "needs_human"}
      \/ /\ status[i] = "codex_reviewing"
         /\ status'[i] \in {"approved", "blocked", "retry_requested", "needs_human"}
      \/ /\ status[i] = "deploying"
         /\ status'[i] \in {"deployed", "deploy_failed", "needs_human"}
  BY <1>2, <1>3, <1>4
<1>7. \/ Seen(status'[i]) = Seen(status[i])
      \/ <<Seen(status[i]), Seen(status'[i])>> \in Moves
  BY <1>6 DEF Seen, Reserving, Finished, Shelved, Moves
<1> QED BY <1>1, <1>5, <1>7

\* The other edges end where a person, a retry or a recovery may put a review.
LEMMA DisturbsEdges ==
    ASSUME ViewIsTrue, DOMAIN reviews \subseteq Ids, NEW i, Disturbs(i)
    PROVE  /\ i \in DOMAIN reviews /\ status'[i] \in Statuses
           /\ status' \in [Ids -> Statuses \cup {"absent"}]
           /\ \A j \in Ids : j # i => status'[j] = status[j]
           /\ Seen(status'[i]) \in {"pending", "aside", "ended"}
<1>1. i \in DOMAIN reviews
  BY DEF Disturbs
<1> DEFINE to == {"codex_reviewing", "approved", "blocked", "retry_requested", "needs_human"}
<1>2. to \in SUBSET Statuses /\ \A s \in to : Seen(s) \in {"pending", "aside", "ended"}
  BY DEF Seen, Reserving, Finished, Shelved, Statuses
<1>3. \E from : Queue!Edge(i, from, to)
  <2>1. CASE Queue!Take(i) /\ status[i] = "retry_requested"
    <3>1. Queue!Edge(i, {"retry_requested"}, to)
      BY <2>1 DEF Queue!Take, Queue!Edge
    <3> QED BY <3>1
  <2>2. CASE Queue!Requeue(i)
    <3>1. Queue!Edge(i, {"codex_reviewing", "deploying"}, to)
      BY <2>2 DEF Queue!Requeue, Queue!Edge
    <3> QED BY <3>1
  <2>3. CASE Queue!Escalate(i)
    <3>1. Queue!Edge(i, {"blocked", "deployed", "deploy_failed", "approved",
                         "retry_requested"}, to)
      BY <2>3 DEF Queue!Escalate, Queue!Edge
    <3> QED BY <3>1
  <2>4. CASE Queue!Person(i)
    <3>1. Queue!Edge(i, Given, to)
      BY <2>4 DEF Queue!Person, Queue!Edge
    <3> QED BY <3>1
  <2> QED BY <2>1, <2>2, <2>3, <2>4 DEF Disturbs
<1> HIDE DEF to
<1> QED BY <1>1, <1>2, <1>3, QueueEdge

\* A step of the queue is one that TaskPoller's surroundings may take.
LEMMA QueueMoves ==
    ASSUME ViewIsTrue, DOMAIN reviews \subseteq Ids, NEW i \in Ids, Serves(i) \/ Disturbs(i)
    PROVE  [MoveReview(i) \/ MoveBack(i)]_vars
<1>1. CASE Unseen(i)
  BY <1>1 DEF Unseen
<1>2. CASE Serves(i) /\ ~Unseen(i)
  <2>1. /\ i \in DOMAIN reviews /\ status'[i] \in Statuses
        /\ \/ Seen(status'[i]) = Seen(status[i])
           \/ <<Seen(status[i]), Seen(status'[i])>> \in Moves
    BY <1>2, ServesEdges
  <2>2. /\ Seen(status'[i]) # Seen(status[i])
        /\ Moved(i, Seen(status'[i]), OwedFor(Seen(status'[i])))
        /\ free' = IF status'[i] = "deploying" THEN free \ {reviews[i].row} ELSE free
        /\ UNCHANGED <<UpToPoller, events, troubles>>
    BY <1>2 DEF Serves
  <2>3. reviews[i].status = Seen(status[i])
    BY <2>1 DEF ViewIsTrue
  <2>4. Seen(status'[i]) \in ReviewStatuses
        /\ (Seen(status'[i]) = "deploying" <=> status'[i] = "deploying")
    BY <2>1, SeenStatus
  <2>5. UNCHANGED <<listed, gone, posted, entries, times, disabled, tick, pc, local, bounds>>
    BY <2>2 DEF UpToPoller, bounds
  <2>6. MoveReview(i)
    BY <2>1, <2>2, <2>3, <2>4, <2>5 DEF MoveReview
  <2> QED BY <2>6
<1>3. CASE Disturbs(i) /\ ~Unseen(i)
  <2>1. i \in DOMAIN reviews /\ Seen(status'[i]) \in {"pending", "aside", "ended"}
    BY <1>3, DisturbsEdges
  <2>2. /\ Seen(status'[i]) # Seen(status[i])
        /\ Moved(i, Seen(status'[i]), reviews[i].owed)
        /\ Trouble
        /\ UNCHANGED <<UpToPoller, free>>
    BY <1>3 DEF Disturbs
  <2>3. reviews[i].status = Seen(status[i])
    BY <2>1 DEF ViewIsTrue
  <2>4. MoveBack(i)
    BY <2>1, <2>2, <2>3 DEF MoveBack, UpToPoller
  <2> QED BY <2>4
<1> QED BY <1>1, <1>2, <1>3

\* What the poller's side does to the reviews: it makes one, or an executor stores the
\* status it owes.
LEMMA PollsReviews ==
    ASSUME reviews \in Seq(Review), Polls
    PROVE  \/ UNCHANGED reviews
           \/ /\ Len(reviews) < MaxReviews
              /\ \E v \in Review : v.status = "pending" /\ reviews' = Append(reviews, v)
           \/ \E i \in DOMAIN reviews, v \in Review :
                 v.status = reviews[i].status /\ reviews' = [reviews EXCEPT ![i] = v]
<1>1. ASSUME NEW h, NEW k \in Keys, NEW r \in Rows,
             CreateReview(h, k, r) \/ NoticeFails(h, k, r)
      PROVE  /\ Len(reviews) < MaxReviews
             /\ \E v \in Review : v.status = "pending" /\ reviews' = Append(reviews, v)
  <2>1. PICK noted \in BOOLEAN : Ask(h, k, r, noted)
    BY <1>1 DEF CreateReview, NoticeFails
  <2> DEFINE v == [key |-> k, row |-> r, status |-> "pending", owed |-> "none",
                   kept |-> noted /\ h \notin overtaken]
  <2>2. v \in Review /\ v.status = "pending"
    BY DEF Review, ReviewStatuses, Live
  <2>3. Len(reviews) < MaxReviews /\ reviews' = Append(reviews, v)
    BY <2>1 DEF Ask
  <2> HIDE DEF v
  <2> QED BY <2>2, <2>3
<1>2. ASSUME NEW i, ExecutorMarks(i)
      PROVE  \E v \in Review : /\ i \in DOMAIN reviews /\ v.status = reviews[i].status
                               /\ reviews' = [reviews EXCEPT ![i] = v]
  <2> DEFINE v == [reviews[i] EXCEPT !.owed = "none"]
  <2>1. i \in DOMAIN reviews /\ reviews[i] \in Review
    BY <1>2 DEF ExecutorMarks
  <2>2. v \in Review /\ v.status = reviews[i].status
    BY <2>1 DEF Review
  <2>3. reviews' = [reviews EXCEPT ![i] = v]
    BY <1>2, <2>1 DEF ExecutorMarks
  <2> HIDE DEF v
  <2> QED BY <2>1, <2>2, <2>3
<1>3. ASSUME NEW h, ProcessTask(h)
      PROVE  \/ UNCHANGED reviews
             \/ /\ Len(reviews) < MaxReviews
                /\ \E v \in Review : v.status = "pending" /\ reviews' = Append(reviews, v)
  <2>1. CASE \/ Fetch(h) \/ FetchUnavailable(h) \/ FetchFails(h) \/ DetectionFails(h)
             \/ Plan(h)
             \/ \E k \in Keys : ScheduleRetry(h, k) \/ PlanFails(h, k)
             \/ MarkEntry(h) \/ EndTask(h)
    BY <2>1 DEF Fetch, FetchUnavailable, FetchFails, DetectionFails, Plan, ScheduleRetry,
                PlanFails, MarkEntry, EndTask
  <2> QED BY <1>1, <1>3, <2>1 DEF ProcessTask
<1>4. CASE LoopStep /\ ~ProcessTask(Loop)
  BY <1>4 DEF LoopStep, ListKnown, EndTick, Hear, PassOver, GiveUp, Check
<1>5. ASSUME NEW h, HookStep(h), ~ProcessTask(h) PROVE UNCHANGED reviews
  BY <1>5 DEF HookStep, Deliver, HookDies
<1>6. CASE \/ Start \/ Die \/ Time \/ People
           \/ \E t \in Tasks : Outage(t)
           \/ \E r \in Rows : RowTested(r)
  BY <1>6 DEF Start, Die, Time, ChecksFallDue, RetryFallsDue, People, Share, EditEntries,
              Outage, RowTested
<1> QED BY <1>2, <1>3, <1>4, <1>5, <1>6 DEF Polls

\* The poller's side asks for a review or leaves the queue alone.
LEMMA PollsQueue ==
    ASSUME reviews \in Seq(Review), ViewIsTrue, Polls
    PROVE  ViewIsTrue' /\ [Queue!Next]_status
<1>1. Len(reviews) \in Nat /\ DOMAIN reviews = 1..Len(reviews)
  OBVIOUS
<1>2. \A i \in DOMAIN reviews : i \in Ids => status[i] # "absent"
  BY DEF ViewIsTrue
<1>3. CASE UNCHANGED reviews
  <2>1. UNCHANGED status
    BY <1>1, <1>3 DEF Polls
  <2> QED BY <1>3, <2>1 DEF ViewIsTrue
<1>4. ASSUME NEW v \in Review, v.status = "pending", reviews' = Append(reviews, v),
             Len(reviews) < MaxReviews
      PROVE  ViewIsTrue' /\ [Queue!Next]_status
  <2> DEFINE n == Len(reviews) + 1
  <2>1. /\ Len(reviews') = n /\ DOMAIN reviews' = DOMAIN reviews \cup {n}
        /\ n \notin DOMAIN reviews
        /\ reviews'[n] = v /\ \A i \in DOMAIN reviews : reviews'[i] = reviews[i]
    BY <1>1, <1>4
  <2>2. n \in Ids
    BY <1>1, <1>4, TaskPollerAssumption DEF Ids
  <2>3. Queue!Ask(n)
    <3>1. Len(reviews') # Len(reviews)
      <4>1. Len(reviews') = Len(reviews) + 1
        BY <1>4
      <4>2. \A m \in Nat : m + 1 # m
        OBVIOUS
      <4> QED BY <1>1, <4>1, <4>2
    <3>2. Queue!Ask(Len(reviews'))
      BY <3>1 DEF Polls
    <3> QED BY <2>1, <3>2, SMTT(30)
  <2> HIDE DEF n
  <2>4. status' = [status EXCEPT ![n] = "pending"]
    BY <2>3 DEF Queue!Ask, Queue!Edge
  <2>5. Seen("pending") = "pending" /\ "pending" \in Statuses /\ "absent" \notin Statuses
    BY DEF Seen, Reserving, Finished, Shelved, Statuses
  <2>6. /\ status' \in [Ids -> Statuses \cup {"absent"}] /\ status'[n] = "pending"
        /\ \A i \in Ids : i # n => status'[i] = status[i]
    BY <2>2, <2>4, <2>5 DEF ViewIsTrue
  <2>7. \A i \in Ids : i \notin DOMAIN reviews' <=> status'[i] = "absent"
    BY <2>1, <2>6 DEF ViewIsTrue
  <2>8. DOMAIN reviews \subseteq Ids
    BY <1>1, <1>4, TaskPollerAssumption DEF Ids
  <2>9. \A i \in DOMAIN reviews' : reviews'[i].status = Seen(status'[i])
    BY <1>4, <2>1, <2>2, <2>5, <2>6, <2>8 DEF ViewIsTrue
  <2>10. Queue!Next
    BY <2>2, <2>3 DEF Queue!Next
  <2> QED BY <2>6, <2>7, <2>9, <2>10 DEF ViewIsTrue
<1>5. ASSUME NEW i \in DOMAIN reviews, NEW v \in Review, v.status = reviews[i].status,
             reviews' = [reviews EXCEPT ![i] = v]
      PROVE  ViewIsTrue' /\ [Queue!Next]_status
  <2>1. /\ DOMAIN reviews' = DOMAIN reviews /\ Len(reviews') = Len(reviews)
        /\ \A j \in DOMAIN reviews : reviews'[j].status = reviews[j].status
    BY <1>5
  <2>2. UNCHANGED status
    BY <2>1 DEF Polls
  <2> QED BY <2>1, <2>2 DEF ViewIsTrue
<1> QED BY <1>3, <1>4, <1>5, PollsReviews

\* A step of the queue keeps the poller's view true.
LEMMA QueueViewed ==
    ASSUME reviews \in Seq(Review), ViewIsTrue, DOMAIN reviews \subseteq Ids, NEW i \in Ids,
           Serves(i) \/ Disturbs(i)
    PROVE  ViewIsTrue' /\ Queue!Next
<1>1. /\ i \in DOMAIN reviews /\ status'[i] \in Statuses
      /\ status' \in [Ids -> Statuses \cup {"absent"}]
      /\ \A j \in Ids : j # i => status'[j] = status[j]
  <2>1. CASE Serves(i)
    <3>1. /\ i \in DOMAIN reviews /\ status'[i] \in Statuses
          /\ status' \in [Ids -> Statuses \cup {"absent"}]
          /\ \A j \in Ids : j # i => status'[j] = status[j]
          /\ \/ Seen(status'[i]) = Seen(status[i])
             \/ <<Seen(status[i]), Seen(status'[i])>> \in Moves
      BY <2>1, ServesEdges
    <3> QED BY <3>1
  <2>2. CASE Disturbs(i)
    <3>1. /\ i \in DOMAIN reviews /\ status'[i] \in Statuses
          /\ status' \in [Ids -> Statuses \cup {"absent"}]
          /\ \A j \in Ids : j # i => status'[j] = status[j]
          /\ Seen(status'[i]) \in {"pending", "aside", "ended"}
      BY <2>2, DisturbsEdges
    <3> QED BY <3>1
  <2> QED BY <2>1, <2>2
<1>2. Queue!Next
  BY DEF Serves, Disturbs, Queue!Next
<1>3. /\ DOMAIN reviews' = DOMAIN reviews
      /\ \A j \in DOMAIN reviews \ {i} : reviews'[j] = reviews[j]
      /\ reviews'[i].status = Seen(status'[i])
  <2>1. CASE Unseen(i)
    BY <1>1, <2>1 DEF Unseen, vars, ViewIsTrue
  <2>2. CASE \E o : Moved(i, Seen(status'[i]), o)
    BY <1>1, <2>2 DEF Moved
  <2> QED BY <2>1, <2>2 DEF Serves, Disturbs
<1>4. "absent" \notin Statuses
  BY DEF Reserving, Finished, Shelved, Statuses
<1>5. \A j \in Ids : j \notin DOMAIN reviews' <=> status'[j] = "absent"
  BY <1>1, <1>3, <1>4 DEF ViewIsTrue
<1>6. \A j \in DOMAIN reviews' : reviews'[j].status = Seen(status'[j])
  BY <1>1, <1>3 DEF ViewIsTrue
<1> QED BY <1>1, <1>2, <1>5, <1>6 DEF ViewIsTrue

-----------------------------------------------------------------------------
\* What every step of the two together is for each of them.
Viewed == reviews \in Seq(Review) /\ Len(reviews) <= MaxReviews /\ ViewIsTrue

LEMMA InitViewed == ReviewedInit => Viewed
<1> SUFFICES ASSUME ReviewedInit PROVE Viewed
  OBVIOUS
<1>1. reviews = <<>> /\ status = [r \in Ids |-> "absent"]
  BY DEF ReviewedInit, Init, Queue!Init
<1> QED BY <1>1, TaskPollerAssumption DEF Viewed, ViewIsTrue

LEMMA NextViewed ==
    ASSUME Viewed, [ReviewedNext]_<<vars, status>>
    PROVE  Viewed' /\ [Next]_vars /\ [Queue!Next]_status
<1>1. /\ reviews \in Seq(Review) /\ Len(reviews) \in Nat /\ ViewIsTrue
      /\ DOMAIN reviews \subseteq Ids
  BY TaskPollerAssumption DEF Viewed, Ids
<1>2. CASE Polls
  <2>1. Next
    BY <1>2 DEF Polls, Next, Others, Ids
  <2>2. reviews' \in Seq(Review) /\ Len(reviews') <= MaxReviews
    <3>1. CASE UNCHANGED reviews
      BY <3>1 DEF Viewed
    <3>2. ASSUME NEW v \in Review, Len(reviews) < MaxReviews, reviews' = Append(reviews, v)
          PROVE  reviews' \in Seq(Review) /\ Len(reviews') <= MaxReviews
      BY <1>1, <3>2, TaskPollerAssumption
    <3>3. ASSUME NEW i \in DOMAIN reviews, NEW v \in Review,
                 reviews' = [reviews EXCEPT ![i] = v]
          PROVE  reviews' \in Seq(Review) /\ Len(reviews') <= MaxReviews
      BY <1>1, <3>3 DEF Viewed
    <3> QED BY <1>1, <1>2, <3>1, <3>2, <3>3, PollsReviews
  <2> QED BY <1>1, <1>2, <2>1, <2>2, PollsQueue DEF Viewed
<1>3. ASSUME NEW i \in Ids, Serves(i) \/ Disturbs(i)
      PROVE  Viewed' /\ [Next]_vars /\ [Queue!Next]_status
  <2>1. ViewIsTrue' /\ Queue!Next
    BY <1>1, <1>3, QueueViewed
  <2>2. MoveReview(i) \/ MoveBack(i) \/ UNCHANGED vars
    BY <1>1, <1>3, QueueMoves
  <2>3. [Next]_vars
    BY <2>2 DEF Next, Others, Ids
  <2>4. reviews' \in Seq(Review) /\ Len(reviews') <= MaxReviews
    <3>1. CASE UNCHANGED vars
      BY <3>1 DEF vars, Viewed
    <3>2. CASE MoveReview(i) \/ MoveBack(i)
      BY <1>1, <3>2, MovedReview DEF Viewed
    <3> QED BY <2>2, <3>1, <3>2
  <2> QED BY <2>1, <2>3, <2>4 DEF Viewed
<1>4. CASE UNCHANGED <<vars, status>>
  BY <1>4 DEF vars, Viewed, ViewIsTrue
<1> QED BY <1>2, <1>3, <1>4 DEF ReviewedNext

\* The poller's view of a review is what the queue stores of it
\* (poller.py, _reserved_reusable_rows and _refresh_task_entry_states_from_reviews).
THEOREM ViewStaysTrue == ReviewedSpec => []ViewIsTrue
<1>1. Viewed /\ [ReviewedNext]_<<vars, status>> => Viewed'
  BY NextViewed
<1>2. Viewed => ViewIsTrue
  BY DEF Viewed
<1> QED BY <1>1, <1>2, InitViewed, PTL DEF ReviewedSpec

\* Beside the queue, which the auditor, the executors and the people move along any
\* edge of its life cycle, the poller is the one that TaskPoller specifies.
THEOREM QueueSurrounds == ReviewedSpec => Spec
<1>1. ReviewedInit => Init
  BY DEF ReviewedInit
<1>2. Viewed /\ [ReviewedNext]_<<vars, status>> => Viewed' /\ [Next]_vars
  BY NextViewed
<1> QED BY <1>1, <1>2, InitViewed, PTL DEF ReviewedSpec, Spec

\* Whatever the poller does, the statuses keep the life cycle of the queue
\* (store.py, create_review).
THEOREM PollerKeepsLifecycle == ReviewedSpec => Queue!Spec
<1>1. ReviewedInit => Queue!Init
  BY DEF ReviewedInit
<1>2. Viewed /\ [ReviewedNext]_<<vars, status>> => Viewed' /\ [Queue!Next]_status
  BY NextViewed
<1> QED BY <1>1, <1>2, InitViewed, PTL DEF ReviewedSpec, Queue!Spec

\* Two reviews that the queue may still deploy never plan for one row, if the poller has
\* had both in view ever since (poller.py, _reserved_reusable_rows).
THEOREM QueueRowsApart == ReviewedSpec => []QueuedRowsApart
<1>1. ViewIsTrue /\ DOMAIN reviews \subseteq Ids /\ RowsReservedOnce => QueuedRowsApart
  <2> SUFFICES ASSUME ViewIsTrue, RowsReservedOnce PROVE QueuedRowsApart
    OBVIOUS
  <2>1. \A i \in InQueue : reviews[i].status \in Live
    BY DEF InQueue, ViewIsTrue, Seen, Reserving, Finished, Shelved, Live
  <2>2. InQueue \subseteq LiveReviews
    BY <2>1 DEF InQueue, LiveReviews
  <2> QED BY <2>2 DEF QueuedRowsApart, RowsReservedOnce
<1>2. Viewed => ViewIsTrue /\ DOMAIN reviews \subseteq Ids
  BY TaskPollerAssumption DEF Viewed, Ids
<1>3. Viewed /\ [ReviewedNext]_<<vars, status>> => Viewed'
  BY NextViewed
<1> QED BY <1>1, <1>2, <1>3, InitViewed, QueueSurrounds, RowsStayReserved, PTL
        DEF ReviewedSpec
=============================================================================
