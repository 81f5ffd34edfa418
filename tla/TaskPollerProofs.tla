-------------------------- MODULE TaskPollerProofs --------------------------
(***************************************************************************)
(* What TLAPS proves of TaskPoller, for any tasks, entries, rows, any      *)
(* number of troubles, and any number of background tasks of the API       *)
(* beside the loop: the types; that a row is reserved by one live review   *)
(* (ReservationsHeld); and that a checkpoint is reviewed once, and once    *)
(* more at most for each lapse.  The last argument counts: the reviews of  *)
(* a checkpoint and the spellings of it that may still get one are never   *)
(* more than the lapses, and one more while a spelling is handled, or      *)
(* listed and on its way (Balanced).                                       *)
(***************************************************************************)
EXTENDS TaskPoller, FiniteSetTheorems, TLAPS

Review == [key : Keys, row : Rows, status : ReviewStatuses,
           owed : {"none", "pending", "ended"}, kept : BOOLEAN]
EntryStates == [status : ItemStatuses, review : 0..Len(reviews)]

-----------------------------------------------------------------------------
(* Types                                                                   *)

\* The types of what is stored, and of the loop's tick.
DataTypes ==
    /\ listed \subseteq Keys /\ gone \subseteq Tasks /\ free \subseteq Rows
    /\ posted \subseteq Tasks /\ known \subseteq Tasks /\ disabled \subseteq Tasks
    /\ recent \subseteq Tasks
    /\ reviews \in Seq(Review)
    /\ item \in [Keys -> EntryStates]
    /\ older \subseteq Keys \X Keys /\ due \subseteq Keys
    /\ phase \in {"chats", "known", "down"}
    /\ agenda \in Seq(Tasks) /\ checked \in Nat
    /\ events \in Nat /\ troubles \in Nat /\ lapses \in Nat

\* The types of what the runs keep: a run works on a task, and on one of its entries
\* when it stores a status.
Made == [key : Keys \cup {NoKey}, status : ItemStatuses, review : 0..Len(reviews)]
RunTypes ==
    /\ heard \subseteq Hooks /\ overtaken \subseteq Handlers
    /\ late \in [Handlers -> SUBSET Keys]
    /\ pc \in [Handlers -> {"pick", "fetch", "plan", "each", "made"}]
    /\ task \in [Handlers -> Tasks \cup {NoTask}]
    /\ work \in [Handlers -> SUBSET Keys] /\ reserved \in [Handlers -> SUBSET Rows]
    /\ made \in [Handlers -> Made]
    /\ \A h \in Handlers : /\ pc[h] # "pick" => task[h] \in Tasks
                           /\ pc[h] = "made" => made[h].key \in Keys

Typed == DataTypes /\ RunTypes

LEMMA TypedTypes == Typed => TypeOK
BY DEF Typed, DataTypes, RunTypes, TypeOK, Review, EntryStates, Made

LEMMA ListedType ==
    ASSUME NEW S \in SUBSET Tasks
    PROVE  Cardinality(S) \in Nat /\ SetToSeq(S) \in Seq(Tasks)
<1>1. IsFiniteSet(S)
  BY FS_Subset, TaskPollerAssumption
<1>2. Cardinality(S) \in Nat /\ ExistsBijection(1..Cardinality(S), S)
  BY <1>1, FS_CardinalityType
<1>3. \E f \in [1..Cardinality(S) -> S] : IsInjective(f)
  <2>1. PICK f : f \in Injection(1..Cardinality(S), S)
    BY <1>2 DEF ExistsBijection, Bijection
  <2>2. f \in [1..Cardinality(S) -> S] /\ IsInjective(f)
    BY <2>1 DEF Injection, IsInjective
  <2> QED BY <2>2
<1>4. SetToSeq(S) \in [1..Cardinality(S) -> S]
  BY <1>3 DEF SetToSeq
<1> QED BY <1>2, <1>4

\* A tick starts with the tasks that are shared, in some order.
LEMMA TickType ==
    ASSUME DataTypes, StartTick
    PROVE  phase' \in {"chats", "known", "down"} /\ agenda' \in Seq(Tasks)
BY ListedType DEF DataTypes, StartTick

\* A run leaves its task, takes one, or nothing of the runs changes.
LEMMA LeaveTypes ==
    ASSUME RunTypes, NEW h \in Handlers, Leave(h), UNCHANGED reviews, Len(reviews) \in Nat
    PROVE  RunTypes'
<1>1. Nothing \in Made
  BY DEF Nothing, ItemStatuses, Made
<1>2. Made' = Made
  BY DEF Made
<1>3. made' \in [Handlers -> Made'] /\ pc' \in [Handlers -> {"pick", "fetch", "plan", "each", "made"}]
  BY <1>1, <1>2 DEF Leave, RunTypes
<1>4. /\ task' \in [Handlers -> Tasks \cup {NoTask}] /\ late' \in [Handlers -> SUBSET Keys]
      /\ work' \in [Handlers -> SUBSET Keys] /\ reserved' \in [Handlers -> SUBSET Rows]
      /\ heard' \subseteq Hooks /\ overtaken' \subseteq Handlers
  BY DEF Leave, RunTypes
<1>5. \A g \in Handlers : /\ pc'[g] # "pick" => task'[g] \in Tasks
                          /\ pc'[g] = "made" => made'[g].key \in Keys
  BY DEF Leave, RunTypes
<1> QED BY <1>3, <1>4, <1>5 DEF RunTypes

LEMMA TakeTypes ==
    ASSUME RunTypes, NEW h \in Handlers, NEW t \in Tasks, Take(h, t), heard' \subseteq Hooks,
           UNCHANGED reviews
    PROVE  RunTypes'
<1>1. Made' = Made
  BY DEF Made
<1>2. /\ task' \in [Handlers -> Tasks \cup {NoTask}]
      /\ pc' \in [Handlers -> {"pick", "fetch", "plan", "each", "made"}]
      /\ UNCHANGED <<work, reserved, made, overtaken, late>>
  BY DEF Take, RunTypes
<1>3. \A g \in Handlers : /\ pc'[g] # "pick" => task'[g] \in Tasks
                          /\ pc'[g] = "made" => made'[g].key \in Keys
  BY DEF Take, RunTypes
<1> QED BY <1>1, <1>2, <1>3 DEF RunTypes

LEMMA AloneTypes ==
    ASSUME RunTypes, UNCHANGED <<pc, local>>, Len(reviews') = Len(reviews) PROVE RunTypes'
<1>1. Made' = Made
  BY DEF Made
<1> QED BY <1>1 DEF RunTypes, local

\* mark_processed_item keeps the types.
LEMMA MarkType ==
    ASSUME DataTypes, NEW k \in Keys, NEW s \in ItemStatuses, NEW i \in 0..Len(reviews),
           Mark(k, s, i), Len(reviews') = Len(reviews)
    PROVE  /\ item' \in [Keys -> EntryStates'] /\ older' \subseteq Keys \X Keys
           /\ known' \subseteq Tasks
<1>1. item' \in [Keys -> EntryStates]
  BY DEF DataTypes, Mark, EntryStates
<1>2. older' \subseteq Keys \X Keys
  BY DEF DataTypes, Mark
<1>3. known' \subseteq Tasks
  <2>1. TaskOf[k] \in Tasks
    BY TaskPollerAssumption
  <2> QED BY <2>1 DEF DataTypes, Mark
<1>4. EntryStates' = EntryStates
  BY DEF EntryStates
<1> QED BY <1>1, <1>2, <1>3, <1>4

LEMMA InitTyped == Init => Typed
<1> SUFFICES ASSUME Init PROVE Typed
  OBVIOUS
<1>1. Tasks \in SUBSET Tasks
  OBVIOUS
<1>2. agenda \in Seq(Tasks)
  BY <1>1, ListedType DEF Init
<1>3. item \in [Keys -> EntryStates]
  BY DEF Init, Unknown, ItemStatuses, EntryStates
<1>4. Nothing \in Made
  BY DEF Init, Nothing, ItemStatuses, Made
<1>5. DataTypes
  BY <1>2, <1>3, TaskPollerAssumption DEF Init, DataTypes
<1>6. RunTypes
  BY <1>4 DEF Init, RunTypes
<1> QED BY <1>5, <1>6 DEF Typed

\* The tick, and events.
LEMMA TickTyped ==
    ASSUME Typed, \/ ListKnown \/ EndTick
                  \/ \E t \in Tasks : \/ Hear(t) \/ PassOver(t)
                                      \/ \E n \in DOMAIN agenda : Check(n, t)
    PROVE  Typed'
<1> USE DEF Typed
<1>0. Loop \in Handlers
  BY DEF Handlers
<1>1. /\ UNCHANGED <<listed, gone, free, posted, reviews, item, older, known, due, recent,
                     disabled, events, troubles, lapses>>
      /\ checked' \in Nat
  BY DEF ListKnown, EndTick, Hear, PassOver, Check, Upcoming, DataTypes, world, entries,
         times, bounds
<1>2. RunTypes'
  <2>1. CASE ListKnown \/ EndTick \/ \E t \in Tasks : PassOver(t)
    <3>1. UNCHANGED <<pc, local>>
      BY <2>1 DEF ListKnown, EndTick, PassOver
    <3> QED BY <1>1, <3>1, AloneTypes
  <2>2. ASSUME NEW t \in Tasks, Hear(t) \/ \E n \in DOMAIN agenda : Check(n, t)
        PROVE  RunTypes'
    <3>1. Take(Loop, t) /\ heard' = heard
      BY <2>2 DEF Hear, Check
    <3>2. heard' \subseteq Hooks
      BY <3>1 DEF RunTypes
    <3> QED BY <1>0, <1>1, <3>1, <3>2, TakeTypes
  <2> QED BY <2>1, <2>2
<1>3. phase' \in {"chats", "known", "down"} /\ agenda' \in Seq(Tasks)
  <2>1. CASE ListKnown
    <3>1. known \in SUBSET Tasks
      BY DEF DataTypes
    <3> DEFINE n == IF Crowded THEN KnownLimit ELSE Cardinality(known)
    <3>2. agenda' \in [1..n -> known]
      BY <2>1 DEF ListKnown, KnownTasks
    <3>3. n \in Nat
      BY <3>1, ListedType, TaskPollerAssumption
    <3> HIDE DEF n
    <3>4. agenda' \in Seq(Tasks)
      BY <3>1, <3>2, <3>3
    <3> QED BY <2>1, <3>4 DEF ListKnown
  <2>2. CASE EndTick
    BY <2>2, TickType DEF EndTick
  <2>3. CASE \E t \in Tasks : Hear(t) \/ PassOver(t)
    <3>1. agenda # <<>> /\ agenda' = Tail(agenda) /\ phase' = phase
      BY <2>3 DEF Hear, PassOver
    <3> QED BY <3>1 DEF DataTypes
  <2>4. CASE \E t \in Tasks : \E n \in DOMAIN agenda : Check(n, t)
    BY <2>4, SMTT(30) DEF Check, Upcoming, DataTypes
  <2> QED BY <2>1, <2>2, <2>3, <2>4
<1>4. EntryStates' = EntryStates
  BY <1>1 DEF EntryStates
<1>5. DataTypes'
  BY <1>1, <1>3, <1>4 DEF DataTypes
<1> QED BY <1>2, <1>5

LEMMA DeliverTyped ==
    ASSUME Typed, NEW h \in Hooks, NEW t \in Tasks, Deliver(h, t) PROVE Typed'
<1>1. h \in Handlers
  BY DEF Handlers
<1>2. UNCHANGED <<listed, gone, free, posted, reviews, item, older, known, due, recent,
                  disabled, phase, agenda, checked, troubles, lapses>>
      /\ events' = events + 1 /\ Take(h, t) /\ heard' \subseteq Hooks
  BY DEF Deliver, world, entries, times, tick, Typed, RunTypes
<1>3. RunTypes'
  BY <1>1, <1>2, TakeTypes DEF Typed
<1>4. DataTypes'
  BY <1>2 DEF DataTypes, EntryStates, Typed
<1> QED BY <1>3, <1>4 DEF Typed

\* The retries of a disabled task are given up.
LEMMA GiveUpTyped ==
    ASSUME Typed, NEW n, NEW t, GiveUp(n, t) PROVE Typed'
<1>1. agenda' \in Seq(Tasks) /\ older' \subseteq Keys \X Keys
  BY SMTT(30) DEF GiveUp, Upcoming, Typed, DataTypes
<1>2. item' \in [Keys -> EntryStates]
  <2>1. [status |-> "task_unavailable", review |-> 0] \in EntryStates
    BY DEF ItemStatuses, EntryStates, Typed, DataTypes
  <2> QED BY <2>1 DEF GiveUp, Typed, DataTypes
<1>3. UNCHANGED <<listed, gone, free, posted, reviews, known, due, recent, disabled, phase,
                  checked, pc, local, events, troubles, lapses>>
  BY DEF GiveUp, world, times, bounds
<1>4. RunTypes'
  BY <1>3, AloneTypes DEF Typed
<1>5. DataTypes'
  BY <1>1, <1>2, <1>3 DEF DataTypes, EntryStates, Typed
<1> QED BY <1>4, <1>5 DEF Typed

\* A run leaves a task.
LEMMA LeaveTyped ==
    ASSUME Typed, NEW h \in Handlers,
           FetchUnavailable(h) \/ FetchFails(h) \/ DetectionFails(h) \/ EndTask(h)
    PROVE  Typed'
<1> USE DEF Typed
<1>1. UNCHANGED <<listed, gone, free, reviews, item, older, due>> /\ Leave(h)
  BY DEF FetchUnavailable, FetchFails, DetectionFails, EndTask, Return, world, entries, times
<1>2. EntryStates' = EntryStates /\ Len(reviews) \in Nat
  BY <1>1 DEF EntryStates, DataTypes
<1>3. RunTypes'
  BY <1>1, <1>2, LeaveTypes
<1>4. /\ posted' \subseteq Tasks /\ recent' \subseteq Tasks /\ checked' \in Nat
      /\ known' \subseteq Tasks /\ disabled' \subseteq Tasks
      /\ phase' \in {"chats", "known", "down"} /\ agenda' \in Seq(Tasks)
      /\ events' \in Nat /\ troubles' \in Nat /\ lapses' \in Nat
  <2>1. CASE FetchUnavailable(h) \/ FetchFails(h) \/ EndTask(h)
    <3>1. task[h] \in Tasks /\ Return(h)
      BY <2>1 DEF FetchUnavailable, FetchFails, EndTask, RunTypes
    <3>2. posted' \subseteq Tasks /\ recent' \subseteq Tasks /\ checked' \in Nat
      BY <3>1 DEF Return, DataTypes
    <3>3. known' \subseteq Tasks /\ disabled' \subseteq Tasks
      BY <2>1, <3>1 DEF FetchUnavailable, FetchFails, EndTask, entries, DataTypes
    <3>4. /\ UNCHANGED <<phase, agenda>>
          /\ events' \in Nat /\ troubles' \in Nat /\ lapses' \in Nat
      BY <2>1 DEF FetchUnavailable, FetchFails, EndTask, Trouble, bounds, DataTypes
    <3> QED BY <3>2, <3>3, <3>4 DEF DataTypes
  <2>2. CASE DetectionFails(h)
    <3>1. phase' \in {"chats", "known", "down"} /\ agenda' \in Seq(Tasks)
      BY <2>2, TickType DEF DetectionFails, DataTypes
    <3>2. /\ UNCHANGED <<posted, recent, checked, known, disabled, events, lapses>>
          /\ troubles' \in Nat
      BY <2>2 DEF DetectionFails, Trouble, entries, times, DataTypes
    <3> QED BY <3>1, <3>2 DEF DataTypes
  <2> QED BY <2>1, <2>2
<1>5. DataTypes'
  BY <1>1, <1>2, <1>4 DEF DataTypes
<1> QED BY <1>3, <1>5

LEMMA FetchTyped == ASSUME Typed, NEW h \in Handlers, Fetch(h) PROVE Typed'
<1> USE DEF Typed
<1>1. /\ UNCHANGED <<listed, gone, free, posted, reviews, item, older, known, due, recent,
                     phase, agenda, checked, task, reserved, made, heard, overtaken, late,
                     events, troubles, lapses>>
      /\ disabled' \subseteq Tasks
      /\ work' = [work EXCEPT ![h] = Named(task[h])]
      /\ pc' = [pc EXCEPT ![h] = "plan"] /\ pc[h] = "fetch"
  BY DEF Fetch, world, entries, times, tick, bounds, DataTypes
<1>2. Named(task[h]) \subseteq Keys
  BY DEF Named, DataTypes
<1>3. DataTypes'
  BY <1>1 DEF DataTypes, EntryStates
<1>4. /\ work' \in [Handlers -> SUBSET Keys]
      /\ pc' \in [Handlers -> {"pick", "fetch", "plan", "each", "made"}]
      /\ \A g \in Handlers : /\ pc'[g] # "pick" => task'[g] \in Tasks
                             /\ pc'[g] = "made" => made'[g].key \in Keys
  BY <1>1, <1>2 DEF RunTypes
<1>5. RunTypes'
  BY <1>1, <1>4 DEF RunTypes, Made
<1> QED BY <1>3, <1>5

\* What the plan of a run reads and picks.
LEMMA PlanDoes ==
    ASSUME NEW h, Plan(h)
    PROVE  \E state \in [work[h] -> UNION {States(k) : k \in work[h]}] :
        /\ \A k \in work[h] : state[k] \in States(k)
        /\ item' = [k \in Keys |-> IF k \in work[h] /\ Stale(state[k])
                                   THEN Refreshed(state[k]) ELSE item[k]]
        /\ LET todo == {k \in work[h] : ShouldProcess(k, Refreshed(state[k]))}
           IN  /\ work' = [work EXCEPT ![h] = todo]
               /\ reserved' = [reserved EXCEPT ![h] =
                                   ReservedRows({Refreshed(state[k]) : k \in work[h]})]
               /\ late' = [late EXCEPT ![h] = {k \in todo : Settling(k)}]
<1>1. PICK state \in [work[h] -> UNION {States(k) : k \in work[h]}] :
        /\ \A k \in work[h] : state[k] \in States(k)
        /\ item' = [k \in Keys |-> IF k \in work[h] /\ Stale(state[k])
                                   THEN Refreshed(state[k]) ELSE item[k]]
        /\ LET now  == [k \in work[h] |-> Refreshed(state[k])]
               todo == {k \in work[h] : ShouldProcess(k, now[k])}
           IN  /\ work' = [work EXCEPT ![h] = todo]
               /\ reserved' = [reserved EXCEPT ![h] =
                                   ReservedRows({now[k] : k \in work[h]})]
               /\ late' = [late EXCEPT ![h] = {k \in todo : Settling(k)}]
  BY DEF Plan
<1> DEFINE now == [k \in work[h] |-> Refreshed(state[k])]
<1>2. \A k \in work[h] : now[k] = Refreshed(state[k])
  OBVIOUS
<1>3. {now[k] : k \in work[h]} = {Refreshed(state[k]) : k \in work[h]}
  BY <1>2
<1>4. {k \in work[h] : ShouldProcess(k, now[k])}
          = {k \in work[h] : ShouldProcess(k, Refreshed(state[k]))}
  BY <1>2
<1> QED BY <1>1, <1>3, <1>4, Zenon

\* What the entries' states and the reservations are, they are types of.
LEMMA PlanTyped == ASSUME Typed, NEW h \in Handlers, Plan(h) PROVE Typed'
<1> USE DEF Typed
<1>1. PICK state \in [work[h] -> UNION {States(k) : k \in work[h]}] :
        /\ \A k \in work[h] : state[k] \in States(k)
        /\ item' = [k \in Keys |-> IF k \in work[h] /\ Stale(state[k])
                                   THEN Refreshed(state[k]) ELSE item[k]]
        /\ LET todo == {k \in work[h] : ShouldProcess(k, Refreshed(state[k]))}
           IN  /\ work' = [work EXCEPT ![h] = todo]
               /\ reserved' = [reserved EXCEPT ![h] =
                                   ReservedRows({Refreshed(state[k]) : k \in work[h]})]
               /\ late' = [late EXCEPT ![h] = {k \in todo : Settling(k)}]
  BY PlanDoes, ZenonT(60)
<1>2. \A k \in Keys : States(k) \subseteq EntryStates
  BY DEF States, EntryStates, DataTypes
<1>3. \A s \in EntryStates : Refreshed(s) \in EntryStates
  BY DEF Refreshed, EntryStates, ItemStatuses, Equivalent
<1>4. work[h] \subseteq Keys
  BY DEF RunTypes
<1>5. item' \in [Keys -> EntryStates]
  BY <1>1, <1>2, <1>3, <1>4 DEF DataTypes
<1> DEFINE rows == ReservedRows({Refreshed(state[k]) : k \in work[h]})
           todo == {k \in work[h] : ShouldProcess(k, Refreshed(state[k]))}
<1>6. rows \subseteq Rows
  <2>1. \A i \in DOMAIN reviews : reviews[i].row \in Rows
    <3>1. \A i \in DOMAIN reviews : reviews[i] \in Review
      BY DEF DataTypes
    <3> QED BY <3>1 DEF Review
  <2>2. \A k \in work[h] : Refreshed(state[k]) \in EntryStates
    BY <1>1, <1>2, <1>3, <1>4
  <2>3. \A s \in EntryStates : s.review # 0 => s.review \in DOMAIN reviews
    BY DEF EntryStates, DataTypes
  <2>4. LiveReviews \subseteq DOMAIN reviews
    BY DEF LiveReviews
  <2> QED BY <2>1, <2>2, <2>3, <2>4 DEF ReservedRows
<1>7. todo \subseteq Keys
  BY <1>4
<1>8. /\ work' = [work EXCEPT ![h] = todo] /\ reserved' = [reserved EXCEPT ![h] = rows]
      /\ late' = [late EXCEPT ![h] = {k \in todo : Settling(k)}]
  BY <1>1
<1> HIDE DEF todo, rows
<1>9. /\ work' \in [Handlers -> SUBSET Keys] /\ reserved' \in [Handlers -> SUBSET Rows]
      /\ late' \in [Handlers -> SUBSET Keys]
  BY <1>6, <1>7, <1>8 DEF RunTypes
<1>10. /\ UNCHANGED <<listed, gone, free, posted, reviews, older, known, due, recent, disabled,
                      phase, agenda, checked, task, made, heard, events, troubles, lapses>>
       /\ overtaken' \subseteq Handlers
       /\ pc' = [pc EXCEPT ![h] = "each"] /\ pc[h] = "plan"
  BY DEF Plan, world, times, tick, bounds, RunTypes
<1>11. /\ pc' \in [Handlers -> {"pick", "fetch", "plan", "each", "made"}]
       /\ \A g \in Handlers : /\ pc'[g] # "pick" => task'[g] \in Tasks
                              /\ pc'[g] = "made" => made'[g].key \in Keys
  BY <1>10 DEF RunTypes
<1>12. DataTypes'
  BY <1>5, <1>10 DEF DataTypes, EntryStates
<1>13. RunTypes'
  BY <1>9, <1>10, <1>11 DEF RunTypes, Made
<1> QED BY <1>12, <1>13

\* What is about to be stored of an entry.
LEMMA MakeTypes ==
    ASSUME RunTypes, NEW h \in Handlers, NEW k \in Keys, NEW s \in ItemStatuses,
           NEW i \in 0..Len(reviews'), Make(h, k, s, i), UNCHANGED <<task, heard>>,
           reserved' \in [Handlers -> SUBSET Rows], overtaken' \subseteq Handlers,
           late' \in [Handlers -> SUBSET Keys],
           Len(reviews) \in Nat, Len(reviews') \in Nat, Len(reviews) <= Len(reviews')
    PROVE  RunTypes'
<1> DEFINE m == [key |-> k, status |-> s, review |-> i]
<1>1. m \in Made' /\ m.key = k
  BY DEF Made
<1>2. \A x \in Made : x \in Made'
  <2>1. 0..Len(reviews) \subseteq 0..Len(reviews')
    OBVIOUS
  <2> QED BY <2>1 DEF Made
<1>3. /\ made' = [made EXCEPT ![h] = m] /\ pc[h] = "each"
      /\ pc' = [pc EXCEPT ![h] = "made"] /\ work' = [work EXCEPT ![h] = @ \ {k}]
  BY DEF Make
<1> HIDE DEF m
<1>4. made' \in [Handlers -> Made']
  BY <1>1, <1>2, <1>3 DEF RunTypes
<1>5. /\ pc' \in [Handlers -> {"pick", "fetch", "plan", "each", "made"}]
      /\ work' \in [Handlers -> SUBSET Keys]
  BY <1>3 DEF RunTypes
<1>6. \A g \in Handlers : /\ pc'[g] # "pick" => task'[g] \in Tasks
                          /\ pc'[g] = "made" => made'[g].key \in Keys
  BY <1>1, <1>3 DEF RunTypes
<1> QED BY <1>4, <1>5, <1>6 DEF RunTypes

\* An entry is given a review.
LEMMA ReviewTyped ==
    ASSUME Typed, NEW h \in Handlers, NEW k \in Keys, NEW r \in Rows,
           CreateReview(h, k, r) \/ NoticeFails(h, k, r)
    PROVE  Typed'
<1> USE DEF Typed
<1>0. Len(reviews) \in Nat /\ reviews \in Seq(Review)
  BY DEF DataTypes
<1>1. PICK noted \in BOOLEAN, s \in ItemStatuses, i \in 0..Len(reviews) + 1 :
          Make(h, k, s, i) /\ Ask(h, k, r, noted)
  <2>2. /\ Len(reviews) + 1 \in 0..Len(reviews) + 1 /\ 0 \in 0..Len(reviews) + 1
        /\ "pending" \in ItemStatuses /\ "failed_review" \in ItemStatuses
    BY <1>0 DEF ItemStatuses, Equivalent
  <2>3. \/ Make(h, k, "pending", Len(reviews) + 1) /\ Ask(h, k, r, TRUE)
        \/ Make(h, k, "failed_review", 0) /\ Ask(h, k, r, FALSE)
    BY DEF CreateReview, NoticeFails
  <2> QED BY <2>2, <2>3
<1> DEFINE c == noted /\ h \notin overtaken
           new == [key |-> k, row |-> r, status |-> "pending", owed |-> "none",
                   kept |-> c]
<1>2. new \in Review
  BY DEF Review, ReviewStatuses, Live
<1>3. reviews' = Append(reviews, new)
  BY <1>1 DEF Ask
<1> HIDE DEF new
<1>4. reviews' \in Seq(Review) /\ Len(reviews') = Len(reviews) + 1
  BY <1>0, <1>2, <1>3
<1>5. /\ overtaken' \subseteq Handlers /\ late' \in [Handlers -> SUBSET Keys] /\ lapses' \in Nat
  BY <1>1 DEF Ask, DataTypes, RunTypes
<1>6. /\ reserved' \in [Handlers -> SUBSET Rows]
      /\ UNCHANGED <<task, heard>>
  <2>1. UNCHANGED <<task, heard>>
    BY DEF CreateReview, NoticeFails
  <2>2. \/ reserved' = [reserved EXCEPT ![h] = @ \cup {r}]
        \/ reserved' = reserved
    BY DEF CreateReview, NoticeFails
  <2>3. reserved \in [Handlers -> SUBSET Rows]
    BY DEF RunTypes
  <2> QED BY <2>1, <2>2, <2>3
<1>7. i \in 0..Len(reviews') /\ Len(reviews') \in Nat /\ Len(reviews) <= Len(reviews')
  BY <1>0, <1>4
<1>8. RunTypes'
  <2>1. Make(h, k, s, i)
    BY <1>1
  <2> QED BY <1>0, <1>5, <1>6, <1>7, <2>1, MakeTypes
<1>9. /\ UNCHANGED <<listed, gone, free, posted, item, older, known, due, recent, disabled,
                     phase, agenda, checked>>
      /\ events' \in Nat /\ troubles' \in Nat
  <2>1. CASE CreateReview(h, k, r)
    BY <2>1 DEF CreateReview, world, entries, times, tick, DataTypes
  <2>2. CASE NoticeFails(h, k, r)
    BY <2>2 DEF NoticeFails, Trouble, world, entries, times, tick, DataTypes
  <2> QED BY <2>1, <2>2
<1>10. item' \in [Keys -> EntryStates']
  <2>1. \A x \in EntryStates : x \in EntryStates'
    <3>1. 0..Len(reviews) \subseteq 0..Len(reviews')
      BY <1>0, <1>7
    <3> QED BY <3>1 DEF EntryStates
  <2> QED BY <1>9, <2>1 DEF DataTypes
<1>11. DataTypes'
  BY <1>4, <1>5, <1>9, <1>10 DEF DataTypes
<1> QED BY <1>8, <1>11

LEMMA UnplannedTyped ==
    ASSUME Typed, NEW h \in Handlers, NEW k \in Keys, ScheduleRetry(h, k) \/ PlanFails(h, k)
    PROVE  Typed'
<1> USE DEF Typed
<1>1. \E s \in ItemStatuses : Make(h, k, s, 0)
  BY DEF ScheduleRetry, PlanFails, ItemStatuses, Equivalent
<1>2. /\ UNCHANGED <<listed, gone, free, posted, reviews, item, older, known, recent, disabled,
                     phase, agenda, checked, task, reserved, heard, overtaken, late, events,
                     lapses>>
      /\ due' \subseteq Keys /\ troubles' \in Nat
  BY SMTT(30) DEF ScheduleRetry, PlanFails, Trouble, world, entries, times, tick, bounds,
                  DataTypes
<1>3. Len(reviews) \in Nat /\ 0 \in 0..Len(reviews')
  BY <1>2 DEF DataTypes
<1>4. RunTypes'
  <2>1. /\ reserved' \in [Handlers -> SUBSET Rows] /\ overtaken' \subseteq Handlers
        /\ late' \in [Handlers -> SUBSET Keys]
    BY <1>2 DEF RunTypes
  <2> QED BY <1>1, <1>2, <1>3, <2>1, MakeTypes
<1>5. DataTypes'
  BY <1>2 DEF DataTypes, EntryStates
<1> QED BY <1>4, <1>5

LEMMA MarkTyped == ASSUME Typed, NEW h \in Handlers, MarkEntry(h) PROVE Typed'
<1> USE DEF Typed
<1>1. /\ made[h].key \in Keys /\ made[h].status \in ItemStatuses
      /\ made[h].review \in 0..Len(reviews)
      /\ Mark(made[h].key, made[h].status, made[h].review) /\ reviews' = reviews
  BY DEF MarkEntry, RunTypes, Made
<1>2. /\ item' \in [Keys -> EntryStates'] /\ older' \subseteq Keys \X Keys
      /\ known' \subseteq Tasks
  BY <1>1, MarkType
<1>3. /\ UNCHANGED <<listed, gone, free, posted, reviews, due, recent, disabled, phase, agenda,
                     checked, task, work, reserved, heard, overtaken, late, events, troubles>>
      /\ lapses' \in Nat
      /\ made' = [made EXCEPT ![h] = Nothing] /\ pc' = [pc EXCEPT ![h] = "each"]
      /\ pc[h] = "made"
  BY DEF MarkEntry, world, times, tick, DataTypes
<1>4. Nothing \in Made
  BY DEF Nothing, ItemStatuses, Made, DataTypes
<1>5. /\ made' \in [Handlers -> Made]
      /\ pc' \in [Handlers -> {"pick", "fetch", "plan", "each", "made"}]
      /\ \A g \in Handlers : /\ pc'[g] # "pick" => task'[g] \in Tasks
                             /\ pc'[g] = "made" => made'[g].key \in Keys
  BY <1>3, <1>4 DEF RunTypes
<1>6. RunTypes'
  BY <1>3, <1>5 DEF RunTypes, Made
<1>7. DataTypes'
  BY <1>2, <1>3 DEF DataTypes
<1> QED BY <1>6, <1>7

\* The process of a run dies, or the loop's starts again.
LEMMA DeathTyped ==
    ASSUME Typed, Die \/ Start \/ \E h \in Hooks : HookDies(h) PROVE Typed'
<1> USE DEF Typed
<1>0. Len(reviews) \in Nat /\ Loop \in Handlers /\ Hooks \subseteq Handlers
  BY DEF DataTypes, Handlers
<1>1. UNCHANGED <<listed, gone, free, posted, reviews, older, known, due, recent, disabled>>
  BY DEF Die, HookDies, Start, world, entries, times
<1>2. RunTypes'
  <2>1. CASE Die \/ \E h \in Hooks : HookDies(h)
    <3>1. \E h \in Handlers : Leave(h)
      BY <1>0, <2>1 DEF Die, HookDies
    <3> QED BY <1>0, <1>1, <3>1, LeaveTypes
  <2>2. CASE Start
    <3>1. UNCHANGED <<pc, local>>
      BY <2>2 DEF Start
    <3> QED BY <1>1, <3>1, AloneTypes
  <2> QED BY <2>1, <2>2
<1>3. /\ phase' \in {"chats", "known", "down"} /\ agenda' \in Seq(Tasks) /\ checked' \in Nat
      /\ events' \in Nat /\ troubles' \in Nat /\ lapses' \in Nat
  <2>1. CASE Die
    <3>1. agenda' \in Seq(Tasks)
      BY <2>1 DEF Die
    <3> QED BY <2>1, <3>1 DEF Die, Trouble, DataTypes
  <2>2. CASE \E h \in Hooks : HookDies(h)
    BY <2>2 DEF HookDies, Trouble, tick, DataTypes
  <2>3. CASE Start
    BY <2>3, TickType DEF Start, bounds, DataTypes
  <2> QED BY <2>1, <2>2, <2>3
<1>4. item' \in [Keys -> EntryStates]
  <2>1. CASE Die \/ \E h \in Hooks : HookDies(h)
    BY <2>1 DEF Die, HookDies, entries, DataTypes
  <2>2. CASE Start
    <3>1. \A s \in EntryStates : Refreshed(s) \in EntryStates
      BY DEF Refreshed, EntryStates, ItemStatuses, Equivalent
    <3> QED BY <2>2, <3>1 DEF Start, DataTypes
  <2> QED BY <2>1, <2>2
<1>5. DataTypes'
  BY <1>1, <1>3, <1>4 DEF DataTypes, EntryStates
<1> QED BY <1>2, <1>5

-----------------------------------------------------------------------------
\* What a move makes of a review.
LEMMA MovedReview ==
    ASSUME reviews \in Seq(Review), NEW i, MoveReview(i) \/ MoveBack(i)
    PROVE  /\ i \in DOMAIN reviews
           /\ \E v \in Review :
                /\ reviews' = [reviews EXCEPT ![i] = v]
                /\ v.key = reviews[i].key /\ v.row = reviews[i].row
                /\ v.kept => reviews[i].kept /\ v.status \in Live
<1>1. i \in DOMAIN reviews /\ reviews[i] \in Review
  BY DEF MoveReview, MoveBack
<1>2. PICK s \in ReviewStatuses, o \in {"none", "pending", "ended"} : Moved(i, s, o)
  <2>1. \A s \in ReviewStatuses : OwedFor(s) \in {"none", "pending", "ended"}
    BY DEF OwedFor
  <2>2. CASE MoveReview(i)
    <3>1. \E s \in ReviewStatuses : Moved(i, s, OwedFor(s))
      BY <2>2 DEF MoveReview
    <3> QED BY <2>1, <3>1
  <2>3. CASE MoveBack(i)
    <3>1. \E s \in {"pending", "aside", "ended"} : Moved(i, s, reviews[i].owed)
      BY <2>3 DEF MoveBack
    <3>2. reviews[i].owed \in {"none", "pending", "ended"}
      BY <1>1 DEF Review
    <3>3. {"pending", "aside", "ended"} \subseteq ReviewStatuses
      BY DEF ReviewStatuses, Live
    <3> QED BY <3>1, <3>2, <3>3
  <2> QED BY <2>2, <2>3
<1> DEFINE c == reviews[i].kept /\ s \in Live
           v == [key |-> reviews[i].key, row |-> reviews[i].row, status |-> s,
                 owed |-> o, kept |-> c]
<1>3. reviews' = [reviews EXCEPT ![i] = v]
  BY <1>2 DEF Moved
<1>4. c \in BOOLEAN /\ (c => reviews[i].kept /\ s \in Live)
  OBVIOUS
<1> HIDE DEF c
<1>5. /\ v \in Review /\ v.key = reviews[i].key /\ v.row = reviews[i].row
      /\ v.kept = c /\ v.status = s
  BY <1>1, <1>4 DEF Review
<1> HIDE DEF v
<1> QED BY <1>1, <1>3, <1>4, <1>5

\* The auditor, its executor and the people who decide.
LEMMA MovesTyped ==
    ASSUME Typed, NEW i, MoveReview(i) \/ MoveBack(i) \/ ExecutorMarks(i)
    PROVE  Typed'
<1> USE DEF Typed
<1>1. reviews \in Seq(Review) /\ Len(reviews) \in Nat
  BY DEF DataTypes
<1>2. i \in DOMAIN reviews /\ \E v \in Review : reviews' = [reviews EXCEPT ![i] = v]
  <2>1. CASE MoveReview(i) \/ MoveBack(i)
    BY <1>1, <2>1, MovedReview
  <2>2. CASE ExecutorMarks(i)
    <3>1. i \in DOMAIN reviews /\ reviews[i] \in Review
      BY <1>1, <2>2 DEF ExecutorMarks
    <3>2. [reviews[i] EXCEPT !.owed = "none"] \in Review
      BY <3>1 DEF Review
    <3> QED BY <2>2, <3>1, <3>2 DEF ExecutorMarks
  <2> QED BY <2>1, <2>2
<1>3. reviews' \in Seq(Review) /\ Len(reviews') = Len(reviews)
  BY <1>1, <1>2
<1>4. item' \in [Keys -> EntryStates'] /\ older' \subseteq Keys \X Keys /\ known' \subseteq Tasks
  <2>1. CASE MoveReview(i) \/ MoveBack(i)
    BY <1>3, <2>1 DEF MoveReview, MoveBack, entries, DataTypes, EntryStates
  <2>2. CASE ExecutorMarks(i)
    <3>1. reviews[i] \in Review
      BY <1>1, <1>2
    <3>2. reviews[i].key \in Keys /\ reviews[i].owed \in ItemStatuses
      BY <3>1 DEF Review, ItemStatuses, Equivalent
    <3>3. i \in 0..Len(reviews)
      BY <1>1, <1>2
    <3> QED BY <1>3, <2>2, <3>2, <3>3, MarkType DEF ExecutorMarks
  <2> QED BY <2>1, <2>2
<1>5. /\ free' \subseteq Rows /\ events' \in Nat /\ troubles' \in Nat
      /\ UNCHANGED <<listed, gone, posted, due, recent, disabled, phase, agenda, checked, pc,
                     local, lapses>>
  <2>1. CASE MoveReview(i)
    BY <2>1 DEF MoveReview, times, tick, bounds, DataTypes
  <2>2. CASE MoveBack(i)
    BY <2>2 DEF MoveBack, Trouble, times, tick, DataTypes
  <2>3. CASE ExecutorMarks(i)
    BY <2>3 DEF ExecutorMarks, world, times, tick, bounds, DataTypes
  <2> QED BY <2>1, <2>2, <2>3
<1>6. RunTypes'
  BY <1>3, <1>5, AloneTypes
<1>7. DataTypes'
  BY <1>3, <1>4, <1>5 DEF DataTypes
<1> QED BY <1>6, <1>7

\* Feishu, its people and time.
LEMMA WorldTyped ==
    ASSUME Typed, \/ \E t \in Tasks : Share(t) \/ Outage(t)
                  \/ \E out, in \in SUBSET Keys : EditEntries(out, in)
                  \/ \E r \in Rows : RowTested(r)
                  \/ Time \/ UNCHANGED vars
    PROVE  Typed'
<1> USE DEF Typed
<1>1. UNCHANGED <<reviews, item, older, known, disabled, phase, agenda, checked, pc, local>>
  <2>1. CASE \/ \E t \in Tasks : Share(t) \/ Outage(t)
             \/ \E out, in \in SUBSET Keys : EditEntries(out, in)
             \/ \E r \in Rows : RowTested(r)
    BY <2>1 DEF Share, Outage, EditEntries, RowTested, entries, tick
  <2>2. CASE Time \/ UNCHANGED vars
    BY <2>2 DEF Time, ChecksFallDue, RetryFallsDue, vars, entries, tick
  <2> QED BY <2>1, <2>2
<1>2. RunTypes'
  BY <1>1, AloneTypes
<1>3. /\ listed' \subseteq Keys /\ gone' \subseteq Tasks /\ free' \subseteq Rows
      /\ posted' \subseteq Tasks /\ due' \subseteq Keys /\ recent' \subseteq Tasks
      /\ events' \in Nat /\ troubles' \in Nat /\ lapses' \in Nat
  <2>1. CASE \E t \in Tasks : Share(t)
    BY <2>1 DEF Share, Trouble, world, times, DataTypes
  <2>2. CASE \E t \in Tasks : Outage(t)
    BY <2>2 DEF Outage, Trouble, times, DataTypes
  <2>3. CASE \E out, in \in SUBSET Keys : EditEntries(out, in)
    BY <2>3 DEF EditEntries, Trouble, times, DataTypes
  <2>4. CASE \E r \in Rows : RowTested(r)
    BY <2>4 DEF RowTested, times, bounds, DataTypes
  <2>5. CASE Time \/ UNCHANGED vars
    BY <2>5 DEF Time, ChecksFallDue, RetryFallsDue, vars, world, times, bounds, DataTypes
  <2> QED BY <2>1, <2>2, <2>3, <2>4, <2>5
<1>4. DataTypes'
  BY <1>1, <1>3 DEF DataTypes, EntryStates
<1> QED BY <1>2, <1>4

LEMMA NextTyped == Typed /\ [Next]_vars => Typed'
<1> SUFFICES ASSUME Typed, [Next]_vars PROVE Typed'
  OBVIOUS
<1>1. ASSUME NEW h \in Handlers, ProcessTask(h) PROVE Typed'
  BY <1>1, FetchTyped, LeaveTyped, PlanTyped, ReviewTyped, UnplannedTyped, MarkTyped
     DEF ProcessTask
<1>2. CASE LoopStep
  BY <1>1, <1>2, TickTyped, GiveUpTyped DEF LoopStep, Handlers
<1>3. CASE \E h \in Hooks : HookStep(h)
  BY <1>1, <1>3, DeliverTyped, DeathTyped DEF HookStep, Handlers
<1>4. CASE Others
  <2>1. CASE People
    <3>1. \/ \E t \in Tasks : Share(t)
          \/ \E out, in \in SUBSET Keys : EditEntries(out, in)
      BY <2>1 DEF People
    <3> QED BY <3>1, WorldTyped
  <2> QED BY <1>4, <2>1, MovesTyped, WorldTyped DEF Others
<1> QED BY <1>2, <1>3, <1>4, DeathTyped, WorldTyped DEF Next

\* TypeOK holds in every reachable state.
THEOREM TypeCorrect == Spec => []TypeOK
BY InitTyped, NextTyped, TypedTypes, PTL DEF Spec

-----------------------------------------------------------------------------
(* The rows that are reserved                                              *)

\* The run goes from entry to entry.
AtEntries(h) == pc[h] \in {"each", "made"}

\* A review that keeps its row is live, and the rows that are kept are among those that
\* a run has reserved while it makes reviews, unless it has been overtaken.
ReservationsHeld ==
    /\ \A i \in DOMAIN reviews : reviews[i].kept => reviews[i].status \in Live
    /\ \A h \in Handlers \ overtaken : AtEntries(h) =>
           \A i \in LiveReviews : reviews[i].kept => reviews[i].row \in reserved[h]
    /\ RowsReservedOnce

\* What a new review leaves of the reservations (create_review).
LEMMA AskKeeps ==
    ASSUME Typed, ReservationsHeld, NEW h \in Handlers, NEW k \in Keys, NEW r \in Rows,
           NEW noted \in BOOLEAN, Ask(h, k, r, noted),
           pc[h] = "each", r \notin reserved[h], pc' = [pc EXCEPT ![h] = "made"],
           reserved' = [reserved EXCEPT ![h] = IF noted THEN @ \cup {r} ELSE @]
    PROVE  ReservationsHeld'
<1> DEFINE c == noted /\ h \notin overtaken
           new == [key |-> k, row |-> r, status |-> "pending", owed |-> "none", kept |-> c]
<1>1. new \in Review /\ new.status = "pending" /\ new.row = r /\ new.kept = c
  BY DEF Review, ReviewStatuses, Live
<1>2. /\ reviews \in Seq(Review) /\ pc \in [Handlers -> {"pick", "fetch", "plan", "each", "made"}]
      /\ reserved \in [Handlers -> SUBSET Rows]
  BY DEF Typed, DataTypes, RunTypes
<1>3. reviews' = Append(reviews, new)
  BY DEF Ask
<1> HIDE DEF new
<1>4. /\ DOMAIN reviews' = DOMAIN reviews \cup {Len(reviews) + 1}
      /\ reviews'[Len(reviews) + 1] = new
      /\ \A i \in DOMAIN reviews : reviews'[i] = reviews[i] /\ i # Len(reviews) + 1
  BY <1>1, <1>2, <1>3
<1>5. LiveReviews' = LiveReviews \cup {Len(reviews) + 1}
  BY <1>1, <1>4 DEF LiveReviews, Live
<1>6. \A i \in LiveReviews : i \in DOMAIN reviews
  BY DEF LiveReviews
<1>7. \A i \in DOMAIN reviews' : reviews'[i].kept => reviews'[i].status \in Live
  BY <1>1, <1>4 DEF ReservationsHeld, Live
<1>8. h \notin overtaken => \A i \in LiveReviews : reviews[i].kept => reviews[i].row \in reserved[h]
  BY <1>2 DEF ReservationsHeld, AtEntries
<1>9. ASSUME NEW g \in Handlers \ overtaken', AtEntries(g)',
             NEW i \in LiveReviews', reviews'[i].kept
      PROVE  reviews'[i].row \in reserved'[g]
  <2>1. g = h /\ h \notin overtaken
    BY <1>2, <1>9 DEF Ask, AtEntries
  <2>2. reserved[h] \subseteq reserved'[h] /\ (noted => r \in reserved'[h])
    BY <1>2
  <2>3. CASE i \in LiveReviews
    BY <1>4, <1>6, <1>8, <1>9, <2>1, <2>2, <2>3
  <2>4. CASE i = Len(reviews) + 1
    BY <1>1, <1>4, <1>9, <2>1, <2>2, <2>4
  <2> QED BY <1>5, <2>3, <2>4
<1>10. RowsReservedOnce'
  <2>1. c => \A i \in LiveReviews : reviews[i].kept => reviews[i].row # r
    BY <1>8
  <2> HIDE DEF c
  <2> QED BY <1>1, <1>4, <1>5, <1>6, <2>1 DEF ReservationsHeld, RowsReservedOnce
<1> QED BY <1>7, <1>9, <1>10 DEF ReservationsHeld

\* Steps that leave the reviews alone, and after which a run makes reviews only if it did
\* before, or has just reserved the row of every live review.
LEMMA KeepsReviews ==
    ASSUME ReservationsHeld, UNCHANGED reviews,
           \A h \in Handlers \ overtaken' : AtEntries(h)' =>
               \/ AtEntries(h) /\ h \notin overtaken /\ reserved'[h] = reserved[h]
               \/ \A i \in LiveReviews : reviews[i].row \in reserved'[h]
    PROVE  ReservationsHeld'
<1>1. LiveReviews' = LiveReviews
  BY DEF LiveReviews
<1>2. RowsReservedOnce'
  BY <1>1 DEF ReservationsHeld, RowsReservedOnce
<1>3. \A i \in DOMAIN reviews' : reviews'[i].kept => reviews'[i].status \in Live
  BY DEF ReservationsHeld
<1>4. \A h \in Handlers \ overtaken' : AtEntries(h)' =>
           \A i \in LiveReviews' : reviews'[i].kept => reviews'[i].row \in reserved'[h]
  BY <1>1 DEF ReservationsHeld
<1> QED BY <1>2, <1>3, <1>4 DEF ReservationsHeld

\* A review that changes keeps its row only while it stays live.
LEMMA ChangeKeeps ==
    ASSUME Typed, ReservationsHeld, NEW i \in DOMAIN reviews, NEW v \in Review,
           reviews' = [reviews EXCEPT ![i] = v],
           v.row = reviews[i].row, v.kept => reviews[i].kept,
           v.kept => v.status \in Live,
           UNCHANGED <<pc, reserved, overtaken>>
    PROVE  ReservationsHeld'
<1>1. reviews \in Seq(Review)
  BY DEF Typed, DataTypes
<1>2. /\ DOMAIN reviews' = DOMAIN reviews
      /\ reviews'[i] = v
      /\ \A j \in DOMAIN reviews : j # i => reviews'[j] = reviews[j]
  BY <1>1
<1>3. \A j \in LiveReviews' : reviews'[j].kept =>
          j \in LiveReviews /\ reviews[j].kept /\ reviews'[j].row = reviews[j].row
  BY <1>2 DEF LiveReviews, ReservationsHeld
<1>4. RowsReservedOnce'
  BY <1>3 DEF ReservationsHeld, RowsReservedOnce
<1>5. \A h \in Handlers \ overtaken' : AtEntries(h)' =>
          \A j \in LiveReviews' : reviews'[j].kept => reviews'[j].row \in reserved'[h]
  BY <1>3 DEF ReservationsHeld, AtEntries
<1>6. \A j \in DOMAIN reviews' : reviews'[j].kept => reviews'[j].status \in Live
  BY <1>2 DEF ReservationsHeld
<1> QED BY <1>4, <1>5, <1>6 DEF ReservationsHeld

LEMMA MoveKeeps ==
    ASSUME Typed, ReservationsHeld, NEW i, MoveReview(i) \/ MoveBack(i)
    PROVE  ReservationsHeld'
<1>1. reviews \in Seq(Review)
  BY DEF Typed, DataTypes
<1>2. /\ i \in DOMAIN reviews
      /\ \E v \in Review :
           /\ reviews' = [reviews EXCEPT ![i] = v]
           /\ v.key = reviews[i].key /\ v.row = reviews[i].row
           /\ v.kept => reviews[i].kept /\ v.status \in Live
  BY <1>1, MovedReview
<1>3. UNCHANGED <<pc, reserved, overtaken>>
  BY DEF MoveReview, MoveBack, local
<1> QED BY <1>2, <1>3, ChangeKeeps

LEMMA MarksKeep ==
    ASSUME Typed, ReservationsHeld, NEW i, ExecutorMarks(i)
    PROVE  ReservationsHeld'
<1> DEFINE v == [reviews[i] EXCEPT !.owed = "none"]
<1>1. i \in DOMAIN reviews /\ reviews[i] \in Review
  BY DEF ExecutorMarks, Typed, DataTypes
<1>2. /\ v \in Review /\ v.status = reviews[i].status /\ v.row = reviews[i].row
      /\ v.kept = reviews[i].kept
  BY <1>1 DEF Review
<1>3. reviews' = [reviews EXCEPT ![i] = v] /\ UNCHANGED <<pc, reserved, overtaken>>
  BY <1>1 DEF ExecutorMarks, local
<1>4. v.kept => v.status \in Live
  BY <1>1, <1>2 DEF ReservationsHeld
<1> HIDE DEF v
<1> QED BY <1>1, <1>2, <1>3, <1>4, ChangeKeeps

LEMMA ProcessKeeps ==
    ASSUME Typed, ReservationsHeld, NEW h \in Handlers, ProcessTask(h)
    PROVE  ReservationsHeld'
<1>0. /\ pc \in [Handlers -> {"pick", "fetch", "plan", "each", "made"}]
      /\ reserved \in [Handlers -> SUBSET Rows]
  BY DEF Typed, RunTypes
<1>1. CASE Fetch(h) \/ FetchUnavailable(h) \/ FetchFails(h) \/ DetectionFails(h) \/ EndTask(h)
  <2>1. /\ UNCHANGED reviews /\ \E p \in {"plan", "pick"} : pc' = [pc EXCEPT ![h] = p]
        /\ \A g \in Handlers \ {h} : g \notin overtaken' => g \notin overtaken
        /\ \A g \in Handlers \ {h} : reserved'[g] = reserved[g]
    BY <1>0, <1>1 DEF Fetch, FetchUnavailable, FetchFails, DetectionFails, EndTask, Return, Leave
  <2>2. \A g \in Handlers : AtEntries(g)' => g # h /\ AtEntries(g)
    BY <1>0, <2>1 DEF AtEntries
  <2> QED BY <2>1, <2>2, KeepsReviews
<1>2. CASE Plan(h)
  <2>1. /\ UNCHANGED reviews /\ pc' = [pc EXCEPT ![h] = "each"] /\ overtaken' = overtaken \ {h}
        /\ \A g \in Handlers \ {h} : reserved'[g] = reserved[g]
        /\ \A i \in LiveReviews : reviews[i].row \in reserved'[h]
    <3>1. \E ss : reserved' = [reserved EXCEPT ![h] = ReservedRows(ss)]
      BY <1>2 DEF Plan
    <3>2. \A ss : \A i \in LiveReviews : reviews[i].row \in ReservedRows(ss)
      BY DEF ReservedRows
    <3> QED BY <1>0, <1>2, <3>1, <3>2 DEF Plan
  <2>2. \A g \in Handlers \ {h} : AtEntries(g)' => AtEntries(g)
    BY <1>0, <2>1 DEF AtEntries
  <2> QED BY <2>1, <2>2, KeepsReviews
<1>3. ASSUME NEW k \in Keys, NEW r \in Rows, CreateReview(h, k, r)
      PROVE  ReservationsHeld'
  BY <1>3, AskKeeps DEF CreateReview, Make
<1>4. ASSUME NEW k \in Keys, NEW r \in Rows, NoticeFails(h, k, r)
      PROVE  ReservationsHeld'
  <2>1. /\ pc[h] = "each" /\ r \notin reserved[h] /\ pc' = [pc EXCEPT ![h] = "made"]
        /\ Ask(h, k, r, FALSE) /\ reserved' = reserved
    BY <1>4 DEF NoticeFails, Make
  <2>2. reserved' = [reserved EXCEPT ![h] = IF FALSE THEN @ \cup {r} ELSE @]
    BY <1>0, <2>1
  <2> QED BY <2>1, <2>2, AskKeeps
<1>5. CASE MarkEntry(h) \/ \E k \in Keys : ScheduleRetry(h, k) \/ PlanFails(h, k)
  <2>1. UNCHANGED <<reviews, reserved, overtaken>> /\ AtEntries(h)
    BY <1>5 DEF MarkEntry, ScheduleRetry, PlanFails, Make, AtEntries
  <2>2. \A g \in Handlers : AtEntries(g)' => AtEntries(g)
    BY <1>0, <1>5 DEF MarkEntry, ScheduleRetry, PlanFails, Make, AtEntries
  <2> QED BY <2>1, <2>2, KeepsReviews
<1> QED BY <1>1, <1>2, <1>3, <1>4, <1>5 DEF ProcessTask

\* No step makes two live reviews of one row, unless a run lost track of one, or another
\* run overtook it.
THEOREM RowsStayReserved == Spec => []RowsReservedOnce
<1>1. Init => ReservationsHeld
  BY DEF Init, ReservationsHeld, RowsReservedOnce, LiveReviews, AtEntries
<1>2. Typed /\ ReservationsHeld /\ [Next]_vars => ReservationsHeld'
  <2> SUFFICES ASSUME Typed, ReservationsHeld, [Next]_vars PROVE ReservationsHeld'
    OBVIOUS
  <2>0. /\ pc \in [Handlers -> {"pick", "fetch", "plan", "each", "made"}]
        /\ Loop \in Handlers /\ Hooks \subseteq Handlers
    BY DEF Typed, RunTypes, Handlers
  <2>1. ASSUME UNCHANGED <<reviews, pc, reserved, overtaken>> PROVE ReservationsHeld'
    BY <2>1, KeepsReviews DEF AtEntries
  <2>2. ASSUME NEW h \in Handlers, NEW t, Take(h, t), UNCHANGED reviews
        PROVE  ReservationsHeld'
    <3>1. \A g \in Handlers : AtEntries(g)' => AtEntries(g)
      BY <2>0, <2>2 DEF Take, AtEntries
    <3> QED BY <2>2, <3>1, KeepsReviews DEF Take
  <2>3. ASSUME NEW h \in Handlers, Leave(h), UNCHANGED reviews PROVE ReservationsHeld'
    <3>1. \A g \in Handlers : AtEntries(g)' =>
              AtEntries(g) /\ g # h /\ reserved'[g] = reserved[g]
      BY <2>0, <2>3 DEF Leave, AtEntries, Typed, RunTypes
    <3>2. overtaken' = overtaken \ {h}
      BY <2>3 DEF Leave
    <3> QED BY <2>3, <3>1, <3>2, KeepsReviews
  <2>4. CASE LoopStep
    <3>1. CASE ListKnown \/ EndTick \/ \E t \in Tasks : PassOver(t) \/ \E n \in DOMAIN agenda : GiveUp(n, t)
      BY <2>1, <3>1 DEF ListKnown, EndTick, PassOver, GiveUp, local
    <3>2. CASE \E t \in Tasks : Hear(t) \/ \E n \in DOMAIN agenda : Check(n, t)
      BY <2>0, <2>2, <3>2 DEF Hear, Check
    <3> QED BY <2>0, <2>4, <3>1, <3>2, ProcessKeeps DEF LoopStep
  <2>5. CASE \E h \in Hooks : HookStep(h)
    BY <2>0, <2>2, <2>3, <2>5, ProcessKeeps DEF HookStep, Deliver, HookDies
  <2>6. CASE Die
    BY <2>0, <2>3, <2>6 DEF Die
  <2>7. CASE Others
    <3>1. CASE \E i \in 1..MaxReviews : MoveReview(i) \/ MoveBack(i) \/ ExecutorMarks(i)
      BY <3>1, MoveKeeps, MarksKeep
    <3>2. CASE People \/ (\E t \in Tasks : Outage(t)) \/ \E r \in Rows : RowTested(r)
      BY <2>1, <3>2 DEF People, Share, EditEntries, Outage, RowTested, local
    <3> QED BY <2>7, <3>1, <3>2 DEF Others
  <2>8. CASE Start \/ Time \/ UNCHANGED vars
    BY <2>1, <2>8 DEF Start, Time, ChecksFallDue, RetryFallsDue, vars, local
  <2> QED BY <2>4, <2>5, <2>6, <2>7, <2>8 DEF Next
<1>3. ReservationsHeld => RowsReservedOnce
  BY DEF ReservationsHeld
<1> QED BY <1>1, <1>2, <1>3, InitTyped, NextTyped, PTL DEF Spec

-----------------------------------------------------------------------------
(* How often a checkpoint is reviewed                                      *)

\* What a run may have in hand where it is: one spelling of a checkpoint.
Hands(h) == {k \in Keys : k \in work[h] \/ made[h].key = k}
Hand(h) ==
    /\ pc[h] \in {"pick", "fetch"} => work[h] = {}
    /\ pc[h] # "made" => made[h] = Nothing
    /\ pc[h] = "made" => made[h].status \in Equivalent \cup {"retry_waiting"}
    /\ made[h].key \notin work[h]
    /\ \A k, l \in Hands(h) : SameCheckpoint(k, l) => k = l

Shape ==
    /\ Typed
    /\ \A k, l \in listed : SameCheckpoint(k, l) => k = l
    /\ \A h \in Handlers : Hand(h)

\* A run decides on k, and what is stored of it counts no more.
Holds(h, k) == (k \in work[h] /\ AtEntries(h)) \/ made[h].key = k
InHand(k) == \E h \in Handlers : Holds(h, k)

\* k is handled, and no spelling of its checkpoint that appears later is reviewed.
Stored(k) == ~InHand(k) /\ item[k].status \in Equivalent

\* The run may make a review for k that no other run has made for it meanwhile.
Claims(h, k) ==
    /\ k \notin late[h]
    /\ \/ k \in work[h] /\ AtEntries(h)
       \/ made[h].key = k /\ made[h].status = "retry_waiting"

\* A run may come to claim k.
Open(k) ==
    /\ ~Settling(k)
    /\ \/ Waiting(k)
       \/ /\ item[k].status = "none"
          /\ k \in listed \/ \E h \in Handlers : k \in Hands(h)
          /\ \A l \in Keys : SameCheckpoint(l, k) => ~Stored(l)

\* k may still get a review that no lapse pays for.
Owed(k) == Open(k) \/ \E h \in Handlers : Claims(h, k)

ReviewsOf(k) == {i \in DOMAIN reviews : SameCheckpoint(reviews[i].key, k)}
OwedOf(k) == {l \in Keys : SameCheckpoint(l, k) /\ Owed(l)}

\* The one review that a checkpoint may have is used by a spelling that is handled, or
\* that is listed and on its way.
Backed(k) ==
    \E l \in Keys : /\ SameCheckpoint(l, k)
                    /\ Stored(l) \/ (l \in listed /\ (Owed(l) \/ InHand(l)))
Credit(k) == lapses + (IF Backed(k) THEN 1 ELSE 0)

\* The reviews of a checkpoint and the ones that it may still get are paid for.
Total(k) == Cardinality(ReviewsOf(k)) + Cardinality(OwedOf(k))
Balance(k) == Total(k) <= Credit(k)
Balanced == \A k \in Keys : Balance(k)

-----------------------------------------------------------------------------
(* What the runs have in hand                                              *)

\* The other runs do nothing when one does a step.
OnlyOne(h) ==
    \A g \in Handlers \ {h} : /\ pc'[g] = pc[g] /\ work'[g] = work[g]
                              /\ made'[g] = made[g]

LEMMA HandsKept ==
    ASSUME Shape, Typed', UNCHANGED listed, NEW h \in Handlers, OnlyOne(h), Hand(h)'
    PROVE  Shape'
<1>1. \A g \in Handlers \ {h} : Hand(g)'
  BY DEF Shape, OnlyOne, Hand, Hands, SameCheckpoint
<1> QED BY <1>1 DEF Shape, SameCheckpoint

LEMMA LeavesHand ==
    ASSUME Shape, NEW h \in Handlers, Leave(h) PROVE Hand(h)' /\ OnlyOne(h)
<1>1. /\ pc'[h] = "pick" /\ work'[h] = {} /\ made'[h] = Nothing /\ OnlyOne(h)
  BY DEF Leave, OnlyOne, Shape, Typed, RunTypes
<1>2. Hands(h)' = {}
  BY <1>1, TaskPollerAssumption DEF Hands, Nothing
<1> QED BY <1>1, <1>2, TaskPollerAssumption DEF Hand, Nothing

LEMMA ProcessShape ==
    ASSUME Shape, Typed', NEW h \in Handlers, ProcessTask(h) PROVE Shape'
<1>0. /\ pc \in [Handlers -> {"pick", "fetch", "plan", "each", "made"}]
      /\ work \in [Handlers -> SUBSET Keys] /\ made \in [Handlers -> Made]
      /\ listed \subseteq Keys /\ Hand(h)
  BY DEF Shape, Typed, RunTypes, DataTypes
<1>1. UNCHANGED listed
  BY DEF ProcessTask, Fetch, FetchUnavailable, FetchFails, DetectionFails, Plan, CreateReview,
         NoticeFails, ScheduleRetry, PlanFails, MarkEntry, EndTask, world
<1>2. Hand(h)' /\ OnlyOne(h)
  <2>1. CASE FetchUnavailable(h) \/ FetchFails(h) \/ DetectionFails(h) \/ EndTask(h)
    BY <2>1, LeavesHand DEF FetchUnavailable, FetchFails, DetectionFails, EndTask, Return
  <2>2. CASE Fetch(h)
    <3>1. /\ pc[h] = "fetch" /\ pc'[h] = "plan" /\ made' = made /\ work'[h] = Named(task[h])
          /\ OnlyOne(h)
      BY <1>0, <2>2 DEF Fetch, OnlyOne
    <3>2. made'[h] = Nothing /\ work'[h] \subseteq listed
      BY <1>0, <3>1 DEF Hand, Named
    <3>3. Hands(h)' \subseteq listed
      BY <3>2, TaskPollerAssumption DEF Hands, Nothing
    <3>4. \A k, l \in listed : SameCheckpoint(k, l)' => k = l
      BY DEF Shape, SameCheckpoint
    <3>5. made'[h].key \notin work'[h]
      BY <1>0, <3>2, TaskPollerAssumption DEF Nothing
    <3>6. \A k, l \in Hands(h)' : SameCheckpoint(k, l)' => k = l
      BY <3>3, <3>4
    <3> QED BY <3>1, <3>2, <3>5, <3>6 DEF Hand
  <2>3. CASE Plan(h)
    <3>1. /\ pc[h] = "plan" /\ pc'[h] = "each" /\ made' = made /\ work'[h] \subseteq work[h]
          /\ OnlyOne(h)
      BY <1>0, <2>3, PlanDoes DEF Plan, OnlyOne
    <3>2. Hands(h)' \subseteq Hands(h) /\ made'[h] = Nothing /\ made'[h].key \notin work'[h]
      BY <1>0, <3>1 DEF Hands, Hand
    <3> QED BY <1>0, <3>1, <3>2 DEF Hand, SameCheckpoint
  <2>4. ASSUME NEW k \in Keys,
               \/ \E r \in Rows : CreateReview(h, k, r) \/ NoticeFails(h, k, r)
               \/ ScheduleRetry(h, k) \/ PlanFails(h, k)
        PROVE  Hand(h)' /\ OnlyOne(h)
    <3>s. PICK s \in Equivalent \cup {"retry_waiting"} : \E i : Make(h, k, s, i)
      BY <2>4 DEF CreateReview, NoticeFails, ScheduleRetry, PlanFails, Equivalent
    <3>1. PICK i : Make(h, k, s, i)
      BY <3>s
    <3>2. /\ pc'[h] = "made" /\ made'[h].key = k /\ made'[h].status = s
          /\ work'[h] = work[h] \ {k} /\ k \in work[h] /\ OnlyOne(h)
      BY <1>0, <3>1 DEF Make, OnlyOne
    <3>3. Hands(h)' \subseteq Hands(h) /\ made'[h].key \notin work'[h]
      BY <3>2 DEF Hands
    <3> QED BY <1>0, <3>2, <3>3 DEF Hand, SameCheckpoint
  <2>5. CASE MarkEntry(h)
    <3>1. /\ pc'[h] = "each" /\ made'[h] = Nothing /\ work' = work /\ OnlyOne(h)
      BY <1>0, <2>5 DEF MarkEntry, OnlyOne
    <3>2. Hands(h)' \subseteq Hands(h) /\ made'[h].key \notin work'[h]
      BY <1>0, <3>1, TaskPollerAssumption DEF Hands, Nothing
    <3> QED BY <1>0, <3>1, <3>2 DEF Hand, SameCheckpoint
  <2> QED BY <2>1, <2>2, <2>3, <2>4, <2>5 DEF ProcessTask
<1> QED BY <1>1, <1>2, HandsKept

LEMMA ShapeKept == Shape /\ [Next]_vars => Shape'
<1> SUFFICES ASSUME Shape, [Next]_vars PROVE Shape'
  OBVIOUS
<1>0. Typed' /\ Loop \in Handlers /\ Hooks \subseteq Handlers
  BY NextTyped DEF Shape, Handlers
<1>1. ASSUME UNCHANGED <<listed, pc, work, made>> PROVE Shape'
  BY <1>0, <1>1 DEF Shape, Hand, Hands, SameCheckpoint
<1>2. ASSUME NEW h \in Handlers, NEW t, Idle(h), Take(h, t), UNCHANGED listed PROVE Shape'
  <2>1. pc'[h] = "fetch" /\ work'[h] = {} /\ made'[h] = Nothing /\ OnlyOne(h)
    BY <1>2 DEF Idle, Take, OnlyOne, Shape, Hand, Typed, RunTypes
  <2>2. Hands(h)' = {}
    BY <2>1, TaskPollerAssumption DEF Hands, Nothing
  <2>3. Hand(h)'
    BY <2>1, <2>2 DEF Hand
  <2> QED BY <1>0, <1>2, <2>1, <2>3, HandsKept
<1>3. ASSUME NEW h \in Handlers, Leave(h), UNCHANGED listed PROVE Shape'
  BY <1>0, <1>3, LeavesHand, HandsKept
<1>4. CASE LoopStep
  <2>1. CASE \/ ListKnown \/ EndTick
             \/ \E t \in Tasks : PassOver(t) \/ \E n \in DOMAIN agenda : GiveUp(n, t)
    BY <1>1, <2>1 DEF ListKnown, EndTick, PassOver, GiveUp, world, local
  <2>2. CASE \E t \in Tasks : Hear(t) \/ \E n \in DOMAIN agenda : Check(n, t)
    BY <1>0, <1>2, <2>2 DEF Hear, Check, Upcoming, world
  <2> QED BY <1>0, <1>4, <2>1, <2>2, ProcessShape DEF LoopStep
<1>5. CASE \E h \in Hooks : HookStep(h)
  <2>1. ASSUME NEW h \in Hooks, HookStep(h) PROVE Shape'
    <3>1. CASE \E t \in Tasks : Deliver(h, t)
      BY <1>0, <1>2, <2>1, <3>1 DEF Deliver, world
    <3>2. CASE HookDies(h)
      BY <1>0, <1>3, <2>1, <3>2 DEF HookDies, world
    <3> QED BY <1>0, <2>1, <3>1, <3>2, ProcessShape DEF HookStep
  <2> QED BY <1>5, <2>1
<1>6. CASE Die
  BY <1>0, <1>3, <1>6 DEF Die, world
<1>7. CASE Others
  <2>1. CASE People
    <3>1. ASSUME NEW out, NEW in, EditEntries(out, in) PROVE Shape'
      BY <1>0, <3>1 DEF EditEntries, local, Shape, Hand, Hands, SameCheckpoint
    <3>2. CASE \E t \in Tasks : Share(t)
      BY <1>1, <3>2 DEF Share, world, local
    <3> QED BY <2>1, <3>1, <3>2 DEF People
  <2>2. CASE \E i \in 1..MaxReviews : MoveReview(i) \/ MoveBack(i) \/ ExecutorMarks(i)
    BY <1>1, <2>2 DEF MoveReview, MoveBack, ExecutorMarks, world, local
  <2>3. CASE (\E t \in Tasks : Outage(t)) \/ \E r \in Rows : RowTested(r)
    BY <1>1, <2>3 DEF Outage, RowTested, local
  <2> QED BY <1>7, <2>1, <2>2, <2>3 DEF Others
<1>8. CASE Start \/ Time \/ UNCHANGED vars
  BY <1>1, <1>8 DEF Start, Time, ChecksFallDue, RetryFallsDue, vars, world, local
<1> QED BY <1>4, <1>5, <1>6, <1>7, <1>8 DEF Next

-----------------------------------------------------------------------------
(* Counting                                                                *)

LEMMA Counts ==
    ASSUME NEW B, IsFiniteSet(B), NEW A, NEW x, A \subseteq B \cup {x}
    PROVE  /\ Cardinality(A) \in Nat /\ Cardinality(B) \in Nat
           /\ Cardinality(A) <= Cardinality(B) + 1
           /\ A \subseteq B => Cardinality(A) <= Cardinality(B)
           /\ A \subseteq B \ {x} /\ x \in B => Cardinality(A) <= Cardinality(B) - 1
<1>1. IsFiniteSet(B \cup {x}) /\ IsFiniteSet(B \ {x})
  BY FS_AddElement, FS_RemoveElement
<1>2. Cardinality(B) \in Nat
  BY FS_CardinalityType
<1>3. Cardinality(B \cup {x}) <= Cardinality(B) + 1 /\ Cardinality(B \cup {x}) \in Nat
  <2>1. Cardinality(B \cup {x}) = Cardinality(B) \/ Cardinality(B \cup {x}) = Cardinality(B) + 1
    BY FS_AddElement
  <2> QED BY <1>2, <2>1
<1>4. /\ IsFiniteSet(A) /\ Cardinality(A) <= Cardinality(B \cup {x})
      /\ A \subseteq B => Cardinality(A) <= Cardinality(B)
      /\ A \subseteq B \ {x} => Cardinality(A) <= Cardinality(B \ {x})
  BY <1>1, FS_Subset
<1>5. Cardinality(A) \in Nat
  BY <1>4, FS_CardinalityType
<1>6. x \in B => Cardinality(B \ {x}) = Cardinality(B) - 1
  BY FS_RemoveElement
<1>7. Cardinality(A) <= Cardinality(B) + 1
  BY <1>2, <1>3, <1>4, <1>5
<1> QED BY <1>2, <1>4, <1>5, <1>6, <1>7

LEMMA Finite ==
    ASSUME Shape, NEW k
    PROVE  /\ IsFiniteSet(OwedOf(k)) /\ Cardinality(OwedOf(k)) \in Nat
           /\ IsFiniteSet(ReviewsOf(k)) /\ Cardinality(ReviewsOf(k)) \in Nat
<1>1. IsFiniteSet(OwedOf(k))
  BY TaskPollerAssumption, FS_Subset DEF OwedOf
<1>2. IsFiniteSet(1..Len(reviews)) /\ DOMAIN reviews = 1..Len(reviews)
  BY FS_Interval DEF Shape, Typed, DataTypes
<1>3. IsFiniteSet(ReviewsOf(k))
  BY <1>2, FS_Subset DEF ReviewsOf
<1> QED BY <1>1, <1>3, FS_CardinalityType

\* The step adds at most d to the reviews of a checkpoint and those owed.
Adds(k, d) == Total(k)' \in Nat /\ Total(k)' <= Total(k) + d

LEMMA Added ==
    ASSUME Shape, NEW k, ReviewsOf(k)' = ReviewsOf(k), NEW x, NEW y
    PROVE  /\ OwedOf(k)' \subseteq OwedOf(k) => Adds(k, 0)
           /\ OwedOf(k)' \subseteq OwedOf(k) \ {y} /\ y \in OwedOf(k) => Adds(k, -1)
           /\ OwedOf(k)' \subseteq OwedOf(k) \cup {x} => Adds(k, 1)
           /\ OwedOf(k)' \subseteq (OwedOf(k) \ {y}) \cup {x} /\ y \in OwedOf(k) => Adds(k, 0)
<1> DEFINE O == OwedOf(k)
           N == OwedOf(k)'
           R == Cardinality(ReviewsOf(k))
<1>1. IsFiniteSet(O) /\ Cardinality(O) \in Nat /\ R \in Nat
  BY Finite
<1>2. Total(k) = R + Cardinality(O) /\ Total(k)' = R + Cardinality(N)
  BY DEF Total
<1> HIDE DEF O, N, R
<1>3. ASSUME N \subseteq O PROVE Adds(k, 0)
  <2>1. Cardinality(N) \in Nat /\ Cardinality(N) <= Cardinality(O)
    BY <1>1, <1>3, Counts
  <2> QED BY <1>1, <1>2, <2>1 DEF Adds
<1>4. ASSUME N \subseteq O \ {y}, y \in O PROVE Adds(k, -1)
  <2>1. Cardinality(N) \in Nat /\ Cardinality(N) <= Cardinality(O) - 1
    <3>1. N \subseteq O \cup {y}
      BY <1>4
    <3> QED BY <1>1, <1>4, <3>1, Counts
  <2> QED BY <1>1, <1>2, <2>1 DEF Adds
<1>5. ASSUME N \subseteq O \cup {x} PROVE Adds(k, 1)
  <2>1. Cardinality(N) \in Nat /\ Cardinality(N) <= Cardinality(O) + 1
    BY <1>1, <1>5, Counts
  <2> QED BY <1>1, <1>2, <2>1 DEF Adds
<1>6. ASSUME N \subseteq (O \ {y}) \cup {x}, y \in O PROVE Adds(k, 0)
  <2>1. IsFiniteSet(O \ {y}) /\ Cardinality(O \ {y}) = Cardinality(O) - 1
    BY <1>1, <1>6, FS_RemoveElement
  <2>2. Cardinality(N) \in Nat /\ Cardinality(N) <= Cardinality(O \ {y}) + 1
    BY <1>6, <2>1, Counts
  <2> QED BY <1>1, <1>2, <2>1, <2>2 DEF Adds
<1> QED BY <1>3, <1>4, <1>5, <1>6 DEF O, N

\* With a new review of the checkpoint.
LEMMA Asked ==
    ASSUME Shape, NEW k, NEW n, ReviewsOf(k)' = ReviewsOf(k) \cup {n}, NEW y
    PROVE  /\ OwedOf(k)' \subseteq OwedOf(k) => Adds(k, 1)
           /\ OwedOf(k)' \subseteq OwedOf(k) \ {y} /\ y \in OwedOf(k) => Adds(k, 0)
<1> DEFINE O == OwedOf(k)
           N == OwedOf(k)'
           R == ReviewsOf(k)
           S == ReviewsOf(k)'
<1>1. IsFiniteSet(O) /\ Cardinality(O) \in Nat /\ IsFiniteSet(R) /\ Cardinality(R) \in Nat
  BY Finite
<1>2. /\ Total(k) = Cardinality(R) + Cardinality(O)
      /\ Total(k)' = Cardinality(S) + Cardinality(N) /\ S = R \cup {n}
  BY DEF Total
<1> HIDE DEF O, N, R, S
<1>3. Cardinality(S) \in Nat /\ Cardinality(S) <= Cardinality(R) + 1
  BY <1>1, <1>2, Counts
<1>4. ASSUME N \subseteq O PROVE Adds(k, 1)
  <2>1. Cardinality(N) \in Nat /\ Cardinality(N) <= Cardinality(O)
    BY <1>1, <1>4, Counts
  <2> QED BY <1>1, <1>2, <1>3, <2>1 DEF Adds
<1>5. ASSUME N \subseteq O \ {y}, y \in O PROVE Adds(k, 0)
  <2>1. Cardinality(N) \in Nat /\ Cardinality(N) <= Cardinality(O) - 1
    <3>1. N \subseteq O \cup {y}
      BY <1>5
    <3> QED BY <1>1, <1>5, <3>1, Counts
  <2> QED BY <1>1, <1>2, <1>3, <2>1 DEF Adds
<1> QED BY <1>4, <1>5 DEF O, N

\* What pays for it.
LEMMA Pays ==
    ASSUME Shape, NEW k \in Keys, Balance(k),
           \/ Adds(k, -1) /\ lapses' = lapses
           \/ Adds(k, 0) /\ lapses' = lapses /\ (Backed(k) => Backed(k)')
           \/ Adds(k, 0) /\ lapses' = lapses + 1
           \/ Adds(k, 1) /\ lapses' = lapses /\ ~Backed(k) /\ Backed(k)'
           \/ Adds(k, 1) /\ lapses' = lapses + 1 /\ (Backed(k) => Backed(k)')
    PROVE  Balance(k)'
<1>1. Total(k) \in Nat /\ lapses \in Nat
  BY Finite DEF Total, Shape, Typed, DataTypes
<1>2. /\ Backed(k) => Credit(k) = lapses + 1
      /\ ~Backed(k) => Credit(k) = lapses
      /\ Backed(k)' => Credit(k)' = lapses' + 1
      /\ ~Backed(k)' => Credit(k)' = lapses'
  BY <1>1 DEF Credit
<1>3. Total(k) <= Credit(k) /\ (Balance(k)' <=> Total(k)' <= Credit(k)')
  BY DEF Balance
<1> HIDE DEF Credit, Total, Balance, Backed
<1>4. CASE Adds(k, -1) /\ lapses' = lapses
  BY <1>1, <1>2, <1>3, <1>4 DEF Adds
<1>5. CASE Adds(k, 0) /\ (lapses' = lapses + 1 \/ (lapses' = lapses /\ (Backed(k) => Backed(k)')))
  BY <1>1, <1>2, <1>3, <1>5 DEF Adds
<1>6. CASE Adds(k, 1) /\ lapses' = lapses /\ ~Backed(k) /\ Backed(k)'
  BY <1>1, <1>2, <1>3, <1>6 DEF Adds
<1>7. CASE Adds(k, 1) /\ lapses' = lapses + 1 /\ (Backed(k) => Backed(k)')
  BY <1>1, <1>2, <1>3, <1>7 DEF Adds
<1> QED BY <1>4, <1>5, <1>6, <1>7

\* The reviews keep the entries that they were made for.
SameReviews == /\ DOMAIN reviews' = DOMAIN reviews
               /\ \A i \in DOMAIN reviews : reviews'[i].key = reviews[i].key

\* A step that makes no review, and after which no entry may get one that might not
\* before, while what was handled stays so and what was in hand is accounted for.
LEMMA Settles ==
    ASSUME Shape, Balanced, UNCHANGED <<listed, lapses>>, SameReviews,
           \A l \in Keys : Owed(l)' => Owed(l),
           \A l \in Keys : Stored(l) => Stored(l)',
           \A l \in Keys : InHand(l) => InHand(l)' \/ Stored(l)' \/ Owed(l)
    PROVE  Balanced'
<1> SUFFICES ASSUME NEW k \in Keys PROVE Balance(k)'
  BY DEF Balanced
<1>1. ReviewsOf(k)' = ReviewsOf(k)
  BY DEF ReviewsOf, SameCheckpoint, SameReviews
<1>2. OwedOf(k)' \subseteq OwedOf(k)
  BY DEF OwedOf, SameCheckpoint
<1>3. Balance(k)
  BY DEF Balanced
<1>4. CASE Backed(k) => Backed(k)'
  <2>1. Adds(k, 0)
    BY <1>1, <1>2, Added
  <2> QED BY <1>3, <1>4, <2>1, Pays
<1>5. CASE Backed(k) /\ ~Backed(k)'
  <2>1. PICK l \in Keys : /\ SameCheckpoint(l, k)
                          /\ Stored(l) \/ (l \in listed /\ (Owed(l) \/ InHand(l)))
    BY <1>5 DEF Backed
  <2>2. Owed(l) /\ ~Owed(l)'
    BY <1>5, <2>1 DEF Backed, SameCheckpoint
  <2>3. OwedOf(k)' \subseteq OwedOf(k) \ {l} /\ l \in OwedOf(k)
    BY <1>2, <2>1, <2>2 DEF OwedOf, SameCheckpoint
  <2>4. Adds(k, -1)
    BY <1>1, <2>3, Added
  <2> QED BY <1>3, <2>4, Pays
<1> QED BY <1>4, <1>5

\* An entry that a run may come to claim was such before, if no decision on it has been
\* dropped, and no state but a final one is new.
LEMMA OpenBefore ==
    ASSUME NEW l \in Keys, Open(l)', Settling(l) => Settling(l)', Waiting(l)' => Waiting(l),
           item'[l].status = "none" => item[l].status = "none",
           l \in listed' => l \in listed,
           \A h \in Handlers : l \in Hands(h)' => l \in listed \/ l \in Hands(h),
           \A m \in Keys : Stored(m) => Stored(m)'
    PROVE  Open(l)
BY DEF Open, SameCheckpoint, Waiting

-----------------------------------------------------------------------------
(* The steps that settle                                                   *)

\* Steps that leave alone what is listed and what is stored, and what the runs have in
\* hand.
LEMMA AloneSettles ==
    ASSUME Shape, Balanced, UNCHANGED <<listed, lapses, item, work, made>>, SameReviews,
           \A h \in Handlers : \/ pc'[h] = pc[h] /\ late'[h] = late[h]
                               \/ work[h] = {} /\ made[h] = Nothing
    PROVE  Balanced'
<1>1. \A h \in Handlers : \A l \in Keys :
          /\ Holds(h, l)' <=> Holds(h, l)
          /\ Claims(h, l)' <=> Claims(h, l)
          /\ l \in Hands(h)' <=> l \in Hands(h)
  BY TaskPollerAssumption DEF Holds, Claims, Hands, AtEntries, Nothing
<1>2. \A l \in Keys : (InHand(l)' <=> InHand(l)) /\ (Stored(l)' <=> Stored(l))
  BY <1>1 DEF InHand, Stored
<1>3. \A l \in Keys : Settling(l) => Settling(l)'
  BY DEF Settling
<1>4. \A l \in Keys : Open(l)' => Open(l)
  BY <1>1, <1>2, <1>3, OpenBefore DEF Waiting
<1>5. \A l \in Keys : Owed(l)' => Owed(l)
  BY <1>1, <1>4 DEF Owed
<1> QED BY <1>2, <1>5, Settles

\* Steps of one run in which it decides on nothing.
LEMMA FetchSettles ==
    ASSUME Shape, Balanced, NEW h \in Handlers, Fetch(h) PROVE Balanced'
<1>1. /\ pc[h] = "fetch" /\ work[h] = {} /\ made[h] = Nothing /\ pc'[h] = "plan"
      /\ work'[h] \subseteq listed /\ UNCHANGED <<listed, lapses, item, made, reviews, late>>
      /\ OnlyOne(h)
  BY DEF Fetch, Shape, Hand, Named, world, entries, bounds, OnlyOne, Typed, RunTypes
<1>2. \A g \in Handlers : \A l \in Keys :
          /\ Holds(g, l)' <=> Holds(g, l)
          /\ Claims(g, l)' <=> Claims(g, l)
          /\ l \in Hands(g)' => l \in listed \/ l \in Hands(g)
  BY <1>1, TaskPollerAssumption DEF Holds, Claims, Hands, AtEntries, Nothing, OnlyOne
<1>3. \A l \in Keys : (InHand(l)' <=> InHand(l)) /\ (Stored(l)' <=> Stored(l))
  BY <1>1, <1>2 DEF InHand, Stored
<1>4. \A l \in Keys : Settling(l) => Settling(l)'
  BY <1>1 DEF Settling
<1>5. \A l \in Keys : Open(l)' => Open(l)
  BY <1>1, <1>2, <1>3, <1>4, OpenBefore DEF Waiting
<1>6. \A l \in Keys : Owed(l)' => Owed(l)
  BY <1>2, <1>5 DEF Owed
<1> QED BY <1>1, <1>3, <1>6, Settles DEF SameReviews

LEMMA DetectionSettles ==
    ASSUME Shape, Balanced, NEW h \in Handlers, DetectionFails(h) PROVE Balanced'
<1>1. /\ pc[h] = "plan" /\ made[h] = Nothing /\ made'[h] = Nothing /\ pc'[h] = "pick"
      /\ work'[h] = {} /\ OnlyOne(h) /\ UNCHANGED <<listed, lapses, item, reviews>>
      /\ \A g \in Handlers \ {h} : late'[g] = late[g]
  BY DEF DetectionFails, Leave, Shape, Hand, world, entries, OnlyOne, Typed, RunTypes
<1>2. \A g \in Handlers : \A l \in Keys :
          /\ Holds(g, l)' <=> Holds(g, l)
          /\ Claims(g, l)' <=> Claims(g, l)
          /\ l \in Hands(g)' => l \in Hands(g)
  BY <1>1, TaskPollerAssumption DEF Holds, Claims, Hands, AtEntries, Nothing, OnlyOne
<1>3. \A l \in Keys : (InHand(l)' <=> InHand(l)) /\ (Stored(l)' <=> Stored(l))
  BY <1>1, <1>2 DEF InHand, Stored
<1>4. \A l \in Keys : Settling(l) => Settling(l)'
  BY <1>1, TaskPollerAssumption DEF Settling, OnlyOne, Nothing
<1>5. \A l \in Keys : Open(l)' => Open(l)
  BY <1>1, <1>2, <1>3, <1>4, OpenBefore DEF Waiting
<1>6. \A l \in Keys : Owed(l)' => Owed(l)
  BY <1>2, <1>5 DEF Owed
<1> QED BY <1>1, <1>3, <1>6, Settles DEF SameReviews

\* The plan goes on with entries that have no state, in no spelling, and with those
\* that waited.
LEMMA PlanPicks ==
    ASSUME Shape, NEW h \in Handlers, Plan(h)
    PROVE  /\ \A k \in work'[h] :
                 /\ k \in work[h] /\ (k \in late'[h] <=> Settling(k))
                 /\ \/ Waiting(k)
                    \/ /\ item[k] = Unknown
                       /\ \A l \in Keys : SameCheckpoint(l, k) => item[l].status \notin Equivalent
           /\ \A k \in Keys : \/ item'[k] = item[k]
                              \/ /\ item'[k].status = "ended"
                                 /\ item[k].status = "pending" \/ item[k] = Unknown
<1>0. /\ work[h] \subseteq Keys /\ item \in [Keys -> EntryStates]
      /\ work \in [Handlers -> SUBSET Keys] /\ late \in [Handlers -> SUBSET Keys]
  BY DEF Shape, Typed, RunTypes, DataTypes
<1>1. PICK state \in [work[h] -> UNION {States(k) : k \in work[h]}] :
        /\ \A k \in work[h] : state[k] \in States(k)
        /\ item' = [k \in Keys |-> IF k \in work[h] /\ Stale(state[k])
                                   THEN Refreshed(state[k]) ELSE item[k]]
        /\ LET todo == {k \in work[h] : ShouldProcess(k, Refreshed(state[k]))}
           IN  /\ work' = [work EXCEPT ![h] = todo]
               /\ reserved' = [reserved EXCEPT ![h] =
                                   ReservedRows({Refreshed(state[k]) : k \in work[h]})]
               /\ late' = [late EXCEPT ![h] = {k \in todo : Settling(k)}]
  BY PlanDoes, ZenonT(60)
<1> DEFINE todo == {k \in work[h] : ShouldProcess(k, Refreshed(state[k]))}
<1>2. work'[h] = todo /\ late'[h] = {k \in todo : Settling(k)}
  BY <1>0, <1>1
<1>3. ASSUME NEW k \in work[h]
      PROVE  \/ /\ state[k] = item[k]
                /\ item[k] = Unknown =>
                      \A l \in Keys : SameCheckpoint(l, k) => item[l].status \notin Equivalent
             \/ \E l \in Keys : state[k] = item[l] /\ item[l].status \in Equivalent
                                /\ item[k] = Unknown
  <2>1. state[k] \in States(k) /\ k \in Keys
    BY <1>0, <1>1
  <2> DEFINE alike == {l \in Keys \ {k} : SameCheckpoint(k, l) /\ item[l].status \in Equivalent}
  <2>2. CASE item[k] # Unknown
    BY <2>1, <2>2 DEF States
  <2>3. CASE item[k] = Unknown /\ alike = {}
    <3>1. state[k] = item[k]
      BY <2>1, <2>3 DEF States
    <3>2. item[k].status \notin Equivalent
      BY <2>3 DEF Unknown, Equivalent
    <3> QED BY <2>3, <3>1, <3>2 DEF SameCheckpoint
  <2>4. CASE item[k] = Unknown /\ alike # {}
    <3>1. \E l \in alike : state[k] = item[l]
      BY <2>1, <2>4 DEF States
    <3> QED BY <2>4, <3>1
  <2> QED BY <2>2, <2>3, <2>4
<1>4. \A k \in work[h] : state[k] \in EntryStates
  BY <1>0, <1>3
<1>5. ASSUME NEW s \in EntryStates
      PROVE  /\ Stale(s) => s.status = "pending" /\ Refreshed(s).status = "ended"
             /\ ~Stale(s) => Refreshed(s) = s
  BY DEF Stale, Refreshed, EntryStates
<1>6. ASSUME NEW k \in todo
      PROVE  \/ Waiting(k)
             \/ /\ item[k] = Unknown
                /\ \A l \in Keys : SameCheckpoint(l, k) => item[l].status \notin Equivalent
  <2>1. k \in work[h] /\ k \in Keys /\ ShouldProcess(k, Refreshed(state[k]))
    BY <1>0
  <2>2. Refreshed(state[k]).status \in {"none", "retry_waiting"}
    BY <2>1 DEF ShouldProcess, Unknown
  <2>3. Refreshed(state[k]) = state[k]
    BY <1>4, <1>5, <2>1, <2>2
  <2>4. /\ state[k] = item[k]
        /\ item[k] = Unknown =>
               \A l \in Keys : SameCheckpoint(l, k) => item[l].status \notin Equivalent
    BY <1>3, <2>1, <2>2, <2>3 DEF Equivalent
  <2> QED BY <2>1, <2>3, <2>4 DEF ShouldProcess, Waiting
<1>7. ASSUME NEW k \in Keys
      PROVE  \/ item'[k] = item[k]
             \/ /\ item'[k].status = "ended"
                /\ item[k].status = "pending" \/ item[k] = Unknown
  <2>1. item'[k] = IF k \in work[h] /\ Stale(state[k]) THEN Refreshed(state[k]) ELSE item[k]
    BY <1>1
  <2>2. CASE k \in work[h] /\ Stale(state[k])
    <3>1. item'[k].status = "ended" /\ state[k].status = "pending"
      BY <1>4, <1>5, <2>1, <2>2
    <3> QED BY <1>3, <2>2, <3>1
  <2> QED BY <2>1, <2>2
<1>8. \A k \in work'[h] : k \in work[h] /\ (k \in late'[h] <=> Settling(k))
  BY <1>2
<1> QED BY <1>2, <1>6, <1>7, <1>8

LEMMA PlanSettles ==
    ASSUME Shape, Balanced, NEW h \in Handlers, Plan(h) PROVE Balanced'
<1>1. /\ pc[h] = "plan" /\ pc'[h] = "each" /\ made[h] = Nothing /\ made' = made
      /\ UNCHANGED <<listed, lapses, reviews>> /\ OnlyOne(h)
      /\ \A g \in Handlers \ {h} : late'[g] = late[g]
  BY PlanDoes DEF Plan, Shape, Hand, world, bounds, OnlyOne, Typed, RunTypes
<1>2. /\ \A k \in work'[h] :
            /\ k \in work[h] /\ (k \in late'[h] <=> Settling(k))
            /\ \/ Waiting(k)
               \/ /\ item[k] = Unknown
                  /\ \A l \in Keys : SameCheckpoint(l, k) => item[l].status \notin Equivalent
      /\ \A k \in Keys : \/ item'[k] = item[k]
                         \/ /\ item'[k].status = "ended"
                            /\ item[k].status = "pending" \/ item[k] = Unknown
  BY PlanPicks
<1>3. \A l \in Keys : /\ \A g \in Handlers \ {h} : /\ Holds(g, l)' <=> Holds(g, l)
                                                   /\ Claims(g, l)' <=> Claims(g, l)
                      /\ ~Holds(h, l) /\ (Holds(h, l)' <=> l \in work'[h])
                      /\ Claims(h, l)' <=> l \in work'[h] /\ l \notin late'[h]
                      /\ \A g \in Handlers : l \in Hands(g)' => l \in Hands(g)
  BY <1>1, <1>2, TaskPollerAssumption DEF Holds, Claims, Hands, AtEntries, Nothing, OnlyOne
<1>4. \A l \in Keys : InHand(l)' <=> InHand(l) \/ l \in work'[h]
  BY <1>3 DEF InHand
<1>5. \A l \in Keys : Stored(l) => Stored(l)'
  <2>1. ASSUME NEW l \in Keys, Stored(l) PROVE Stored(l)'
    <3>1. item[l].status \in Equivalent /\ item[l] # Unknown /\ ~Waiting(l)
      BY <2>1 DEF Stored, Equivalent, Unknown, Waiting
    <3>2. l \notin work'[h] /\ item'[l].status \in Equivalent
      BY <1>2, <3>1 DEF Equivalent
    <3> QED BY <1>4, <2>1, <3>2 DEF Stored
  <2> QED BY <2>1
<1>6. ASSUME NEW l \in Keys, Claims(h, l)' PROVE Open(l)
  <2>1. l \in work'[h] /\ l \in work[h] /\ ~Settling(l)
    BY <1>2, <1>3, <1>6
  <2>2. l \in Hands(h)
    BY <2>1 DEF Hands
  <2>3. \/ Waiting(l)
        \/ /\ item[l] = Unknown
           /\ \A m \in Keys : SameCheckpoint(m, l) => item[m].status \notin Equivalent
    BY <1>2, <2>1
  <2> QED BY <2>1, <2>2, <2>3 DEF Open, Stored, Unknown
<1>7. ASSUME NEW l \in Keys, Open(l)' PROVE Open(l)
  <2>1. Settling(l) => Settling(l)'
    BY <1>1 DEF Settling
  <2>2. (Waiting(l)' => Waiting(l)) /\ (item'[l].status = "none" => item[l].status = "none")
    BY <1>2 DEF Waiting
  <2> QED BY <1>1, <1>3, <1>5, <1>7, <2>1, <2>2, OpenBefore
<1>8. \A l \in Keys : Owed(l)' => Owed(l)
  BY <1>3, <1>6, <1>7 DEF Owed
<1> QED BY <1>1, <1>4, <1>5, <1>8, Settles DEF SameReviews

\* The run decides on an entry, and makes no review.
LEMMA MakeSettles ==
    ASSUME Shape, Balanced, NEW h \in Handlers, NEW k \in Keys,
           ScheduleRetry(h, k) \/ PlanFails(h, k)
    PROVE  Balanced'
<1>1. /\ pc[h] = "each" /\ k \in work[h] /\ pc'[h] = "made" /\ work'[h] = work[h] \ {k}
      /\ made[h] = Nothing /\ made'[h].key = k
      /\ UNCHANGED <<listed, lapses, item, reviews, late>> /\ OnlyOne(h)
  BY DEF ScheduleRetry, PlanFails, Make, Shape, Hand, world, entries, bounds, OnlyOne,
         Typed, RunTypes
<1>2. \A l \in Keys : /\ \A g \in Handlers \ {h} : /\ Holds(g, l)' <=> Holds(g, l)
                                                   /\ Claims(g, l)' <=> Claims(g, l)
                      /\ Holds(h, l)' <=> Holds(h, l)
                      /\ Claims(h, l)' => Claims(h, l)
                      /\ \A g \in Handlers : l \in Hands(g)' => l \in Hands(g)
  BY <1>1, TaskPollerAssumption DEF Holds, Claims, Hands, AtEntries, Nothing, OnlyOne
<1>3. \A l \in Keys : (InHand(l)' <=> InHand(l)) /\ (Stored(l)' <=> Stored(l))
  BY <1>1, <1>2 DEF InHand, Stored
<1>4. \A l \in Keys : Settling(l) => Settling(l)'
  BY <1>1, TaskPollerAssumption DEF Settling, OnlyOne, Nothing
<1>5. \A l \in Keys : Open(l)' => Open(l)
  BY <1>1, <1>2, <1>3, <1>4, OpenBefore DEF Waiting
<1>6. \A l \in Keys : Owed(l)' => Owed(l)
  BY <1>2, <1>5 DEF Owed
<1> QED BY <1>1, <1>3, <1>6, Settles DEF SameReviews

\* Steps that store something about entries beside the runs.
LEMMA StoreSettles ==
    ASSUME Shape, Balanced, UNCHANGED <<listed, lapses, work, made, pc, late>>, SameReviews,
           \A k \in Keys : item[k].status \in Equivalent => item'[k].status \in Equivalent,
           \A k \in Keys : \/ item'[k] = item[k]
                           \/ item'[k].status \in Equivalent \cup {"task_unavailable"}
    PROVE  Balanced'
<1>1. \A h \in Handlers : \A l \in Keys :
          /\ Holds(h, l)' <=> Holds(h, l)
          /\ Claims(h, l)' <=> Claims(h, l)
          /\ l \in Hands(h)' <=> l \in Hands(h)
  BY DEF Holds, Claims, Hands, AtEntries
<1>2. \A l \in Keys : (InHand(l)' <=> InHand(l)) /\ (Stored(l) => Stored(l)')
  BY <1>1 DEF InHand, Stored
<1>3. \A l \in Keys : Settling(l) => Settling(l)'
  BY DEF Settling
<1>4. \A l \in Keys : /\ Waiting(l)' => Waiting(l)
                      /\ item'[l].status = "none" => item[l].status = "none"
  BY DEF Waiting, Equivalent
<1>5. \A l \in Keys : Open(l)' => Open(l)
  BY <1>1, <1>2, <1>3, <1>4, OpenBefore
<1>6. \A l \in Keys : Owed(l)' => Owed(l)
  BY <1>1, <1>5 DEF Owed
<1> QED BY <1>2, <1>6, Settles

LEMMA GiveUpSettles ==
    ASSUME Shape, Balanced, NEW n, NEW t, GiveUp(n, t) PROVE Balanced'
<1>1. /\ UNCHANGED <<listed, lapses, work, made, pc, late, reviews>>
      /\ item' = [k \in Keys |-> IF TaskOf[k] = t /\ Waiting(k)
                                 THEN [status |-> "task_unavailable", review |-> 0]
                                 ELSE item[k]]
  BY DEF GiveUp, world, local, bounds
<1>2. \A k \in Keys : item[k].status \in Equivalent => item'[k].status \in Equivalent
  BY <1>1 DEF Waiting, Equivalent
<1>3. \A k \in Keys : item'[k] = item[k] \/ item'[k].status \in Equivalent \cup {"task_unavailable"}
  BY <1>1
<1> QED BY <1>1, <1>2, <1>3, StoreSettles DEF SameReviews

LEMMA StartSettles == ASSUME Shape, Balanced, Start PROVE Balanced'
<1>1. /\ UNCHANGED <<listed, lapses, work, made, pc, late, reviews>>
      /\ item' = [k \in Keys |-> Refreshed(item[k])]
  BY DEF Start, world, local, bounds
<1>2. \A k \in Keys : item[k] \in EntryStates
  BY DEF Shape, Typed, DataTypes
<1>3. ASSUME NEW s \in EntryStates
      PROVE  Refreshed(s) = s \/ Refreshed(s).status = "ended"
  BY DEF Refreshed, Stale, EntryStates
<1>4. \A k \in Keys : item'[k] = item[k] \/ item'[k].status = "ended"
  BY <1>1, <1>2, <1>3
<1>5. /\ \A k \in Keys : item[k].status \in Equivalent => item'[k].status \in Equivalent
      /\ \A k \in Keys : \/ item'[k] = item[k]
                         \/ item'[k].status \in Equivalent \cup {"task_unavailable"}
  BY <1>4 DEF Equivalent
<1> QED BY <1>1, <1>5, StoreSettles DEF SameReviews

LEMMA SameKeys ==
    ASSUME reviews \in Seq(Review), NEW i \in DOMAIN reviews, NEW v \in Review,
           v.key = reviews[i].key, reviews' = [reviews EXCEPT ![i] = v]
    PROVE  SameReviews
BY DEF SameReviews

LEMMA ExecutorSettles ==
    ASSUME Shape, Balanced, NEW i, ExecutorMarks(i) PROVE Balanced'
<1> DEFINE v == [reviews[i] EXCEPT !.owed = "none"]
           k == reviews[i].key
           s == [status |-> reviews[i].owed, review |-> i]
<1>1. /\ i \in DOMAIN reviews /\ reviews[i] \in Review /\ reviews \in Seq(Review)
      /\ reviews[i].owed # "none" /\ item \in [Keys -> EntryStates]
      /\ UNCHANGED <<listed, lapses, work, made, pc, late>>
      /\ item' = [item EXCEPT ![k] = s]
  BY DEF ExecutorMarks, Mark, Shape, Typed, DataTypes, world, local, bounds
<1>2. v \in Review /\ v.key = reviews[i].key
  BY <1>1 DEF Review
<1>3. reviews' = [reviews EXCEPT ![i] = v]
  BY <1>1 DEF ExecutorMarks
<1>4. k \in Keys /\ s.status \in Equivalent
  BY <1>1 DEF Review, Equivalent
<1> HIDE DEF v, k, s
<1>5. SameReviews
  BY <1>1, <1>2, <1>3, SameKeys
<1>6. \A l \in Keys : item'[l] = item[l] \/ item'[l].status \in Equivalent
  BY <1>1, <1>4
<1> QED BY <1>1, <1>5, <1>6, StoreSettles

LEMMA ReviewSettles ==
    ASSUME Shape, Balanced, NEW i, MoveReview(i) \/ MoveBack(i) PROVE Balanced'
<1>1. reviews \in Seq(Review) /\ UNCHANGED <<listed, lapses, work, made, pc, late, item>>
  BY DEF MoveReview, MoveBack, Shape, Typed, DataTypes, local, bounds, entries
<1>2. /\ i \in DOMAIN reviews
      /\ \E v \in Review : v.key = reviews[i].key /\ reviews' = [reviews EXCEPT ![i] = v]
  BY <1>1, MovedReview
<1>3. SameReviews
  BY <1>1, <1>2, SameKeys
<1> QED BY <1>1, <1>3, AloneSettles

-----------------------------------------------------------------------------
(* The steps that cost                                                     *)

\* What the decision for a review changes: the entry stays in hand, and no run claims
\* it any longer.
LEMMA AskDoes ==
    ASSUME Shape, NEW h \in Handlers, NEW k \in Keys, NEW r \in Rows, NEW noted \in BOOLEAN,
           NEW st \in Equivalent, NEW id, Make(h, k, st, id), Ask(h, k, r, noted),
           UNCHANGED <<listed, item>>
    PROVE  /\ \A l \in Keys : (InHand(l)' <=> InHand(l)) /\ (Stored(l)' <=> Stored(l))
           /\ \A l \in Keys : Owed(l)' => Owed(l)
           /\ \A l \in Keys \ {k} : Owed(l) => Owed(l)'
           /\ InHand(k) /\ ~Owed(k)'
<1>1. /\ pc[h] = "each" /\ k \in work[h] /\ pc'[h] = "made" /\ work'[h] = work[h] \ {k}
      /\ made[h] = Nothing /\ made'[h].key = k /\ made'[h].status = st /\ OnlyOne(h)
      /\ late'[h] = late[h]
      /\ \A g \in Handlers \ {h} : /\ AtEntries(g) => late'[g] = late[g] \cup {k}
                                   /\ ~AtEntries(g) => late'[g] = late[g]
  BY DEF Make, Ask, Shape, Hand, OnlyOne, AtEntries, Typed, RunTypes
<1>2. \A g \in Handlers \ {h} : ~AtEntries(g) => made[g] = Nothing
  BY DEF AtEntries, Shape, Hand
<1>3. \A l \in Keys \ {k} : \A g \in Handlers :
          /\ Holds(g, l)' <=> Holds(g, l)
          /\ Claims(g, l)' <=> Claims(g, l)
          /\ l \in Hands(g)' <=> l \in Hands(g)
  <2>1. ASSUME NEW l \in Keys \ {k}
        PROVE  /\ Holds(h, l)' <=> Holds(h, l)
               /\ Claims(h, l)' <=> Claims(h, l)
               /\ l \in Hands(h)' <=> l \in Hands(h)
    BY <1>1, TaskPollerAssumption DEF Holds, Claims, Hands, AtEntries, Nothing
  <2>2. ASSUME NEW l \in Keys \ {k}, NEW g \in Handlers \ {h}
        PROVE  /\ Holds(g, l)' <=> Holds(g, l)
               /\ Claims(g, l)' <=> Claims(g, l)
               /\ l \in Hands(g)' <=> l \in Hands(g)
    <3>1. l \in late'[g] <=> l \in late[g]
      BY <1>1
    <3> QED BY <1>1, <3>1 DEF Holds, Claims, Hands, AtEntries, OnlyOne
  <2> QED BY <2>1, <2>2
<1>4. /\ Holds(h, k) /\ Holds(h, k)' /\ k \in Hands(h)
      /\ \A g \in Handlers : ~Claims(g, k)'
  <2>1. Holds(h, k) /\ Holds(h, k)' /\ k \in Hands(h) /\ ~Claims(h, k)'
    BY <1>1 DEF Holds, Hands, Claims, AtEntries, Equivalent
  <2>2. ASSUME NEW g \in Handlers \ {h} PROVE ~Claims(g, k)'
    <3>1. CASE AtEntries(g)
      BY <1>1, <3>1 DEF Claims
    <3>2. CASE ~AtEntries(g)
      <4>1. made'[g] = Nothing /\ ~AtEntries(g)'
        BY <1>1, <1>2, <3>2 DEF OnlyOne, AtEntries
      <4> QED BY <4>1, TaskPollerAssumption DEF Claims, Nothing
    <3> QED BY <3>1, <3>2
  <2> QED BY <2>1, <2>2
<1>5. \A l \in Keys : (InHand(l)' <=> InHand(l)) /\ (Stored(l)' <=> Stored(l))
  BY <1>3, <1>4 DEF InHand, Stored
<1>6. Settling(k)' /\ \A l \in Keys \ {k} : Settling(l)' <=> Settling(l)
  BY <1>1, TaskPollerAssumption DEF Settling, OnlyOne, Nothing
<1>7. \A l \in Keys \ {k} : Open(l)' <=> Open(l)
  BY <1>3, <1>5, <1>6 DEF Open, Waiting, SameCheckpoint
<1>8. ~Owed(k)'
  BY <1>4, <1>6 DEF Owed, Open
<1>9. \A l \in Keys \ {k} : Owed(l)' <=> Owed(l)
  BY <1>3, <1>7 DEF Owed
<1> QED BY <1>4, <1>5, <1>8, <1>9 DEF InHand

\* A new review is one that its entry was owed, or the lapse of a run that is late.
LEMMA ReviewPaid ==
    ASSUME Shape, Balanced, NEW h \in Handlers, NEW k \in Keys, NEW r \in Rows,
           NEW noted \in BOOLEAN, NEW st \in Equivalent, NEW id, Make(h, k, st, id),
           Ask(h, k, r, noted), UNCHANGED <<listed, item>>
    PROVE  Balanced'
<1> DEFINE new == [key |-> k, row |-> r, status |-> "pending", owed |-> "none",
                   kept |-> noted /\ h \notin overtaken]
<1>1. new.key = k
  OBVIOUS
<1>2. /\ reviews \in Seq(Review) /\ lapses \in Nat
      /\ reviews' = Append(reviews, new)
  BY DEF Ask, Shape, Typed, DataTypes
<1> HIDE DEF new
<1>3. /\ DOMAIN reviews' = DOMAIN reviews \cup {Len(reviews) + 1}
      /\ reviews'[Len(reviews) + 1].key = k
      /\ \A i \in DOMAIN reviews : reviews'[i] = reviews[i] /\ i # Len(reviews) + 1
  BY <1>1, <1>2
<1>4. /\ \A l \in Keys : (InHand(l)' <=> InHand(l)) /\ (Stored(l)' <=> Stored(l))
      /\ \A l \in Keys : Owed(l)' => Owed(l)
      /\ \A l \in Keys \ {k} : Owed(l) => Owed(l)'
      /\ InHand(k) /\ ~Owed(k)'
  BY AskDoes
<1>5. lapses' = IF k \in late[h] THEN lapses + 1 ELSE lapses
  BY DEF Ask
<1>6. k \notin late[h] => Owed(k)
  BY DEF Owed, Claims, AtEntries, Make
<1>7. ASSUME NEW c \in Keys PROVE Balance(c)'
  <2>1. OwedOf(c)' \subseteq OwedOf(c)
    BY <1>4 DEF OwedOf, SameCheckpoint
  <2>2. Backed(c) => Backed(c)'
    BY <1>4 DEF Backed, SameCheckpoint
  <2>3. Balance(c)
    BY DEF Balanced
  <2>4. CASE SameCheckpoint(k, c)
    <3>1. ReviewsOf(c)' = ReviewsOf(c) \cup {Len(reviews) + 1}
      BY <1>3, <2>4 DEF ReviewsOf, SameCheckpoint
    <3>2. CASE k \in late[h]
      <4>1. Adds(c, 1)
        BY <2>1, <3>1, Asked
      <4> QED BY <1>5, <2>2, <2>3, <3>2, <4>1, Pays
    <3>3. CASE k \notin late[h]
      <4>1. OwedOf(c)' \subseteq OwedOf(c) \ {k} /\ k \in OwedOf(c)
        BY <1>4, <1>6, <2>1, <2>4, <3>3 DEF OwedOf, SameCheckpoint
      <4>2. Adds(c, 0)
        BY <3>1, <4>1, Asked
      <4> QED BY <1>5, <2>2, <2>3, <3>3, <4>2, Pays
    <3> QED BY <3>2, <3>3
  <2>5. CASE ~SameCheckpoint(k, c)
    <3>1. ReviewsOf(c)' = ReviewsOf(c)
      BY <1>3, <2>5 DEF ReviewsOf, SameCheckpoint
    <3>2. Adds(c, 0)
      BY <2>1, <3>1, Added
    <3> QED BY <1>5, <2>2, <2>3, <3>2, Pays
  <2> QED BY <2>4, <2>5
<1> QED BY <1>7 DEF Balanced

LEMMA ReviewedPaid ==
    ASSUME Shape, Balanced, NEW h \in Handlers, NEW k \in Keys, NEW r \in Rows,
           CreateReview(h, k, r) \/ NoticeFails(h, k, r)
    PROVE  Balanced'
<1>1. CASE CreateReview(h, k, r)
  <2>1. "pending" \in Equivalent
    BY DEF Equivalent
  <2>2. UNCHANGED <<listed, item>>
    BY <1>1 DEF CreateReview, world, entries
  <2> QED BY <1>1, <2>1, <2>2, ReviewPaid DEF CreateReview
<1>2. CASE NoticeFails(h, k, r)
  <2>1. "failed_review" \in Equivalent
    BY DEF Equivalent
  <2>2. UNCHANGED <<listed, item>>
    BY <1>2 DEF NoticeFails, world, entries
  <2> QED BY <1>2, <2>1, <2>2, ReviewPaid DEF NoticeFails
<1> QED BY <1>1, <1>2

\* What the run has decided on is stored: the entry may be claimed again only if the
\* run was late to let it wait.
LEMMA MarkDoes ==
    ASSUME Shape, NEW h \in Handlers, MarkEntry(h), NEW k \in Keys, k = made[h].key
    PROVE  /\ UNCHANGED <<listed, reviews>>
           /\ \A l \in Keys : Stored(l) => Stored(l)'
           /\ \A l \in Keys \ {k} : /\ InHand(l)' <=> InHand(l)
                                    /\ Stored(l)' <=> Stored(l)
                                    /\ Owed(l)' => Owed(l)
           /\ InHand(k) /\ ~Stored(k)
           /\ \/ made[h].status \in Equivalent /\ (Owed(k)' => Owed(k))
                 /\ (InHand(k)' \/ Stored(k)')
              \/ /\ made[h].status = "retry_waiting" /\ ~Stored(k)'
                 /\ \A l \in Keys \ {k} : Owed(l) => Owed(l)'
                 /\ ~LateRetry(h) => (Owed(k)' => Owed(k)) /\ (Owed(k) \/ InHand(k)')
<1>1. /\ pc[h] = "made" /\ pc'[h] = "each" /\ made'[h] = Nothing /\ OnlyOne(h)
      /\ k \notin work[h] /\ UNCHANGED <<listed, reviews, work, late>>
      /\ made[h].status \in Equivalent \cup {"retry_waiting"}
      /\ item' = [item EXCEPT ![k] = [status |-> made[h].status, review |-> made[h].review]]
      /\ item \in [Keys -> EntryStates]
  BY DEF MarkEntry, Mark, world, OnlyOne, Shape, Hand, Typed, RunTypes, DataTypes
<1>2. /\ item'[k].status = made[h].status
      /\ \A l \in Keys \ {k} : item'[l] = item[l]
  BY <1>1
<1>3. /\ \A l \in Keys \ {k} : \A g \in Handlers :
            /\ Holds(g, l)' <=> Holds(g, l)
            /\ Claims(g, l)' <=> Claims(g, l)
            /\ l \in Hands(g)' <=> l \in Hands(g)
      /\ \A g \in Handlers \ {h} : /\ Holds(g, k)' <=> Holds(g, k)
                                   /\ Claims(g, k)' <=> Claims(g, k)
                                   /\ k \in Hands(g)' <=> k \in Hands(g)
      /\ Holds(h, k) /\ ~Holds(h, k)' /\ ~Claims(h, k)' /\ k \in Hands(h)
  BY <1>1, TaskPollerAssumption DEF Holds, Claims, Hands, AtEntries, Nothing, OnlyOne
<1>4. InHand(k) /\ \A l \in Keys \ {k} : InHand(l)' <=> InHand(l)
  BY <1>3 DEF InHand
<1>5. /\ ~Stored(k) /\ (Stored(k)' <=> ~InHand(k)' /\ made[h].status \in Equivalent)
      /\ \A l \in Keys \ {k} : Stored(l)' <=> Stored(l)
  BY <1>2, <1>4 DEF Stored
<1>6. \A l \in Keys \ {k} : Settling(l)' <=> Settling(l)
  BY <1>1, TaskPollerAssumption DEF Settling, OnlyOne, Nothing
<1>7. \A l \in Keys \ {k} : Open(l)' => Open(l)
  BY <1>1, <1>2, <1>3, <1>5, <1>6, OpenBefore DEF Waiting
<1>8. \A l \in Keys \ {k} : Owed(l)' => Owed(l)
  BY <1>3, <1>7 DEF Owed
<1>9. CASE made[h].status \in Equivalent
  <2>1. ~Open(k)'
    BY <1>2, <1>9 DEF Open, Waiting, Equivalent
  <2>2. Owed(k)' => Owed(k)
    BY <1>3, <2>1 DEF Owed
  <2> QED BY <1>1, <1>4, <1>5, <1>8, <1>9, <2>2
<1>10. CASE made[h].status = "retry_waiting"
  <2>1. ~Stored(k)' /\ \A l \in Keys : Stored(l)' <=> Stored(l)
    BY <1>5, <1>10 DEF Equivalent
  <2>2. \A l \in Keys \ {k} : Open(l) => Open(l)'
    BY <1>1, <1>2, <1>3, <1>6, <2>1 DEF Open, Waiting, SameCheckpoint
  <2>3. \A l \in Keys \ {k} : Owed(l) => Owed(l)'
    BY <1>3, <2>2 DEF Owed
  <2>4. ASSUME ~LateRetry(h) PROVE (Owed(k)' => Owed(k)) /\ (Owed(k) \/ InHand(k)')
    <3>1. CASE k \notin late[h]
      BY <1>10, <3>1 DEF Owed, Claims
    <3>2. CASE k \in late[h] /\ Waiting(k)
      <4>1. Settling(k) <=> \E g \in Handlers \ {h} : made[g].key = k /\ made[g].status \in Equivalent
        BY <1>10 DEF Settling, Equivalent
      <4>2. Settling(k)' <=> Settling(k)
        BY <1>1, <4>1, TaskPollerAssumption DEF Settling, OnlyOne, Nothing
      <4>3. Open(k) <=> ~Settling(k)
        BY <3>2 DEF Open, Waiting
      <4>4. Owed(k)' => Owed(k)
        BY <1>3, <4>2, <4>3 DEF Owed, Open
      <4>5. Settling(k) => InHand(k)'
        BY <1>3, <4>1 DEF InHand, Holds
      <4> QED BY <4>3, <4>4, <4>5 DEF Owed
    <3> QED BY <1>10, <2>4, <3>1, <3>2 DEF LateRetry
  <2> QED BY <1>1, <1>4, <1>5, <1>8, <1>10, <2>1, <2>3, <2>4
<1> QED BY <1>1, <1>9, <1>10

LEMMA MarkPaid ==
    ASSUME Shape, Balanced, NEW h \in Handlers, MarkEntry(h) PROVE Balanced'
<1>0. PICK k \in Keys : k = made[h].key
  BY DEF MarkEntry, Shape, Typed, RunTypes
<1>1. /\ UNCHANGED <<listed, reviews>>
      /\ \A l \in Keys : Stored(l) => Stored(l)'
      /\ \A l \in Keys \ {k} : /\ InHand(l)' <=> InHand(l)
                               /\ Stored(l)' <=> Stored(l)
                               /\ Owed(l)' => Owed(l)
      /\ InHand(k) /\ ~Stored(k)
      /\ \/ made[h].status \in Equivalent /\ (Owed(k)' => Owed(k)) /\ (InHand(k)' \/ Stored(k)')
         \/ /\ made[h].status = "retry_waiting" /\ ~Stored(k)'
            /\ \A l \in Keys \ {k} : Owed(l) => Owed(l)'
            /\ ~LateRetry(h) => (Owed(k)' => Owed(k)) /\ (Owed(k) \/ InHand(k)')
  BY <1>0, MarkDoes
<1>2. lapses' = IF LateRetry(h) THEN lapses + 1 ELSE lapses
  BY DEF MarkEntry
<1>3. SameReviews
  BY <1>1 DEF SameReviews
<1>4. CASE ~LateRetry(h)
  <2>1. \A l \in Keys : Owed(l)' => Owed(l)
    BY <1>1, <1>4
  <2>2. \A l \in Keys : InHand(l) => InHand(l)' \/ Stored(l)' \/ Owed(l)
    BY <1>1, <1>4
  <2> QED BY <1>1, <1>2, <1>3, <1>4, <2>1, <2>2, Settles
<1>5. CASE LateRetry(h)
  <2>1. made[h].status = "retry_waiting" /\ lapses' = lapses + 1
    BY <1>2, <1>5 DEF LateRetry
  <2>2. /\ ~Stored(k)' /\ \A l \in Keys \ {k} : Owed(l) <=> Owed(l)'
    BY <1>1, <2>1 DEF Equivalent
  <2>3. ASSUME NEW c \in Keys PROVE Balance(c)'
    <3>1. ReviewsOf(c)' = ReviewsOf(c)
      BY <1>1 DEF ReviewsOf, SameCheckpoint
    <3>2. Balance(c)
      BY DEF Balanced
    <3>3. CASE OwedOf(c)' \subseteq OwedOf(c)
      <4>1. Adds(c, 0)
        BY <3>1, <3>3, Added
      <4> QED BY <2>1, <3>2, <4>1, Pays
    <3>4. CASE ~(OwedOf(c)' \subseteq OwedOf(c))
      <4>1. SameCheckpoint(k, c) /\ Owed(k)' /\ OwedOf(c)' \subseteq OwedOf(c) \cup {k}
        BY <2>2, <3>4 DEF OwedOf, SameCheckpoint
      <4>2. Backed(c) => Backed(c)'
        BY <1>1, <2>2, <4>1 DEF Backed, SameCheckpoint
      <4>3. Adds(c, 1)
        BY <3>1, <4>1, Added
      <4> QED BY <2>1, <3>2, <4>2, <4>3, Pays
    <3> QED BY <3>3, <3>4
  <2> QED BY <2>3 DEF Balanced
<1> QED BY <1>4, <1>5

\* A death loses what the run had in hand: the entry that it had decided on may be
\* reviewed again.
LEMMA LeavePaid ==
    ASSUME Shape, Balanced, NEW h \in Handlers, Leave(h), lapses' = lapses + 1,
           UNCHANGED <<listed, item, reviews>>
    PROVE  Balanced'
<1>0. \E x : x = made[h].key
  OBVIOUS
<1> PICK x : x = made[h].key
  BY <1>0
<1>1. /\ pc'[h] = "pick" /\ work'[h] = {} /\ made'[h] = Nothing /\ OnlyOne(h)
      /\ \A g \in Handlers \ {h} : late'[g] = late[g]
  BY DEF Leave, OnlyOne, Shape, Typed, RunTypes
<1>2. \A l \in Keys : /\ \A g \in Handlers \ {h} : /\ Holds(g, l)' <=> Holds(g, l)
                                                   /\ Claims(g, l)' <=> Claims(g, l)
                                                   /\ l \in Hands(g)' <=> l \in Hands(g)
                      /\ ~Holds(h, l)' /\ ~Claims(h, l)' /\ l \notin Hands(h)'
                      /\ Holds(h, l) => l \in Hands(h)
  BY <1>1, TaskPollerAssumption DEF Holds, Claims, Hands, AtEntries, Nothing, OnlyOne
<1>3. /\ \A l \in Keys : InHand(l)' => InHand(l)
      /\ \A l \in Keys : Stored(l) => Stored(l)'
  BY <1>2 DEF InHand, Stored
<1>4. \A l \in Keys \ {x} : Settling(l) => Settling(l)'
  BY <1>1 DEF Settling, OnlyOne
<1>5. \A l \in Keys \ {x} : Owed(l)' => Owed(l)
  <2>1. \A l \in Keys \ {x} : Open(l)' => Open(l)
    BY <1>2, <1>3, <1>4, OpenBefore DEF Waiting
  <2> QED BY <1>2, <2>1 DEF Owed
<1>6. ASSUME NEW c \in Keys PROVE Balance(c)'
  <2>1. ReviewsOf(c)' = ReviewsOf(c)
    BY DEF ReviewsOf, SameCheckpoint
  <2>2. Balance(c)
    BY DEF Balanced
  <2>3. CASE OwedOf(c)' \subseteq OwedOf(c)
    <3>1. Adds(c, 0)
      BY <2>1, <2>3, Added
    <3> QED BY <2>2, <3>1, Pays
  <2>4. CASE ~(OwedOf(c)' \subseteq OwedOf(c))
    <3>1. /\ x \in Keys /\ SameCheckpoint(x, c) /\ Owed(x)'
          /\ OwedOf(c)' \subseteq OwedOf(c) \cup {x}
      BY <1>5, <2>4 DEF OwedOf, SameCheckpoint
    <3>2. CASE Backed(c) => Backed(c)'
      <4>1. Adds(c, 1)
        BY <2>1, <3>1, Added
      <4> QED BY <2>2, <3>2, <4>1, Pays
    <3>3. CASE Backed(c) /\ ~Backed(c)'
      <4>1. PICK m \in Keys : /\ SameCheckpoint(m, c)
                              /\ Stored(m) \/ (m \in listed /\ (Owed(m) \/ InHand(m)))
        BY <3>3 DEF Backed
      <4>2. /\ ~Stored(m) /\ m \in listed /\ ~Owed(m)' /\ ~InHand(m)'
        BY <1>3, <3>3, <4>1 DEF Backed, SameCheckpoint
      <4>3. m # x
        BY <3>1, <4>2
      <4>4. ~InHand(m)
        <5>1. ASSUME InHand(m) PROVE Holds(h, m)
          BY <1>2, <4>2, <5>1 DEF InHand
        <5>2. InHand(m) => m \in Hands(h)
          BY <1>2, <5>1
        <5>3. x \in Hands(h)
          BY <3>1 DEF Hands
        <5>4. \A k, l \in Hands(h) : SameCheckpoint(k, l) => k = l
          BY DEF Shape, Hand
        <5> QED BY <3>1, <4>1, <4>3, <5>2, <5>3, <5>4 DEF SameCheckpoint
      <4>5. m \in OwedOf(c) /\ OwedOf(c)' \subseteq (OwedOf(c) \ {m}) \cup {x}
        BY <3>1, <4>1, <4>2, <4>4 DEF OwedOf, SameCheckpoint
      <4>6. Adds(c, 0)
        BY <2>1, <4>5, Added
      <4> QED BY <2>2, <4>6, Pays
    <3> QED BY <3>2, <3>3
  <2> QED BY <2>3, <2>4
<1> QED BY <1>6 DEF Balanced

LEMMA EditDoes ==
    ASSUME Shape, NEW out, NEW in \in SUBSET Keys, EditEntries(out, in)
    PROVE  /\ UNCHANGED <<item, work, made, pc, reviews>>
           /\ listed' = (listed \ out) \cup in
           /\ \A k, l \in listed' : SameCheckpoint(k, l) => k = l
           /\ lapses' = lapses \/ lapses' = lapses + 1
           /\ lapses' = lapses => \A k \in out \cap Keys : ~InHand(k) /\ (Owed(k)' => k \in listed')
           /\ \A l \in Keys : (InHand(l)' <=> InHand(l)) /\ (Stored(l)' <=> Stored(l))
           /\ \A l \in Keys : Owed(l)' /\ ~Owed(l) =>
                  /\ l \in in \ listed
                  /\ \A m \in Keys : SameCheckpoint(m, l) => ~Stored(m)
<1>1. /\ UNCHANGED <<item, work, made, pc, late, reviews>>
      /\ listed' = (listed \ out) \cup in
      /\ \A k, l \in listed' : SameCheckpoint(k, l) => k = l
      /\ lapses' = IF \E k \in out : Unfinished(k) THEN lapses + 1 ELSE lapses
      /\ lapses \in Nat
  BY DEF EditEntries, Shape, Typed, DataTypes, local, entries
<1>2. \A h \in Handlers : \A l \in Keys :
          /\ Holds(h, l)' <=> Holds(h, l)
          /\ Claims(h, l)' <=> Claims(h, l)
          /\ l \in Hands(h)' <=> l \in Hands(h)
  BY <1>1 DEF Holds, Claims, Hands, AtEntries
<1>3. \A l \in Keys : /\ InHand(l)' <=> InHand(l)
                      /\ Stored(l)' <=> Stored(l)
                      /\ Settling(l)' <=> Settling(l)
                      /\ Waiting(l)' <=> Waiting(l)
  BY <1>1, <1>2 DEF InHand, Stored, Settling, Waiting
<1>4. ASSUME NEW l \in Keys, Owed(l)', ~Owed(l)
      PROVE  /\ l \in in \ listed
             /\ \A m \in Keys : SameCheckpoint(m, l) => ~Stored(m)
  <2>1. Open(l)' /\ ~Open(l)
    BY <1>2, <1>4 DEF Owed
  <2>2. /\ l \in listed' /\ l \notin listed
        /\ \A m \in Keys : SameCheckpoint(m, l) => ~Stored(m)
    BY <1>1, <1>2, <1>3, <2>1 DEF Open, SameCheckpoint
  <2> QED BY <1>1, <2>2
<1>5. ASSUME NEW k \in Keys, ~Unfinished(k) PROVE ~InHand(k) /\ (Owed(k)' => k \in listed')
  <2>1. /\ ~Waiting(k) /\ \A h \in Handlers : k \notin work[h] /\ made[h].key # k
    BY <1>5 DEF Unfinished
  <2>2. \A h \in Handlers : ~Holds(h, k) /\ ~Claims(h, k)' /\ k \notin Hands(h)'
    BY <1>2, <2>1 DEF Holds, Claims, Hands
  <2> QED BY <1>3, <2>1, <2>2 DEF InHand, Owed, Open
<1>6. lapses' = lapses \/ lapses' = lapses + 1
  BY <1>1
<1>7. lapses' = lapses => \A k \in out : ~Unfinished(k)
  BY <1>1
<1>8. lapses' = lapses => \A k \in out \cap Keys : ~InHand(k) /\ (Owed(k)' => k \in listed')
  BY <1>5, <1>7
<1> QED BY <1>1, <1>3, <1>4, <1>6, <1>8

\* What people change costs nothing unless they take away what is not finished.
LEMMA EditPaid ==
    ASSUME Shape, Balanced, NEW out, NEW in \in SUBSET Keys, \A k, l \in in : k = l,
           EditEntries(out, in)
    PROVE  Balanced'
<1>1. /\ UNCHANGED <<item, work, made, pc, reviews>>
      /\ listed' = (listed \ out) \cup in
      /\ \A k, l \in listed' : SameCheckpoint(k, l) => k = l
      /\ lapses' = lapses \/ lapses' = lapses + 1
      /\ lapses' = lapses => \A k \in out \cap Keys : ~InHand(k) /\ (Owed(k)' => k \in listed')
      /\ \A l \in Keys : (InHand(l)' <=> InHand(l)) /\ (Stored(l)' <=> Stored(l))
      /\ \A l \in Keys : Owed(l)' /\ ~Owed(l) =>
             /\ l \in in \ listed
             /\ \A m \in Keys : SameCheckpoint(m, l) => ~Stored(m)
  BY EditDoes
<1>2. ASSUME NEW k \in Keys PROVE Balance(k)'
  <2>1. ReviewsOf(k)' = ReviewsOf(k)
    BY <1>1 DEF ReviewsOf, SameCheckpoint
  <2>2. Balance(k)
    BY DEF Balanced
  <2>3. \A l \in Keys : SameCheckpoint(l, k) =>
            (l \in OwedOf(k) <=> Owed(l)) /\ (l \in OwedOf(k)' <=> Owed(l)')
    BY DEF OwedOf, SameCheckpoint
  <2>4. \A l \in OwedOf(k)' : l \in Keys /\ SameCheckpoint(l, k) /\ Owed(l)'
    BY DEF OwedOf, SameCheckpoint
  <2>5. CASE OwedOf(k)' \subseteq OwedOf(k)
    <3>1. CASE lapses' = lapses + 1 \/ (Backed(k) => Backed(k)')
      <4>1. Adds(k, 0)
        BY <2>1, <2>5, Added
      <4> QED BY <1>1, <2>2, <3>1, <4>1, Pays
    <3>2. CASE lapses' = lapses /\ Backed(k) /\ ~Backed(k)'
      <4>1. PICK m \in Keys : /\ SameCheckpoint(m, k)
                              /\ Stored(m) \/ (m \in listed /\ (Owed(m) \/ InHand(m)))
        BY <3>2 DEF Backed
      <4>2. ~Stored(m) /\ m \in listed
        BY <1>1, <3>2, <4>1 DEF Backed, SameCheckpoint
      <4>3. m \in listed' => ~Owed(m)' /\ ~InHand(m)
        BY <1>1, <3>2, <4>1 DEF Backed, SameCheckpoint
      <4>4. m \notin listed' => ~Owed(m)' /\ ~InHand(m)
        BY <1>1, <3>2, <4>2
      <4>5. OwedOf(k)' \subseteq OwedOf(k) \ {m} /\ m \in OwedOf(k)
        BY <2>3, <2>5, <4>1, <4>2, <4>3, <4>4
      <4>6. Adds(k, -1)
        BY <2>1, <4>5, Added
      <4> QED BY <2>2, <3>2, <4>6, Pays
    <3> QED BY <1>1, <3>1, <3>2
  <2>6. CASE \E y \in OwedOf(k)' : y \notin OwedOf(k)
    <3>1. PICK y \in OwedOf(k)' : y \notin OwedOf(k)
      BY <2>6
    <3>2. /\ y \in Keys /\ SameCheckpoint(y, k) /\ Owed(y)' /\ ~Owed(y)
          /\ y \in in \ listed
          /\ \A m \in Keys : SameCheckpoint(m, y) => ~Stored(m)
      BY <1>1, <2>3, <2>4, <3>1
    <3>3. \A z \in OwedOf(k)' : z \notin OwedOf(k) => z = y
      BY <1>1, <2>3, <2>4, <3>2
    <3>4. Backed(k)'
      BY <1>1, <3>2 DEF Backed, SameCheckpoint
    <3>5. CASE lapses' = lapses + 1 \/ ~Backed(k)
      <4>1. OwedOf(k)' \subseteq OwedOf(k) \cup {y}
        BY <3>3
      <4>2. Adds(k, 1)
        BY <2>1, <4>1, Added
      <4> QED BY <1>1, <2>2, <3>4, <3>5, <4>2, Pays
    <3>6. CASE lapses' = lapses /\ Backed(k)
      <4>1. PICK m \in Keys : /\ SameCheckpoint(m, k)
                              /\ Stored(m) \/ (m \in listed /\ (Owed(m) \/ InHand(m)))
        BY <3>6 DEF Backed
      <4>2. ~Stored(m) /\ m \in listed /\ m # y
        BY <3>2, <4>1 DEF SameCheckpoint
      <4>3. m \notin listed'
        BY <1>1, <3>2, <4>1, <4>2 DEF SameCheckpoint
      <4>4. ~InHand(m) /\ ~Owed(m)' /\ Owed(m)
        BY <1>1, <3>6, <4>1, <4>2, <4>3
      <4>5. m \in OwedOf(k) /\ OwedOf(k)' \subseteq (OwedOf(k) \ {m}) \cup {y}
        BY <2>3, <3>3, <4>1, <4>4
      <4>6. Adds(k, 0)
        BY <2>1, <4>5, Added
      <4> QED BY <2>2, <3>4, <3>6, <4>6, Pays
    <3> QED BY <1>1, <3>5, <3>6
  <2> QED BY <2>5, <2>6
<1> QED BY <1>2 DEF Balanced

-----------------------------------------------------------------------------
(* All steps                                                               *)

\* A run moves on between tasks.
LEMMA MovesOn ==
    ASSUME Shape, Balanced, UNCHANGED <<listed, lapses, item, reviews>>,
           NEW h \in Handlers, work[h] = {}, made[h] = Nothing,
           Leave(h) \/ \E t : Take(h, t)
    PROVE  Balanced'
<1>1. UNCHANGED <<work, made>>
  <2>1. work = [work EXCEPT ![h] = {}] /\ made = [made EXCEPT ![h] = Nothing]
    BY DEF Shape, Typed, RunTypes
  <2> QED BY <2>1 DEF Leave, Take
<1>2. \A g \in Handlers \ {h} : pc'[g] = pc[g] /\ late'[g] = late[g]
  BY DEF Leave, Take, Shape, Typed, RunTypes
<1> QED BY <1>1, <1>2, AloneSettles DEF SameReviews

LEMMA ProcessPaid ==
    ASSUME Shape, Balanced, NEW h \in Handlers, ProcessTask(h) PROVE Balanced'
<1>1. CASE FetchUnavailable(h) \/ FetchFails(h) \/ EndTask(h)
  <2>1. Leave(h) /\ UNCHANGED <<listed, lapses, item, reviews>>
    BY <1>1 DEF FetchUnavailable, FetchFails, EndTask, Return, world, entries, bounds
  <2>2. work[h] = {} /\ made[h] = Nothing
    BY <1>1 DEF FetchUnavailable, FetchFails, EndTask, Shape, Hand
  <2> QED BY <2>1, <2>2, MovesOn
<1> QED BY <1>1, FetchSettles, DetectionSettles, PlanSettles, MakeSettles, MarkPaid,
           ReviewedPaid DEF ProcessTask

LEMMA InitBalanced == Init => Shape /\ Balanced
<1> SUFFICES ASSUME Init PROVE Shape /\ Balanced
  OBVIOUS
<1>1. /\ listed = FirstListed /\ reviews = <<>> /\ item = [k \in Keys |-> Unknown] /\ lapses = 0
      /\ \A h \in Handlers : pc[h] = "pick" /\ work[h] = {} /\ made[h] = Nothing
  BY DEF Init
<1>2. Shape
  <2>1. \A h \in Handlers : Hands(h) = {}
    BY <1>1, TaskPollerAssumption DEF Hands, Nothing
  <2>2. \A h \in Handlers : Hand(h)
    BY <1>1, <2>1 DEF Hand
  <2> QED BY <1>1, <2>2, InitTyped, TaskPollerAssumption DEF Shape, SameCheckpoint
<1>3. ASSUME NEW k \in Keys PROVE Balance(k)
  <2>1. Cardinality(ReviewsOf(k)) = 0
    <3>1. ReviewsOf(k) = {}
      BY <1>1 DEF ReviewsOf
    <3> QED BY <3>1, FS_EmptySet
  <2>2. \A l \in Keys : Owed(l) => l \in listed
    BY <1>1, TaskPollerAssumption DEF Owed, Open, Claims, Hands, Waiting, Unknown, Nothing
  <2>3. CASE OwedOf(k) = {}
    <3>1. Cardinality(OwedOf(k)) = 0
      BY <2>3, FS_EmptySet
    <3> QED BY <1>1, <2>1, <3>1 DEF Balance, Total, Credit
  <2>4. CASE OwedOf(k) # {}
    <3>1. PICK l \in Keys : SameCheckpoint(l, k) /\ Owed(l)
      BY <2>4 DEF OwedOf
    <3>2. OwedOf(k) = {l}
      BY <1>2, <2>2, <3>1 DEF OwedOf, Shape, SameCheckpoint
    <3>3. Cardinality(OwedOf(k)) = 1
      BY <3>2, FS_Singleton
    <3>4. Backed(k)
      BY <2>2, <3>1 DEF Backed
    <3> QED BY <1>1, <2>1, <3>3, <3>4 DEF Balance, Total, Credit
  <2> QED BY <2>3, <2>4
<1> QED BY <1>2, <1>3 DEF Balanced

LEMMA NextBalanced == Shape /\ Balanced /\ [Next]_vars => Balanced'
<1> SUFFICES ASSUME Shape, Balanced, [Next]_vars PROVE Balanced'
  OBVIOUS
<1>0. /\ Loop \in Handlers /\ Hooks \subseteq Handlers
      /\ \A h \in Handlers : Idle(h) => work[h] = {} /\ made[h] = Nothing
  BY DEF Handlers, Idle, Shape, Hand
<1>1. ASSUME UNCHANGED <<listed, lapses, item, reviews, work, made, pc, late>> PROVE Balanced'
  BY <1>1, AloneSettles DEF SameReviews
<1>2. CASE LoopStep
  <2>1. CASE ListKnown \/ EndTick \/ \E t \in Tasks : PassOver(t)
    BY <1>1, <2>1 DEF ListKnown, EndTick, PassOver, world, entries, local, bounds
  <2>2. CASE \E t \in Tasks : Hear(t) \/ \E n \in DOMAIN agenda : Check(n, t)
    <3>1. /\ Idle(Loop) /\ UNCHANGED <<listed, lapses, item, reviews>>
          /\ \E t : Take(Loop, t)
      BY <2>2 DEF Hear, Check, Upcoming, world, entries, bounds
    <3> QED BY <1>0, <3>1, MovesOn
  <2>3. ASSUME NEW t \in Tasks, NEW n \in DOMAIN agenda, GiveUp(n, t) PROVE Balanced'
    BY <2>3, GiveUpSettles
  <2> QED BY <1>0, <1>2, <2>1, <2>2, <2>3, ProcessPaid DEF LoopStep
<1>3. CASE \E h \in Hooks : HookStep(h)
  <2>1. PICK h \in Hooks : HookStep(h)
    BY <1>3
  <2>2. CASE \E t \in Tasks : Deliver(h, t)
    <3>1. /\ Idle(h) /\ UNCHANGED <<listed, lapses, item, reviews>>
          /\ \E t : Take(h, t)
      BY <2>2 DEF Deliver, world, entries
    <3> QED BY <1>0, <3>1, MovesOn
  <2>3. CASE HookDies(h)
    BY <1>0, <2>3, LeavePaid DEF HookDies, world, entries
  <2> QED BY <1>0, <2>1, <2>2, <2>3, ProcessPaid DEF HookStep
<1>4. CASE Die
  BY <1>0, <1>4, LeavePaid DEF Die, world, entries
<1>5. CASE Others
  <2>1. ASSUME NEW i \in 1..MaxReviews, MoveReview(i) \/ MoveBack(i) \/ ExecutorMarks(i)
        PROVE  Balanced'
    BY <2>1, ReviewSettles, ExecutorSettles
  <2>2. ASSUME NEW out, NEW in \in SUBSET Keys, \A k, l \in in : k = l, EditEntries(out, in)
        PROVE  Balanced'
    BY <2>2, EditPaid
  <2>3. ASSUME \/ \E t \in Tasks : Share(t) \/ Outage(t)
               \/ \E r \in Rows : RowTested(r)
        PROVE  Balanced'
    BY <1>1, <2>3 DEF Share, Outage, RowTested, world, entries, local, bounds
  <2>4. CASE People
    <3>1. ASSUME NEW k \in Keys, EditEntries({k}, {}) \/ EditEntries({}, {k})
          PROVE  Balanced'
      BY <2>2, <3>1
    <3>2. ASSUME NEW k \in Keys, NEW l \in Keys, EditEntries({k}, {l})
          PROVE  Balanced'
      BY <2>2, <3>2
    <3> QED BY <2>3, <2>4, <3>1, <3>2 DEF People
  <2> QED BY <1>5, <2>1, <2>3, <2>4 DEF Others
<1>6. CASE Time \/ UNCHANGED vars
  BY <1>1, <1>6 DEF Time, ChecksFallDue, RetryFallsDue, vars, world, entries, local, bounds
<1> QED BY <1>2, <1>3, <1>4, <1>5, <1>6, StartSettles DEF Next

\* A checkpoint is reviewed once, and once more at most for each lapse: a death, an entry
\* that people take away unfinished, a review or a retry of a run that comes after
\* another run's decision (poller.py, _process_task_subtasks and
\* _merge_equivalent_task_entry_states).
THEOREM OneReview == Spec => []ReviewedOncePerLapse
<1>1. Shape /\ Balanced => ReviewedOncePerLapse
  <2> SUFFICES ASSUME Shape, Balanced, NEW k \in Keys
               PROVE  Cardinality(ReviewsOf(k)) <= 1 + lapses
    BY DEF ReviewedOncePerLapse, ReviewsOf
  <2>1. /\ Cardinality(OwedOf(k)) \in Nat /\ Cardinality(ReviewsOf(k)) \in Nat
        /\ lapses \in Nat
    BY Finite DEF Shape, Typed, DataTypes
  <2>2. Credit(k) = lapses \/ Credit(k) = lapses + 1
    BY <2>1 DEF Credit
  <2>3. Cardinality(ReviewsOf(k)) + Cardinality(OwedOf(k)) <= Credit(k)
    BY DEF Balanced, Balance, Total
  <2> HIDE DEF Credit, OwedOf, ReviewsOf
  <2> QED BY <2>1, <2>2, <2>3
<1> QED BY <1>1, InitBalanced, ShapeKept, NextBalanced, PTL DEF Spec
=============================================================================
