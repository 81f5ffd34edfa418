----------------------------- MODULE TaskPoller -----------------------------
(***************************************************************************)
(* The shared tasks (poller.py: the loop and _process_task_subtasks).  The *)
(* open subtasks of a task name checkpoints to deploy.  Each such entry    *)
(* gets a review of a plan for a row of the deployed-models table, or      *)
(* waits for a row.  In a tick the loop looks at the tasks shared in the   *)
(* chats, then at the tasks it knows.  Beside it the API runs the same     *)
(* handler in its background tasks (app.py), one for each event of a       *)
(* message or of a task, and no lock keeps the runs apart.  The auditor    *)
(* and its executor move the reviews, and the executor stores the statuses *)
(* of entries too.                                                         *)
(*                                                                         *)
(* A step is one Feishu request of a run, or its transactions between two. *)
(***************************************************************************)
EXTENDS Naturals, Sequences, FiniteSets, SequencesExt

CONSTANTS
    Tasks, Keys, Rows,
    TaskOf,      \* the task of an entry key
    Checkpoint,  \* the subtask and the checkpoint that the key spells
    NoTask, NoKey,
    Loop,        \* the polling loop
    Hooks,       \* the background tasks of the API
    FirstListed, \* the open subtasks when the tasks are shared
    Withdraw,    \* people change entries that are not reviewed yet
    KnownLimit,  \* the known tasks that a tick lists (6)
    MaxPerTick,  \* known_todo_max_per_tick
    MaxReviews,  \* bounds
    MaxEvents,   \* events that the API is sent
    MaxTroubles  \* faults, edits and deaths

ASSUME TaskPollerAssumption ==
    /\ TaskOf \in [Keys -> Tasks]
    /\ \A k, l \in Keys : Checkpoint[k] = Checkpoint[l] => TaskOf[k] = TaskOf[l]
    /\ NoTask \notin Tasks /\ NoKey \notin Keys
    /\ IsFiniteSet(Tasks) /\ IsFiniteSet(Keys) /\ FirstListed \subseteq Keys
    /\ \A k, l \in FirstListed : Checkpoint[k] = Checkpoint[l] => k = l
    /\ Loop \notin Hooks /\ IsFiniteSet(Hooks)
    /\ Withdraw \in BOOLEAN
    /\ KnownLimit \in Nat /\ MaxPerTick \in Nat /\ MaxReviews \in Nat
    /\ MaxEvents \in Nat /\ MaxTroubles \in Nat

VARIABLES
    listed,    \* Feishu: the keys of the open subtasks
    gone,      \* Feishu: the tasks it answers 404 for
    posted,    \* Feishu: tasks shared in a message that is not processed yet
    free,      \* document: the reusable rows
    reviews,   \* operator_reviews, by creation
    item,      \* processed_items: an entry's status and its review
    older,     \* pairs of entries in retry_waiting, by processed_at
    due,       \* those whose retry time has come
    known,     \* tasks with a row in processed_items
    disabled,  \* tasks with the setting todo_task_disabled
    recent,    \* tasks checked within the interval
    phase,     \* of the loop's tick
    agenda,    \* the tasks left in this phase
    checked,   \* the known tasks processed in this tick
    heard,     \* the background tasks that handle a message
    pc,        \* for each run: where it is with a task
    task,      \* the task it works on
    work,      \* its entries left to process
    reserved,  \* reserved_row_indices
    made,      \* the entry's status about to be stored
    overtaken, \* history: the runs since whose reading of the reserved rows another
               \* has made a review
    late,      \* history, for each run: the entries that another decided on first
    events,    \* so far
    troubles,  \* so far
    lapses     \* history: deaths, entries that people took away unfinished, and
               \* reviews and retries of runs that were late for their entry

world   == <<listed, gone, free>>
entries == <<item, older, known>>
times   == <<due, recent>>
tick    == <<phase, agenda, checked>>
local   == <<task, work, reserved, made, heard, overtaken, late>>
bounds  == <<events, troubles, lapses>>
vars == <<world, posted, reviews, entries, times, disabled, tick, pc,
          local, bounds>>

\* The loop and the background tasks run one handler.
Handlers == {Loop} \cup Hooks

\* "pending" stands for an entry's review_pending, codex_reviewing, approved and
\* deploying and for a review's pending, codex_reviewing and approved; "ended"
\* for deployed, deploy_failed and needs_human; "aside" for blocked and
\* retry_requested: the poller treats them alike.
Equivalent == {"pending", "ended", "failed_review"}
ItemStatuses == Equivalent \cup {"none", "retry_waiting", "task_unavailable"}
Live       == {"pending", "deploying"}
ReviewStatuses == Live \cup {"ended", "aside"}

Unknown == [status |-> "none", review |-> 0]
Nothing == [key |-> NoKey, status |-> "none", review |-> 0]

-----------------------------------------------------------------------------
\* What is read from the tables.

Waiting(k) == item[k].status = "retry_waiting"

SameCheckpoint(k, l) == Checkpoint[k] = Checkpoint[l]

\* Faulty variant: the own state of an entry only.
StatesOwn(k) == {item[k]}

\* The state of an entry: its own, or that of another spelling of its path
\* that has been handled.
States(k) ==
    LET alike == {l \in Keys \ {k} : /\ SameCheckpoint(k, l)
                                     /\ item[l].status \in Equivalent}
    IN  IF item[k] # Unknown \/ alike = {} THEN {item[k]}
        ELSE {item[l] : l \in alike}

\* The finished review that an entry's state has not caught up with.
Stale(s) == /\ s.status = "pending" /\ s.review # 0
            /\ reviews[s.review].status = "ended"

\* Faulty variant: any status of the review is copied.
RefreshedUnmapped(s) ==
    IF s.status = "pending" /\ s.review # 0
    THEN [s EXCEPT !.status = reviews[s.review].status] ELSE s

Refreshed(s) == IF Stale(s) THEN [s EXCEPT !.status = "ended"] ELSE s

ShouldProcess(k, s) == s = Unknown \/ (s.status = "retry_waiting" /\ k \in due)

\* Faulty variant: the rows of the task's own reviews only.
ReservedRowsOfTask(ss) ==
    {reviews[i].row : i \in {s.review : s \in {x \in ss : x.status = "pending"}} \ {0}}

\* The rows of the task's entries in flight and of every live review.
LiveReviews == {i \in DOMAIN reviews : reviews[i].status \in Live}
ReservedRows(ss) ==
    {reviews[i].row : i \in LiveReviews \cup
                            ({s.review : s \in {x \in ss : x.status = "pending"}} \ {0})}

\* mark_processed_item for one entry.
Mark(k, s, i) ==
    /\ item' = [item EXCEPT ![k] = [status |-> s, review |-> i]]
    /\ older' = {p \in older : p[1] # k /\ p[2] # k} \cup
                   (IF s = "retry_waiting" THEN {l \in Keys \ {k} : Waiting(l)} \X {k}
                                           ELSE {})
    /\ known' = known \cup {TaskOf[k]}

DueRetries(t) == {k \in due : Waiting(k) /\ TaskOf[k] = t}
HasDueRetry(t) == \E k \in due : Waiting(k) /\ TaskOf[k] = t

\* The known tasks that a tick lists: those with due retries, by their oldest, then
\* others.  KnownLimit tasks are listed at most.  (The code leaves out those stored
\* first, here any may be left out; it has the one stored last first, here those that
\* are listed keep one order, as the interval between checks gives each its turn.)
Precedes(t, u) == \E k \in DueRetries(t) : \A l \in DueRetries(u) : <<k, l>> \in older
Place == [t \in Tasks |-> CHOOSE n \in 1..Cardinality(Tasks) : SetToSeq(Tasks)[n] = t]
Crowded == Cardinality(known) > KnownLimit
KnownTasks ==
    {ts \in [1..(IF Crowded THEN KnownLimit ELSE Cardinality(known)) -> known] :
        /\ IsInjective(ts)
        /\ \A n \in DOMAIN ts : \A t \in known : Precedes(t, ts[n]) =>
                                    \E m \in 1..n-1 : ts[m] = t
        /\ \A m, n \in DOMAIN ts :
              Place[ts[m]] < Place[ts[n]] => m < n \/ HasDueRetry(ts[n])}

-----------------------------------------------------------------------------
Init ==
    /\ listed = FirstListed /\ gone = {} /\ posted = Tasks /\ free = {}
    /\ reviews = <<>>
    /\ item = [k \in Keys |-> Unknown] /\ older = {} /\ known = {}
    /\ due = {} /\ recent = {} /\ disabled = {}
    /\ phase = "chats" /\ agenda = SetToSeq(Tasks) /\ checked = 0
    /\ heard = {} /\ overtaken = {} /\ late = [h \in Handlers |-> {}]
    /\ pc = [h \in Handlers |-> "pick"] /\ task = [h \in Handlers |-> NoTask]
    /\ work = [h \in Handlers |-> {}] /\ reserved = [h \in Handlers |-> {}]
    /\ made = [h \in Handlers |-> Nothing]
    /\ events = 0 /\ troubles = 0 /\ lapses = 0

Trouble ==
    troubles < MaxTroubles /\ troubles' = troubles + 1 /\ UNCHANGED events

-----------------------------------------------------------------------------
\* The tick: the chats with their shared tasks, then the known tasks.

StartTick == phase' = "chats" /\ agenda' = SetToSeq(posted)
Idle(h) == pc[h] = "pick"
Take(h, t) ==
    /\ task' = [task EXCEPT ![h] = t] /\ pc' = [pc EXCEPT ![h] = "fetch"]
    /\ UNCHANGED <<work, reserved, made, overtaken, late>>

Hear(t) ==
    /\ phase = "chats" /\ Idle(Loop) /\ agenda # <<>> /\ t = Head(agenda)
    /\ t \in posted
    /\ agenda' = Tail(agenda)
    /\ Take(Loop, t)
    /\ UNCHANGED <<world, posted, reviews, entries, times, disabled, phase, checked,
                   heard, bounds>>

\* A background task has processed the message meanwhile.
PassOver(t) ==
    /\ phase = "chats" /\ Idle(Loop) /\ agenda # <<>> /\ t = Head(agenda)
    /\ t \notin posted
    /\ agenda' = Tail(agenda)
    /\ UNCHANGED <<world, posted, reviews, entries, times, disabled, phase, checked,
                   pc, local, bounds>>

ListKnown ==
    /\ phase = "chats" /\ Idle(Loop) /\ agenda = <<>>
    /\ phase' = "known" /\ checked' = 0
    /\ agenda' \in KnownTasks
    /\ UNCHANGED <<world, posted, reviews, entries, times, disabled, pc, local,
                   bounds>>

TickFull == MaxPerTick # 0 /\ checked >= MaxPerTick
ToCheck(t) == t \notin disabled /\ (t \in recent => HasDueRetry(t))

\* The n-th task of the agenda is next: nothing is to be done for those before it.
Upcoming(n, t) ==
    /\ phase = "known" /\ Idle(Loop) /\ ~TickFull
    /\ n \in DOMAIN agenda /\ agenda[n] = t
    /\ \A m \in 1..n-1 : agenda[m] \notin disabled /\ ~ToCheck(agenda[m])
    /\ agenda' = SubSeq(agenda, n + 1, Len(agenda))

\* The retries of a disabled task are given up.
GiveUp(n, t) ==
    /\ Upcoming(n, t) /\ t \in disabled
    /\ LET out == {k \in Keys : TaskOf[k] = t /\ Waiting(k)}
       IN  /\ item' = [k \in Keys |-> IF k \in out
                          THEN [status |-> "task_unavailable", review |-> 0]
                          ELSE item[k]]
           /\ older' = {p \in older : p[1] \notin out /\ p[2] \notin out}
    /\ UNCHANGED <<world, posted, reviews, known, times, disabled, phase, checked,
                   pc, local, bounds>>

Check(n, t) ==
    /\ Upcoming(n, t) /\ ToCheck(t)
    /\ Take(Loop, t)
    /\ UNCHANGED <<world, posted, reviews, entries, times, disabled, phase, checked,
                   heard, bounds>>

\* After a pause the next tick lists the chats with a message to process, and
\* the task shared in each.
EndTick ==
    /\ phase = "known" /\ Idle(Loop)
    /\ \/ TickFull
       \/ \A n \in DOMAIN agenda : agenda[n] \notin disabled /\ ~ToCheck(agenda[n])
    /\ StartTick
    /\ UNCHANGED <<world, posted, reviews, entries, times, disabled, checked, pc,
                   local, bounds>>

-----------------------------------------------------------------------------
\* The background tasks of the API.

\* Feishu sends the event of a message that is not processed yet, or of a task.
Deliver(h, t) ==
    /\ Idle(h) /\ events < MaxEvents /\ events' = events + 1
    /\ Take(h, t)
    /\ \/ t \in posted /\ heard' = heard \cup {h}
       \/ UNCHANGED heard
    /\ UNCHANGED <<world, posted, reviews, entries, times, disabled, tick, troubles,
                   lapses>>

-----------------------------------------------------------------------------
\* _process_task_subtasks, in a run of the loop or of a background task.

\* The checkpoints that the open subtasks of a task name.
Named(t) == {k \in listed : TaskOf[k] = t}
Unavailable(t) == t \in gone

Leave(h) ==
    /\ pc' = [pc EXCEPT ![h] = "pick"] /\ task' = [task EXCEPT ![h] = NoTask]
    /\ work' = [work EXCEPT ![h] = {}] /\ reserved' = [reserved EXCEPT ![h] = {}]
    /\ made' = [made EXCEPT ![h] = Nothing]
    /\ heard' = heard \ {h} /\ overtaken' = overtaken \ {h}
    /\ late' = [late EXCEPT ![h] = {}]

\* The call returns to the handler of the message, to the known tasks, or to nobody.
Return(h) ==
    /\ Leave(h)
    /\ posted' = IF h \in heard \/ (h = Loop /\ phase = "chats")
                 THEN posted \ {task[h]} ELSE posted
    /\ IF h = Loop /\ phase = "known"
       THEN recent' = recent \cup {task[h]} /\ checked' = checked + 1
       ELSE UNCHANGED <<recent, checked>>

Fetch(h) ==
    /\ pc[h] = "fetch" /\ ~Unavailable(task[h])
    /\ work' = [work EXCEPT ![h] = Named(task[h])]
    /\ disabled' = disabled \ {task[h]}
    /\ pc' = [pc EXCEPT ![h] = "plan"]
    /\ UNCHANGED <<world, posted, reviews, entries, times, tick, task, reserved,
                   made, heard, overtaken, late, bounds>>

FetchUnavailable(h) ==
    /\ pc[h] = "fetch" /\ Unavailable(task[h])
    /\ disabled' = disabled \cup {task[h]}
    /\ known' = known \cup {task[h]}
    /\ Return(h)
    /\ UNCHANGED <<world, reviews, item, older, due, phase, agenda, bounds>>

\* Faulty variant: the failure leaves no row behind.
FetchFailsUnnoted(h) ==
    /\ pc[h] = "fetch" /\ ~Unavailable(task[h]) /\ Trouble
    /\ Return(h)
    /\ UNCHANGED <<world, reviews, entries, due, disabled, phase, agenda, lapses>>

\* Its row in processed_items makes the task a known one.
FetchFails(h) ==
    /\ pc[h] = "fetch" /\ ~Unavailable(task[h]) /\ Trouble
    /\ known' = known \cup {task[h]}
    /\ Return(h)
    /\ UNCHANGED <<world, reviews, item, older, due, disabled, phase, agenda, lapses>>

\* The format of a checkpoint cannot be determined: the exception ends the background
\* task, the loop's work on this chat, or its whole tick.
DetectionFails(h) ==
    /\ pc[h] = "plan" /\ work[h] # {} /\ Trouble
    /\ Leave(h)
    /\ IF h = Loop /\ phase = "known" THEN StartTick
       ELSE UNCHANGED <<phase, agenda>>
    /\ UNCHANGED <<world, posted, reviews, entries, times, disabled, checked, lapses>>

\* A run has decided on the entry, and is about to store what.
Settling(k) == \E h \in Handlers : made[h].key = k /\ made[h].status \in Equivalent

Plan(h) ==
    /\ pc[h] = "plan"
    /\ \E state \in [work[h] -> UNION {States(k) : k \in work[h]}] :
        /\ \A k \in work[h] : state[k] \in States(k)
        /\ item' = [k \in Keys |-> IF k \in work[h] /\ Stale(state[k])
                                   THEN Refreshed(state[k]) ELSE item[k]]
        /\ LET now  == [k \in work[h] |-> Refreshed(state[k])]
               todo == {k \in work[h] : ShouldProcess(k, now[k])}
           IN  /\ work' = [work EXCEPT ![h] = todo]
               /\ reserved' = [reserved EXCEPT ![h] =
                                   ReservedRows({now[k] : k \in work[h]})]
               /\ late' = [late EXCEPT ![h] = {k \in todo : Settling(k)}]
    /\ pc' = [pc EXCEPT ![h] = "each"]
    /\ overtaken' = overtaken \ {h}
    /\ UNCHANGED <<world, posted, reviews, older, known, times, disabled, tick, task,
                   made, heard, bounds>>

\* The runs that have read the reserved rows do not read them again.
Ask(h, k, r, noted) ==
    /\ Len(reviews) < MaxReviews
    /\ reviews' = Append(reviews, [key |-> k, row |-> r, status |-> "pending",
                                   owed |-> "none", kept |-> noted /\ h \notin overtaken])
    /\ LET others == {g \in Handlers \ {h} : pc[g] \in {"each", "made"}}
       IN  /\ overtaken' = overtaken \cup others
           /\ late' = [g \in Handlers |-> IF g \in others THEN late[g] \cup {k} ELSE late[g]]
    /\ lapses' = IF k \in late[h] THEN lapses + 1 ELSE lapses
Make(h, k, s, i) ==
    /\ pc[h] = "each" /\ k \in work[h]
    /\ work' = [work EXCEPT ![h] = @ \ {k}]
    /\ made' = [made EXCEPT ![h] = [key |-> k, status |-> s, review |-> i]]
    /\ pc' = [pc EXCEPT ![h] = "made"]

\* A plan for a row that the run has not reserved, and its review.
CreateReview(h, k, r) ==
    /\ Make(h, k, "pending", Len(reviews) + 1)
    /\ r \in free \ reserved[h]
    /\ Ask(h, k, r, TRUE)
    /\ reserved' = [reserved EXCEPT ![h] = @ \cup {r}]
    /\ UNCHANGED <<world, posted, entries, times, disabled, tick, task, heard,
                   events, troubles>>

\* The review exists, but the notice to the chat cannot be sent: its row is not
\* reserved for the entries that follow.  (The error review is left out.)
NoticeFails(h, k, r) ==
    /\ Make(h, k, "failed_review", 0)
    /\ r \in free \ reserved[h] /\ Trouble
    /\ Ask(h, k, r, FALSE)
    /\ UNCHANGED <<world, posted, entries, times, disabled, tick, task, reserved, heard>>

\* Faulty variant: the retry time of the last attempt stays.
ScheduleRetryAtOnce(h, k) ==
    /\ Make(h, k, "retry_waiting", 0)
    /\ free \subseteq reserved[h]
    /\ UNCHANGED <<world, posted, reviews, entries, times, disabled, tick, task,
                   reserved, heard, overtaken, late, bounds>>

\* No row is left for the entry.
ScheduleRetry(h, k) ==
    /\ Make(h, k, "retry_waiting", 0)
    /\ free \subseteq reserved[h]
    /\ due' = due \ {k}
    /\ UNCHANGED <<world, posted, reviews, entries, recent, disabled, tick, task,
                   reserved, heard, overtaken, late, bounds>>

PlanFails(h, k) ==
    /\ Make(h, k, "failed_review", 0)
    /\ Trouble
    /\ UNCHANGED <<world, posted, reviews, entries, times, disabled, tick, task,
                   reserved, heard, overtaken, late, lapses>>

\* The retry is stored over what came of another run's decision.
LateRetry(h) == /\ made[h].status = "retry_waiting" /\ made[h].key \in late[h]
                /\ ~Waiting(made[h].key)

MarkEntry(h) ==
    /\ pc[h] = "made"
    /\ Mark(made[h].key, made[h].status, made[h].review)
    /\ made' = [made EXCEPT ![h] = Nothing]
    /\ pc' = [pc EXCEPT ![h] = "each"]
    /\ lapses' = IF LateRetry(h) THEN lapses + 1 ELSE lapses
    /\ UNCHANGED <<world, posted, reviews, times, disabled, tick, task, work,
                   reserved, heard, overtaken, late, events, troubles>>

EndTask(h) ==
    /\ pc[h] = "each" /\ work[h] = {}
    /\ Return(h)
    /\ UNCHANGED <<world, reviews, entries, due, disabled, phase, agenda, bounds>>

-----------------------------------------------------------------------------
\* The loop's process dies, and is started again.  The API's process dies when each
\* of its background tasks does.

Die ==
    /\ phase # "down" /\ Trouble
    /\ lapses' = lapses + 1
    /\ phase' = "down" /\ agenda' = <<>> /\ checked' = 0
    /\ Leave(Loop)
    /\ UNCHANGED <<world, posted, reviews, entries, times, disabled>>

HookDies(h) ==
    /\ ~Idle(h) /\ Trouble
    /\ lapses' = lapses + 1
    /\ Leave(h)
    /\ UNCHANGED <<world, posted, reviews, entries, times, disabled, tick>>

\* run_forever, of the loop and of the auditor, starts by bringing the entries up to
\* date with their reviews (reconcile_processed_items_from_reviews).
Start ==
    /\ item' = [k \in Keys |-> Refreshed(item[k])]
    /\ \/ phase = "down" /\ StartTick
       \/ UNCHANGED <<phase, agenda>>
    /\ UNCHANGED <<world, posted, reviews, older, known, times, disabled, checked,
                   pc, local, bounds>>

-----------------------------------------------------------------------------
\* The auditor, its executor and the people who decide, as the poller sees them.

\* A review that is live no more has lost its row.
Moved(i, s, o) ==
    reviews' = [reviews EXCEPT ![i] = [key |-> @.key, row |-> @.row, status |-> s,
                                       owed |-> o, kept |-> @.kept /\ s \in Live]]

\* A review is judged, taken to be deployed, deployed.
Moves == {<<"pending", "ended">>, <<"pending", "aside">>,
          <<"pending", "deploying">>, <<"deploying", "ended">>}

\* What the executor then stores for the entry: it may die first, or do the next thing.
OwedFor(s) == CASE s = "deploying" -> "pending"
                [] s = "ended"     -> "ended"
                [] OTHER           -> "none"

MoveReview(i) ==
    /\ i \in DOMAIN reviews
    /\ \E s \in ReviewStatuses :
        /\ <<reviews[i].status, s>> \in Moves
        /\ Moved(i, s, OwedFor(s))
        /\ free' = IF s = "deploying" THEN free \ {reviews[i].row} ELSE free
    /\ UNCHANGED <<listed, gone, posted, entries, times, disabled, tick, pc,
                   local, bounds>>

\* A person decides, at any time; a retry is taken up; a deployment is queued again
\* when the auditor died; a review is found too old, or its result not reported.
MoveBack(i) ==
    /\ i \in DOMAIN reviews /\ Trouble
    /\ \E s \in {"pending", "aside", "ended"} \ {reviews[i].status} :
          Moved(i, s, reviews[i].owed)
    /\ UNCHANGED <<listed, gone, free, posted, entries, times, disabled, tick, pc,
                   local, lapses>>

\* The executor's _mark_task_entry_status.
ExecutorMarks(i) ==
    /\ i \in DOMAIN reviews /\ reviews[i].owed # "none"
    /\ Mark(reviews[i].key, reviews[i].owed, i)
    /\ reviews' = [reviews EXCEPT ![i].owed = "none"]
    /\ UNCHANGED <<world, posted, times, disabled, tick, pc, local, bounds>>

-----------------------------------------------------------------------------
\* Feishu, the people who use it, and time.

Share(t) ==
    /\ Trouble
    /\ t \notin posted /\ posted' = posted \cup {t}
    /\ UNCHANGED <<listed, gone, free, reviews, entries, times, disabled, tick, pc,
                   local, lapses>>

\* A run has the entry, or it waits for a row.
Unfinished(k) == Waiting(k) \/ \E h \in Handlers : k \in work[h] \cup {made[h].key}

\* An entry appears, or leaves: completed, or respelled.  Unless Withdraw,
\* people change only what has been reviewed.
EditEntries(out, in) ==
    /\ Trouble
    /\ out \subseteq listed
    /\ Withdraw \/ \A k \in out : item[k].status \in Equivalent
    /\ listed' = (listed \ out) \cup in
    /\ \A k, l \in listed' : SameCheckpoint(k, l) => k = l
    /\ lapses' = IF \E k \in out : Unfinished(k) THEN lapses + 1 ELSE lapses
    /\ UNCHANGED <<gone, free, posted, reviews, entries, times, disabled, tick, pc,
                   local>>

People ==
    \/ \E t \in Tasks : Share(t)
    \/ \E k \in Keys : EditEntries({k}, {}) \/ EditEntries({}, {k})
    \/ \E k, l \in Keys : k # l /\ SameCheckpoint(k, l) /\ EditEntries({k}, {l})

\* Feishu stops, or starts again, to show a task to the bot.
Outage(t) ==
    /\ \/ t \notin gone /\ Trouble /\ gone' = gone \cup {t}
       \/ t \in gone /\ gone' = gone \ {t} /\ UNCHANGED <<events, troubles>>
    /\ UNCHANGED <<listed, free, posted, reviews, entries, times, disabled,
                   tick, pc, local, lapses>>

\* The tests on a deployed model are finished.
RowTested(r) ==
    /\ r \notin free
    /\ \A i \in DOMAIN reviews : reviews[i].row = r => reviews[i].status # "deploying"
    /\ free' = free \cup {r}
    /\ UNCHANGED <<listed, gone, posted, reviews, entries, times, disabled,
                   tick, pc, local, bounds>>

\* The retry delay and the interval between checks are so long (30 and 10 minutes for
\* a tick every 20 seconds) that every known task has its turn, if the ticks list all.
AllChecked == recent # {} /\ (Crowded \/ known \ disabled \subseteq recent)

RetryFallsDue(k) ==
    /\ Waiting(k) /\ k \notin due /\ AllChecked
    /\ due' = due \cup {k}
    /\ UNCHANGED <<world, posted, reviews, entries, recent, disabled, tick, pc, local,
                   bounds>>

ChecksFallDue ==
    /\ AllChecked /\ recent' = {}
    /\ UNCHANGED <<world, posted, reviews, entries, due, disabled, tick, pc, local,
                   bounds>>

Time == ChecksFallDue \/ \E k \in Keys : RetryFallsDue(k)

-----------------------------------------------------------------------------
ProcessTask(h) ==
    \/ Fetch(h) \/ FetchUnavailable(h) \/ FetchFails(h) \/ DetectionFails(h) \/ Plan(h)
    \/ \E k \in Keys : \/ \E r \in Rows : CreateReview(h, k, r) \/ NoticeFails(h, k, r)
                       \/ ScheduleRetry(h, k) \/ PlanFails(h, k)
    \/ MarkEntry(h) \/ EndTask(h)

LoopStep ==
    \/ ListKnown \/ EndTick
    \/ \E t \in Tasks : \/ Hear(t) \/ PassOver(t)
                        \/ \E n \in DOMAIN agenda : GiveUp(n, t) \/ Check(n, t)
    \/ ProcessTask(Loop)

HookStep(h) ==
    \/ \E t \in Tasks : Deliver(h, t)
    \/ ProcessTask(h) \/ HookDies(h)

Others ==
    \/ \E i \in 1..MaxReviews : MoveReview(i) \/ MoveBack(i) \/ ExecutorMarks(i)
    \/ People
    \/ \E t \in Tasks : Outage(t)
    \/ \E r \in Rows : RowTested(r)

Next == LoopStep \/ Start \/ Die \/ (\E h \in Hooks : HookStep(h)) \/ Others \/ Time

Spec == Init /\ [][Next]_vars

\* The loop never blocks (every request has a timeout), and time passes.  Nothing is
\* assumed of the background tasks.
FairSpec == Spec /\ WF_vars(LoopStep) /\ WF_vars(ChecksFallDue)

-----------------------------------------------------------------------------
TypeOK ==
    /\ listed \subseteq Keys /\ gone \subseteq Tasks /\ free \subseteq Rows
    /\ posted \subseteq Tasks /\ known \subseteq Tasks /\ disabled \subseteq Tasks
    /\ recent \subseteq Tasks
    /\ reviews \in Seq([key : Keys, row : Rows, status : ReviewStatuses,
                        owed : {"none", "pending", "ended"}, kept : BOOLEAN])
    /\ item \in [Keys -> [status : ItemStatuses, review : 0..Len(reviews)]]
    /\ older \subseteq Keys \X Keys /\ due \subseteq Keys
    /\ phase \in {"chats", "known", "down"}
    /\ agenda \in Seq(Tasks) /\ checked \in Nat
    /\ heard \subseteq Hooks /\ overtaken \subseteq Handlers
    /\ late \in [Handlers -> SUBSET Keys]
    /\ pc \in [Handlers -> {"pick", "fetch", "plan", "each", "made"}]
    /\ task \in [Handlers -> Tasks \cup {NoTask}]
    /\ work \in [Handlers -> SUBSET Keys] /\ reserved \in [Handlers -> SUBSET Rows]
    /\ made \in [Handlers -> [key : Keys \cup {NoKey}, status : ItemStatuses,
                              review : 0..Len(reviews)]]
    /\ events \in Nat /\ troubles \in Nat /\ lapses \in Nat

\* Two reviews that may still be deployed never plan for one row, unless one of
\* them was blocked, sent back or finished meanwhile and then approved after all,
\* its notice failed and the poller lost track of it, or another run made a review
\* between the time its own run read the reserved rows and its choice.
RowsReservedOnce ==
    \A i, j \in LiveReviews :
        i # j /\ reviews[i].kept /\ reviews[j].kept => reviews[i].row # reviews[j].row

\* A checkpoint is reviewed once, however often its task is shared, checked, retried
\* and notified of, and its entry respelled.  One more review may be made for each
\* death, each entry taken away while a run had it or it waited, and each review or
\* retry of a run that decides on an entry after another run has.
ReviewedOncePerLapse ==
    \A k \in Keys :
        Cardinality({i \in DOMAIN reviews : SameCheckpoint(reviews[i].key, k)})
            <= 1 + lapses

Down == phase = "down"
Shown(k) == k \in listed /\ TaskOf[k] \notin gone \cup disabled

\* A retry that is due is attempted, whatever else waits.
AwaitsRetry(k) == Waiting(k) /\ k \in due /\ Shown(k)
DueIsRetried == \A k \in Keys : []<>(~AwaitsRetry(k) \/ Down)

\* Every entry gets a state, and the outcome of its review, although messages
\* are processed with failed fetches and ticks end early, while a tick lists every
\* known task.
Unhandled(k) == States(k) = {Unknown}
Overlooked(k) == Shown(k) /\ (Unhandled(k) \/ Stale(item[k]))
EntriesAreFollowed == \A k \in Keys : []<>(~Overlooked(k) \/ Down \/ Crowded)
=============================================================================
