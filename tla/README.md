# free-my-hands in TLA+

free-my-hands watches Feishu groups and tasks for deployment requests, picks a
worker from the "deployed models" document, has the deployment reviewed, and
replaces the vLLM service on that worker. This directory holds TLA+ modules
that model it, the TLC runs that check them and proofs for TLAPS. Line numbers
refer to the repository; `PROJECT.json` maps every definition to its lines.

## 1. The system

Three processes (`scripts/start_fmh_tmux.sh`: `poll`, `review-auditor`, `api`)
and the command line share one SQLite file, the Feishu API and the workers.
Nothing restarts a process that dies.

| component | state it keeps | operations | correct when |
|---|---|---|---|
| review auditor (`codex_auditor.py`) | `_futures`, `_future_workers`, the scan's `active_workers`; a thread pool | a tick: collect finished futures, requeue orphans, expire stale approvals, claim and submit; a thread: rules, Codex, executor | one deployment per worker, never over the limit, decisions respected, every review comes to rest |
| review queue (`store.py`, `operator_reviews`) | one status per review | create, list, decide (unconditional), claim (conditional) | the statuses take the edges of a life cycle |
| approvals (`approval.py`, `operator_review.py`) | none | chat, card and CLI decisions | a decision is not overridden by a stale actor |
| API (`app.py`) | background tasks, several at a time | card decision plus executor; for the event of a message or a task, the poller's handler | its deployments exclude the auditor's; its runs of the handler do no more harm beside the loop's than is said below |
| executor (`reusable_executor.py`, `deployed_doc.py`) | the plan in memory, process-local locks, the worker and the document row it changes | re-locate the row, convert, preflight, mark, stop, launch, wait, write back | marks before it stops, stops only what it may, the row it writes is its worker's |
| row selection (`reusable_workers.py`) | none | classify rows, choose one, build a plan | a testing or untested row is never chosen |
| poller (`poller.py`) | cursors, processed items, retry times, chat suppression | chats, documents, tasks; retries; reservations | each entry gets one review, and no row is reserved twice, except by runs that overlap; no retry is lost |
| orchestrator (`orchestrator.py`, `runner.py`, `health.py`, `models.py`) | `requests`, `transitions` | submit, launch, health check | a request is launched once and ends in a final status |
| task status cards (`task_status.py`) | one JSON state per entry | merge a stage, render | a red card offers a retry, a deployment that succeeded is green, a card nobody overtook shows what is stored |
| weight conversion (`weight_conversion.py`) | files on the converter host, a process-local lock | decide, run, reuse an output | no output is used half written or for another checkpoint, every deployment ends |
| Feishu client (`feishu.py`) | cached token | requests with retries | an effect is repeated only where an answer was lost |
| parser, CLI, configuration | none | text to requests, arguments, constants | wording |

They interact by the table `operator_reviews` (poller creates, auditor claims,
API, chat and CLI decide, executor concludes), by `processed_items` (the
runs of the poller's handler, in the loop and in the API, write and read; executor
writes), by the task status JSON (all of these, and the auditor), and by
the document and the workers (executor, and the people who run tests there).
What is hard: several writers of one status column with unconditional updates;
memory of one process (futures, locks) that another cannot see; lists read in
one transaction and acted on in later ones; deaths between any two steps.
`PROJECT.json` lists these as hazards at their lines, with the properties that
cover them.

## 2. Plan

1. **ReviewAuditor** with **ReviewLifecycle** (abstract): the queue and
   everybody who writes to it. **ReviewAuditorProofs**.
2. **WorkerRows**: classification and choice of document rows, as operators.
   **Deployment**: executor, document, workers and the people who edit the
   document; uses WorkerRows. **DeploymentProofs**.
3. **TaskPoller**: shared tasks, entries, reservations, retries, deaths, in the
   loop and the API's background tasks, with the review queue as they see it. **TaskPollerProofs**. **ReviewedTasks**:
   the same poller beside ReviewLifecycle. **ReviewedTasksProofs**.
4. **RequestLifecycle** (abstract), **Requests** (orchestrator) which implements
   it, and **Intake** (chats, document, webhook) which is composed with Requests
   and implements it. **RequestsProofs**, **IntakeProofs**.
5. **TaskCards**: the status card, the runs of the handler, the auditor and the
   executors that write it, and the Feishu client's retries. **TaskCardsProofs**.
6. **WeightConversion**: plan, script, lock, deployment. **WeightConversionProofs**.

All of these are done. What would come next: the token of the Feishu client, and the
`--once` mode of the auditor beside a running one.

## 3. Modules

### ReviewAuditor

One step is one transaction or one access to the auditor's shared memory.

| variable | code |
|---|---|
| `status`, `aged` | `operator_reviews.status`; whether `updated_at` is an hour old |
| `pc`, `section`, `todo` | where `process_once` is: which of its six loops, which listed rows are left |
| `spared`, `busy`, `cur` | `active_review_ids`, `active_workers`, the review claimed and not yet submitted |
| `run` | for each process and review, how far a thread is: the auditor's futures and the API's background tasks |
| `crashes`, `rounds` | bounds |

`BeginTick` .. `EndTick` are `process_once` in its order: `_collect_finished`,
the two loops of `_recover_orphaned_inflight_reviews` (`RecoverOrphan`),
`_recover_stale_approved_reviews` (`MarkStale`), `_active_workers`
(`ScanWorkers`), and the claim loops (`SkipBusyWorker`, `Claim`, `LoseClaim`,
`SubmitClaimed`, the two tests of the limit). A pool thread is `PolicyApprove`,
`CodexDisabled`, `StartCodex`, `CodexVerdict` and the `Execute...` actions,
which the API process shares; `ReportFail` is the `except` of
`_process_review_safe`. `Decide`, `CardApprove`, `CreateReview` are the other
writers. `Crash` loses the auditor's memory and leaves the table.

Merged on purpose: `_collect_finished` and the snapshot of the live ids (a
future that ends in between differs from one that ended before only in an entry
nobody reads); the three reads of `_active_workers`; a card decision and the
read that follows it. Between the reads of `_active_workers` a future only ends
and its row only leaves the in-flight statuses, so the merge misses no owner.
`Age` is enabled between ticks and for reviews no thread works on: no tick
lasts an hour. Whether a stored row is reusable, whether the rules approve and
what Codex says are inputs (`Reusable`, `PolicyOK`, any verdict).

Assumed: every review names a worker, ids are not reused, listings are not
cut by their LIMIT, one auditor runs. The hazards list says what happens
otherwise.

**ReviewLifecycle** is the abstract promise about one review's status.
**MCReviewAuditor** gives the instances.

### WorkerRows and Deployment

`WorkerRows` has the functions of `reusable_workers.py` on one row and on a
table. A cell that names a model is the name and whether the marker of a
deployment follows it; the cell of the tested tasks is the set of its words,
among them the markers running and blocked.

`Deployment` is `_execute` with the document writes before and after it, for
any number of deployments in several processes. One step is one remote call or
one reading of the document.

| variable | code |
|---|---|
| `order`, `row` | the table on Feishu: rows top to bottom, and their cells |
| `vllm`, `testing` | the service on each worker, and the workers people test on |
| `pc`, `plan`, `path`, `work`, `late` | a thread: its place, `plan["row"]`, `plan["path"]`, the locals `ip`, `session`, `endpoint`, and `direct_worker_available is False` |
| `block`, `cells` | in `update_deployed_models_row`: the row found and the cells still to be written |
| `converter`, `writer` | the two locks, which each process has for itself |
| `documented` | whether the final write succeeded (`document_error`) |
| `edits`, `retries`, `deaths` | bounds |

`Locate` is the first refresh, `ProbeServing`/`ProbeElse` the shortcut for a
row that names the target already, then `StartConversion` .. `EndConversion`,
`Preflight`, `RefreshToMark`, the write (`FindRow`, `PatchCell` for each cell,
`EndWrite`, `WriteFails`), `Stop`, `VerifyPath`, `Launch`, `Served`, and
`RefreshToFinish` with the second write. `LocatedRows` is
`_refresh_plan_row_from_doc`: it reads the position from one export of the
table, `FindRow` applies it to another reading. `Raises` stands for the other
exceptions. `Retry` is a second execution of the review with the plan as it
was stored; `Die` is the death of a process.

The people are outside the code: they begin and end tests (and say so in the
cell), move, withhold and delete rows. A service may load or die at any time.

The parser columns, the SSH and VPN commands and the text of addresses are
left out. The tmux pane is merged with the worker's service: a command typed
into a pane that runs a service has no effect.

**MCDeployment** gives the instances.

### TaskPoller

The open subtasks of a shared task name checkpoints; each entry gets a review of a
plan for a row of the table, or waits for a row. The handler of a task,
`_process_task_subtasks`, runs in the polling loop and in the API: for each event of a
message or of a task the webhook starts a background task (`app.py:79-106`, `150-170`)
with a `FeishuPollingWorker` of its own. No lock keeps these runs apart. One step is one
Feishu request of a run, or its transactions between two requests.

| variable | code |
|---|---|
| `listed`, `gone`, `posted`, `free` | Feishu and the document: open subtasks, tasks it answers 404 for, shared tasks not yet processed, reusable rows |
| `reviews` | `operator_reviews`, with what the executor still has to mark (`owed`) |
| `item`, `older`, `known` | `processed_items`: an entry's status and review, the order by `processed_at` of those in `retry_waiting` (pairs), tasks with a row |
| `due`, `recent`, `disabled` | the settings of retry times, of the last check, and of unavailable tasks |
| `phase`, `agenda`, `checked` | the locals of `poll_once` and `_poll_known_todo_tasks` |
| `pc`, `task`, `work`, `reserved`, `made`, for each run | the locals of `_process_task_subtasks` in the loop (`Loop`) and in each background task (`Hooks`) |
| `heard` | the background tasks that handle a message, and mark it at the end |
| `overtaken`, `late` | history: runs that have read the reserved rows, and then another run made a review; for each run the entries another one decided on after it had read their states |
| `events`, `troubles` | bounds |
| `lapses` | history: deaths, entries that people took away while a run had them in hand or they waited, reviews and retries of runs that were late |

A tick is `Hear` for each message with a task (`PassOver`, when a background task has
processed the message meanwhile), `ListKnown`, then `Check` or `GiveUp` for the known
tasks in the order of `_known_todo_task_ids`, and `EndTick`. `Deliver` begins a
background task. Work on a task, in any run, is `Fetch` (or `FetchUnavailable`,
`FetchFails`), `Plan` (states merged over spellings, refreshed from reviews, rows
reserved), for each entry one of `CreateReview`, `NoticeFails`, `ScheduleRetry`,
`PlanFails`, then `MarkEntry`, and `EndTask`; `DetectionFails` is the exception that
leaves it. So two runs may both see no state of an entry at `Plan`, choose one row and
make a review each before either stores its mark, as in the code. `Die` loses the
loop's locals and `HookDies` those of a background task (when the API's process dies,
each of them dies). `Start` is `reconcile_processed_items_from_reviews`, at the start
of the loop and of the auditor. Times are two sets: retries that are due and tasks
checked within the interval.

A review has the four statuses that the poller treats differently: "pending" (also
being judged, and approved), "deploying", "ended" (deployed, failed, with a human) and
"aside" (blocked, requeued), which neither reserves a row nor ends an entry. The auditor
is `MoveReview`, its executor `ExecutorMarks`; `MoveBack` is everything that moves a
review against that direction: decisions, at any moment, recoveries, and a retry taken
up. `KnownTasks` is the order of `_known_todo_task_ids`, due retries first, by the
oldest, cut at `KnownLimit` tasks as `_merge_unique` cuts at six. Which tasks without a
due retry are cut is left open (the code cuts those stored first), and those
that are not come in a fixed order, where the code has the one stored last first.
`Crowded` says that more are known than a tick lists: the code then checks the
others only when a retry of theirs is due.

A manual check in a chat handles the chat's tasks like messages and the known ones
whatever the interval: in the API that is a background task for each (`Deliver`), in the
loop a tick whose `recent` was emptied.

### ReviewedTasks

The poller and the review queue over one table. `status` holds the statuses that the
auditor, the executors and people store; its steps are those of
ReviewLifecycle (`Queue`), which the auditor's model implements. `Seen` maps a status to
the poller's view of it. `Polls` is a step of the poller's side, a review it makes is an
`Ask` of the queue; `Serves` and `Disturbs` are the queue's steps, each of which changes
the poller's view as `MoveReview` or `MoveBack` does, or not at all (`Unseen`).

### RequestLifecycle, RequestSettings, Requests and Intake

`Requests` is `submit` and `_execute`: `status` is `requests.status`, `sent` what was
typed into the tmux windows of a request, `doing` where each thread is. `Look` and
`Insert` are two transactions, so two threads may race for one request. The runner
does not wait for a command, so a stage is `Command` and `Advance`, or one of
`StageFails` and `Unexpected`. `RequestLifecycle` is the state machine of
`docs/workflows.md`; `RequestSettings` holds the constants both modules use.

`Intake` has one chat, one document and two threads: the loop's and the webhook's
background task. It contains Requests (`R == INSTANCE Requests`) and every
step of its threads inside `submit` is a step of Requests.

| variable | code |
|---|---|
| `now`, `at`, `shown`, `doc` | the clock, when a message was posted, which messages Feishu lists, the document |
| `marked`, `cursor`, `docCursor` | `processed_items`, `source_cursors` |
| `failures`, `alerted`, `warnings`, `handoffs` | `issue_counts` and what was sent about it |
| `suppressed` | `_suppressed_chat_ids` |
| `pc`, `msg`, `polls` | where a thread is, with which message, and its nested calls of `_poll_chat` (a manual check polls the chat from inside the handler): each with the messages it has left (`todo`), where its listing began (`from`), the greatest time so far (`seen`, the code's `max_seen`) and the message that caused it (`by`) |
| `obeyed` | history: how often a command was carried out |

A listing reaches back five seconds behind the cursor; Feishu may show a message
late, but assumed not later than those five seconds (`Lag <= Overlap`). What
a message says is an input (`Kind`, `RequestOf`).

### TaskCards

One entry's status: `stored` is the setting, `cards` what its messages show, `late`
the patches Feishu may still apply, `contexts` the `status_message_id`s of its
reviews, `job` where each writer is in `_update_task_status_card` (a run of the handler,
in the loop or in a background task of the API: `Pollers`, any number) or
`_update_task_status` (`Executors`, any number: threads of the auditor, and background
tasks of the API, which do as much except that they put no question). An update is `Read` (with the
merge of `task_status_with_stage`), `Send` or its failures (`AttemptFails` for what
`_request` tries again, `Rejected` for what it does not), and `Write`. `Detect`,
`Plan`, `Mark`, `Ask` and `Begin` say who updates when: `Detect` is the reading of the
entry's state, which any number of runs may do before the first one marks it. `alone`,
`behind` and `overlaps` (how often a run found the entry while another had it) are
history variables of the properties. The direct message for a review and the
texts are left out.

### WeightConversion

`files` and `origin` say what each path holds of an output and from which
checkpoint; `job` follows each deployment from the plan
(`_apply_weight_conversion_to_entry`) to the load; `lock` is
`_WEIGHT_CONVERSION_LOCK` of each process; `scripts` are the scripts that passed
their tests. An output is written in any order (`Copy`), a script may finish,
fail, hang, and when its ssh times out or its process dies it may end or go
on alone (`Timeout`, `Die`, `Abandon`). `Retry` repeats a deployment with its
stored plan. `disturbed` is history: outputs of which a script ended early or that
two processes had in hand at once.

### MC modules

**MCReviewAuditor**, **MCDeployment**, **MCTaskPoller**, **MCIntake**, **MCTaskCards**
and **MCWeightConversion** give the instances: names for model values and the
functions the configurations bind to constants.

## 4. Runs

| run | shows |
|---|---|
| `review_core` | the auditor's threads exclude each other per worker and claims respect decisions, with the API executing beside them, decisions at any moment and a death |
| `review_lifecycle` | with a limit of one: the limit is kept, the statuses implement ReviewLifecycle when people decide what is handed to them, only a dead auditor's reviews are requeued (those of the error stage aside), every review comes to rest |
| `review_card_race` | violated: the API deploys on a worker in use |
| `dep_core` | two deployments of two processes write their own rows only; a row stays reserved while its service is replaced, torn or moved, unless people end tests on it that were running; only a repeat, or a plan for a row that named its target, may stop a tested service; through edits, a retry and a death |
| `dep_ends` | no lock stays behind and each execution ends, with deaths, failures, and rows deleted; two deployments come to one worker only after a planned row was deleted and another chosen |
| `dep_running_stopped` | violated: a repeat stops a service with running tests |
| `tasks` | in the loop: a row is reserved once, a due retry is attempted, every entry is followed as long as a tick lists every known task |
| `task_runs` | with a background task of the API beside the loop: a checkpoint is reviewed once; a death, an entry taken away unfinished, or a run that is late for it may cost one more |
| `tasks_starved` | violated: an entry withdrawn while it waits keeps its task first for ever, and another task's retry is never attempted |
| `intake` | commands are typed once, one hand-off, commands obeyed once per delivery, a message falls behind the cursor undone only by the first poll or by a listing that did not reach back to it, listed messages and created requests are finished, unless a process dies; Intake implements RequestLifecycle |
| `cards` | two runs of the handler and two executors, of the auditor or the API: as long as each review was made with a card, no second card without a lost answer, a death or a run that found the entry while the other had it; red if and only if a retry is offered, success is green, an undisturbed card shows what is stored |
| `conversion` | one conversion per process, no deployment loads a partial or somebody else's output, every deployment ends |

Bounds. In the review runs two reviews on one worker make the exclusion
interesting, a third on another worker the limit of two; one death and one or two
decisions are the smallest numbers with which a recovery meets a live or decided
review. More of them repeat the same situations, since every review has the same
rules. `review_lifecycle` has no error-stage reviews: an approved one is claimed and
declined in every tick until it expires, which is the hazard at
`reusable_executor.py:66`.

In `tasks` three tasks, two of them with a checkpoint, compete for one row, for the one
check a tick allows (`known_todo_max_per_tick` is 1) and, when all three are known, for
the two places of a tick (`KnownLimit = 2` for the code's six). One trouble happens (a
failed fetch, plan or notice, a review moved back, an edit, an outage or a death).
`Withdraw = FALSE` says that people change only what is reviewed; `tasks_starved` has it
TRUE, and two tasks. In `task_runs` one task with a checkpoint of two spellings is
handled by the loop and, for one event, by a background task at any point of it; the
second run meets every place the first can be in, and the trouble may be its death. Two
background tasks and more are left to the proofs, which are for any number; so is
`RowsReservedOnce` beside them.

In `intake` the scenes post one message, or a command and a manual check, with two
events (posts, webhook calls, edits) and one trouble; times are small numbers in
which the overlap is 1. One of the two requests cannot be planned. In `cards` three
runs, executions or questions and one trouble suffice for two runs to post a card each,
for an update to overtake another and for a patch to come late after both; the two
runs of the handler are alike and so are the executors, which is the symmetry; requests are tried twice (`Tries`)
instead of the code's `RETRY_DELAYS`, the number only bounds how many answers can
be lost. In `conversion` two entries in two processes ask for checkpoints of one
name in two runs, an output of a chosen name, or a run's directory, with one
retry and one trouble besides timeouts. `Mounted = TRUE`: the bot sees the
directories and asks the converter host only when it finds nothing.

The deployment runs have two workers, one tested and one idle, so that both
kinds of reusable row occur; two deployments in two processes for `dep_core` (no
common lock), in one process for `dep_ends` (both locks contended). Edits and
deaths together are at most two (`MaxTroubles`), beside one retry: a test may begin
and end, a row move twice, or a row change around a death.

`CarefulEditors` says that people leave the table alone between a refresh and
the end of the write that follows it, and `RowsMayGo` that they delete rows.
`dep_core` assumes careful people who delete nothing, and needs both: a
position read before a move is applied after it, and a replacement for a deleted row is
chosen without regard to the other deployments (the hazard at
`reusable_executor.py:594`), while the locals stay about the old worker. In `dep_ends`
careful people delete rows, and replacements are chosen.

Fairness: weak fairness of the main loop (it never blocks; its wait has a
timeout) and of each thread (every wait inside one has a timeout). None on
`Restart`, creation or decisions. So `EventuallySettled` says "or the auditor
is down". The bound on Codex's RETRY answers matters here: the code has none,
and a Codex that answers RETRY for ever keeps a review moving for ever.

In `dep_ends` each deployment's thread is weakly fair: every remote command has a
timeout, the wait for the service a deadline, and the only waits without one are
for the locks, which is what the run is about. Services and people owe nothing.

In `tasks` the loop is weakly fair, for the same reason, and so is the passing of
the check interval. Nothing is assumed of the auditor, of people, of background tasks, or of retries
falling due. `RetryFallsDue` and `ChecksFallDue` wait until every known task
had its turn, if the ticks list all (`AllChecked`): the delays (30 and 10 minutes) are
much longer than a tick (20 seconds). `DueIsRetried` and `EntriesAreFollowed` say "or the
loop is down", and `EntriesAreFollowed` also "or more tasks are known than a tick lists":
of seven known tasks the code never checks the one stored first unless a retry is due. In
`intake` each thread is weakly fair (no step blocks: requests time out, the health
check has a deadline, typed commands are not waited for) and a suppression ends
with time. In `conversion` the executors are weakly fair; their `Timeout` is
part of that (`timeout_sec`), while a script owes nothing. A weakly fair executor
may also always take its timeout, so a conversion need not succeed.

## 5. Proofs

The theorems hold for every value of the constants that satisfies the modules' named
ASSUMEs (TLC evaluates them in the runs), and so for any number of reviews, tasks,
deployments, messages, edits, retries and deaths. Theorems that need more name it
in an ASSUME of their own; every one of these holds in the run that checks the
property, and the list at the end says why the code justifies it. The invariants named
below are conjoined with the types.

### ReviewAuditorProofs

- `TypeInvariant`: by cases over the actions.
- `AtMostMaxParallel`: `ParallelBound` alone is not inductive, because the
  limit is tested at the claim and the future starts at the submission.
  `RoomForClaimed` adds that a claimed review has room; futures start only by
  submission (`LiveGrowsBySubmission`).
- `OneThreadPerWorker`: `ScanCoversLive` adds that during a scan `busy` covers
  the live futures and the claimed review is outside it.
- `OneOwnerPerWorker` (assuming `~CardActions`): `ScanCoversOwners` adds the
  same for rows in flight. The assumption is needed, as `review_card_race`
  shows.
- `DecisionsStand` (`ClaimsRespectDecisions`): a settled status changes by a person
  only, because a claim is conditional on the status it listed and a thread writes
  its own review only.
- `OrphansComeFromDeaths` (`RequeueOnlyAfterRestart`, assuming `~CardActions`), by
  `NoOrphan`: until a death, each row in flight is the one just claimed or has a live
  future, and a recovery lists none of these.
- `ImplementsReviewLifecycle` (assuming `OnlySettledDecided`: operators decide blocked,
  escalated and failed reviews only): each step is an edge of ReviewLifecycle or
  changes no status. `Steady` says what makes it so: the status of a row is one that
  its thread's phase expects, and what a recovery or the expiry has listed is still
  true of the row when it writes it, although nothing tests that.

### DeploymentProofs

- `DeploymentTypes`: with lemmas on what a move or a deletion of a row leaves
  (`RemoveAtType`, `MovedUp`), what a refresh may find (`LocatedType`) and what
  is written into a row (`ValuesType`).
- `NoLockLeft`: a lock is held exactly where the code is inside its `with`. It
  is inductive as stated, given the types, since every way out (an answer, an
  exception, a death) passes the release.
- `OnlyOwnRow`, assuming `Careful` (people leave the table alone in the windows and
  delete no row), and `AdmittedApart` (`SeparateWorkers`), which allows deletions:
  deployments planned for different workers come to one worker only after a planned row
  was deleted. Neither is inductive. `KeepsHome` adds the reason: as long as the planned
  rows are in the table (`RowsStay`), every refresh finds its own by its address and the
  plan and the locals keep that worker (`AtHome`); and from a refresh to the last
  cell the position, then the row, that the writer holds is a row of that
  worker (`Aims`). `HomeWhileListed` is that implication. Nothing is proved of where a
  deployment goes whose row was deleted, since the code chooses from the document alone.

The other four also assume one row (`OneRowEach`) and one deployment (`OneEach`) per
worker:

- `MarkedThroughout`: from the stop to the answer of the new service, the row has the
  deployment's marker. `Fit` and `Marked` follow the write cell by cell: a value is in
  the row or still in `cells`, which holds nothing but values of this write.
- `ReservedThroughout` (`ReservedWhileReplaced`): the row of a deployment at work
  is the only one of its worker (`OwnReserved`), and with the marker in it no edit makes
  it reusable, but one. The property was an invariant first, and the proof failed at
  `EndTests`: a repeated execution may stop a service on which tests run, and people who
  then report these tests finished make the row look tested. TLC confirms it with two more
  troubles than `dep_core` has (`MaxTroubles = 4`). It is now an action property that names
  this case.
- `FinishedAccepted` (`FinishedRowAccepted`, also assuming `Resolved`: paths resolve to
  themselves), by `NamesTarget`: from the marker on, or from the probe that found the
  target, the row names the target. Without `Resolved` it fails: the path is resolved after
  the marker was written (`reusable_executor.py:181`), and the row keeps the marker.
- `OnlyRepeatsStop` (`OnlyRepeatsStopTests`, also assuming that only failed executions
  are repeated), by `Quiet`: as long as nothing was repeated after a death and the row did
  not name its target when it was planned, it names it only together with the marker and
  with no tests running (`Untested`), since the model is written before the
  model id (`ModelFirst`). The proof failed for rows that named their target already: tests
  begun on such a row do not keep a refresh from accepting it. The property now excludes
  them, and `dep_running_stopped` is the finding.

### TaskPollerProofs

- `TypeCorrect`: the work is in the agenda, which is made of the tasks in an order that a
  CHOOSE finds or that `KnownTasks` allows, and in the entries, whose reviews must exist.
  `Typed` adds that a loop at work has a task and a made entry its key.
- `RowsStayReserved`, for the loop and any number of background tasks: two live reviews
  plan for one row only if one was set aside or finished and then approved after all, its
  notice failed, or its run was overtaken, that is, chose the row after another run had
  made a review since its own reading. `RowsReservedOnce` is not inductive, since a new
  review's row is chosen against `reserved`, a local copy made at `Plan`.
  `ReservationsHeld` says that in a run that makes reviews and is not overtaken,
  `reserved` covers the rows of all live reviews the poller kept track of.
- `OneReview` (`ReviewedOncePerLapse`): a counting argument over the spellings of a
  checkpoint and over the runs. `Balanced` says that the reviews it has and the spellings
  that may still get one are at most the lapses, and one more while a spelling is stored
  as handled or is listed and on its way (`Backed`). The lapses were the deaths at first.
  The proof failed where people take a spelling away that waits or is in hand and another
  is listed afterwards, and it fails where two runs decide on one entry: both make a
  review, and nothing died. A lapse is therefore also a review, or a retry stored over
  another's decision, of a run that was `late` for the entry; a run that reads an
  entry's state after the others have stored theirs is not.

### ReviewedTasksProofs

TaskPoller makes assumptions about its surroundings; these theorems discharge those about
the queue.

- `QueueSurrounds`: every step of the composition is a step of TaskPoller or leaves its
  variables alone. So all that is proved of TaskPoller holds beside the queue.
- `PollerKeepsLifecycle`: the composition implements ReviewLifecycle, for any `Given`. With
  `ImplementsReviewLifecycle` of the auditor, both sides of the table keep its life cycle.
- `ViewStaysTrue`: `reviews[i].status = Seen(status[i])`, and the poller knows exactly the
  reviews that exist.
- `QueueRowsApart`: what `RowsReservedOnce` means for the stored statuses: two reviews that
  are queued, judged, approved or being deployed plan for two rows, with the same exceptions.

The induction is over `Viewed`: the view is true and the ids fit the table. The proof of
`QueueSurrounds` failed at first for reviews that are requeued from "deploying", or approved
after they were blocked or had failed: TaskPoller let a pending review be sent back, and no
other. Its surroundings now take these edges too (`MoveBack`), the runs were repeated and
`RowsReservedOnce` leaves out the reviews concerned, since `_reserved_reusable_rows` does
not reserve their rows. The theorems are about decisions that keep the life cycle; a
decision on a review in flight, which the code does not prevent, is one `MoveBack` and one
`MoveReview` for TaskPoller, so `RowsStayReserved` and `OneReview` cover it as well.

### RequestsProofs and IntakeProofs

`RequestsProofs` proves types (`TypeCorrect`), one executor per request (`OneExecutes`),
each command typed once and in order (`TypedOnce`), and the implementation of
RequestLifecycle (`Refines`). Its invariant adds that what is executed was created
(`CreatedFirst`), that the typed commands do not go beyond the status (`InStages`) and
that the command of a stage not yet typed is still to come (`StillToSend`).

`IntakeProofs`:

- `Refines`: every step of Intake is one of Requests or leaves the requests alone
  (needed: a content about to be submitted spells a request, `DocumentReady`), so
  `TypedOnce` and the life cycle (`Documented`) carry over. No run checks this one, since
  Intake is made of the actions of Requests. A request whose process died is left in its
  stage: `submit` returns the stored request and nothing takes it up, where
  `docs/workflows.md:103-108` would reuse or inspect its tmux session and resume a
  repeated event from the last persisted state. The models do as the code does, and
  `RequestsFinish` says "unless a process died".
- `TypeCorrect`: `Held` relates a thread's place to its message and its calls of
  `_poll_chat`; `Executing` says that a thread is in `submit` exactly while the
  orchestrator executes for it.
- `OneHandOff` (`AlertsBounded`), by `Counted`: warnings and hand-offs that were sent
  and those a thread is about to send are counted together.
- `Obeyed` (`ObeyedPerDelivery`), by `Obeying`: an unmarked command was carried out by
  threads that are about to mark it, or by dead ones; a marked one only by those that
  have it in hand.
- `NonePassed` (`NothingPassed`), by `Reaching`: a message that a call reaches back to is
  marked, in its list, in hand, or within the overlap of everything that the call may
  save as the cursor. This uses `Lag <= Overlap`. The property excluded manual
  checks by name first. The proof showed what it is about: a listing that begins after the
  message, whoever makes it.

### TaskCardsProofs

- `RedCards`: a card with a review is red if and only if it offers a retry, whichever
  writer overtook which. The invariant says of the stored status and of every status about
  to be sent or stored that a deployment waits for a human only with a stage that does
  (`Honest`); the lemmas show that each stage merge establishes it, whatever it is
  merged into, which is why lost updates do no harm here.
- `TypeCorrect`, by `Bounds`: the cards that writers, reviews and late patches name exist.
- `CardsPosted` (`OneCard`), by `Budget`, for any number of runs of the handler: as long
  as a status without a card is stored or about to be (`Unposted`), the cards and the runs
  that may still post one (`Posters`) are together at most one more than the causes, the
  troubles and the runs that found the entry while another had it (`Paid`); a run that
  finds the entry alone finds a card to spare, or one that is stored. It needs
  that each review was made with a card (`Named`): an executor of a review made without
  one overwrites the identity of the stored card, which the proof found, and a later
  run posts anew. The condition `0 \notin contexts` is in the property.
- `LastWordShown` (`CardShowsStored`), by `Told`: unless an update was overtaken or a
  patch did not arrive or came late, what was written last, and what is sent and not
  yet written, is on the card.
- `SuccessIsGreen` (`DeployedIsGreen`), by `Undisturbed`: an execution that nobody
  wrote into finds the stages before its own not failed, in the table and in its locals.

### WeightConversionProofs

- `TypeCorrect` and `OneConversion`: the invariant adds what a deployment knows when
  it waits for the lock (`Placed`) and that nobody waits for two scripts (`OneScript`).
- `WholeOutputs` (`DeploysWhole`), by `Written`: a script has written what it has not to
  write any more, and an output that nothing disturbed is empty, whole or in the hands
  of a script.
- `OwnWeights` (`DeploysOwnWeights`), by `Origins`: whatever an output was made from, a
  deployment planned it for that path; a path that nobody named is a function of
  its checkpoint.

### The assumptions of single theorems

| assumption | holds in | why it is made |
|---|---|---|
| `~CardActions` | `review_lifecycle` | the API process is a second executor without the auditor's exclusion, the finding of `review_card_race`; without cards it executes nothing |
| `OnlySettledDecided` | `review_lifecycle` | decisions are unconditional updates (`store.py`, `decide_review`), so one on a review in flight takes any edge; the questions of the auditor hand people settled reviews only (with `auto_deploy_approved` off, `poller.py:1172-1179` also shows them pending ones, and the assumption is theirs to keep) |
| `Careful` (for `AdmittedApart` only its first half, `CarefulEditors`) | `dep_core` (`dep_ends`) | people cannot be made to wait; the hazard at `reusable_executor.py:594` is what happens when they do not |
| `OneRowEach`, `OneEach` | `dep_core` | the document has a row per worker, and the auditor admits one deployment per worker (`OneThreadPerWorker`) |
| `Resolved` | `dep_core` | a model directory that resolves to a child makes the last refresh reject the deployment's own row when the path is probed after the marker (`reusable_executor.py:181`) |
| `RetryFrom \subseteq {"failed"}` | `dep_core` | the auditor requeues what did not end deployed; a person who approves a deployed review again repeats it too, and is left out here |

### Only model-checked

All liveness (`EventuallySettled`, `EventuallyEnds`, `DueIsRetried`,
`EntriesAreFollowed`, `DocumentFollowed`, `MessagesHandled`, `RequestsFinish`,
`EveryDeploymentEnds`), which TLAPS does not handle under fairness. And the
violations. Every invariant and every action property of the passing runs is a theorem. No
module declares a RECURSIVE operator.

ReviewedTasks is the reverse: it has proofs and no run. Its states are those of `task_runs`
times the statuses that the poller cannot tell apart, too many for a run of its own beside
`task_runs`; what it composes is checked there and in `review_lifecycle`.

## 6. Not modelled

- Wording and layout of messages and cards, and the extraction of requests,
  paths and commands from text: what a text says is an input.
- Command line, configuration files, start scripts: arguments and constants.
- The Feishu token (fetched before the tries of a request, and reused until it
  nearly expires), paging, and the fallback from a card to a text.
- Direct messages about reviews, post-deploy notifications, the log of transitions.
- `review-auditor --once` beside a running auditor, LIMITs of the listings, reviews
  without a worker.
- Plans for new workers that operators connect by hand (`new_worker_plan`,
  `reconnect`).
- Real time: intervals, delays and deadlines are events in the order the
  configuration gives them.

TaskPoller and the review queue are composed (ReviewedTasks), and so are Intake and
Requests. The other modules meet in the source, not in one state space: TaskCards and
Deployment see an execution each from its own side. A composition of all of them is beyond
TLC.
