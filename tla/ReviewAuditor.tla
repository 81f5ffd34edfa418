--------------------------- MODULE ReviewAuditor ---------------------------
(***************************************************************************)
(* The review queue of free-my-hands and everybody who writes to it:       *)
(*                                                                         *)
(*   - the auditor process (codex_auditor.py): one main loop that recovers *)
(*     and claims reviews, and a pool of threads that judge and deploy     *)
(*     them (reusable_executor.py, execute_if_enabled);                    *)
(*   - the API process (app.py): a card click decides a review and, on     *)
(*     APPROVE, runs the same executor in a background task;               *)
(*   - operators, whose chat commands and CLI calls decide a review;       *)
(*   - the poller and the CLI, which create reviews.                       *)
(*                                                                         *)
(* They share the table operator_reviews (store.py).  Every store method   *)
(* is one SQLite transaction, hence one step here; what a caller remembers *)
(* between two transactions is a variable of that caller.                  *)
(***************************************************************************)
EXTENDS Naturals, FiniteSets

CONSTANTS
    Reviews,          \* review ids; an id is never reused
    Workers,          \* worker IPs
    WorkerOf,         \* the worker a review's stored payload names
    ErrorStage,       \* reviews of another stage than reuse_row_selected
    Reusable,         \* reviews whose stored row passes _row_can_auto_reuse
    PolicyOK,         \* reviews deterministic_review_decision approves
    MaxParallel,      \* [reusable_workers].max_parallel_deployments
    AutoDeploy,       \* [reusable_workers].auto_deploy_approved
    CardActions,      \* [approval].allow_card_actions
    OperatorActsOn,   \* statuses of the reviews the operators decide
    MaxCrashes,       \* bound: process deaths in a behaviour
    MaxRounds,        \* bound: operator decisions and Codex RETRY answers
    None              \* no review

Resting  == {"pending", "approved", "retry_requested"}
InFlight == {"codex_reviewing", "deploying"}
Settled  == {"blocked", "needs_human", "deployed", "deploy_failed"}
Statuses == {"absent"} \cup Resting \cup InFlight \cup Settled

\* Faulty variant: decision words stored without DECISION_STATUSES.
VerdictsUnmapped == {"APPROVE", "BLOCK", "RETRY", "REQUEST_INFO"}

\* The statuses a decision can give (DECISION_STATUSES).
Verdicts == {"approved", "blocked", "retry_requested", "needs_human"}

ASSUME ReviewsAssumption ==
    /\ IsFiniteSet(Reviews)
    /\ None \notin Reviews
    /\ WorkerOf \in [Reviews -> Workers]
    /\ ErrorStage \subseteq Reviews
    /\ Reusable \subseteq Reviews \ ErrorStage
    /\ PolicyOK \subseteq Reusable
ASSUME ConfigAssumption ==
    /\ MaxParallel \in Nat \ {0}
    /\ AutoDeploy \in BOOLEAN
    /\ CardActions \in BOOLEAN
ASSUME EnvironmentAssumption ==
    /\ OperatorActsOn \subseteq Statuses \ {"absent"}
    /\ MaxCrashes \in Nat
    /\ MaxRounds \in Nat

VARIABLES
    status,    \* operator_reviews.status, "absent" before the INSERT
    aged,      \* reviews not updated for _STALE_APPROVED_REVIEW_SEC
    pc,        \* where the auditor's main loop is
    section,   \* which of process_once's loops it is in
    todo,      \* the rows that loop's list_reviews returned, not yet visited
    spared,    \* active_review_ids of the recovery in progress
    busy,      \* active_workers of the scan in progress
    cur,       \* the review claimed and not yet submitted to the pool
    run,       \* what each process does with each review
    crashes,   \* process deaths so far
    rounds     \* operator decisions and Codex RETRY answers so far

main     == <<pc, section, todo, spared, busy, cur>>
counters == <<crashes, rounds>>
vars     == <<status, aged, main, run, counters>>

Executors == {"auditor", "api"}

(***************************************************************************)
(* A phase of run["auditor"][r] is that of the entry r of _futures: "none" *)
(* is no entry, "queued" and "direct" are a submitted review before and    *)
(* past the need of a verdict, "done" a future that ended and is not yet   *)
(* collected.  The API's background task uses "none", "approved",          *)
(* "deploying", "deployed" and "reporting".                                *)
(***************************************************************************)
LivePhases == {"queued", "direct", "codex", "approved", "deploying",
               "deployed", "reporting"}
Phases     == LivePhases \cup {"none", "done"}

Recoveries == {"recover_reviewing", "recover_deploying"}
Claims     == {"claim_pending", "claim_retry", "claim_approved"}
Sections   == Recoveries \cup {"stale"} \cup Claims

\* The status each loop of process_once lists.
ListedStatus ==
    [s \in Sections |->
        CASE s = "recover_reviewing" -> "codex_reviewing"
          [] s = "recover_deploying" -> "deploying"
          [] s = "stale"             -> "approved"
          [] s = "claim_pending"     -> "pending"
          [] s = "claim_retry"       -> "retry_requested"
          [] s = "claim_approved"    -> "approved"]

TypeOK ==
    /\ status \in [Reviews -> Statuses]
    /\ aged \subseteq Reviews
    /\ pc \in {"down", "idle", "list", "each", "submit", "check"}
    /\ section \in Sections
    /\ todo \subseteq Reviews
    /\ spared \subseteq Reviews
    /\ busy \subseteq Workers
    /\ cur \in IF pc = "submit" THEN Reviews ELSE {None}
    /\ run \in [Executors -> [Reviews -> Phases]]
    /\ crashes \in 0 .. MaxCrashes
    /\ rounds \in 0 .. MaxRounds

-----------------------------------------------------------------------------
(* Helpers                                                                 *)

\* The unfinished futures of the auditor: the ids active_count counts.
Live == {r \in Reviews : run["auditor"][r] \in LivePhases}

\* Faulty variant: one future too many.
AtCapacityOffByOne == Cardinality(Live) > MaxParallel

AtCapacity == Cardinality(Live) >= MaxParallel

\* Faulty variant: the rows in flight only, not the futures.
ActiveWorkersOfRows == {WorkerOf[q] : q \in {r \in Reviews :
                                                status[r] \in InFlight}}

\* _active_workers: claimed by an unfinished future or by a row in flight.
ActiveWorkers == {WorkerOf[r] : r \in Live \cup
                                {q \in Reviews : status[q] \in InFlight}}

\* decide_review: an unconditional UPDATE, which also renews updated_at.
Write(r, s) ==
    /\ status' = [status EXCEPT ![r] = s]
    /\ aged' = aged \ {r}

Keep == UNCHANGED <<status, aged>>

Move(p, r, phase) == run' = [run EXCEPT ![p][r] = phase]

\* The future stays in _futures until collected; the API keeps nothing.
Finish(p, r) == Move(p, r, IF p = "auditor" THEN "done" ELSE "none")

-----------------------------------------------------------------------------
(* The auditor's main loop                                                 *)

\* Faulty variant: the UPDATE of a claim without its status condition.
ClaimableAnyway(r) == TRUE

\* claim_review's WHERE clause: the row still has the status it was listed by.
Claimable(r) == status[r] = ListedStatus[section]

\* Faulty variant: one status for every claim.
ClaimStatusUniform == "codex_reviewing"

\* An approved review is claimed to be deployed, the others to be judged.
ClaimStatus ==
    IF section = "claim_approved" THEN "deploying" ELSE "codex_reviewing"

\* Faulty variants: a recovery that spares nobody, and one that ignores the
\* deploying rows.
ListedUnspared(s) ==
    {r \in Reviews : status[r] = ListedStatus[s] /\ (s = "stale" => r \in aged)}
ListedNoDeploying(s) ==
    IF s = "recover_deploying" THEN {} ELSE ListedUnspared(s) \ spared

\* The rows list_reviews returns that the loop's own test lets through: the
\* ids it spares, the age it wants.
Listed(s) ==
    {r \in Reviews : /\ status[r] = ListedStatus[s]
                     /\ s \in Recoveries => r \notin spared
                     /\ s = "stale" => r \in aged}

\* process_once begins: _collect_finished, then the snapshot of the live ids.
BeginTick ==
    /\ pc = "idle"
    /\ run' = [run EXCEPT !["auditor"] =
                  [r \in Reviews |-> IF @[r] = "done" THEN "none" ELSE @[r]]]
    /\ spared' = Live
    /\ section' = "recover_reviewing"
    /\ pc' = "list"
    /\ Keep
    /\ UNCHANGED <<todo, busy, cur, counters>>

ListSection ==
    /\ pc = "list"
    /\ todo' = Listed(section)
    /\ pc' = "each"
    /\ Keep
    /\ UNCHANGED <<section, spared, busy, cur, run, counters>>

\* A listed row that no live future owns goes back to the queue.
RecoverOrphan(r) ==
    /\ pc = "each" /\ section \in Recoveries
    /\ r \in todo
    /\ Write(r, "retry_requested")
    /\ todo' = todo \ {r}
    /\ UNCHANGED <<pc, section, spared, busy, cur, run, counters>>

EndRecovery ==
    /\ pc = "each" /\ section \in Recoveries
    /\ todo = {}
    /\ section' = IF section = "recover_reviewing" THEN "recover_deploying"
                                                   ELSE "stale"
    /\ spared' = IF section' = "stale" THEN {} ELSE spared
    /\ pc' = "list"
    /\ Keep
    /\ UNCHANGED <<todo, busy, cur, run, counters>>

MarkStale(r) ==
    /\ pc = "each" /\ section = "stale"
    /\ r \in todo
    /\ Write(r, "needs_human")
    /\ todo' = todo \ {r}
    /\ UNCHANGED <<pc, section, spared, busy, cur, run, counters>>

\* After the stale loop: active_workers = self._active_workers().
ScanWorkers ==
    /\ pc = "each" /\ section = "stale"
    /\ todo = {}
    /\ busy' = ActiveWorkers
    /\ section' = "claim_pending"
    /\ pc' = "list"
    /\ Keep
    /\ UNCHANGED <<todo, spared, cur, run, counters>>

\* The claim loop passes over a review whose worker is taken.
SkipBusyWorker(r) ==
    /\ pc = "each" /\ section \in Claims
    /\ r \in todo
    /\ ~AtCapacity
    /\ WorkerOf[r] \in busy
    /\ todo' = todo \ {r}
    /\ Keep
    /\ UNCHANGED <<pc, section, spared, busy, cur, run, counters>>

Claim(r) ==
    /\ pc = "each" /\ section \in Claims
    /\ r \in todo
    /\ ~AtCapacity
    /\ WorkerOf[r] \notin busy
    /\ Claimable(r)
    /\ Write(r, ClaimStatus)
    /\ todo' = todo \ {r}
    /\ cur' = r
    /\ pc' = "submit"
    /\ UNCHANGED <<section, spared, busy, run, counters>>

\* The row left the listed status since the listing: the claim fails.
LoseClaim(r) ==
    /\ pc = "each" /\ section \in Claims
    /\ r \in todo
    /\ ~AtCapacity
    /\ WorkerOf[r] \notin busy
    /\ ~Claimable(r)
    /\ todo' = todo \ {r}
    /\ Keep
    /\ UNCHANGED <<pc, section, spared, busy, cur, run, counters>>

\* get_review, _submit_review, active_workers.add.  The thread works on the
\* row read here: a row in "deploying" carries an APPROVE and skips judging.
SubmitClaimed ==
    /\ pc = "submit"
    /\ Move("auditor", cur,
            IF status[cur] = "deploying" THEN "direct" ELSE "queued")
    /\ busy' = busy \cup {WorkerOf[cur]}
    /\ cur' = None
    /\ pc' = "each"
    /\ Keep
    /\ UNCHANGED <<section, todo, spared, counters>>

\* The inner loop ends: nothing left, or the break at the parallel limit.
EndClaims ==
    /\ pc = "each" /\ section \in Claims
    /\ todo = {} \/ AtCapacity
    /\ todo' = {}
    /\ pc' = "check"
    /\ Keep
    /\ UNCHANGED <<section, spared, busy, cur, run, counters>>

\* The outer loop's own test of the limit, after the inner one.
NextClaims ==
    /\ pc = "check"
    /\ ~AtCapacity
    /\ \/ section = "claim_pending" /\ section' = "claim_retry"
       \/ section = "claim_retry" /\ AutoDeploy /\ section' = "claim_approved"
    /\ pc' = "list"
    /\ Keep
    /\ UNCHANGED <<todo, spared, busy, cur, run, counters>>

EndTick ==
    /\ pc = "check"
    /\ \/ AtCapacity
       \/ section = "claim_retry" /\ ~AutoDeploy
       \/ section = "claim_approved"
    /\ pc' = "idle"
    /\ busy' = {}
    /\ section' = "recover_reviewing"
    /\ Keep
    /\ UNCHANGED <<todo, spared, cur, run, counters>>

MainStep ==
    \/ BeginTick
    \/ ListSection
    \/ EndRecovery
    \/ ScanWorkers
    \/ SubmitClaimed
    \/ EndClaims
    \/ NextClaims
    \/ EndTick
    \/ \E r \in Reviews : \/ RecoverOrphan(r)
                          \/ MarkStale(r)
                          \/ SkipBusyWorker(r)
                          \/ Claim(r)
                          \/ LoseClaim(r)

-----------------------------------------------------------------------------
(* The auditor's threads: _process_review                                  *)

\* After an APPROVE: with automatic deployment the executor follows at once,
\* otherwise the result card does and execute_if_enabled declines.
AfterVerdict(s) ==
    IF s = "approved" /\ AutoDeploy THEN "approved" ELSE "reporting"

\* The deterministic rules approve.
PolicyApprove(r) ==
    /\ run["auditor"][r] = "queued"
    /\ r \in PolicyOK
    /\ Write(r, "approved")
    /\ Move("auditor", r, AfterVerdict("approved"))
    /\ UNCHANGED <<main, counters>>

\* The rules are silent and the Codex toggle, which an operator may flip at
\* any time, is off: _request_human.
CodexDisabled(r) ==
    /\ run["auditor"][r] = "queued"
    /\ r \notin PolicyOK
    /\ Write(r, "needs_human")
    /\ Move("auditor", r, "reporting")
    /\ UNCHANGED <<main, counters>>

\* The rules are silent and Codex is asked.
StartCodex(r) ==
    /\ run["auditor"][r] = "queued"
    /\ r \notin PolicyOK
    /\ Write(r, "codex_reviewing")
    /\ Move("auditor", r, "codex")
    /\ UNCHANGED <<main, counters>>

\* Codex answers; a failure, a timeout or no decision is needs_human.
CodexVerdict(r, s) ==
    /\ run["auditor"][r] = "codex"
    /\ s = "retry_requested" => rounds < MaxRounds
    /\ rounds' = IF s = "retry_requested" THEN rounds + 1 ELSE rounds
    /\ Write(r, s)
    /\ Move("auditor", r, AfterVerdict(s))
    /\ UNCHANGED <<main, crashes>>

-----------------------------------------------------------------------------
(* execute_if_enabled, in a thread of the auditor or in the API process    *)

\* An executor holds an APPROVE for r, whatever the row says by now.
Holds(p, r) == run[p][r] \in {"direct", "approved"}

\* Declined without a trace: deployments are off or the stage is another.
ExecuteNothing(p, r) ==
    /\ Holds(p, r)
    /\ ~AutoDeploy \/ r \in ErrorStage
    /\ Finish(p, r)
    /\ Keep
    /\ UNCHANGED <<main, counters>>

\* The stored row may not be reused: _mark_needs_human.
ExecuteUnsafe(p, r) ==
    /\ Holds(p, r)
    /\ AutoDeploy /\ r \notin ErrorStage \cup Reusable
    /\ Write(r, "needs_human")
    /\ Move(p, r, "reporting")
    /\ UNCHANGED <<main, counters>>

ExecuteBegin(p, r) ==
    /\ Holds(p, r)
    /\ AutoDeploy /\ r \in Reusable
    /\ Write(r, "deploying")
    /\ Move(p, r, "deploying")
    /\ UNCHANGED <<main, counters>>

\* _execute raises: every wait in it has a timeout.
DeployFail(p, r) ==
    /\ run[p][r] = "deploying"
    /\ Write(r, "deploy_failed")
    /\ Move(p, r, "reporting")
    /\ UNCHANGED <<main, counters>>

DeployDone(p, r) ==
    /\ run[p][r] = "deploying"
    /\ Write(r, "deployed")
    /\ Move(p, r, "deployed")
    /\ UNCHANGED <<main, counters>>

\* The post-deploy notices; when they add to the decision it is saved again.
NotifyDeployed(p, r) ==
    /\ run[p][r] = "deployed"
    /\ Keep \/ Write(r, "deployed")
    /\ Move(p, r, "reporting")
    /\ UNCHANGED <<main, counters>>

\* The result card is sent, or its failure is swallowed by the API.
ReportDone(p, r) ==
    /\ run[p][r] = "reporting"
    /\ Finish(p, r)
    /\ Keep
    /\ UNCHANGED <<main, counters>>

\* The card and its text fallback both fail: the exception leaves
\* _process_review and _process_review_safe decides once more.
ReportFail(r) ==
    /\ run["auditor"][r] = "reporting"
    /\ Write(r, "needs_human")
    /\ Finish("auditor", r)
    /\ UNCHANGED <<main, counters>>

ExecuteStep(p, r) ==
    \/ ExecuteNothing(p, r)
    \/ ExecuteUnsafe(p, r)
    \/ ExecuteBegin(p, r)
    \/ DeployFail(p, r)
    \/ DeployDone(p, r)
    \/ NotifyDeployed(p, r)
    \/ ReportDone(p, r)

ThreadStep(r) ==
    \/ PolicyApprove(r)
    \/ CodexDisabled(r)
    \/ StartCodex(r)
    \/ \E s \in Verdicts : CodexVerdict(r, s)
    \/ ReportFail(r)
    \/ ExecuteStep("auditor", r)

-----------------------------------------------------------------------------
(* The other writers, and what happens to the processes                    *)

\* The poller (or the CLI) creates a review.
CreateReview(r) ==
    /\ status[r] = "absent"
    /\ Write(r, "pending")
    /\ UNCHANGED <<main, run, counters>>

\* A chat command or a CLI call decides a review.
Decide(r, s) ==
    /\ status[r] \in OperatorActsOn
    /\ rounds < MaxRounds
    /\ rounds' = rounds + 1
    /\ Write(r, s)
    /\ UNCHANGED <<main, run, crashes>>

\* APPROVE on a card: decided by the webhook, executed by the API process.
\* Bound: one background task per review.
CardApprove(r) ==
    /\ CardActions
    /\ status[r] \in OperatorActsOn
    /\ run["api"][r] = "none"
    /\ rounds < MaxRounds
    /\ rounds' = rounds + 1
    /\ Write(r, "approved")
    /\ Move("api", r, "approved")
    /\ UNCHANGED <<main, crashes>>

\* An hour passes without an update.  No tick, and no step between an APPROVE
\* and its execution, lasts that long.
Age(r) ==
    /\ status[r] = "approved"
    /\ r \notin aged
    /\ pc \in {"idle", "down"}
    /\ \A p \in Executors : run[p][r] \notin LivePhases
    /\ aged' = aged \cup {r}
    /\ UNCHANGED <<status, main, run, counters>>

\* The auditor process dies, with its threads and its memory.
Crash ==
    /\ pc # "down"
    /\ crashes < MaxCrashes
    /\ crashes' = crashes + 1
    /\ run' = [run EXCEPT !["auditor"] = [r \in Reviews |-> "none"]]
    /\ pc' = "down"
    /\ section' = "recover_reviewing"
    /\ todo' = {} /\ spared' = {} /\ busy' = {}
    /\ cur' = None
    /\ Keep
    /\ UNCHANGED rounds

Restart ==
    /\ pc = "down"
    /\ pc' = "idle"
    /\ Keep
    /\ UNCHANGED <<section, todo, spared, busy, cur, run, counters>>

\* The API process dies, with its background tasks.
CrashApi ==
    /\ \E r \in Reviews : run["api"][r] # "none"
    /\ crashes < MaxCrashes
    /\ crashes' = crashes + 1
    /\ run' = [run EXCEPT !["api"] = [r \in Reviews |-> "none"]]
    /\ Keep
    /\ UNCHANGED <<main, rounds>>

Init ==
    /\ status = [r \in Reviews |-> "absent"]
    /\ aged = {}
    /\ pc = "down"
    /\ section = "recover_reviewing"
    /\ todo = {} /\ spared = {} /\ busy = {}
    /\ cur = None
    /\ run = [p \in Executors |-> [r \in Reviews |-> "none"]]
    /\ crashes = 0
    /\ rounds = 0

Next ==
    \/ MainStep
    \/ \E r \in Reviews : \/ ThreadStep(r)
                          \/ ExecuteStep("api", r)
                          \/ CreateReview(r)
                          \/ \E s \in Verdicts : Decide(r, s)
                          \/ CardApprove(r)
                          \/ Age(r)
    \/ Crash
    \/ Restart
    \/ CrashApi

Spec == Init /\ [][Next]_vars

(***************************************************************************)
(* Fairness: the main loop and the pool threads run whenever they can; the *)
(* waits inside a thread (Codex, ssh, conversion, serving) all have a      *)
(* timeout in the code.  Nobody is obliged to create or decide a review,   *)
(* and nothing restarts a dead auditor.                                    *)
(***************************************************************************)
Fairness ==
    /\ WF_vars(MainStep)
    /\ \A r \in Reviews : WF_vars(ThreadStep(r))

FairSpec == Spec /\ Fairness

-----------------------------------------------------------------------------
(* Safety                                                                  *)

\* The auditor never has more unfinished futures than the configured number
\* (the test of active_count in process_once, which is made before the claim
\* and holds at the submission).
ParallelBound == Cardinality(Live) <= MaxParallel

\* Two threads of the auditor never work on one worker: active_workers, built
\* at the start of a scan from futures that may end meanwhile and from rows
\* that may change meanwhile, still excludes every live one.
WorkerExclusion ==
    \A r, s \in Live : WorkerOf[r] = WorkerOf[s] => r = s

\* A review owns its worker while its row is in flight, a thread works on it,
\* or the main loop has claimed it.
Owns(r) == status[r] \in InFlight \/ r \in Live \/ r = cur

\* A worker has one owner at a time, over claims, decisions, deaths of the
\* auditor and the recovery after them.  Only without the card's executor.
OneOwner ==
    \A r, s \in Reviews : Owns(r) /\ Owns(s) /\ WorkerOf[r] = WorkerOf[s]
                          => r = s

\* Why WorkerExclusion holds: during a scan active_workers covers the live
\* futures, and the claimed review is from outside it.
ScanCoversLive ==
    /\ WorkerExclusion
    /\ section \in Claims => \A r \in Live : WorkerOf[r] \in busy
    /\ pc = "submit" => section \in Claims /\ WorkerOf[cur] \notin busy

\* Why OneOwner holds: the same, of every owner.
ScanCoversOwners ==
    /\ OneOwner
    /\ section \in Claims =>
          \A r \in Reviews : Owns(r) /\ r # cur => WorkerOf[r] \in busy
    /\ pc = "submit" => section \in Claims /\ WorkerOf[cur] \notin busy
    /\ \A r \in Reviews : run["api"][r] = "none"

\* Why ParallelBound holds: between the test of the limit and the submission
\* futures only end.
RoomForClaimed ==
    /\ ParallelBound
    /\ pc = "submit" => Cardinality(Live) < MaxParallel

\* On one worker there is one deployment, over both processes.
SerializedPerWorker ==
    \A p, q \in Executors, r, s \in Reviews :
        /\ run[p][r] = "deploying" /\ run[q][s] = "deploying"
        /\ WorkerOf[r] = WorkerOf[s]
        => p = q /\ r = s

-----------------------------------------------------------------------------
(* What a step may never do                                                *)

Busy(r) == \E p \in Executors : run[p][r] \in LivePhases

PersonDecides(r) == CardApprove(r) \/ \E s \in Verdicts : Decide(r, s)

\* A settled review that no thread works on and no recovery has listed is
\* changed by a person only: a claim made from an old listing leaves it alone.
ClaimsRespectDecisions ==
    [][\A r \in Reviews :
          /\ status[r] \in Settled /\ status'[r] # status[r]
          /\ ~Busy(r) /\ (r \in todo => section \in Claims)
          => PersonDecides(r)]_vars

\* The recovery of orphans, "after restart" in its own words, never requeues
\* a review of an auditor that did not die.  Only the reviews of another stage,
\* whose claim for deployment is declined without a trace, may come back so.
RequeueOnlyAfterRestart ==
    [][\A r \in Reviews \ ErrorStage : RecoverOrphan(r) => crashes > 0]_vars

\* Where the operators decide settled reviews only, the statuses take the
\* edges of the abstract life cycle.
Lifecycle == INSTANCE ReviewLifecycle WITH Given <- OperatorActsOn
ImplementsLifecycle == Lifecycle!Spec

-----------------------------------------------------------------------------
(* Liveness                                                                *)

\* Nothing is left for the auditor to do with r.
AtRest(r) == status[r] \in Settled \/ (~AutoDeploy /\ status[r] = "approved")

\* While the auditor stays up every review comes to rest, the ones a dead
\* auditor left in flight included.
EventuallySettled ==
    \A r \in Reviews :
        (pc # "down" /\ status[r] # "absent")
            ~> (AtRest(r) \/ pc = "down")
=============================================================================
