------------------------------ MODULE TaskCards ------------------------------
(***************************************************************************)
(* The status card of one task entry (task_status.py): the runs of the     *)
(* poller's handler, in its loop and in the background tasks of the API,   *)
(* announce the entry, the review auditor asks for a human, and the        *)
(* executors of the auditor and of the API process report on deployments.  *)
(* Each update reads the stored status, merges a stage into it, sends the  *)
(* card through the Feishu client (_request in feishu.py), and writes the  *)
(* status back; nothing keeps others from doing so in between.             *)
(*                                                                         *)
(* A step is one transaction or one attempt of a Feishu request.           *)
(***************************************************************************)
EXTENDS Naturals, Sequences, FiniteSets

CONSTANTS
    Pollers,      \* the runs of the handler, one at a time in each
    Executors,    \* threads of the auditor; a background task of the API's does
                  \* what they do, but asks nothing
    Converts,     \* the plan has a weight conversion
    Tries,        \* the length of RETRY_DELAYS
    MaxRuns,      \* bounds: executions and questions of the auditor,
    MaxTroubles   \* lost or rejected attempts, and deaths

ASSUME CardsAssumption ==
    /\ IsFiniteSet(Pollers) /\ Pollers \cap Executors = {}
    /\ Converts \in BOOLEAN /\ Tries \in Nat \ {0}
    /\ MaxRuns \in Nat /\ MaxTroubles \in Nat

Writers == Pollers \cup Executors

Stages   == {"detect", "codex", "convert", "execute", "document"}
Order    == [detect |-> 1, codex |-> 2, convert |-> 3, execute |-> 4, document |-> 5]
Statuses == {"none", "done", "passed", "running", "to_review", "waiting", "failed", "human"}
Deploys  == {"none", "preparing", "converting", "starting", "deployed", "error", "human"}
Failing  == {"failed", "human"}
Updates  == {"detect", "announce", "wait", "ask", "deploying", "converted", "deployed",
             "undocumented", "failed", "unsafe"}

VARIABLES
    stored,     \* the setting task_status of the entry
    cards,      \* what the messages posted for it show, in the order of posting
    late,       \* timed-out patches that Feishu may still apply
    contexts,   \* status_message_id of each review made for it, 0 without a card
    marked,     \* the entry is marked, and will not be announced again
    job,        \* what a writer is doing
    alone,      \* history: the executions into which nobody else wrote;
    behind,     \* since the last patch, an update was written over another made
                \* after its reading, a patch failed or came late, or a writer died;
    runs, troubles, \* bounds
    overlaps    \* history: runs that found the entry while another was at work on it

history == <<alone, behind>>
bounds  == <<runs, troubles, overlaps>>
vars == <<stored, cards, late, contexts, marked, job, history, bounds>>

Empty == [stages |-> [s \in Stages |-> "none"], deploy |-> "none", card |-> 0,
          review |-> FALSE]
\* What the card of a status shows.
Face(st) == [st EXCEPT !.card = 0]

Idle == [at |-> "idle", next |-> {}, update |-> "none", id |-> 0, st |-> Empty,
         fresh |-> TRUE, tries |-> 1]

Init ==
    /\ stored = Empty /\ cards = <<>> /\ late = {}
    /\ contexts = {} /\ marked = FALSE
    /\ job = [w \in Writers |-> Idle]
    /\ alone = {} /\ behind = FALSE
    /\ runs = 0 /\ troubles = 0 /\ overlaps = 0

-----------------------------------------------------------------------------
\* task_status_with_stage.

\* Faulty variant: the status of the stage becomes that of the deployment.
NextDeployUnmapped(stage, status, current) ==
    CASE status \in Failing                              -> status
      [] stage \in {"detect", "codex"}                   -> "preparing"
      [] stage = "convert" /\ status = "running"         -> "converting"
      [] stage = "execute" /\ status = "running"         -> "starting"
      [] stage \in {"execute", "document"} /\ status = "done" -> "deployed"
      [] OTHER -> IF current = "none" THEN "preparing" ELSE current

\* Faulty variant: a stage that starts anew does not start the deployment anew.
NextDeployKept(stage, status, current) ==
    CASE status = "failed"                               -> "error"
      [] status = "human"                                -> "human"
      [] stage = "convert" /\ status = "running"         -> "converting"
      [] stage = "execute" /\ status = "running"         -> "starting"
      [] stage \in {"execute", "document"} /\ status = "done" -> "deployed"
      [] OTHER -> IF current = "none" THEN "preparing" ELSE current

NextDeploy(stage, status, current) ==
    CASE status = "failed"                               -> "error"
      [] status = "human"                                -> "human"
      [] stage \in {"detect", "codex"} /\ status \notin Failing -> "preparing"
      [] stage = "convert" /\ status = "running"         -> "converting"
      [] stage = "execute" /\ status = "running"         -> "starting"
      [] stage \in {"execute", "document"} /\ status = "done" -> "deployed"
      [] OTHER -> IF current = "none" THEN "preparing" ELSE current

With(st, stage, status) ==
    [st EXCEPT
       !.stages = [s \in Stages |-> CASE s = stage                -> status
                                      [] Order[s] > Order[stage] -> "none"
                                      [] OTHER                   -> @[s]],
       !.deploy = NextDeploy(stage, status, @)]

\* The executor's reports: a deployment begins with the approval as its codex stage.
\* Faulty variant: a codex stage that is there already is kept.
ApprovedOnce(st, update) ==
    IF st.stages["codex"] = "none" THEN With(st, "codex", "passed") ELSE st

Approved(st, update) ==
    IF st.stages["codex"] = "none" \/ update = "deploying" THEN With(st, "codex", "passed")
                                                           ELSE st
FailedStage(st) ==
    IF Converts /\ st.stages["convert"] # "done" THEN "convert" ELSE "execute"

Report(st, update) ==
    LET a == Approved(st, update)
    IN  CASE update = "deploying"    -> With(a, IF Converts THEN "convert" ELSE "execute",
                                             "running")
          [] update = "converted"    -> With(With(a, "convert", "done"), "execute", "running")
          [] update = "deployed"     -> With(With(a, "execute", "done"), "document", "done")
          [] update = "undocumented" -> With(With(a, "execute", "done"), "document", "human")
          [] update = "failed"       -> With(a, FailedStage(st), "failed")
          [] update = "unsafe"       -> With(a, "execute", "human")

Merged(st, update) ==
    CASE update = "detect"   -> With(st, "detect", "done")
      [] update = "announce" -> With(st, "codex", "to_review")
      [] update = "wait"     -> With(st, "codex", "waiting")
      [] update = "ask"      -> [With(st, "codex", "human") EXCEPT !.review = TRUE]
      [] OTHER               -> [Report(st, update) EXCEPT !.review = TRUE]

\* task_status_card: the colour and the buttons.
HasFailing(st) == \E s \in Stages : st.stages[s] \in Failing
Red(st) == HasFailing(st) \/ st.deploy \in {"error", "human"}
OffersRetry(st) == st.review /\ (HasFailing(st) \/ st.deploy = "error")

-----------------------------------------------------------------------------
\* An update.

Update(w) == job[w].update
Card(w) == job[w].st.card

\* The status that is updated: one of another card is not.
Base(id) ==
    IF id = 0 THEN stored
    ELSE [(IF stored.card \in {0, id} THEN stored ELSE Empty) EXCEPT !.card = id]

\* The auditor's question needs a card; the executors store a status without one.
Read(w) ==
    /\ job[w].at = "read"
    /\ \E u \in job[w].next :
           LET st == Merged(Base(job[w].id), u)
           IN  job' = [job EXCEPT ![w].at = IF st.card # 0 \/ w \in Pollers THEN "send"
                                                                            ELSE "write",
                                  ![w].next = {}, ![w].update = u, ![w].st = st]
    /\ UNCHANGED <<stored, cards, late, contexts, marked, history, bounds>>

Trouble ==
    troubles < MaxTroubles /\ troubles' = troubles + 1 /\ UNCHANGED overlaps

\* Faulty variant: the card is made before the update is merged into the status.
ApplyEarly(w) ==
    cards' = IF Card(w) = 0 THEN Append(cards, Face(Base(job[w].id)))
                            ELSE [cards EXCEPT ![Card(w)] = Face(Base(job[w].id))]

\* Feishu shows the status: on the card, or on a new one.
Apply(w) ==
    cards' = IF Card(w) = 0 THEN Append(cards, Face(job[w].st))
                            ELSE [cards EXCEPT ![Card(w)] = Face(job[w].st)]

\* Faulty variant: the identity of a new card is not kept.
SendForgetting(w) ==
    /\ job[w].at = "send"
    /\ Apply(w)
    /\ job' = [job EXCEPT ![w].at = "write", ![w].tries = 1]
    /\ behind' = FALSE
    /\ UNCHANGED <<stored, late, contexts, marked, alone, bounds>>

Send(w) ==
    /\ job[w].at = "send"
    /\ Apply(w)
    /\ job' = [job EXCEPT ![w].at = "write", ![w].tries = 1,
                          ![w].st.card = IF @ = 0 THEN Len(cards) + 1 ELSE @]
    /\ behind' = FALSE
    /\ UNCHANGED <<stored, late, contexts, marked, alone, bounds>>

\* A transient error, or no answer in time: the request is tried again, a few
\* times.  It may have reached Feishu, or may reach it later.
TryAgain(w) ==
    job' = [job EXCEPT ![w].at = IF job[w].tries < Tries THEN "send" ELSE "write",
                       ![w].tries = IF @ < Tries THEN @ + 1 ELSE 1]

AttemptFails(w) ==
    /\ job[w].at = "send" /\ Trouble
    /\ TryAgain(w)
    /\ behind' = (behind \/ job[w].tries = Tries)
    /\ \/ UNCHANGED <<cards, late>>
       \/ Apply(w) /\ UNCHANGED late
       \/ /\ Card(w) # 0
          /\ late' = late \cup {[card |-> Card(w), face |-> Face(job[w].st)]}
          /\ UNCHANGED cards
    /\ UNCHANGED <<stored, contexts, marked, alone, runs>>

\* Another error is not tried again.  It is logged, and the status stored.
Rejected(w) ==
    /\ job[w].at = "send" /\ Trouble
    /\ job' = [job EXCEPT ![w].at = "write", ![w].tries = 1]
    /\ behind' = TRUE
    /\ UNCHANGED <<stored, cards, late, contexts, marked, alone, runs>>

ApplyLate ==
    /\ \E l \in late : /\ late' = late \ {l}
                       /\ cards' = [cards EXCEPT ![l.card] = l.face]
    /\ behind' = TRUE
    /\ UNCHANGED <<stored, contexts, marked, job, alone, bounds>>

\* What an execution reports after an update.
Outcomes == {"deployed", "undocumented", "failed"}
Then(update) ==
    CASE update = "deploying" -> Outcomes \cup (IF Converts THEN {"converted"} ELSE {})
      [] update = "converted" -> Outcomes
      [] OTHER                -> {}

Ready(updates, id) == [Idle EXCEPT !.at = "read", !.next = updates, !.id = id]
After(w) ==
    CASE Update(w) = "detect"    -> [Idle EXCEPT !.at = "plan", !.id = Card(w)]
      [] Update(w) = "announce"  -> [Idle EXCEPT !.at = "mark"]
      [] Then(Update(w)) # {}    -> Ready(Then(Update(w)), job[w].id)
      [] OTHER                   -> Idle

\* The writers whose status was read and not yet written.
Merging == {w \in Writers : job[w].at \in {"send", "write"}}

Write(w) ==
    /\ job[w].at = "write"
    /\ stored' = job[w].st
    /\ behind' = (behind \/ ~job[w].fresh)
    /\ alone' = CASE Update(w) = "deploying" -> {w}
                  [] After(w) = Idle          -> {}
                  [] OTHER                    -> alone \cap {w}
    /\ job' = [v \in Writers |-> IF v = w THEN After(w)
                                ELSE [job[v] EXCEPT !.fresh = @ /\ v \notin Merging]]
    /\ UNCHANGED <<cards, late, contexts, marked, bounds>>

-----------------------------------------------------------------------------
\* Who updates when.

Starts(w, updates, id) ==
    /\ job[w].at = "idle"
    /\ job' = [job EXCEPT ![w] = Ready(updates, id)]

\* A run finds the entry, the first time or when its retry is due.
Working(p) == job[p].at # "idle"
Detect(p) ==
    /\ ~marked /\ runs < MaxRuns /\ runs' = runs + 1
    /\ Starts(p, {"detect"}, 0)
    /\ overlaps' = IF \E q \in Pollers : Working(q) THEN overlaps + 1 ELSE overlaps
    /\ UNCHANGED <<stored, cards, late, contexts, marked, history, troubles>>

\* A review is created, and announced after; or no worker is available; or the
\* plan fails, and an error review goes to the operators.
Plan(p) ==
    LET Tells(update) == job' = [job EXCEPT ![p] = Ready({update}, job[p].id)]
    IN
    /\ job[p].at = "plan"
    /\ \/ Tells("announce") /\ contexts' = contexts \cup {job[p].id}
       \/ Tells("wait") /\ UNCHANGED contexts
       \/ job' = [job EXCEPT ![p].at = "mark"] /\ UNCHANGED contexts
    /\ UNCHANGED <<stored, cards, late, marked, history, bounds>>

Mark(p) ==
    /\ job[p].at = "mark"
    /\ marked' = TRUE
    /\ job' = [job EXCEPT ![p] = Idle]
    /\ UNCHANGED <<stored, cards, late, contexts, history, bounds>>

\* Codex is off or fails.
Ask ==
    /\ runs < MaxRuns /\ runs' = runs + 1
    /\ \E w \in Executors, id \in contexts \ {0} : Starts(w, {"ask"}, id)
    /\ UNCHANGED <<stored, cards, late, contexts, marked, history, troubles, overlaps>>

Begin(w) ==
    /\ runs < MaxRuns /\ runs' = runs + 1
    /\ \E id \in contexts : Starts(w, {"unsafe", "deploying"}, id)
    /\ UNCHANGED <<stored, cards, late, contexts, marked, history, troubles, overlaps>>

Die(w) ==
    /\ job[w].at # "idle" /\ Trouble
    /\ job' = [job EXCEPT ![w] = Idle]
    /\ alone' = alone \ {w} /\ behind' = TRUE
    /\ UNCHANGED <<stored, cards, late, contexts, marked, runs>>

Next ==
    \/ \E w \in Writers : \/ Read(w) \/ Send(w) \/ AttemptFails(w) \/ Rejected(w)
                          \/ Write(w) \/ Die(w)
    \/ \E w \in Executors : Begin(w)
    \/ \E p \in Pollers : Detect(p) \/ Plan(p) \/ Mark(p)
    \/ Ask \/ ApplyLate

Spec == Init /\ [][Next]_vars

-----------------------------------------------------------------------------
Status == [stages : [Stages -> Statuses], deploy : Deploys, card : Nat, review : BOOLEAN]
TypeOK ==
    /\ stored \in Status /\ cards \in Seq(Status)
    /\ \A l \in late : l.card \in DOMAIN cards /\ l.face \in Status
    /\ contexts \subseteq 0..Len(cards) /\ stored.card \in 0..Len(cards)
    /\ marked \in BOOLEAN
    /\ job \in [Writers -> [at : {"idle", "read", "send", "write", "plan", "mark"},
                            next : SUBSET Updates, update : Updates \cup {"none"},
                            id : 0..Len(cards), st : Status, fresh : BOOLEAN, tries : 1..Tries]]
    /\ alone \subseteq Writers /\ behind \in BOOLEAN
    /\ runs \in Nat /\ troubles \in Nat /\ overlaps \in Nat

\* An entry has one card, and one more for each post whose answer was lost or that
\* a death came after, and for each run that found the entry while another was at
\* work on it, whoever updates it in between, as long as each review of it was made
\* with a card.
OneCard == 0 \notin contexts => Len(cards) <= 1 + troubles + overlaps

\* A card with a review is red if and only if it offers to retry, whoever updated
\* it and whatever was lost.
RedOffersRetry == stored.review => (Red(stored) <=> OffersRetry(stored))

\* When a deployment succeeds that nobody else reported into, its card is not red.
DeployedIsGreen ==
    [][\A w \in alone : Write(w) /\ Update(w) = "deployed" => ~Red(stored')]_vars

\* When nobody is at work, the card shows what is stored, unless since the last
\* patch an update was overtaken, failed to arrive or came late.
Quiet == late = {} /\ \A w \in Writers : job[w].at = "idle"
CardShowsStored ==
    Quiet /\ ~behind /\ stored.card # 0
        => cards[stored.card] = Face(stored)
=============================================================================
