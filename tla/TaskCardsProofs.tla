--------------------------- MODULE TaskCardsProofs ---------------------------
(***************************************************************************)
(* What TLAPS proves of TaskCards, for any number of attempts, executions  *)
(* and troubles: a card with a review is red if and only if it offers to   *)
(* retry (IInv); the state has its types (Bounds); an entry has one card,  *)
(* one more for each trouble and one more for each run of the handler that *)
(* found the entry while another was at work on it, for any number of such *)
(* runs (Budget); the card shows what is stored when nobody is at work     *)
(* (Told); and a deployment that succeeds is not shown as failed           *)
(* (Undisturbed).  The first argument does not depend on who overtook      *)
(* whom: whatever status an update is merged into, it leaves no deployment *)
(* that waits for a human without a stage that does.                       *)
(***************************************************************************)
EXTENDS TaskCards, FiniteSetTheorems, SequenceTheorems, TLAPS

\* A deployment waits for a human only in a stage that is shown.
Shown(st) == st.deploy = "human" => HasFailing(st)

Jobs == [at : {"idle", "read", "send", "write", "plan", "mark"}, next : SUBSET Updates,
         update : Updates \cup {"none"}, id : Nat, st : Status, fresh : BOOLEAN,
         tries : Nat]

Types ==
    /\ stored \in Status /\ cards \in Seq(Status)
    /\ \A l \in late : l.face \in Status
    /\ contexts \subseteq Nat
    /\ job \in [Writers -> Jobs]

\* What is stored and what is about to be.
Honest ==
    /\ Shown(stored)
    /\ \A w \in Writers : job[w].at \in {"send", "write"} => Shown(job[w].st)

IInv == Types /\ Honest

-----------------------------------------------------------------------------
\* A stage merged into a status: the result, and its deployment.
LEMMA WithStage ==
    ASSUME NEW st \in Status, NEW stage \in Stages, NEW status \in Statuses
    PROVE  /\ With(st, stage, status) \in Status
           /\ With(st, stage, status).deploy = NextDeploy(stage, status, st.deploy)
           /\ With(st, stage, status).stages[stage] = status
           /\ With(st, stage, status).card = st.card
           /\ With(st, stage, status).review = st.review
<1>1. NextDeploy(stage, status, st.deploy) \in Deploys
  BY DEF Status, NextDeploy, Deploys, Failing
<1>2. [s \in Stages |-> CASE s = stage                -> status
                          [] Order[s] > Order[stage] -> "none"
                          [] OTHER                   -> st.stages[s]] \in [Stages -> Statuses]
  BY DEF Status, Statuses
<1> DEFINE new == [s \in Stages |-> CASE s = stage                -> status
                                      [] Order[s] > Order[stage] -> "none"
                                      [] OTHER                   -> st.stages[s]]
           dep == NextDeploy(stage, status, st.deploy)
<1>3. With(st, stage, status) = [st EXCEPT !.stages = new, !.deploy = dep]
  BY DEF With
<1>4. new \in [Stages -> Statuses] /\ dep \in Deploys /\ new[stage] = status
  <2>1. new \in [Stages -> Statuses]
    BY <1>2
  <2>2. dep \in Deploys
    BY <1>1
  <2>3. new[stage] = status
    <3>1. ~(Order[stage] > Order[stage])
      BY DEF Order, Stages
    <3> QED  BY <3>1
  <2> QED  BY <2>1, <2>2, <2>3
<1> HIDE DEF new
<1>5. dep = NextDeploy(stage, status, st.deploy)
  OBVIOUS
<1> HIDE DEF dep
<1>6. [st EXCEPT !.stages = new, !.deploy = dep] \in Status
  BY <1>4 DEF Status
<1>7. LET w == [st EXCEPT !.stages = new, !.deploy = dep]
      IN  w.deploy = dep /\ w.stages = new /\ w.card = st.card /\ w.review = st.review
  BY DEF Status
<1> QED  BY <1>3, <1>4, <1>5, <1>6, <1>7

\* A stage that leaves no deployment waiting, and one that shows it.
LEMMA WithIsShown ==
    ASSUME NEW st \in Status, NEW stage \in Stages, NEW status \in Statuses,
           NextDeploy(stage, status, st.deploy) # "human" \/ status \in Failing
    PROVE  Shown(With(st, stage, status))
<1>1. CASE NextDeploy(stage, status, st.deploy) # "human"
  BY <1>1, WithStage DEF Shown
<1>2. CASE status \in Failing
  BY <1>2, WithStage DEF Shown, HasFailing
<1> QED  BY <1>1, <1>2

\* The same of the executor's approval.
LEMMA ApprovedStatus ==
    ASSUME NEW st \in Status, NEW u
    PROVE  Approved(st, u) \in Status
BY WithStage DEF Approved, Stages, Statuses

\* A report of an executor is a status, and shows a deployment that waits.
LEMMA ReportIsShown ==
    ASSUME NEW st \in Status,
           NEW u \in {"deploying", "converted", "deployed", "undocumented", "failed", "unsafe"}
    PROVE  Report(st, u) \in Status /\ Shown(Report(st, u))
<1> DEFINE a == Approved(st, u)
<1>a. a \in Status
  BY ApprovedStatus
<1>s. /\ {"convert", "execute", "document"} \subseteq Stages
      /\ {"done", "running", "failed", "human"} \subseteq Statuses
  BY DEF Stages, Statuses
<1> HIDE DEF a
<1>1. CASE u = "deploying"
  <2> DEFINE stage == IF Converts THEN "convert" ELSE "execute"
  <2>1. Report(st, u) = With(a, stage, "running")
    BY <1>1 DEF Report, a
  <2>2. NextDeploy(stage, "running", a.deploy) # "human"
    BY DEF NextDeploy, Failing
  <2>3. stage \in Stages
    BY <1>s
  <2> HIDE DEF stage
  <2> QED  BY <1>a, <1>s, <2>1, <2>2, <2>3, WithStage, WithIsShown
<1>2. CASE u = "converted"
  <2> DEFINE b == With(a, "convert", "done")
  <2>1. Report(st, u) = With(b, "execute", "running")
    BY <1>2 DEF Report, a
  <2>2. b \in Status
    BY <1>a, <1>s, WithStage
  <2>3. NextDeploy("execute", "running", b.deploy) # "human"
    BY DEF NextDeploy, Failing
  <2> HIDE DEF b
  <2> QED  BY <1>s, <2>1, <2>2, <2>3, WithStage, WithIsShown
<1>3. CASE u = "deployed"
  <2> DEFINE b == With(a, "execute", "done")
  <2>1. Report(st, u) = With(b, "document", "done")
    BY <1>3 DEF Report, a
  <2>2. b \in Status
    BY <1>a, <1>s, WithStage
  <2>3. NextDeploy("document", "done", b.deploy) # "human"
    BY DEF NextDeploy, Failing
  <2> HIDE DEF b
  <2> QED  BY <1>s, <2>1, <2>2, <2>3, WithStage, WithIsShown
<1>4. CASE u = "undocumented"
  <2> DEFINE b == With(a, "execute", "done")
  <2>1. Report(st, u) = With(b, "document", "human")
    BY <1>4 DEF Report, a
  <2>2. b \in Status
    BY <1>a, <1>s, WithStage
  <2> HIDE DEF b
  <2> QED  BY <1>s, <2>1, <2>2, WithStage, WithIsShown DEF Failing
<1>5. CASE u = "failed"
  <2>1. Report(st, u) = With(a, FailedStage(st), "failed")
    BY <1>5 DEF Report, a
  <2>2. FailedStage(st) \in Stages
    BY <1>s DEF FailedStage
  <2> QED  BY <1>a, <1>s, <2>1, <2>2, WithStage, WithIsShown DEF Failing
<1>6. CASE u = "unsafe"
  <2>1. Report(st, u) = With(a, "execute", "human")
    BY <1>6 DEF Report, a
  <2> QED  BY <1>a, <1>s, <2>1, WithStage, WithIsShown DEF Failing
<1> QED  BY <1>1, <1>2, <1>3, <1>4, <1>5, <1>6

\* Of every update, whatever the status before.
LEMMA MergedIsShown ==
    ASSUME NEW st \in Status, NEW u \in Updates
    PROVE  Merged(st, u) \in Status /\ Shown(Merged(st, u))
<1>s. /\ {"detect", "codex"} \subseteq Stages
      /\ {"done", "to_review", "waiting", "human"} \subseteq Statuses
  BY DEF Stages, Statuses
<1>1. CASE u = "detect"
  <2>1. NextDeploy("detect", "done", st.deploy) # "human"
    BY DEF NextDeploy, Failing
  <2> QED  BY <1>1, <1>s, <2>1, WithStage, WithIsShown DEF Merged
<1>2. CASE u = "announce"
  <2>1. NextDeploy("codex", "to_review", st.deploy) # "human"
    BY DEF NextDeploy, Failing
  <2> QED  BY <1>2, <1>s, <2>1, WithStage, WithIsShown DEF Merged
<1>3. CASE u = "wait"
  <2>1. NextDeploy("codex", "waiting", st.deploy) # "human"
    BY DEF NextDeploy, Failing
  <2> QED  BY <1>3, <1>s, <2>1, WithStage, WithIsShown DEF Merged
<1>4. CASE u = "ask"
  <2> DEFINE a == With(st, "codex", "human")
  <2>1. a \in Status /\ a.stages["codex"] = "human"
    BY <1>s, WithStage
  <2>2. Merged(st, u) = [a EXCEPT !.review = TRUE]
    BY <1>4 DEF Merged
  <2> HIDE DEF a
  <2> QED  BY <1>s, <2>1, <2>2 DEF Shown, HasFailing, Failing, Status
<1>5. CASE u \notin {"detect", "announce", "wait", "ask"}
  <2> DEFINE a == Report(st, u)
  <2>1. a \in Status /\ Shown(a)
    BY <1>5, ReportIsShown DEF Updates
  <2>2. Merged(st, u) = [a EXCEPT !.review = TRUE]
    BY <1>5 DEF Merged
  <2> HIDE DEF a
  <2> QED  BY <2>1, <2>2 DEF Shown, HasFailing, Failing, Status
<1> QED  BY <1>1, <1>2, <1>3, <1>4, <1>5

-----------------------------------------------------------------------------
\* The state of a writer that starts, and of one that does not.
LEMMA FreshJobs ==
    /\ Empty \in Status /\ Shown(Empty) /\ Idle \in Jobs
    /\ \A us \in SUBSET Updates, id \in Nat : Ready(us, id) \in Jobs
BY DEF Empty, Shown, Status, Idle, Ready, Jobs, Stages, Statuses, Deploys

LEMMA InitIInv == Init => IInv
BY FreshJobs DEF Init, IInv, Types, Honest, Idle

\* Reading makes an honest status of what is stored.
LEMMA ReadIInv == ASSUME IInv, NEW w \in Writers, Read(w) PROVE IInv'
<1>1. PICK u \in job[w].next :
        LET st == Merged(Base(job[w].id), u)
        IN  job' = [job EXCEPT ![w].at = IF st.card # 0 \/ w \in Pollers THEN "send"
                                                                         ELSE "write",
                               ![w].next = {}, ![w].update = u, ![w].st = st]
  BY DEF Read
<1>2. u \in Updates /\ job[w].id \in Nat /\ job[w] \in Jobs
  BY DEF IInv, Types, Jobs
<1>3. Base(job[w].id) \in Status
  BY <1>2, FreshJobs DEF Base, IInv, Types, Status
<1> DEFINE st == Merged(Base(job[w].id), u)
<1>4. st \in Status /\ Shown(st)
  BY <1>2, <1>3, MergedIsShown
<1>5. job' \in [Writers -> Jobs] /\ job'[w].st = st /\ \A v \in Writers \ {w} : job'[v] = job[v]
  <2> HIDE DEF st
  <2>1. PICK at \in {"send", "write"} :
          job' = [job EXCEPT ![w] = [job[w] EXCEPT !.at = at, !.next = {}, !.update = u,
                                                   !.st = st]]
    BY <1>1 DEF st
  <2> DEFINE new == [job[w] EXCEPT !.at = at, !.next = {}, !.update = u, !.st = st]
  <2>2. new \in Jobs /\ new.st = st
    BY <1>2, <1>4 DEF Jobs
  <2>3. job' = [job EXCEPT ![w] = new]
    BY <2>1
  <2> HIDE DEF new
  <2> QED  BY <2>2, <2>3 DEF IInv, Types
<1> HIDE DEF st
<1>6. stored' = stored /\ cards' = cards /\ late' = late /\ contexts' = contexts
  BY DEF Read
<1> QED  BY <1>4, <1>5, <1>6 DEF IInv, Types, Honest

\* Another card, or another face for a card, makes no other kind of sequence.
LEMMA ReplacedCard ==
    ASSUME NEW s \in Seq(Status), NEW i, NEW face \in Status
    PROVE  [s EXCEPT ![i] = face] \in Seq(Status) /\ Append(s, face) \in Seq(Status)
<1>1. Append(s, face) \in Seq(Status)
  OBVIOUS
<1>2. CASE i \in 1..Len(s)
  BY <1>1, <1>2, ExceptSeq
<1>3. CASE i \notin 1..Len(s)
  <2>1. DOMAIN s = 1..Len(s)
    OBVIOUS
  <2>2. [s EXCEPT ![i] = face] = s
    BY <1>3, <2>1
  <2> QED  BY <1>1, <2>2
<1> QED  BY <1>2, <1>3

\* What is shown of an honest status is one.
LEMMA AppliedCards ==
    ASSUME IInv, NEW w \in Writers, Apply(w)
    PROVE  cards' \in Seq(Status)
<1>1. Face(job[w].st) \in Status
  BY DEF IInv, Types, Jobs, Face, Status
<1>2. cards \in Seq(Status)
  BY DEF IInv, Types
<1> QED  BY <1>1, <1>2, ReplacedCard DEF Apply

LEMMA SendIInv == ASSUME IInv, NEW w \in Writers, Send(w) PROVE IInv'
<1>1. cards' \in Seq(Status)
  BY AppliedCards DEF Send
<1>2. PICK c \in Nat :
        job' = [job EXCEPT ![w] = [job[w] EXCEPT !.at = "write", !.tries = 1,
                                                 !.st = [job[w].st EXCEPT !.card = c]]]
  <2>1. job[w].st.card \in Nat /\ Len(cards) + 1 \in Nat
    BY DEF IInv, Types, Jobs, Status
  <2> QED  BY <2>1, ZenonT(60) DEF Send
<1>3. job[w] \in Jobs /\ job[w].st \in Status
  BY DEF IInv, Types, Jobs
<1>4. /\ job' \in [Writers -> Jobs]
      /\ job'[w].st = [job[w].st EXCEPT !.card = c]
      /\ \A v \in Writers \ {w} : job'[v] = job[v]
  <2> DEFINE st == [job[w].st EXCEPT !.card = c]
  <2>1. st \in Status
    BY <1>3 DEF Status
  <2> DEFINE new == [job[w] EXCEPT !.at = "write", !.tries = 1, !.st = st]
  <2>2. job' = [job EXCEPT ![w] = new]
    BY <1>2
  <2> HIDE DEF st
  <2>3. new \in Jobs /\ new.st = st
    BY <1>3, <2>1 DEF Jobs
  <2> HIDE DEF new
  <2>4. job' \in [Writers -> Jobs] /\ job'[w] = new /\ \A v \in Writers \ {w} : job'[v] = job[v]
    BY <2>2, <2>3 DEF IInv, Types
  <2> QED  BY <2>3, <2>4 DEF st
<1>5. Shown(job'[w].st)
  BY <1>3, <1>4 DEF IInv, Honest, Shown, HasFailing, Send, Status
<1> QED  BY <1>1, <1>4, <1>5 DEF IInv, Types, Honest, Send

\* A failed attempt and a rejection change no status.
LEMMA FailedIInv ==
    ASSUME IInv, NEW w \in Writers, AttemptFails(w) \/ Rejected(w), CardsAssumption
    PROVE  IInv'
<1>1. PICK at \in {"send", "write"}, t \in Nat :
          job' = [job EXCEPT ![w].at = at, ![w].tries = t]
  <2>1. job[w].tries \in Nat
    BY DEF IInv, Types, Jobs
  <2> QED  BY <2>1 DEF AttemptFails, Rejected, TryAgain
<1>2. job[w] \in Jobs /\ job[w].at = "send"
  BY DEF IInv, Types, AttemptFails, Rejected
<1>3. job' \in [Writers -> Jobs] /\ \A v \in Writers : job'[v].st = job[v].st
  BY <1>1, <1>2 DEF IInv, Types, Jobs
<1>4. \A v \in Writers \ {w} : job'[v] = job[v]
  BY <1>1 DEF IInv, Types
<1>5. cards' \in Seq(Status)
  BY AppliedCards DEF AttemptFails, Rejected, IInv, Types
<1>6. \A l \in late' : l.face \in Status
  <2>1. Face(job[w].st) \in Status
    BY <1>2 DEF Jobs, Face, Status
  <2>2. late' \subseteq late \cup {[card |-> Card(w), face |-> Face(job[w].st)]}
    BY DEF AttemptFails, Rejected
  <2> QED  BY <2>1, <2>2 DEF IInv, Types
<1>7. stored' = stored /\ contexts' = contexts
  BY DEF AttemptFails, Rejected
<1> QED  BY <1>2, <1>3, <1>4, <1>5, <1>6, <1>7 DEF IInv, Types, Honest

LEMMA WriteIInv == ASSUME IInv, NEW w \in Writers, Write(w) PROVE IInv'
<1>1. job[w] \in Jobs /\ job[w].at = "write" /\ job[w].st \in Status /\ job[w].id \in Nat
  BY DEF IInv, Types, Jobs, Write
<1>2. stored' = job[w].st /\ Shown(stored')
  BY <1>1 DEF Write, IInv, Honest
<1>3. After(w) \in Jobs /\ After(w).at \notin {"send", "write"}
  <2>1. CASE Update(w) = "detect"
    <3>1. After(w) = [Idle EXCEPT !.at = "plan", !.id = Card(w)]
      BY <2>1 DEF After, Then
    <3>2. Card(w) \in Nat
      BY <1>1 DEF Card, Status
    <3> QED  BY <3>1, <3>2, FreshJobs DEF Jobs
  <2>2. CASE Update(w) = "announce"
    <3>1. After(w) = [Idle EXCEPT !.at = "mark"]
      BY <2>2 DEF After, Then
    <3> QED  BY <3>1, FreshJobs DEF Jobs
  <2>3. CASE Update(w) \notin {"detect", "announce"} /\ Then(Update(w)) # {}
    <3>1. After(w) = Ready(Then(Update(w)), job[w].id)
      BY <2>3 DEF After
    <3>2. Then(Update(w)) \in SUBSET Updates
      BY DEF Then, Outcomes, Updates
    <3>3. Ready(Then(Update(w)), job[w].id).at = "read"
      BY DEF Ready, Idle
    <3> QED  BY <1>1, <3>1, <3>2, <3>3, FreshJobs
  <2>4. CASE Update(w) \notin {"detect", "announce"} /\ Then(Update(w)) = {}
    <3>1. After(w) = Idle
      BY <2>4 DEF After
    <3> QED  BY <3>1, FreshJobs DEF Idle
  <2> QED  BY <2>1, <2>2, <2>3, <2>4
<1>4. job'[w] = After(w)
  BY DEF Write
<1>5. \A v \in Writers \ {w} : /\ job'[v] \in Jobs
                               /\ job'[v].at = job[v].at /\ job'[v].st = job[v].st
  <2> TAKE v \in Writers \ {w}
  <2>1. job'[v] = [job[v] EXCEPT !.fresh = @ /\ v \notin Merging]
    BY DEF Write
  <2>2. job[v] \in Jobs
    BY DEF IInv, Types
  <2> DEFINE f == job[v].fresh /\ v \notin Merging
  <2>3. f \in BOOLEAN /\ job'[v] = [job[v] EXCEPT !.fresh = f]
    BY <2>1, <2>2 DEF Jobs
  <2> HIDE DEF f
  <2> QED  BY <2>2, <2>3 DEF Jobs
<1>6. DOMAIN job' = Writers /\ job' = [v \in Writers |-> job'[v]]
  BY DEF Write
<1>7. cards' = cards /\ late' = late /\ contexts' = contexts
  BY DEF Write
<1>8. Types'
  BY <1>1, <1>2, <1>3, <1>4, <1>5, <1>6, <1>7 DEF IInv, Types
<1>9. Honest'
  BY <1>2, <1>3, <1>4, <1>5 DEF IInv, Honest
<1> QED  BY <1>8, <1>9 DEF IInv

\* Starting, planning, marking and dying change no status either.
LEMMA StartIInv ==
    ASSUME IInv, NEW w \in Writers, NEW new \in Jobs, new.at \notin {"send", "write"},
           job' = [job EXCEPT ![w] = new], contexts' \subseteq Nat,
           UNCHANGED <<stored, cards, late>>
    PROVE  IInv'
<1>1. job' \in [Writers -> Jobs] /\ job'[w] = new
  BY DEF IInv, Types
<1>2. \A v \in Writers \ {w} : job'[v] = job[v]
  BY DEF IInv, Types
<1> QED  BY <1>1, <1>2 DEF IInv, Types, Honest

LEMMA NextIInv == ASSUME IInv, [Next]_vars, CardsAssumption PROVE IInv'
<1>r. \A us, id : Ready(us, id).at = "read"
  BY DEF Ready, Idle
<1>i. Idle.at = "idle"
  BY DEF Idle
<1>c. contexts \subseteq Nat
  BY DEF IInv, Types
<1>1. ASSUME NEW w \in Writers, Read(w) \/ Send(w) \/ AttemptFails(w) \/ Rejected(w) \/ Write(w)
      PROVE  IInv'
  BY <1>1, ReadIInv, SendIInv, FailedIInv, WriteIInv
<1>2. ASSUME NEW w \in Writers, Die(w) PROVE IInv'
  BY <1>2, <1>i, <1>c, FreshJobs, StartIInv DEF Die
<1>3. ASSUME NEW w \in Executors, Begin(w) PROVE IInv'
  <2>1. PICK id \in contexts : job' = [job EXCEPT ![w] = Ready({"unsafe", "deploying"}, id)]
    BY <1>3 DEF Begin, Starts
  <2>2. Ready({"unsafe", "deploying"}, id) \in Jobs
    BY <1>c, FreshJobs DEF Updates
  <2> QED  BY <1>3, <1>r, <1>c, <2>1, <2>2, StartIInv DEF Begin, Writers
<1>4. ASSUME NEW p \in Pollers, Detect(p) PROVE IInv'
  <2>1. Ready({"detect"}, 0) \in Jobs
    BY FreshJobs DEF Updates
  <2> QED  BY <1>4, <1>r, <1>c, <2>1, StartIInv DEF Detect, Starts, Writers
<1>5. CASE Ask
  <2>1. PICK w \in Executors, id \in contexts : job' = [job EXCEPT ![w] = Ready({"ask"}, id)]
    BY <1>5 DEF Ask, Starts
  <2>2. Ready({"ask"}, id) \in Jobs
    BY <1>c, FreshJobs DEF Updates
  <2> QED  BY <1>5, <1>r, <1>c, <2>1, <2>2, StartIInv DEF Ask, Writers
<1>6. ASSUME NEW w \in Pollers, Plan(w) PROVE IInv'
  <2> DEFINE p == job[w]
  <2>1. p \in Jobs /\ p.id \in Nat
    BY DEF IInv, Types, Jobs, Writers
  <2>2. \A u \in Updates : Ready({u}, p.id) \in Jobs
    BY <2>1, FreshJobs
  <2>3. /\ contexts' \subseteq Nat
        /\ \/ \E u \in Updates : job' = [job EXCEPT ![w] = Ready({u}, p.id)]
           \/ job' = [job EXCEPT ![w].at = "mark"]
    BY <1>6, <1>c, <2>1 DEF Plan, Updates
  <2>4. ASSUME NEW u \in Updates, job' = [job EXCEPT ![w] = Ready({u}, p.id)]
        PROVE  IInv'
    BY <1>6, <1>r, <2>2, <2>3, <2>4, StartIInv DEF Plan, Writers
  <2>5. CASE job' = [job EXCEPT ![w].at = "mark"]
    <3> DEFINE new == [p EXCEPT !.at = "mark"]
    <3>1. new \in Jobs /\ new.at = "mark"
      BY <2>1 DEF Jobs
    <3>2. job' = [job EXCEPT ![w] = new]
      BY <2>5
    <3> HIDE DEF new
    <3> QED  BY <1>6, <2>3, <3>1, <3>2, StartIInv DEF Plan, Writers
  <2> QED  BY <2>3, <2>4, <2>5
<1>7. ASSUME NEW p \in Pollers, Mark(p) PROVE IInv'
  <2>1. /\ p \in Writers /\ job' = [job EXCEPT ![p] = Idle]
        /\ UNCHANGED <<stored, cards, late>> /\ contexts' = contexts
    BY <1>7 DEF Mark, Writers
  <2>2. Idle \in Jobs /\ Idle.at \notin {"send", "write"} /\ contexts' \subseteq Nat
    BY <1>i, <1>c, <2>1, FreshJobs
  <2> QED BY <2>1, <2>2, StartIInv
<1>8. CASE ApplyLate
  <2>1. cards' \in Seq(Status)
    <3>1. PICK l \in late : cards' = [cards EXCEPT ![l.card] = l.face]
      BY <1>8 DEF ApplyLate
    <3>2. l.face \in Status /\ cards \in Seq(Status)
      BY DEF IInv, Types
    <3> QED BY <3>1, <3>2, ReplacedCard
  <2>2. \A l \in late' : l.face \in Status
    BY <1>8 DEF ApplyLate, IInv, Types
  <2> QED  BY <1>8, <2>1, <2>2 DEF ApplyLate, IInv, Types, Honest
<1>9. CASE UNCHANGED vars
  BY <1>9 DEF vars, IInv, Types, Honest
<1> QED  BY <1>1, <1>2, <1>3, <1>4, <1>5, <1>6, <1>7, <1>8, <1>9 DEF Next

\* A card with a review is red if and only if it offers to retry: the invariant of
\* the run cards, for every value of the constants (task_status.py, _template and
\* _needs_manual_actions).
THEOREM RedCards == Spec => []RedOffersRetry
<1>1. IInv => RedOffersRetry
  BY DEF IInv, Honest, Shown, RedOffersRetry, Red, OffersRetry
<1>2. IInv /\ [Next]_vars => IInv'
  BY NextIInv, CardsAssumption
<1> QED  BY <1>1, <1>2, InitIInv, PTL DEF Spec

-----------------------------------------------------------------------------
(* What the steps do to a writer's work, and to the cards.                 *)

\* Nobody but w does anything.
OnlyOf(w) == \A v \in Writers \ {w} : job'[v] = job[v]

LEMMA MergedCard ==
    ASSUME NEW st \in Status, NEW u \in Updates PROVE Merged(st, u).card = st.card
<1>s. /\ "detect" \in Stages /\ "codex" \in Stages /\ "convert" \in Stages
      /\ "execute" \in Stages /\ "document" \in Stages
      /\ "done" \in Statuses /\ "running" \in Statuses /\ "passed" \in Statuses
      /\ "to_review" \in Statuses /\ "waiting" \in Statuses /\ "failed" \in Statuses
      /\ "human" \in Statuses
  BY DEF Stages, Statuses
<1>1. \A x \in Status, g \in Stages, t \in Statuses : With(x, g, t).card = x.card
                                                     /\ With(x, g, t) \in Status
  BY WithStage
<1> DEFINE a == Approved(st, u)
<1>2. a \in Status /\ a.card = st.card
  BY <1>1, <1>s, ApprovedStatus DEF Approved
<1>3. CASE u \in {"detect", "announce", "wait"}
  BY <1>1, <1>3, <1>s, ZenonT(60) DEF Merged
<1>4. CASE u = "ask"
  <2>1. With(st, "codex", "human") \in Status /\ With(st, "codex", "human").card = st.card
    BY <1>1, <1>s
  <2> QED  BY <1>4, <2>1 DEF Merged, Status
<1>5. CASE u \notin {"detect", "announce", "wait", "ask"}
  <2>1. Report(st, u).card = st.card
    <3> HIDE DEF a
    <3>1. CASE u = "deploying"
      <4> DEFINE g == IF Converts THEN "convert" ELSE "execute"
      <4>1. Report(st, u) = With(a, g, "running")
        BY <3>1 DEF Report, a
      <4>2. g \in Stages
        BY <1>s
      <4> HIDE DEF g
      <4> QED  BY <1>1, <1>2, <1>s, <4>1, <4>2, ZenonT(60)
    <3>2. CASE u = "converted"
      <4> DEFINE b == With(a, "convert", "done")
      <4>1. Report(st, u) = With(b, "execute", "running")
        BY <3>2 DEF Report, a
      <4>2. b \in Status /\ b.card = st.card
        BY <1>1, <1>2, <1>s
      <4> HIDE DEF b
      <4> QED  BY <1>1, <1>s, <4>1, <4>2, ZenonT(60)
    <3>3. CASE u = "deployed"
      <4> DEFINE b == With(a, "execute", "done")
      <4>1. Report(st, u) = With(b, "document", "done")
        BY <3>3 DEF Report, a
      <4>2. b \in Status /\ b.card = st.card
        BY <1>1, <1>2, <1>s
      <4> HIDE DEF b
      <4> QED  BY <1>1, <1>s, <4>1, <4>2, ZenonT(60)
    <3>4. CASE u = "undocumented"
      <4> DEFINE b == With(a, "execute", "done")
      <4>1. Report(st, u) = With(b, "document", "human")
        BY <3>4 DEF Report, a
      <4>2. b \in Status /\ b.card = st.card
        BY <1>1, <1>2, <1>s
      <4> HIDE DEF b
      <4> QED  BY <1>1, <1>s, <4>1, <4>2, ZenonT(60)
    <3>5. CASE u = "failed"
      <4>1. Report(st, u) = With(a, FailedStage(st), "failed")
        BY <3>5 DEF Report, a
      <4>2. FailedStage(st) \in Stages
        BY <1>s DEF FailedStage
      <4> QED  BY <1>1, <1>2, <1>s, <4>1, <4>2, ZenonT(60)
    <3>6. CASE u = "unsafe"
      <4>1. Report(st, u) = With(a, "execute", "human")
        BY <3>6 DEF Report, a
      <4> QED  BY <1>1, <1>2, <1>s, <4>1, ZenonT(60)
    <3> QED  BY <1>5, <3>1, <3>2, <3>3, <3>4, <3>5, <3>6 DEF Updates
  <2>2. Report(st, u) \in Status
    BY <1>5, ReportIsShown DEF Updates
  <2> QED  BY <1>5, <2>1, <2>2 DEF Merged, Status
<1> QED  BY <1>3, <1>4, <1>5

LEMMA BaseCard ==
    ASSUME IInv, NEW id \in Nat
    PROVE  Base(id) \in Status /\ Base(id).card = IF id = 0 THEN stored.card ELSE id
BY FreshJobs, SMTT(30) DEF Base, IInv, Types, Status

LEMMA ReadDoes ==
    ASSUME IInv, NEW w \in Writers, Read(w)
    PROVE  /\ job[w].at = "read" /\ OnlyOf(w)
           /\ \E u \in job[w].next :
                /\ u \in Updates /\ job'[w].update = u
                /\ job'[w].st = Merged(Base(job[w].id), u)
           /\ job'[w].at \in {"send", "write"}
           /\ job'[w].at = "write" => job'[w].st.card = 0
           /\ job'[w].st.card = IF job[w].id = 0 THEN stored.card ELSE job[w].id
           /\ job'[w].next = {} /\ job'[w].id = job[w].id
           /\ job'[w].fresh = job[w].fresh /\ job'[w].tries = job[w].tries
<1>1. PICK u \in job[w].next :
        LET st == Merged(Base(job[w].id), u)
        IN  job' = [job EXCEPT ![w].at = IF st.card # 0 \/ w \in Pollers THEN "send"
                                                                         ELSE "write",
                               ![w].next = {}, ![w].update = u, ![w].st = st]
  BY DEF Read
<1>2. u \in Updates /\ job[w].id \in Nat /\ job[w] \in Jobs /\ job \in [Writers -> Jobs]
  BY DEF IInv, Types, Jobs
<1> DEFINE st == Merged(Base(job[w].id), u)
           at == IF st.card # 0 \/ w \in Pollers THEN "send" ELSE "write"
<1>3. st.card = IF job[w].id = 0 THEN stored.card ELSE job[w].id
  BY <1>2, BaseCard, MergedCard
<1>4. job' = [job EXCEPT ![w] = [job[w] EXCEPT !.at = at, !.next = {}, !.update = u, !.st = st]]
  BY <1>1
<1>5. at \in {"send", "write"} /\ (at = "write" => st.card = 0)
  OBVIOUS
<1>6. st = Merged(Base(job[w].id), u)
  OBVIOUS
<1> HIDE DEF st, at
<1> DEFINE new == [job[w] EXCEPT !.at = at, !.next = {}, !.update = u, !.st = st]
<1>7. /\ new.at = at /\ new.next = {} /\ new.update = u /\ new.st = st /\ new.id = job[w].id
      /\ new.fresh = job[w].fresh /\ new.tries = job[w].tries
  BY <1>2 DEF Jobs
<1>8. job' = [job EXCEPT ![w] = new]
  BY <1>4
<1> HIDE DEF new
<1>9. job'[w] = new /\ \A v \in Writers \ {w} : job'[v] = job[v]
  BY <1>2, <1>8
<1>10. job[w].at = "read"
  BY DEF Read
<1> QED  BY <1>2, <1>3, <1>5, <1>6, <1>7, <1>9, <1>10 DEF OnlyOf

\* Showing a status: on its card, or on one more.
LEMMA ApplyDoes ==
    ASSUME IInv, NEW w \in Writers, Apply(w), job[w].st.card <= Len(cards)
    PROVE  LET c == IF Card(w) = 0 THEN Len(cards) + 1 ELSE Card(w)
           IN  /\ Len(cards') = IF Card(w) = 0 THEN Len(cards) + 1 ELSE Len(cards)
               /\ cards'[c] = Face(job[w].st) /\ cards' \in Seq(Status)
               /\ c \in 1..Len(cards') /\ c \in Nat
<1>1. cards \in Seq(Status) /\ Face(job[w].st) \in Status /\ Card(w) \in Nat
      /\ Card(w) = job[w].st.card /\ Len(cards) \in Nat
  <2>1. cards \in Seq(Status) /\ job[w].st \in Status
    BY DEF IInv, Types, Jobs
  <2>2. Face(job[w].st) \in Status /\ job[w].st.card \in Nat
    BY <2>1 DEF Face, Status
  <2> QED  BY <2>1, <2>2 DEF Card
<1>2. CASE Card(w) = 0
  <2>1. cards' = Append(cards, Face(job[w].st))
    BY <1>2 DEF Apply
  <2> QED  BY <1>1, <1>2, <2>1
<1>3. CASE Card(w) # 0
  <2>1. cards' = [cards EXCEPT ![Card(w)] = Face(job[w].st)]
    BY <1>3 DEF Apply
  <2>2. Card(w) \in 1..Len(cards)
    BY <1>1, <1>3
  <2>3. cards' \in Seq(Status) /\ Len(cards') = Len(cards) /\ cards'[Card(w)] = Face(job[w].st)
    BY <1>1, <2>1, <2>2, ExceptSeq
  <2> QED  BY <1>1, <1>3, <2>2, <2>3
<1> QED  BY <1>2, <1>3

LEMMA SendDoes ==
    ASSUME IInv, NEW w \in Writers, Send(w)
    PROVE  LET c == IF Card(w) = 0 THEN Len(cards) + 1 ELSE Card(w)
           IN  /\ job[w].at = "send" /\ OnlyOf(w)
               /\ job'[w] \in Jobs /\ job'[w].at = "write" /\ job'[w].tries = 1
               /\ job'[w].st = [job[w].st EXCEPT !.card = c] /\ job'[w].st.card = c
               /\ job'[w].st.stages = job[w].st.stages /\ job'[w].st.deploy = job[w].st.deploy
               /\ Face(job'[w].st) = Face(job[w].st)
               /\ job'[w].update = job[w].update /\ job'[w].id = job[w].id
               /\ job'[w].next = job[w].next /\ job'[w].fresh = job[w].fresh
<1> DEFINE c == IF Card(w) = 0 THEN Len(cards) + 1 ELSE Card(w)
<1>1. job[w] \in Jobs /\ job[w].st \in Status /\ job \in [Writers -> Jobs] /\ c \in Nat
  BY DEF IInv, Types, Jobs, Status, Card
<1> DEFINE st == [job[w].st EXCEPT !.card = c]
<1>2. job' = [job EXCEPT ![w] = [job[w] EXCEPT !.at = "write", !.tries = 1, !.st = st]]
  BY DEF Send, Card
<1> HIDE DEF c
<1>3. st \in Status /\ st.card = c /\ Face(st) = Face(job[w].st)
      /\ st.stages = job[w].st.stages /\ st.deploy = job[w].st.deploy
  BY <1>1 DEF Status, Face
<1>4. st = [job[w].st EXCEPT !.card = c]
  OBVIOUS
<1> HIDE DEF st
<1> DEFINE new == [job[w] EXCEPT !.at = "write", !.tries = 1, !.st = st]
<1>5. /\ new \in Jobs /\ new.at = "write" /\ new.tries = 1 /\ new.st = st
      /\ new.update = job[w].update /\ new.id = job[w].id /\ new.next = job[w].next
      /\ new.fresh = job[w].fresh
  BY <1>1, <1>3 DEF Jobs
<1>6. job' = [job EXCEPT ![w] = new]
  BY <1>2
<1> HIDE DEF new
<1>7. job'[w] = new /\ \A v \in Writers \ {w} : job'[v] = job[v]
  BY <1>1, <1>6
<1>8. job[w].at = "send"
  BY DEF Send
<1> QED  BY <1>3, <1>4, <1>5, <1>7, <1>8 DEF OnlyOf, c

LEMMA FailureDoes ==
    ASSUME IInv, NEW w \in Writers, AttemptFails(w) \/ Rejected(w), CardsAssumption,
           job[w].tries \in 1..Tries
    PROVE  /\ job[w].at = "send" /\ OnlyOf(w)
           /\ job'[w].at \in {"send", "write"} /\ job'[w].tries \in 1..Tries
           /\ job'[w].st = job[w].st /\ job'[w].update = job[w].update
           /\ job'[w].id = job[w].id /\ job'[w].next = job[w].next
           /\ job'[w].fresh = job[w].fresh
           /\ behind => behind'
           /\ job'[w].at = "write" => behind'
<1>0. Tries \in Nat \ {0}
  BY DEF CardsAssumption
<1>1. PICK at \in {"send", "write"}, t \in 1..Tries :
        /\ job' = [job EXCEPT ![w].at = at, ![w].tries = t]
        /\ at = "write" => (AttemptFails(w) /\ job[w].tries = Tries) \/ Rejected(w)
  <2>1. CASE AttemptFails(w) /\ job[w].tries < Tries
    <3>1. job' = [job EXCEPT ![w].at = "send", ![w].tries = job[w].tries + 1]
      BY <2>1 DEF AttemptFails, TryAgain
    <3>2. job[w].tries + 1 \in 1..Tries
      BY <1>0, <2>1
    <3> QED  BY <2>1, <3>1, <3>2
  <2>2. CASE AttemptFails(w) /\ ~(job[w].tries < Tries)
    <3>1. job' = [job EXCEPT ![w].at = "write", ![w].tries = 1]
      BY <2>2 DEF AttemptFails, TryAgain
    <3>2. job[w].tries = Tries /\ 1 \in 1..Tries
      BY <1>0, <2>2
    <3> QED  BY <2>2, <3>1, <3>2
  <2>3. CASE Rejected(w)
    <3>1. job' = [job EXCEPT ![w].at = "write", ![w].tries = 1]
      BY <2>3 DEF Rejected
    <3>2. 1 \in 1..Tries
      BY <1>0
    <3> QED  BY <2>3, <3>1, <3>2
  <2> QED  BY <2>1, <2>2, <2>3
<1>2. job[w] \in Jobs /\ job \in [Writers -> Jobs]
  BY DEF IInv, Types
<1> DEFINE new == [job[w] EXCEPT !.at = at, !.tries = t]
<1>3. /\ new.at = at /\ new.tries = t /\ new.st = job[w].st /\ new.update = job[w].update
      /\ new.id = job[w].id /\ new.next = job[w].next /\ new.fresh = job[w].fresh
  BY <1>2 DEF Jobs
<1>4. job' = [job EXCEPT ![w] = new]
  BY <1>1
<1> HIDE DEF new
<1>5. job'[w] = new /\ \A v \in Writers \ {w} : job'[v] = job[v]
  BY <1>2, <1>4
<1>6. behind => behind'
  BY DEF AttemptFails, Rejected
<1>7. at = "write" => behind'
  BY <1>1 DEF AttemptFails, Rejected
<1>8. job[w].at = "send"
  BY DEF AttemptFails, Rejected
<1> QED  BY <1>1, <1>3, <1>5, <1>6, <1>7, <1>8 DEF OnlyOf

\* What a writer does after an update starts with nothing read.
LEMMA AfterDoes ==
    ASSUME IInv, NEW w \in Writers
    PROVE  /\ After(w).at \notin {"send", "write"} /\ After(w).fresh = TRUE
           /\ After(w).tries = 1 /\ After(w).st.card = 0
           /\ After(w).id \in {0, Card(w), job[w].id}
           /\ After(w).id = Card(w) \/ After(w).id = 0
                \/ (After(w).at = "read" /\ After(w).id = job[w].id)
           /\ Update(w) = "detect" => After(w) # Idle
           /\ After(w).at = "read" => /\ After(w).next = Then(Update(w))
                                      /\ After(w).id = job[w].id
           /\ Update(w) \in {"deploying", "converted"} => After(w).at = "read"
           /\ Update(w) \in Outcomes => After(w) = Idle
<1>1. Idle.at = "idle" /\ Idle.fresh = TRUE /\ Idle.tries = 1 /\ Idle.id = 0
      /\ Idle.st.card = 0
  BY DEF Idle, Empty
<1>2. \A us, id : LET r == Ready(us, id)
                  IN  /\ r.at = "read" /\ r.fresh = TRUE /\ r.tries = 1 /\ r.id = id
                      /\ r.st.card = 0 /\ r.next = us
  BY DEF Ready, Idle, Empty
<1>3. CASE Update(w) = "detect"
  <2>1. After(w) = [Idle EXCEPT !.at = "plan", !.id = Card(w)]
    BY <1>3 DEF After, Then
  <2>2. /\ After(w).at = "plan" /\ After(w).fresh = TRUE /\ After(w).tries = 1
        /\ After(w).st.card = 0 /\ After(w).id = Card(w)
    BY <2>1 DEF Idle, Empty
  <2> QED  BY <1>1, <1>3, <2>2 DEF Outcomes
<1>4. CASE Update(w) = "announce"
  <2>1. After(w) = [Idle EXCEPT !.at = "mark"]
    BY <1>4 DEF After, Then
  <2>2. /\ After(w).at = "mark" /\ After(w).fresh = TRUE /\ After(w).tries = 1
        /\ After(w).st.card = 0 /\ After(w).id = 0
    BY <2>1 DEF Idle, Empty
  <2> QED  BY <1>1, <1>4, <2>2 DEF Outcomes
<1>5. CASE Update(w) \in {"deploying", "converted"}
  <2>1. Then(Update(w)) # {}
    BY <1>5 DEF Then, Outcomes
  <2>2. After(w) = Ready(Then(Update(w)), job[w].id)
    BY <1>5, <2>1 DEF After
  <2> QED  BY <1>2, <1>5, <2>2 DEF Outcomes
<1>6. CASE Update(w) \notin {"detect", "announce", "deploying", "converted"}
  <2>1. After(w) = Idle
    BY <1>6 DEF After, Then
  <2> QED  BY <1>1, <1>6, <2>1
<1> QED  BY <1>3, <1>4, <1>5, <1>6

LEMMA WriteDoes ==
    ASSUME IInv, NEW w \in Writers, Write(w)
    PROVE  /\ job[w].at = "write" /\ stored' = job[w].st /\ job'[w] = After(w)
           /\ \A v \in Writers \ {w} :
                /\ job'[v].at = job[v].at /\ job'[v].st = job[v].st
                /\ job'[v].id = job[v].id /\ job'[v].next = job[v].next
                /\ job'[v].update = job[v].update /\ job'[v].tries = job[v].tries
                /\ job'[v].fresh = (job[v].fresh /\ v \notin Merging)
<1>1. job[w].at = "write" /\ stored' = job[w].st /\ job'[w] = After(w)
  BY DEF Write
<1>2. ASSUME NEW v \in Writers \ {w}
      PROVE  /\ job'[v].at = job[v].at /\ job'[v].st = job[v].st
             /\ job'[v].id = job[v].id /\ job'[v].next = job[v].next
             /\ job'[v].update = job[v].update /\ job'[v].tries = job[v].tries
             /\ job'[v].fresh = (job[v].fresh /\ v \notin Merging)
  <2>1. job'[v] = [job[v] EXCEPT !.fresh = @ /\ v \notin Merging] /\ job[v] \in Jobs
    BY DEF Write, IInv, Types
  <2> QED  BY <2>1 DEF Jobs
<1> QED  BY <1>1, <1>2

\* The other beginnings and ends of work change no status and no card.
Begins == \/ \E p \in Pollers : Detect(p) \/ Plan(p) \/ Mark(p)
          \/ Ask \/ \E w \in Executors : Begin(w)

Began(w) ==
    /\ OnlyOf(w)
    /\ job[w].at \in {"idle", "plan", "mark"} /\ job'[w].at \in {"idle", "read", "mark"}
    /\ job'[w].st \in {Empty, job[w].st}
    /\ job'[w].fresh = TRUE \/ job'[w].fresh = job[w].fresh
    /\ job'[w].tries \in {1, job[w].tries}
    /\ IF w \in Pollers THEN job'[w].id \in {0, job[w].id} ELSE job'[w].id \in contexts

LEMMA ReadyBegins ==
    ASSUME IInv, NEW w \in Writers, NEW us, NEW id,
           job' = [job EXCEPT ![w] = Ready(us, id)], job[w].at \in {"idle", "plan", "mark"},
           IF w \in Pollers THEN id \in {0, job[w].id} ELSE id \in contexts
    PROVE  Began(w)
<1>1. LET r == Ready(us, id)
      IN  r.at = "read" /\ r.fresh = TRUE /\ r.tries = 1 /\ r.id = id /\ r.st = Empty
  BY DEF Ready, Idle
<1>2. job'[w] = Ready(us, id) /\ OnlyOf(w)
  BY DEF IInv, Types, OnlyOf
<1> QED  BY <1>1, <1>2 DEF Began

LEMMA BeginsDoes ==
    ASSUME IInv, Begins, CardsAssumption
    PROVE  /\ \E w \in Writers :
                /\ Began(w)
                /\ contexts' = contexts \/ contexts' = contexts \cup {job[w].id}
           /\ UNCHANGED <<stored, cards, late, history, troubles>>
<1>1. /\ job \in [Writers -> Jobs] /\ Pollers \subseteq Writers
      /\ Executors = Writers \ Pollers
  BY DEF IInv, Types, Writers, CardsAssumption
<1>2. UNCHANGED <<stored, cards, late, history, troubles>>
  BY DEF Begins, Detect, Plan, Mark, Ask, Begin, bounds
<1>3. ASSUME NEW p \in Pollers, Detect(p) PROVE Began(p) /\ contexts' = contexts
  <2>1. job[p].at = "idle" /\ job' = [job EXCEPT ![p] = Ready({"detect"}, 0)]
        /\ contexts' = contexts
    BY <1>3 DEF Detect, Starts
  <2> QED BY <1>1, <2>1, ReadyBegins
<1>4. ASSUME NEW p \in Pollers, Plan(p)
      PROVE  Began(p) /\ (contexts' = contexts \/ contexts' = contexts \cup {job[p].id})
  <2>1. /\ job[p].at = "plan"
        /\ contexts' = contexts \/ contexts' = contexts \cup {job[p].id}
    BY <1>4 DEF Plan
  <2>2. ASSUME NEW u, job' = [job EXCEPT ![p] = Ready({u}, job[p].id)] PROVE Began(p)
    BY <1>1, <2>1, <2>2, ReadyBegins
  <2>3. CASE job' = [job EXCEPT ![p].at = "mark"]
    <3>1. job[p] \in Jobs /\ job'[p] = [job[p] EXCEPT !.at = "mark"] /\ OnlyOf(p)
      BY <1>1, <2>3 DEF OnlyOf
    <3>2. /\ job'[p].at = "mark" /\ job'[p].st = job[p].st /\ job'[p].fresh = job[p].fresh
          /\ job'[p].tries = job[p].tries /\ job'[p].id = job[p].id
      BY <3>1 DEF Jobs
    <3> QED BY <2>1, <3>1, <3>2 DEF Began
  <2> QED BY <1>4, <2>1, <2>2, <2>3 DEF Plan
<1>5. ASSUME NEW p \in Pollers, Mark(p) PROVE Began(p) /\ contexts' = contexts
  <2>1. job[p].at = "mark" /\ job'[p] = Idle /\ OnlyOf(p) /\ contexts' = contexts
    BY <1>1, <1>5 DEF Mark, OnlyOf
  <2> QED BY <2>1 DEF Began, Idle
<1>6. ASSUME NEW w \in Executors, NEW us, NEW id \in contexts, Starts(w, us, id)
      PROVE  Began(w)
  BY <1>1, <1>6, ReadyBegins DEF Starts
<1>7. CASE Ask
  <2>1. PICK w \in Executors, id \in contexts : Starts(w, {"ask"}, id)
    BY <1>7 DEF Ask
  <2>2. contexts' = contexts
    BY <1>7 DEF Ask
  <2> QED BY <1>1, <1>2, <1>6, <2>1, <2>2
<1>8. ASSUME NEW w \in Executors, Begin(w) PROVE Began(w) /\ contexts' = contexts
  BY <1>6, <1>8 DEF Begin
<1> QED BY <1>1, <1>2, <1>3, <1>4, <1>5, <1>7, <1>8 DEF Begins

LEMMA DieDoes ==
    ASSUME IInv, NEW w \in Writers, Die(w)
    PROVE  /\ job'[w] = Idle /\ OnlyOf(w) /\ Idle.at = "idle" /\ Idle.fresh = TRUE
           /\ Idle.tries = 1 /\ Idle.id = 0 /\ Idle.st = Empty /\ Empty.card = 0
           /\ behind' = TRUE /\ troubles' = troubles + 1
           /\ UNCHANGED <<stored, cards, late, contexts>>
BY DEF Die, Trouble, IInv, Types, OnlyOf, Idle, Empty

-----------------------------------------------------------------------------
(* Types and bounds                                                        *)

Histories == /\ marked \in BOOLEAN /\ alone \subseteq Writers /\ behind \in BOOLEAN
             /\ runs \in Nat /\ troubles \in Nat /\ overlaps \in Nat

\* The cards that a writer has in hand were posted.
Within(w) == /\ job[w].id <= Len(cards) /\ job[w].st.card <= Len(cards)
             /\ job[w].tries \in 1..Tries

Bounds ==
    /\ \A l \in late : l.card \in DOMAIN cards
    /\ contexts \subseteq 0..Len(cards) /\ stored.card <= Len(cards)
    /\ \A w \in Writers : Within(w)
    /\ Histories

LEMMA InitBounds == ASSUME CardsAssumption, Init PROVE Bounds
<1>1. Len(cards) = 0 /\ late = {} /\ contexts = {} /\ 1 \in 1..Tries
  BY DEF Init, CardsAssumption
<1>2. stored.card = 0 /\ \A w \in Writers : job[w].id = 0 /\ job[w].st.card = 0 /\ job[w].tries = 1
  BY DEF Init, Idle, Empty
<1>3. Histories
  BY DEF Init, Histories
<1> QED  BY <1>1, <1>2, <1>3 DEF Bounds, Within

LEMMA NextHistories == ASSUME Histories, [Next]_vars PROVE Histories'
<1> USE DEF Histories
<1>1. ASSUME NEW w \in Writers, Read(w) \/ Send(w) PROVE Histories'
  BY <1>1 DEF Read, Send, history, bounds
<1>2. ASSUME NEW w \in Writers, AttemptFails(w) \/ Rejected(w) PROVE Histories'
  <2>1. behind' \in BOOLEAN /\ UNCHANGED <<marked, alone, runs, overlaps>> /\ troubles' = troubles + 1
    BY <1>2 DEF AttemptFails, Rejected, Trouble
  <2> QED  BY <2>1
<1>3. ASSUME NEW w \in Writers, Write(w) PROVE Histories'
  <2>1. alone' \subseteq Writers /\ behind' \in BOOLEAN
    BY <1>3 DEF Write
  <2> QED  BY <1>3, <2>1 DEF Write, bounds
<1>4. ASSUME NEW w \in Writers, Die(w) PROVE Histories'
  BY <1>4 DEF Die, Trouble
<1>5. ASSUME NEW w \in Executors, Begin(w) PROVE Histories'
  BY <1>5 DEF Begin, history
<1>6. ASSUME NEW p, Detect(p) \/ Ask PROVE Histories'
  BY <1>6 DEF Detect, Ask, history
<1>7. ASSUME NEW p \in Pollers, Plan(p) \/ Mark(p) PROVE Histories'
  BY <1>7 DEF Plan, Mark, history, bounds
<1>8. CASE ApplyLate
  BY <1>8 DEF ApplyLate, bounds
<1>9. CASE UNCHANGED vars
  BY <1>9 DEF vars, history, bounds
<1> QED  BY <1>1, <1>2, <1>3, <1>4, <1>5, <1>6, <1>7, <1>8, <1>9 DEF Next

LEMMA OneMoves ==
    ASSUME IInv, Bounds, NEW w \in Writers, OnlyOf(w), Within(w)', Len(cards') >= Len(cards),
           Len(cards') \in Nat
    PROVE  \A v \in Writers : Within(v)'
<1>1. ASSUME NEW v \in Writers \ {w} PROVE Within(v)'
  <2>1. job[v].id \in Nat /\ job[v].st.card \in Nat /\ Len(cards) \in Nat
    BY DEF IInv, Types, Jobs, Status
  <2>2. Within(v) /\ job'[v] = job[v]
    BY DEF Bounds, OnlyOf
  <2> QED  BY <2>1, <2>2 DEF Within
<1> QED  BY <1>1

LEMMA NextBounds == ASSUME IInv, Bounds, [Next]_vars, CardsAssumption PROVE Bounds'
<1>c. /\ cards \in Seq(Status) /\ Len(cards) \in Nat /\ stored.card \in Nat
      /\ \A w \in Writers : job[w].id \in Nat /\ job[w].st.card \in Nat
      /\ 1 \in 1..Tries /\ Empty.card = 0
  BY DEF IInv, Types, Jobs, Status, CardsAssumption, Empty
<1>h. Histories'
  BY NextHistories DEF Bounds
<1>1. ASSUME NEW w \in Writers, Read(w) PROVE Bounds'
  <2>1. UNCHANGED <<stored, cards, late, contexts>>
    BY <1>1 DEF Read
  <2>2. /\ OnlyOf(w) /\ job'[w].id = job[w].id /\ job'[w].tries = job[w].tries
        /\ job'[w].st.card = IF job[w].id = 0 THEN stored.card ELSE job[w].id
    BY <1>1, ReadDoes
  <2>3. Within(w)'
    BY <2>1, <2>2 DEF Bounds, Within
  <2>4. \A v \in Writers : Within(v)'
    BY <1>c, <2>1, <2>2, <2>3, OneMoves
  <2> QED  BY <1>h, <2>1, <2>4 DEF Bounds
<1>2. ASSUME NEW w \in Writers, Send(w) PROVE Bounds'
  <2>1. UNCHANGED <<stored, late, contexts>> /\ Apply(w)
    BY <1>2 DEF Send
  <2>a. job[w].st.card <= Len(cards)
    BY DEF Bounds, Within
  <2>b. LET c == IF Card(w) = 0 THEN Len(cards) + 1 ELSE Card(w)
        IN  /\ Len(cards') = IF Card(w) = 0 THEN Len(cards) + 1 ELSE Len(cards)
            /\ cards' \in Seq(Status) /\ c \in 1..Len(cards') /\ c \in Nat
            /\ job'[w].st.card = c
    BY <1>2, <2>1, <2>a, ApplyDoes, SendDoes
  <2>2. Len(cards') >= Len(cards) /\ Len(cards') \in Nat /\ cards' \in Seq(Status)
    BY <1>c, <2>b
  <2>3. DOMAIN cards \subseteq DOMAIN cards'
    BY <1>c, <2>2
  <2>4. job'[w].st.card <= Len(cards') /\ job'[w].st.card \in Nat
    BY <1>c, <2>b
  <2>5. OnlyOf(w) /\ job'[w].id = job[w].id /\ job'[w].tries = 1
    BY <1>2, SendDoes
  <2>6. contexts' \subseteq 0..Len(cards') /\ stored'.card <= Len(cards')
    BY <1>c, <2>1, <2>2 DEF Bounds
  <2>7. Within(w)'
    BY <1>c, <2>2, <2>4, <2>5 DEF Bounds, Within
  <2>8. \A v \in Writers : Within(v)'
    BY <2>2, <2>5, <2>7, OneMoves
  <2> QED  BY <1>h, <2>1, <2>3, <2>6, <2>8 DEF Bounds
<1>3. ASSUME NEW w \in Writers, AttemptFails(w) \/ Rejected(w) PROVE Bounds'
  <2>1. UNCHANGED <<stored, contexts>>
    BY <1>3 DEF AttemptFails, Rejected
  <2>2. /\ Len(cards') >= Len(cards) /\ Len(cards') \in Nat /\ cards' \in Seq(Status)
    <3>a. job[w].st.card <= Len(cards)
      BY DEF Bounds, Within
    <3>1. CASE Apply(w)
      <4>1. /\ Len(cards') = IF Card(w) = 0 THEN Len(cards) + 1 ELSE Len(cards)
            /\ cards' \in Seq(Status)
        BY <3>1, <3>a, ApplyDoes
      <4> QED  BY <1>c, <4>1
    <3>2. CASE UNCHANGED cards
      BY <1>c, <3>2
    <3> QED  BY <1>3, <3>1, <3>2 DEF AttemptFails, Rejected
  <2>3. DOMAIN cards \subseteq DOMAIN cards'
    BY <1>c, <2>2
  <2>4. \A l \in late' : l.card \in DOMAIN cards'
    <3>1. late' = late \/ (/\ Card(w) # 0
                           /\ late' = late \cup {[card |-> Card(w), face |-> Face(job[w].st)]})
      BY <1>3 DEF AttemptFails, Rejected
    <3>2. Card(w) # 0 => Card(w) \in DOMAIN cards
      BY <1>c DEF Card, Bounds, Within
    <3> QED  BY <2>3, <3>1, <3>2 DEF Bounds
  <2>5. /\ OnlyOf(w) /\ job'[w].id = job[w].id /\ job'[w].st = job[w].st
        /\ job'[w].tries \in 1..Tries
    BY <1>3, FailureDoes DEF Bounds, Within
  <2>6. contexts' \subseteq 0..Len(cards') /\ stored'.card <= Len(cards')
    BY <1>c, <2>1, <2>2 DEF Bounds
  <2>7. Within(w)'
    BY <1>c, <2>2, <2>5 DEF Bounds, Within
  <2>8. \A v \in Writers : Within(v)'
    BY <2>2, <2>5, <2>7, OneMoves
  <2> QED  BY <1>h, <2>4, <2>6, <2>8 DEF Bounds
<1>4. ASSUME NEW w \in Writers, Write(w) PROVE Bounds'
  <2>1. UNCHANGED <<cards, late, contexts>>
    BY <1>4 DEF Write
  <2>2. /\ After(w).tries = 1 /\ After(w).st.card = 0
        /\ After(w).id \in {0, job[w].st.card, job[w].id}
    BY AfterDoes DEF Card
  <2>3. stored' = job[w].st /\ job'[w] = After(w)
        /\ \A v \in Writers \ {w} : /\ job'[v].id = job[v].id /\ job'[v].st = job[v].st
                                    /\ job'[v].tries = job[v].tries
    BY <1>4, WriteDoes
  <2>4. \A v \in Writers : Within(v)'
    BY <1>c, <2>1, <2>2, <2>3, SMTT(30) DEF Bounds, Within
  <2>5. stored'.card <= Len(cards')
    BY <2>1, <2>3 DEF Bounds, Within
  <2> QED  BY <1>h, <2>1, <2>4, <2>5 DEF Bounds
<1>5. CASE Begins
  <2>1. PICK w \in Writers :
            /\ Began(w)
            /\ contexts' = contexts \/ contexts' = contexts \cup {job[w].id}
    BY <1>5, BeginsDoes
  <2>2. UNCHANGED <<stored, cards, late>>
    BY <1>5, BeginsDoes
  <2>3. contexts' \subseteq 0..Len(cards)
    <3>1. contexts \subseteq 0..Len(cards) /\ job[w].id \in 0..Len(cards)
      BY <1>c DEF Bounds, Within
    <3> QED  BY <2>1, <3>1
  <2>4. OnlyOf(w) /\ Within(w)'
    <3>1. /\ OnlyOf(w) /\ job'[w].tries \in {1, job[w].tries} /\ job'[w].st \in {Empty, job[w].st}
          /\ job'[w].id = 0 \/ job'[w].id = job[w].id \/ job'[w].id \in contexts
      BY <2>1 DEF Began
    <3>2. job'[w].id <= Len(cards)
      <4>1. \A c \in contexts : c <= Len(cards)
        BY <1>c DEF Bounds
      <4>2. 0 <= Len(cards) /\ job[w].id <= Len(cards)
        BY <1>c DEF Bounds, Within
      <4> QED  BY <3>1, <4>1, <4>2
    <3>3. job'[w].st.card <= Len(cards)
      <4>1. job[w].st.card <= Len(cards) /\ Empty.card <= Len(cards)
        BY <1>c DEF Bounds, Within
      <4> QED  BY <3>1, <4>1
    <3> QED  BY <1>c, <2>2, <3>1, <3>2, <3>3 DEF Bounds, Within
  <2>5. \A v \in Writers : Within(v)'
    BY <1>c, <2>2, <2>4, OneMoves
  <2> QED  BY <1>h, <2>2, <2>3, <2>5 DEF Bounds
<1>6. ASSUME NEW w \in Writers, Die(w) PROVE Bounds'
  <2>1. OnlyOf(w) /\ UNCHANGED <<stored, cards, late, contexts>>
        /\ job'[w].id = 0 /\ job'[w].st.card = 0 /\ job'[w].tries = 1
    BY <1>6, DieDoes
  <2>2. Within(w)'
    BY <1>c, <2>1 DEF Within
  <2>3. \A v \in Writers : Within(v)'
    BY <1>c, <2>1, <2>2, OneMoves
  <2> QED  BY <1>h, <2>1, <2>3 DEF Bounds
<1>7. CASE ApplyLate
  <2>1. PICK l \in late : late' = late \ {l} /\ cards' = [cards EXCEPT ![l.card] = l.face]
    BY <1>7 DEF ApplyLate
  <2>2. Len(cards') = Len(cards) /\ DOMAIN cards' = DOMAIN cards
    <3>1. l.card \in 1..Len(cards) /\ l.face \in Status
      BY <1>c DEF Bounds, IInv, Types
    <3> QED  BY <1>c, <2>1, <3>1, ExceptSeq
  <2>3. UNCHANGED <<stored, contexts, job>>
    BY <1>7 DEF ApplyLate
  <2> QED  BY <1>h, <2>1, <2>2, <2>3 DEF Bounds, Within
<1>8. CASE UNCHANGED vars
  <2>1. UNCHANGED <<stored, cards, late, contexts, job>>
    BY <1>8 DEF vars
  <2> QED  BY <1>h, <2>1 DEF Bounds, Within
<1> QED  BY <1>1, <1>2, <1>3, <1>4, <1>5, <1>6, <1>7, <1>8 DEF Next, Begins

\* Every variable has its type (the run cards checks it on an instance), and no card
\* is named that was not posted.
THEOREM TypeCorrect == Spec => []TypeOK
<1>1. IInv /\ Bounds => TypeOK
  <2> SUFFICES ASSUME IInv, Bounds PROVE TypeOK
    OBVIOUS
  <2>1. Len(cards) \in Nat /\ stored.card \in 0..Len(cards)
    BY DEF IInv, Types, Bounds, Status
  <2>2. \A w \in Writers : job[w].id \in 0..Len(cards) /\ job[w].tries \in 1..Tries
    BY <2>1 DEF IInv, Types, Bounds, Within, Jobs
  <2>3. job \in [Writers -> [at : {"idle", "read", "send", "write", "plan", "mark"},
                            next : SUBSET Updates, update : Updates \cup {"none"},
                            id : 0..Len(cards), st : Status, fresh : BOOLEAN, tries : 1..Tries]]
    BY <2>2 DEF IInv, Types, Jobs
  <2> QED  BY <2>1, <2>3 DEF IInv, Types, Bounds, Histories, TypeOK
<1>2. IInv /\ Bounds /\ [Next]_vars => IInv' /\ Bounds'
  BY NextIInv, NextBounds, CardsAssumption
<1>3. Init => IInv /\ Bounds
  BY InitIInv, InitBounds, CardsAssumption
<1> QED  BY <1>1, <1>2, <1>3, PTL DEF Spec

-----------------------------------------------------------------------------
(* One card                                                                *)

\* An update without a card is that of a run of the poller's handler, as long as each
\* review was made with a card.
Named ==
    /\ \A w \in Executors : job[w].at \in {"read", "send", "write"} => job[w].id # 0
    /\ \A w \in Merging : job[w].id # 0 => job[w].st.card # 0

\* What the runs of the handler tell.
Tidings == {"detect", "announce", "wait"}
Telling ==
    \A p \in Pollers : /\ job[p].next \subseteq Tidings
                       /\ job[p].at \in {"send", "write"} => job[p].update \in Tidings

\* The runs that may post a card yet, those that will store one, and whether a status
\* without a card is stored or about to be: if not, no run posts a card again.
AtWork(p)  == job[p].at \in {"send", "write"}
Posting(p) == \/ job[p].at \in {"read", "plan"} /\ job[p].id = 0
              \/ AtWork(p) /\ job[p].st.card = 0
Posters  == {p \in Pollers : Posting(p)}
Holding  == \E p \in Pollers : AtWork(p) /\ job[p].st.card # 0
Unposted == stored.card = 0 \/ \E p \in Pollers : AtWork(p) /\ job[p].st.card = 0

\* For each card, and each that a run may post yet, there is a cause; when no run will
\* post or store one, one card is left for the next run.
Causes == troubles + overlaps
Paid ==
    /\ Len(cards) <= 1 + Causes
    /\ Unposted => Len(cards) + Cardinality(Posters) <= 1 + Causes
    /\ stored.card = 0 /\ Posters = {} /\ ~Holding => Len(cards) <= Causes

Budget == Telling /\ (0 \notin contexts => Named /\ Paid)

LEMMA InitBudget == ASSUME Init PROVE Budget
<1>1. \A w \in Writers : job[w].at = "idle"
  BY DEF Init, Idle
<1>2. Posters = {}
  BY <1>1 DEF Posters, Posting, AtWork, Writers
<1>3. Cardinality(Posters) = 0
  BY <1>2, FS_EmptySet
<1>4. Len(cards) = 0 /\ Causes = 0
  BY DEF Init, Causes
<1>5. Paid
  BY <1>3, <1>4 DEF Paid
<1>6. Named
  BY <1>1 DEF Named, Merging, Writers
<1>7. Telling
  BY DEF Telling, Init, Writers, Idle
<1> QED BY <1>5, <1>6, <1>7 DEF Budget

\* What a poller has in hand that does not move.
Rests(v) == job'[v].at = job[v].at /\ job'[v].id = job[v].id /\ job'[v].st = job[v].st

LEMMA PostersMove ==
    ASSUME NEW w, \A v \in Pollers \ {w} : Rests(v)
    PROVE  /\ Posters' \subseteq Posters \cup {w}
           /\ ~Posting(w)' => Posters' \subseteq Posters \ {w}
           /\ Posting(w) => Posters' \subseteq Posters \cup ({w} \cap Pollers)
           /\ \A v \in Pollers \ {w} : AtWork(v)' <=> AtWork(v)
BY DEF Posters, Posting, AtWork, Rests

\* The numbers of posters.
LEMMA Counts ==
    ASSUME CardsAssumption
    PROVE  /\ Cardinality(Posters) \in Nat /\ Cardinality(Posters') \in Nat
           /\ (Posters # {} => Cardinality(Posters) >= 1)
           /\ (Posters' \subseteq Posters => Cardinality(Posters') <= Cardinality(Posters))
           /\ \A w \in Posters :
                Posters' \subseteq Posters \ {w}
                    => Cardinality(Posters') + 1 <= Cardinality(Posters)
           /\ \A w : Posters' \subseteq Posters \cup {w}
                    => Cardinality(Posters') <= Cardinality(Posters) + 1
<1>1. IsFiniteSet(Posters) /\ IsFiniteSet(Posters')
  BY FS_Subset DEF Posters, CardsAssumption
<1>2. Cardinality(Posters) \in Nat /\ Cardinality(Posters') \in Nat
  BY <1>1, FS_CardinalityType
<1>3. Posters # {} => Cardinality(Posters) >= 1
  BY <1>1, <1>2, FS_EmptySet
<1>4. Posters' \subseteq Posters => Cardinality(Posters') <= Cardinality(Posters)
  BY <1>1, FS_Subset
<1>5. ASSUME NEW w \in Posters, Posters' \subseteq Posters \ {w}
      PROVE  Cardinality(Posters') + 1 <= Cardinality(Posters)
  <2>1. IsFiniteSet(Posters \ {w}) /\ Cardinality(Posters \ {w}) = Cardinality(Posters) - 1
    BY <1>1, FS_RemoveElement
  <2>2. Cardinality(Posters') <= Cardinality(Posters \ {w})
    BY <1>5, <2>1, FS_Subset
  <2> QED BY <1>2, <2>1, <2>2
<1>6. ASSUME NEW w, Posters' \subseteq Posters \cup {w}
      PROVE  Cardinality(Posters') <= Cardinality(Posters) + 1
  <2>1. /\ IsFiniteSet(Posters \cup {w})
        /\ Cardinality(Posters \cup {w}) \in {Cardinality(Posters), Cardinality(Posters) + 1}
    BY <1>1, FS_AddElement
  <2>2. Cardinality(Posters') <= Cardinality(Posters \cup {w})
    BY <1>6, <2>1, FS_Subset
  <2> QED BY <1>2, <2>1, <2>2
<1> QED BY <1>2, <1>3, <1>4, <1>5, <1>6

\* A step that posts no card and adds no poster.
LEMMA NothingPosted ==
    ASSUME Paid, CardsAssumption, Len(cards) \in Nat, Causes \in Nat, Causes' \in Nat,
           Len(cards') = Len(cards), Causes' >= Causes,
           Posters' \subseteq Posters, Unposted' => Unposted,
           stored'.card = 0 /\ Posters' = {} /\ ~Holding'
               => \/ Posters # {} /\ Unposted
                  \/ stored.card = 0 /\ Posters = {} /\ ~Holding
                  \/ Causes' > Causes
    PROVE  Paid'
<1>1. /\ Cardinality(Posters) \in Nat /\ Cardinality(Posters') \in Nat
      /\ (Posters # {} => Cardinality(Posters) >= 1)
      /\ Cardinality(Posters') <= Cardinality(Posters)
  BY Counts
<1>2. Len(cards') <= 1 + Causes'
  BY DEF Paid
<1>3. Unposted' => Len(cards') + Cardinality(Posters') <= 1 + Causes'
  BY <1>1 DEF Paid
<1>4. ASSUME stored'.card = 0, Posters' = {}, ~Holding' PROVE Len(cards') <= Causes'
  BY <1>1, <1>4 DEF Paid
<1> QED BY <1>2, <1>3, <1>4 DEF Paid

\* A run that has told something goes on to plan, or has done with the entry.
LEMMA AfterTells ==
    ASSUME NEW w, Update(w) \in Tidings
    PROVE  /\ After(w).next = {} /\ After(w).at \in {"plan", "idle", "mark"}
           /\ After(w).at = "plan" => After(w).id = Card(w)
BY DEF Tidings, After, Then, Idle

LEMMA NextTelling ==
    ASSUME IInv, Bounds, Telling, [Next]_vars, CardsAssumption PROVE Telling'
<1>c. /\ job \in [Writers -> Jobs] /\ Pollers \subseteq Writers
      /\ Pollers \cap Executors = {}
      /\ \A w \in Writers : Within(w)
  BY DEF IInv, Types, Writers, CardsAssumption, Bounds
<1>o. ASSUME NEW w \in Writers,
             \A v \in Writers \ {w} : /\ job'[v].next = job[v].next /\ job'[v].at = job[v].at
                                      /\ job'[v].update = job[v].update,
             w \in Pollers => /\ job'[w].next \subseteq Tidings
                              /\ job'[w].at \in {"send", "write"} => job'[w].update \in Tidings
      PROVE  Telling'
  <2>1. ASSUME NEW p \in Pollers
        PROVE  /\ job'[p].next \subseteq Tidings
               /\ job'[p].at \in {"send", "write"} => job'[p].update \in Tidings
    <3>1. CASE p = w
      <4>1. w \in Pollers
        BY <3>1
      <4>2. /\ job'[w].next \subseteq Tidings
            /\ job'[w].at \in {"send", "write"} => job'[w].update \in Tidings
        BY <1>o, <4>1, Zenon
      <4> QED BY <3>1, <4>2, Zenon
    <3>2. CASE p # w
      BY <1>c, <1>o, <3>2 DEF Telling
    <3> QED BY <3>1, <3>2
  <2> QED BY <2>1 DEF Telling
<1>1. ASSUME NEW w \in Writers, Read(w) PROVE Telling'
  <2>1. /\ OnlyOf(w) /\ job'[w].next = {}
        /\ \E u \in job[w].next : job'[w].update = u
    BY <1>1, ReadDoes
  <2> QED BY <1>o, <2>1 DEF OnlyOf, Telling
<1>2. ASSUME NEW w \in Writers, Send(w) PROVE Telling'
  <2>1. /\ OnlyOf(w) /\ job'[w].next = job[w].next /\ job'[w].update = job[w].update
        /\ job[w].at = "send"
    BY <1>2, SendDoes
  <2> QED BY <1>o, <2>1 DEF OnlyOf, Telling
<1>3. ASSUME NEW w \in Writers, AttemptFails(w) \/ Rejected(w) PROVE Telling'
  <2>1. /\ OnlyOf(w) /\ job'[w].next = job[w].next /\ job'[w].update = job[w].update
        /\ job[w].at = "send"
    BY <1>3, <1>c, FailureDoes DEF Within
  <2> QED BY <1>o, <2>1 DEF OnlyOf, Telling
<1>4. ASSUME NEW w \in Writers, Write(w) PROVE Telling'
  <2>1. /\ job[w].at = "write" /\ job'[w] = After(w)
        /\ \A v \in Writers \ {w} : /\ job'[v].next = job[v].next /\ job'[v].at = job[v].at
                                   /\ job'[v].update = job[v].update
    BY <1>4, WriteDoes
  <2>2. w \in Pollers => job'[w].next = {} /\ job'[w].at \notin {"send", "write"}
    BY <2>1, AfterTells DEF Telling, Update
  <2> QED BY <1>o, <2>1, <2>2
<1>5. ASSUME NEW w \in Writers, NEW new, job' = [job EXCEPT ![w] = new],
             w \in Pollers => new.next \subseteq Tidings /\ new.at \notin {"send", "write"}
      PROVE  Telling'
  <2>1. job'[w] = new /\ \A v \in Writers \ {w} : job'[v] = job[v]
    BY <1>c, <1>5
  <2> QED BY <1>o, <1>5, <2>1
<1>6. \A us, id : Ready(us, id).next = us /\ Ready(us, id).at = "read"
  BY DEF Ready, Idle
<1>7. ASSUME NEW p \in Pollers, Detect(p) \/ Plan(p) \/ Mark(p) PROVE Telling'
  <2>1. CASE \E u \in Tidings : \E id : job' = [job EXCEPT ![p] = Ready({u}, id)]
    <3>u. PICK u \in Tidings : \E id : job' = [job EXCEPT ![p] = Ready({u}, id)]
      BY <2>1
    <3>1. PICK id : job' = [job EXCEPT ![p] = Ready({u}, id)]
      BY <3>u
    <3>2. Ready({u}, id).next \subseteq Tidings /\ Ready({u}, id).at = "read"
      BY <1>6
    <3> QED BY <1>c, <1>5, <3>1, <3>2
  <2>2. CASE job' = [job EXCEPT ![p].at = "mark"]
    <3> DEFINE new == [job[p] EXCEPT !.at = "mark"]
    <3>1. new.next = job[p].next /\ new.at = "mark"
      BY <1>c DEF Jobs
    <3>2. job' = [job EXCEPT ![p] = new] /\ job[p].next \subseteq Tidings
      BY <2>2 DEF Telling
    <3> HIDE DEF new
    <3> QED BY <1>c, <1>5, <3>1, <3>2
  <2>3. CASE job' = [job EXCEPT ![p] = Idle]
    <3>1. Idle.next = {} /\ Idle.at = "idle"
      BY DEF Idle
    <3> QED BY <1>c, <1>5, <2>3, <3>1
  <2> QED BY <1>7, <2>1, <2>2, <2>3 DEF Detect, Starts, Plan, Mark, Tidings
<1>8. ASSUME Ask \/ \E w \in Executors : Begin(w) PROVE Telling'
  <2>1. PICK v \in Executors : \E us, id : job' = [job EXCEPT ![v] = Ready(us, id)]
    BY <1>c, <1>8 DEF Ask, Begin, Starts
  <2> QED BY <1>c, <1>5, <2>1 DEF Writers
<1>9. ASSUME NEW w \in Writers, Die(w) PROVE Telling'
  <2>1. job' = [job EXCEPT ![w] = Idle] /\ Idle.next = {} /\ Idle.at = "idle"
    BY <1>9 DEF Die, Idle
  <2> QED BY <1>5, <2>1
<1>10. CASE ApplyLate \/ UNCHANGED vars
  BY <1>10 DEF ApplyLate, vars, Telling
<1> QED BY <1>c, <1>1, <1>2, <1>3, <1>4, <1>7, <1>8, <1>9, <1>10 DEF Next

LEMMA NextNamed ==
    ASSUME IInv, Bounds, Named, 0 \notin contexts, [Next]_vars, CardsAssumption
    PROVE  Named'
<1>c. /\ \A w \in Writers : job[w].id \in Nat /\ job[w].st.card \in Nat /\ Within(w)
      /\ Executors = Writers \ Pollers /\ Len(cards) \in Nat /\ stored.card \in Nat
  BY DEF IInv, Types, Jobs, Status, Writers, Bounds, CardsAssumption
<1>b. /\ \A w \in Executors : job[w].at \in {"read", "send", "write"} => job[w].id # 0
      /\ \A w \in Merging : job[w].id # 0 => job[w].st.card # 0
  BY DEF Named
<1>m. \A w : /\ w \in Merging <=> w \in Writers /\ job[w].at \in {"send", "write"}
             /\ w \in Merging' <=> w \in Writers /\ job'[w].at \in {"send", "write"}
  BY DEF Merging
<1>o. ASSUME NEW w \in Writers, \A v \in Writers \ {w} : Rests(v),
             w \in Executors => (job'[w].at \in {"read", "send", "write"} => job'[w].id # 0),
             job'[w].at \in {"send", "write"} => (job'[w].id # 0 => job'[w].st.card # 0)
      PROVE  Named'
  <2>1. ASSUME NEW v \in Executors, job'[v].at \in {"read", "send", "write"}
        PROVE  job'[v].id # 0
    BY <1>b, <1>c, <1>o, <2>1 DEF Rests
  <2>2. ASSUME NEW v \in Merging', job'[v].id # 0 PROVE job'[v].st.card # 0
    BY <1>b, <1>m, <1>o, <2>2 DEF Rests
  <2> QED BY <2>1, <2>2 DEF Named
<1>r. ASSUME NEW w, OnlyOf(w) PROVE \A v \in Writers \ {w} : Rests(v)
  BY <1>r DEF OnlyOf, Rests
<1>1. ASSUME NEW w \in Writers, Read(w) PROVE Named'
  <2>1. /\ OnlyOf(w) /\ job[w].at = "read" /\ job'[w].id = job[w].id
        /\ job'[w].st.card = IF job[w].id = 0 THEN stored.card ELSE job[w].id
    BY <1>1, ReadDoes
  <2>2. w \in Executors => job'[w].id # 0
    BY <1>b, <2>1
  <2>3. job'[w].id # 0 => job'[w].st.card # 0
    BY <2>1
  <2>4. \A v \in Writers \ {w} : Rests(v)
    BY <1>r, <2>1
  <2> QED BY <1>o, <2>2, <2>3, <2>4
<1>2. ASSUME NEW w \in Writers, Send(w) PROVE Named'
  <2>1. LET c == IF Card(w) = 0 THEN Len(cards) + 1 ELSE Card(w)
        IN  /\ OnlyOf(w) /\ job[w].at = "send" /\ job'[w].id = job[w].id
            /\ job'[w].st.card = c
    BY <1>2, SendDoes
  <2>2. w \in Executors => job'[w].id # 0
    BY <1>b, <2>1
  <2>3. job'[w].st.card # 0
    BY <1>c, <2>1
  <2>4. \A v \in Writers \ {w} : Rests(v)
    BY <1>r, <2>1
  <2> QED BY <1>o, <2>2, <2>3, <2>4
<1>3. ASSUME NEW w \in Writers, AttemptFails(w) \/ Rejected(w) PROVE Named'
  <2>1. /\ OnlyOf(w) /\ job[w].at = "send" /\ job'[w].id = job[w].id
        /\ job'[w].st = job[w].st
    BY <1>3, <1>c, FailureDoes DEF Within
  <2>2. w \in Executors => job'[w].id # 0
    BY <1>b, <2>1
  <2>3. job'[w].id # 0 => job'[w].st.card # 0
    BY <1>b, <1>m, <2>1
  <2>4. \A v \in Writers \ {w} : Rests(v)
    BY <1>r, <2>1
  <2> QED BY <1>o, <2>2, <2>3, <2>4
<1>4. ASSUME NEW w \in Writers, Write(w) PROVE Named'
  <2>1. /\ job[w].at = "write" /\ job'[w] = After(w)
        /\ \A v \in Writers \ {w} : Rests(v)
    BY <1>4, WriteDoes DEF Rests
  <2>2. /\ job'[w].at \notin {"send", "write"}
        /\ job'[w].at = "read" => job'[w].id = job[w].id
    BY <2>1, AfterDoes
  <2>3. w \in Executors => (job'[w].at \in {"read", "send", "write"} => job'[w].id # 0)
    BY <1>b, <2>1, <2>2
  <2> QED BY <1>o, <2>1, <2>2, <2>3
<1>5. CASE Begins
  <2>1. PICK w \in Writers : Began(w)
    BY <1>5, BeginsDoes
  <2>2. /\ OnlyOf(w) /\ job'[w].at \notin {"send", "write"}
        /\ w \in Executors => job'[w].id # 0
    BY <1>c, <2>1 DEF Began
  <2>3. \A v \in Writers \ {w} : Rests(v)
    BY <1>r, <2>2
  <2> QED BY <1>o, <2>2, <2>3
<1>6. ASSUME NEW w \in Writers, Die(w) PROVE Named'
  <2>1. job'[w].at = "idle" /\ OnlyOf(w)
    BY <1>6, DieDoes
  <2>2. \A v \in Writers \ {w} : Rests(v)
    BY <1>r, <2>1
  <2> QED BY <1>o, <2>1, <2>2
<1>7. CASE ApplyLate \/ UNCHANGED vars
  BY <1>7 DEF ApplyLate, vars, Named, Merging
<1> QED BY <1>1, <1>2, <1>3, <1>4, <1>5, <1>6, <1>7 DEF Next, Begins

LEMMA NextPaid ==
    ASSUME IInv, Bounds, Telling, Named, Paid, [Next]_vars, CardsAssumption
    PROVE  Paid'
<1>c. /\ Len(cards) \in Nat /\ stored.card \in Nat /\ Causes \in Nat
      /\ troubles \in Nat /\ overlaps \in Nat
      /\ \A w \in Writers : job[w].id \in Nat /\ job[w].st.card \in Nat /\ Within(w)
      /\ Executors = Writers \ Pollers /\ Pollers \subseteq Writers
  BY DEF IInv, Types, Jobs, Status, Writers, Bounds, Histories, Causes,
         CardsAssumption
<1>b. /\ \A w \in Executors : job[w].at \in {"read", "send", "write"} => job[w].id # 0
      /\ \A w \in Writers : AtWork(w) => (job[w].id # 0 => job[w].st.card # 0)
  BY DEF Named, Merging, AtWork
<1>r. ASSUME NEW w, OnlyOf(w) PROVE \A v \in Pollers \ {w} : Rests(v)
  BY <1>c, <1>r DEF OnlyOf, Rests
\* Steps that change nothing of what is counted.
<1>o. ASSUME NEW w, \A v \in Pollers \ {w} : Rests(v), w \in Pollers => Rests(w),
             stored' = stored \/ stored'.card # 0, Len(cards') = Len(cards),
             Causes' \in Nat, Causes' >= Causes
      PROVE  Paid'
  <2>1. \A v \in Pollers : Rests(v)
    BY <1>o
  <2>2. Posters' = Posters /\ Holding' = Holding /\ (Unposted' => Unposted)
    BY <1>o, <2>1 DEF Posters, Posting, Holding, Unposted, AtWork, Rests
  <2>3. stored'.card = 0 => stored.card = 0
    BY <1>o
  <2> QED BY <1>c, <1>o, <2>2, <2>3, NothingPosted
<1>1. ASSUME NEW w \in Writers, Read(w) PROVE Paid'
  <2>1. UNCHANGED <<stored, cards, troubles, overlaps>>
    BY <1>1 DEF Read, bounds
  <2>2. /\ OnlyOf(w) /\ job[w].at = "read" /\ job'[w].id = job[w].id
        /\ job'[w].at \in {"send", "write"}
        /\ job'[w].st.card = IF job[w].id = 0 THEN stored.card ELSE job[w].id
    BY <1>1, ReadDoes
  <2>3. /\ \A v \in Pollers \ {w} : Rests(v)
        /\ Causes' = Causes
    BY <1>r, <2>1, <2>2 DEF Causes
  <2>4. CASE w \notin Pollers
    BY <1>c, <1>o, <2>1, <2>3, <2>4
  <2>5. CASE w \in Pollers
    <3>1. Posting(w)' => Posting(w)
      BY <2>2 DEF Posting, AtWork
    <3>2. Posters' \subseteq Posters
      BY <2>3, <3>1, PostersMove DEF Posters
    <3>3. Unposted' => Unposted
      BY <2>1, <2>2, <2>3 DEF Unposted, AtWork, Rests
    <3>4. ASSUME stored'.card = 0, Posters' = {}, ~Holding' PROVE FALSE
      <4>1. AtWork(w)' /\ w \notin Posters' /\ job'[w].st.card = 0
        BY <2>2, <2>5, <3>4 DEF Holding, AtWork
      <4> QED BY <2>5, <4>1 DEF Posters, Posting
    <3> QED BY <1>c, <2>1, <2>3, <3>2, <3>3, <3>4, NothingPosted
  <2> QED BY <2>4, <2>5
<1>2. ASSUME NEW w \in Writers, Send(w) PROVE Paid'
  <2>1. UNCHANGED <<stored, troubles, overlaps>> /\ Apply(w)
    BY <1>2 DEF Send, bounds
  <2>2. LET c == IF Card(w) = 0 THEN Len(cards) + 1 ELSE Card(w)
        IN  /\ OnlyOf(w) /\ job[w].at = "send" /\ job'[w].id = job[w].id
            /\ job'[w].at = "write" /\ job'[w].st.card = c
            /\ Len(cards') = IF Card(w) = 0 THEN Len(cards) + 1 ELSE Len(cards)
    BY <1>2, <1>c, <2>1, SendDoes, ApplyDoes DEF Within
  <2>3. /\ job'[w].st.card # 0 /\ AtWork(w) /\ AtWork(w)' /\ ~Posting(w)'
        /\ \A v \in Pollers \ {w} : Rests(v)
        /\ Causes' = Causes
    BY <1>c, <1>r, <2>1, <2>2 DEF Card, AtWork, Posting, Causes
  <2>4. CASE Card(w) = 0
    <3>1. w \in Pollers
      BY <1>c, <1>b, <2>2, <2>3, <2>4 DEF Card
    <3>2. w \in Posters /\ Unposted /\ Holding'
      BY <2>3, <2>4, <3>1 DEF Posters, Posting, Unposted, Holding, Card
    <3>3. Posters' \subseteq Posters \ {w}
      BY <2>3, PostersMove
    <3>4. /\ Cardinality(Posters) \in Nat /\ Cardinality(Posters') \in Nat
          /\ Cardinality(Posters') + 1 <= Cardinality(Posters)
      BY <3>2, <3>3, Counts
    <3>5. Len(cards') = Len(cards) + 1
          /\ Len(cards) + Cardinality(Posters) <= 1 + Causes
      BY <2>2, <2>4, <3>2 DEF Paid
    <3>6. Len(cards') + Cardinality(Posters') <= 1 + Causes'
      BY <1>c, <2>3, <3>4, <3>5
    <3>7. Len(cards') <= 1 + Causes'
      BY <1>c, <2>3, <3>4, <3>5
    <3> QED BY <3>2, <3>6, <3>7 DEF Paid
  <2>5. CASE Card(w) # 0
    <3>1. CASE w \notin Pollers
      BY <1>c, <1>o, <2>1, <2>2, <2>3, <2>5, <3>1
    <3>2. CASE w \in Pollers
      <4>1. Holding' /\ Posters' \subseteq Posters
        BY <2>3, <3>2, PostersMove DEF Holding
      <4>2. Unposted' => Unposted
        BY <2>1, <2>3 DEF Unposted, AtWork, Rests
      <4> QED BY <1>c, <2>2, <2>3, <2>5, <4>1, <4>2, NothingPosted
    <3> QED BY <3>1, <3>2
  <2> QED BY <2>4, <2>5
<1>3. ASSUME NEW w \in Writers, AttemptFails(w) \/ Rejected(w) PROVE Paid'
  <2>1. stored' = stored /\ troubles' = troubles + 1 /\ overlaps' = overlaps
    BY <1>3 DEF AttemptFails, Rejected, Trouble
  <2>2. /\ OnlyOf(w) /\ job[w].at = "send" /\ job'[w].at \in {"send", "write"}
        /\ job'[w].id = job[w].id /\ job'[w].st = job[w].st
    BY <1>3, <1>c, FailureDoes DEF Within
  <2>3. /\ Len(cards') = Len(cards) \/ Len(cards') = Len(cards) + 1
        /\ Len(cards') = Len(cards) + 1 => Card(w) = 0
    <3>1. CASE Apply(w)
      BY <1>c, <3>1, ApplyDoes DEF Within
    <3> QED  BY <1>3, <1>c, <3>1 DEF AttemptFails, Rejected
  <2>4. /\ Causes' = Causes + 1 /\ Causes' \in Nat
        /\ \A v \in Pollers \ {w} : Rests(v)
    BY <1>c, <1>r, <2>1, <2>2 DEF Causes
  <2>5. /\ Posting(w)' <=> Posting(w)
        /\ AtWork(w) /\ AtWork(w)'
    BY <2>2 DEF Posting, AtWork
  <2>6. Posters' = Posters /\ Holding' = Holding /\ (Unposted' <=> Unposted)
    <3>1. \A v \in Pollers : /\ Posting(v)' <=> Posting(v)
                             /\ AtWork(v)' <=> AtWork(v)
                             /\ job'[v].st = job[v].st
      BY <2>2, <2>4, <2>5 DEF Posting, AtWork, Rests
    <3> QED BY <2>1, <3>1 DEF Posters, Holding, Unposted
  <2>7. CASE Len(cards') = Len(cards)
    BY <1>c, <2>1, <2>4, <2>6, <2>7, NothingPosted
  <2>8. CASE Len(cards') = Len(cards) + 1
    <3>1. w \in Pollers
      BY <1>c, <1>b, <2>2, <2>3, <2>5, <2>8 DEF Card
    <3>2. w \in Posters /\ Unposted
      BY <2>3, <2>5, <2>8, <3>1 DEF Posters, Posting, Unposted, Card
    <3>3. Cardinality(Posters) \in Nat /\ Cardinality(Posters') = Cardinality(Posters)
      BY <2>6, Counts
    <3>4. Len(cards) + Cardinality(Posters) <= 1 + Causes /\ Len(cards) <= 1 + Causes
      BY <3>2 DEF Paid
    <3>5. Len(cards') + Cardinality(Posters') <= 1 + Causes'
      BY <1>c, <2>4, <2>8, <3>3, <3>4
    <3>6. Len(cards') <= 1 + Causes' /\ Posters' # {}
      BY <1>c, <2>4, <2>6, <2>8, <3>2, <3>4
    <3> QED BY <3>5, <3>6 DEF Paid
  <2> QED BY <2>3, <2>7, <2>8
<1>4. ASSUME NEW w \in Writers, Write(w) PROVE Paid'
  <2>1. UNCHANGED <<cards, troubles, overlaps>>
    BY <1>4 DEF Write, bounds
  <2>2. /\ job[w].at = "write" /\ stored' = job[w].st /\ job'[w] = After(w)
        /\ \A v \in Writers \ {w} : Rests(v)
    BY <1>4, WriteDoes DEF Rests
  <2>3. /\ After(w).at \notin {"send", "write"}
        /\ w \in Pollers => /\ After(w).at \in {"plan", "idle", "mark"}
                            /\ After(w).at = "plan" => After(w).id = Card(w)
    BY <2>2, AfterDoes, AfterTells DEF Telling, Update
  <2>4. Causes' = Causes /\ AtWork(w) /\ ~AtWork(w)' /\ stored'.card = job[w].st.card
    BY <2>1, <2>2, <2>3 DEF Causes, AtWork
  <2>5. CASE w \notin Pollers
    <3>1. stored'.card # 0
      BY <1>c, <1>b, <2>2, <2>4, <2>5
    <3> QED BY <1>c, <1>o, <2>1, <2>2, <2>4, <2>5, <3>1
  <2>6. CASE w \in Pollers
    <3>1. \A v \in Pollers \ {w} : Rests(v)
      BY <1>c, <2>2
    <3>2. job[w].st.card # 0 => ~Posting(w)'
      <4>1. job'[w].at = "plan" => job'[w].id = job[w].st.card
        BY <2>2, <2>3, <2>6 DEF Card
      <4>2. job'[w].at \in {"plan", "idle", "mark"}
        BY <2>2, <2>3, <2>6, Zenon
      <4>3. job'[w].at \notin {"read", "send", "write"}
        BY <4>2
      <4> QED BY <4>1, <4>2, <4>3 DEF Posting, AtWork
    <3>3. CASE job[w].st.card = 0
      <4>1. w \in Posters /\ Unposted
        BY <2>4, <2>6, <3>3 DEF Posters, Posting, Unposted
      <4>2. Posters' \subseteq Posters
        BY <3>1, <4>1, PostersMove
      <4> QED BY <1>c, <2>1, <2>4, <4>1, <4>2, NothingPosted
    <3>4. CASE job[w].st.card # 0
      <4>1. ~Posting(w)'
        BY <3>2, <3>4
      <4>2. Posters' \subseteq Posters
        BY <3>1, <4>1, PostersMove
      <4>3. Unposted' => Unposted
        BY <2>4, <3>1, <3>4 DEF Unposted, AtWork, Rests
      <4> QED BY <1>c, <2>1, <2>4, <3>4, <4>2, <4>3, NothingPosted
    <3> QED BY <3>3, <3>4
  <2> QED BY <2>5, <2>6
<1>5. ASSUME NEW p \in Pollers, Detect(p) PROVE Paid'
  <2>1. /\ job[p].at = "idle" /\ job' = [job EXCEPT ![p] = Ready({"detect"}, 0)]
        /\ UNCHANGED <<stored, cards, troubles>>
        /\ overlaps' = IF \E q \in Pollers : Working(q) THEN overlaps + 1 ELSE overlaps
    BY <1>5 DEF Detect, Starts
  <2>2. job'[p].at = "read" /\ \A v \in Pollers \ {p} : Rests(v)
    BY <1>c, <2>1 DEF IInv, Types, Ready, Idle, Rests
  <2>3. Posters' \subseteq Posters \cup {p}
    BY <2>2, PostersMove
  <2>4. /\ Cardinality(Posters) \in Nat /\ Cardinality(Posters') \in Nat
        /\ Cardinality(Posters') <= Cardinality(Posters) + 1
    BY <2>3, Counts
  <2>5. Unposted' => Unposted
    BY <2>1, <2>2 DEF Unposted, AtWork, Rests
  <2>6. Holding' = Holding
    <3>1. ~AtWork(p) /\ ~AtWork(p)'
      BY <2>1, <2>2 DEF AtWork
    <3>2. \A v \in Pollers \ {p} : (AtWork(v)' <=> AtWork(v)) /\ job'[v].st = job[v].st
      BY <2>2 DEF AtWork, Rests
    <3> QED BY <3>1, <3>2 DEF Holding
  <2>7. Posters' = {} => Posters = {}
    <3>1. p \notin Posters
      BY <2>1 DEF Posters, Posting, AtWork
    <3>2. Posters \ {p} \subseteq Posters'
      BY <2>2 DEF Posters, Posting, AtWork, Rests
    <3> QED BY <3>1, <3>2
  <2>8. CASE \E q \in Pollers : Working(q)
    <3>1. Causes' = Causes + 1
      BY <1>c, <2>1, <2>8 DEF Causes
    <3>2. Len(cards') <= 1 + Causes'
      BY <1>c, <2>1, <3>1 DEF Paid
    <3>3. Unposted' => Len(cards') + Cardinality(Posters') <= 1 + Causes'
      BY <1>c, <2>1, <2>4, <2>5, <3>1 DEF Paid
    <3>4. Len(cards') <= Causes'
      BY <1>c, <2>1, <3>1 DEF Paid
    <3> QED BY <3>2, <3>3, <3>4 DEF Paid
  <2>9. CASE ~\E q \in Pollers : Working(q)
    <3>1. \A q \in Pollers : job[q].at = "idle"
      BY <2>9 DEF Working
    <3>2. Posters = {} /\ ~Holding /\ (Unposted => stored.card = 0)
      BY <3>1 DEF Posters, Posting, Holding, Unposted, AtWork
    <3>3. Causes' = Causes
      BY <2>1, <2>9 DEF Causes
    <3>4. Cardinality(Posters) = 0
      BY <3>2, FS_EmptySet
    <3>5. Unposted' => Len(cards') + Cardinality(Posters') <= 1 + Causes'
      BY <1>c, <2>1, <2>4, <2>5, <3>2, <3>3, <3>4 DEF Paid
    <3>6. stored'.card = 0 => Len(cards') <= Causes'
      BY <2>1, <3>2, <3>3 DEF Paid
    <3> QED BY <2>1, <3>3, <3>5, <3>6 DEF Paid
  <2> QED BY <2>8, <2>9
<1>6. ASSUME NEW p \in Pollers, Plan(p) \/ Mark(p) PROVE Paid'
  <2>1. /\ UNCHANGED <<stored, cards, troubles, overlaps>>
        /\ job[p].at \in {"plan", "mark"}
    BY <1>6 DEF Plan, Mark, bounds
  <2>2. /\ \A v \in Pollers \ {p} : Rests(v)
        /\ job'[p].at \in {"read", "mark", "idle"}
        /\ job'[p].at = "read" => job[p].at = "plan" /\ job'[p].id = job[p].id
    <3>1. job \in [Writers -> Jobs] /\ job[p] \in Jobs
      BY <1>c DEF IInv, Types
    <3>2. \A us, id : Ready(us, id).at = "read" /\ Ready(us, id).id = id
      BY DEF Ready, Idle
    <3>3. CASE \E u : job' = [job EXCEPT ![p] = Ready({u}, job[p].id)] /\ job[p].at = "plan"
      BY <1>c, <3>1, <3>2, <3>3 DEF Rests
    <3>4. CASE job' = [job EXCEPT ![p].at = "mark"]
      BY <1>c, <3>1, <3>4 DEF Rests, Jobs
    <3>5. CASE job' = [job EXCEPT ![p] = Idle]
      BY <1>c, <3>1, <3>5 DEF Rests, Idle
    <3> QED BY <1>6, <3>3, <3>4, <3>5 DEF Plan, Mark
  <2>3. Causes' = Causes /\ ~AtWork(p) /\ ~AtWork(p)' /\ (Posting(p)' => Posting(p))
    BY <2>1, <2>2 DEF Causes, AtWork, Posting
  <2>4. Posters' \subseteq Posters
    BY <2>2, <2>3, PostersMove DEF Posters
  <2>5. Holding' = Holding /\ (Unposted' <=> Unposted)
    <3>1. \A v \in Pollers \ {p} : (AtWork(v)' <=> AtWork(v)) /\ job'[v].st = job[v].st
      BY <2>2 DEF AtWork, Rests
    <3> QED BY <2>1, <2>3, <3>1 DEF Holding, Unposted
  <2>6. stored'.card = 0 => Unposted
    BY <2>1 DEF Unposted
  <2> QED BY <1>c, <2>1, <2>3, <2>4, <2>5, <2>6, NothingPosted
<1>7. ASSUME Ask \/ \E w \in Executors : Begin(w) PROVE Paid'
  <2>1. PICK v \in Executors : \E new : job' = [job EXCEPT ![v] = new]
    BY <1>7 DEF Ask, Begin, Starts
  <2>2. \A q \in Pollers : Rests(q)
    BY <1>c, <2>1 DEF IInv, Types, Rests
  <2>3. UNCHANGED <<stored, cards>> /\ Causes' = Causes
    BY <1>7 DEF Ask, Begin, Causes
  <2> QED BY <1>c, <1>o, <2>2, <2>3
<1>8. ASSUME NEW w \in Writers, Die(w) PROVE Paid'
  <2>1. /\ job'[w].at = "idle" /\ OnlyOf(w) /\ troubles' = troubles + 1
        /\ UNCHANGED <<stored, cards>>
    BY <1>8, DieDoes
  <2>2. overlaps' = overlaps
    BY <1>8 DEF Die, Trouble
  <2>3. /\ \A v \in Pollers \ {w} : Rests(v)
        /\ Causes' = Causes + 1 /\ Causes' \in Nat
        /\ ~Posting(w)' /\ ~AtWork(w)'
    BY <1>c, <1>r, <2>1, <2>2 DEF Causes, Posting, AtWork
  <2>4. Posters' \subseteq Posters /\ (Unposted' => Unposted)
    BY <2>1, <2>3, PostersMove DEF Unposted, AtWork, Rests
  <2> QED BY <1>c, <2>1, <2>3, <2>4, NothingPosted
<1>9. CASE ApplyLate \/ UNCHANGED vars
  <2>1. UNCHANGED <<stored, job, troubles, overlaps>>
    BY <1>9 DEF ApplyLate, vars, bounds
  <2>2. Len(cards') = Len(cards)
    <3>1. ASSUME NEW l \in late PROVE l.card \in 1..Len(cards) /\ l.face \in Status
      BY DEF Bounds, IInv, Types
    <3> QED  BY <1>9, <3>1, ExceptSeq DEF ApplyLate, vars, IInv, Types
  <2>3. Causes' = Causes /\ \A v \in Pollers : Rests(v)
    BY <2>1 DEF Causes, Rests
  <2> QED BY <1>c, <1>o, <2>1, <2>2, <2>3
<1> QED BY <1>c, <1>1, <1>2, <1>3, <1>4, <1>5, <1>6, <1>7, <1>8, <1>9 DEF Next

LEMMA NextBudget ==
    ASSUME IInv, Bounds, Budget, [Next]_vars, CardsAssumption PROVE Budget'
<1>1. contexts \subseteq contexts'
  BY DEF Next, vars, Read, Send, AttemptFails, Rejected, Write, Die, Begin, Detect, Plan, Mark,
         Ask, ApplyLate
<1>2. Telling'
  BY NextTelling DEF Budget
<1>3. ASSUME 0 \notin contexts' PROVE Named' /\ Paid'
  BY <1>1, <1>3, NextNamed, NextPaid DEF Budget
<1> QED BY <1>2, <1>3 DEF Budget

\* An entry whose reviews all have a card has one card, and one more for each post
\* whose answer was lost or that a death came after, and for each run that found the
\* entry while another was at work on it (task_status.py and
\* _update_task_status_card of poller.py).
THEOREM CardsPosted == Spec => []OneCard
<1>1. Init => IInv /\ Bounds /\ Budget
  BY InitIInv, InitBounds, InitBudget, CardsAssumption
<1>2. IInv /\ Bounds /\ Budget /\ [Next]_vars => IInv' /\ Bounds' /\ Budget'
  BY NextIInv, NextBounds, NextBudget, CardsAssumption
<1>3. IInv /\ Bounds /\ Budget => OneCard
  <2>1. Bounds => troubles \in Nat /\ overlaps \in Nat
    BY DEF Bounds, Histories
  <2>2. IInv => Len(cards) \in Nat
    BY DEF IInv, Types
  <2> QED BY <2>1, <2>2 DEF Budget, Paid, Causes, OneCard
<1> QED  BY <1>1, <1>2, <1>3, PTL DEF Spec

-----------------------------------------------------------------------------
(* The card shows what is stored                                           *)

\* The card of a status shows it.
Shows(st) == st.card # 0 => cards[st.card] = Face(st)

\* An update that is not written yet was overtaken, or is about to be.
Overtaking == \/ \E w \in Merging : ~job[w].fresh
              \/ \E v, w \in Merging : v # w

\* Unless an update was or is being overtaken, did not arrive or came late, what was
\* written last is on its card, and so is what is sent and not yet written.
Settled ==
    /\ Merging = {} => Shows(stored)
    /\ \A w \in Merging : job[w].at = "write" => Shows(job[w].st)
Told ==
    /\ \A w \in Writers \ Merging : job[w].fresh
    /\ behind \/ Overtaking \/ Settled

LEMMA InitTold == Init => Told
BY DEF Init, Told, Settled, Shows, Merging, Idle, Empty

LEMMA NextTold == ASSUME IInv, Bounds, Told, [Next]_vars, CardsAssumption PROVE Told'
<1>t. /\ \A w \in Writers \ Merging : job[w].fresh
      /\ behind \/ Overtaking \/ Settled
  BY DEF Told
<1>m. \A w : /\ w \in Merging <=> w \in Writers /\ job[w].at \in {"send", "write"}
             /\ w \in Merging' <=> w \in Writers /\ job'[w].at \in {"send", "write"}
  BY DEF Merging
<1>b. \A w \in Writers : Within(w) /\ job[w].tries \in 1..Tries
  BY DEF Bounds, Within
<1>1. ASSUME NEW w \in Writers, Read(w) PROVE Told'
  <2>1. UNCHANGED <<stored, cards, behind>>
    BY <1>1 DEF Read, history
  <2>2. /\ OnlyOf(w) /\ job[w].at = "read" /\ job'[w].fresh = job[w].fresh
        /\ job'[w].at \in {"send", "write"}
        /\ job'[w].at = "write" => job'[w].st.card = 0
    BY <1>1, ReadDoes
  <2>3. \A v \in Writers \ Merging' : job'[v].fresh
    BY <1>t, <1>m, <2>2 DEF OnlyOf
  <2>4. ASSUME Overtaking PROVE Overtaking'
    BY <1>m, <2>2, <2>4 DEF Overtaking, OnlyOf
  <2>5. CASE Merging # {}
    <3>1. PICK v \in Merging : v # w
      BY <1>m, <2>2, <2>5
    <3>2. v \in Merging' /\ w \in Merging'
      BY <1>m, <2>2, <3>1 DEF OnlyOf
    <3> QED  BY <2>3, <3>1, <3>2 DEF Told, Overtaking
  <2>6. CASE Merging = {}
    <3>1. \A v \in Merging' : v = w
      BY <1>m, <2>2, <2>6 DEF OnlyOf
    <3>2. w \in Merging'
      BY <1>m, <2>2
    <3>3. Settled'
      BY <2>2, <3>1, <3>2 DEF Settled, Shows
    <3> QED  BY <2>3, <3>3 DEF Told
  <2> QED  BY <2>5, <2>6
<1>2. ASSUME NEW w \in Writers, Send(w) PROVE Told'
  <2>1. Apply(w)
    BY <1>2 DEF Send
  <2>2. LET c == IF Card(w) = 0 THEN Len(cards) + 1 ELSE Card(w)
        IN  /\ OnlyOf(w) /\ job[w].at = "send" /\ job'[w].fresh = job[w].fresh
            /\ job'[w].at = "write" /\ job'[w].st.card = c
            /\ Face(job'[w].st) = Face(job[w].st) /\ cards'[c] = Face(job[w].st)
    BY <1>2, <1>b, <2>1, SendDoes, ApplyDoes DEF Within
  <2>3. Shows(job[w].st)'
    BY <2>2 DEF Shows
  <2>4. \A v \in Writers \ Merging' : job'[v].fresh
    BY <1>t, <1>m, <2>2 DEF OnlyOf
  <2>5. w \in Merging'
    BY <1>m, <2>2
  <2>6. CASE \A v \in Merging' : v = w
    <3>1. Settled'
      BY <2>3, <2>5, <2>6 DEF Settled
    <3> QED  BY <2>4, <3>1 DEF Told
  <2>7. CASE ~(\A v \in Merging' : v = w)
    BY <2>4, <2>5, <2>7 DEF Told, Overtaking
  <2> QED  BY <2>6, <2>7
<1>3. ASSUME NEW w \in Writers, AttemptFails(w) \/ Rejected(w) PROVE Told'
  <2>1. /\ OnlyOf(w) /\ job[w].at = "send" /\ job'[w].fresh = job[w].fresh
        /\ job'[w].at \in {"send", "write"}
        /\ job'[w].at = "write" => behind'
    BY <1>3, <1>b, FailureDoes
  <2>2. \A v \in Writers \ Merging' : job'[v].fresh
    BY <1>t, <1>m, <2>1 DEF OnlyOf
  <2>3. CASE job'[w].at = "write"
    BY <2>1, <2>2, <2>3 DEF Told
  <2>4. CASE job'[w].at = "send"
    <3>1. w \in Merging'
      BY <1>m, <2>1
    <3>2. CASE \A v \in Merging' : v = w
      <4>1. Settled'
        BY <2>4, <3>1, <3>2 DEF Settled
      <4> QED  BY <2>2, <4>1 DEF Told
    <3>3. CASE ~(\A v \in Merging' : v = w)
      BY <2>2, <3>1, <3>3 DEF Told, Overtaking
    <3> QED  BY <3>2, <3>3
  <2> QED  BY <2>1, <2>3, <2>4
<1>4. ASSUME NEW w \in Writers, Write(w) PROVE Told'
  <2>1. UNCHANGED cards /\ behind' = (behind \/ ~job[w].fresh)
    BY <1>4 DEF Write
  <2>2. /\ job[w].at = "write" /\ stored' = job[w].st /\ job'[w] = After(w)
        /\ \A v \in Writers \ {w} : /\ job'[v].at = job[v].at
                                    /\ job'[v].fresh = (job[v].fresh /\ v \notin Merging)
    BY <1>4, WriteDoes
  <2>3. After(w).at \notin {"send", "write"} /\ After(w).fresh = TRUE
    BY AfterDoes
  <2>4. \A v \in Writers \ Merging' : job'[v].fresh
    BY <1>t, <1>m, <2>2, <2>3
  <2>5. CASE Merging' # {}
    <3>1. PICK v \in Merging' : v \in Writers \ {w} /\ v \in Merging
      BY <1>m, <2>2, <2>3, <2>5
    <3>2. ~job'[v].fresh
      BY <2>2, <3>1
    <3> QED  BY <2>4, <3>1, <3>2 DEF Told, Overtaking
  <2>6. CASE Merging' = {}
    <3>1. w \in Merging /\ \A v \in Merging : v = w
      BY <1>m, <2>2, <2>6
    <3>2. CASE behind'
      BY <2>4, <3>2 DEF Told
    <3>3. CASE ~behind'
      <4>1. ~Overtaking /\ ~behind
        BY <2>1, <3>1, <3>3 DEF Overtaking
      <4>2. Shows(job[w].st)
        BY <1>t, <2>2, <3>1, <4>1 DEF Settled
      <4>3. Shows(stored)'
        BY <2>1, <2>2, <4>2 DEF Shows
      <4>4. Settled'
        BY <2>6, <4>3 DEF Settled
      <4> QED  BY <2>4, <4>4 DEF Told
    <3> QED  BY <3>2, <3>3
  <2> QED  BY <2>5, <2>6
<1>5. CASE Begins
  <2>1. PICK w \in Writers : Began(w)
    BY <1>5, BeginsDoes
  <2>2. UNCHANGED <<stored, cards, behind>>
    BY <1>5, BeginsDoes DEF history
  <2>3. /\ \A v \in Writers \ {w} : job'[v] = job[v]
        /\ job[w].at \notin {"send", "write"} /\ job'[w].at \notin {"send", "write"}
        /\ job'[w].fresh = TRUE \/ job'[w].fresh = job[w].fresh
    BY <2>1 DEF Began, OnlyOf
  <2>4. Merging' = Merging /\ \A v \in Merging : v \in Writers \ {w}
    BY <1>m, <2>3
  <2>5. \A v \in Writers \ Merging' : job'[v].fresh
    BY <1>t, <1>m, <2>3, <2>4
  <2>6. ASSUME Overtaking PROVE Overtaking'
    BY <2>3, <2>4, <2>6 DEF Overtaking
  <2>7. ASSUME Settled PROVE Settled'
    BY <2>2, <2>3, <2>4, <2>7 DEF Settled, Shows
  <2> QED  BY <1>t, <2>2, <2>5, <2>6, <2>7 DEF Told
<1>6. ASSUME NEW w \in Writers, Die(w) PROVE Told'
  <2>1. OnlyOf(w) /\ job'[w].fresh = TRUE /\ behind'
    BY <1>6, DieDoes
  <2>2. \A v \in Writers \ Merging' : job'[v].fresh
    BY <1>t, <1>m, <2>1 DEF OnlyOf
  <2> QED  BY <2>1, <2>2 DEF Told
<1>7. CASE ApplyLate
  <2>1. behind' /\ UNCHANGED job
    BY <1>7 DEF ApplyLate
  <2> QED  BY <1>t, <2>1 DEF Told, Merging
<1>8. CASE UNCHANGED vars
  BY <1>8 DEF Told, Overtaking, Settled, Shows, Merging, vars, history
<1> QED  BY <1>1, <1>2, <1>3, <1>4, <1>5, <1>6, <1>7, <1>8 DEF Next, Begins

\* When nobody is at work, the card shows what is stored, unless since the last patch
\* an update was overtaken, failed to arrive or came late (_update_task_status_card
\* of poller.py, FeishuClient._request).
THEOREM LastWordShown == Spec => []CardShowsStored
<1>1. Init => IInv /\ Bounds /\ Told
  BY InitIInv, InitBounds, InitTold, CardsAssumption
<1>2. IInv /\ Bounds /\ Told /\ [Next]_vars => IInv' /\ Bounds' /\ Told'
  BY NextIInv, NextBounds, NextTold, CardsAssumption
<1>3. Told => CardShowsStored
  BY DEF Told, Overtaking, Settled, Shows, CardShowsStored, Quiet, Merging
<1> QED  BY <1>1, <1>2, <1>3, PTL DEF Spec

-----------------------------------------------------------------------------
(* A deployment that succeeds is not shown as failed                       *)

\* The stages that a deployment finds behind it have not failed.
DetectFine(st) == st.stages["detect"] \notin Failing
Sound(st) == \A s \in {"detect", "codex", "convert"} : st.stages[s] \notin Failing

\* An execution that nobody else wrote into finds what it has reported so far, and a
\* deployment starts with an approval that no earlier failure survives.
Alone(w) ==
    /\ Sound(stored) /\ job[w].at \in {"read", "send", "write"}
    /\ job[w].at = "read" => job[w].next \subseteq Outcomes \cup {"converted"}
    /\ w \in Merging => /\ Update(w) \in Outcomes \cup {"converted"}
                        /\ Update(w) = "converted" => Sound(job[w].st)
                        /\ Update(w) = "deployed" => ~Red(job[w].st)
Merges(w) ==
    w \in Merging => /\ DetectFine(job[w].st)
                     /\ Update(w) = "deploying" => Sound(job[w].st)
Undisturbed ==
    /\ DetectFine(stored)
    /\ \A w \in Writers : Merges(w)
    /\ \A w \in alone : Alone(w)

LEMMA InitUndisturbed == Init => Undisturbed
BY DEF Init, Undisturbed, DetectFine, Merges, Merging, Idle, Empty, Stages, Failing

\* Merging a stage starts the later ones anew and leaves the earlier ones.
LEMMA WithStages ==
    ASSUME NEW st \in Status, NEW stage \in Stages, NEW status \in Statuses, NEW s \in Stages
    PROVE  /\ s = stage => With(st, stage, status).stages[s] = status
           /\ Order[s] > Order[stage] => With(st, stage, status).stages[s] = "none"
           /\ s # stage /\ ~(Order[s] > Order[stage])
                => With(st, stage, status).stages[s] = st.stages[s]
<1> DEFINE new == [x \in Stages |-> CASE x = stage                -> status
                                      [] Order[x] > Order[stage] -> "none"
                                      [] OTHER                   -> st.stages[x]]
           dep == NextDeploy(stage, status, st.deploy)
<1>1. With(st, stage, status) = [st EXCEPT !.stages = new, !.deploy = dep]
  BY DEF With
<1>2. new[s] = CASE s = stage                -> status
                 [] Order[s] > Order[stage] -> "none"
                 [] OTHER                   -> st.stages[s]
  OBVIOUS
<1> HIDE DEF new, dep
<1>3. [st EXCEPT !.stages = new, !.deploy = dep].stages = new
  BY DEF Status
<1>4. ~(Order[stage] > Order[stage])
  BY DEF Order, Stages
<1>5. CASE s = stage
  BY <1>1, <1>2, <1>3, <1>4, <1>5
<1>6. CASE s # stage /\ Order[s] > Order[stage]
  BY <1>1, <1>2, <1>3, <1>6
<1>7. CASE s # stage /\ ~(Order[s] > Order[stage])
  BY <1>1, <1>2, <1>3, <1>7
<1> QED  BY <1>4, <1>5, <1>6, <1>7

\* A stage stays unfailed unless it is the one that fails.
LEMMA StaysFine ==
    ASSUME NEW st \in Status, NEW stage \in Stages, NEW status \in Statuses, NEW s \in Stages,
           IF s = stage THEN status \notin Failing ELSE st.stages[s] \notin Failing
    PROVE  With(st, stage, status).stages[s] \notin Failing
<1>1. "none" \notin Failing
  BY DEF Failing
<1> QED  BY <1>1, WithStages

LEMMA ApprovedFine ==
    ASSUME NEW st \in Status, NEW u, DetectFine(st)
    PROVE  /\ DetectFine(Approved(st, u))
           /\ Sound(st) \/ u = "deploying" => Sound(Approved(st, u))
<1>1. CASE Approved(st, u) = st
  <2>1. CASE u # "deploying"
    BY <1>1, <2>1
  <2>2. CASE u = "deploying"
    <3>1. Approved(st, u) = With(st, "codex", "passed")
      BY <2>2 DEF Approved
    <3>2. Sound(With(st, "codex", "passed"))
      <4>1. With(st, "codex", "passed").stages["detect"] \notin Failing
        BY StaysFine DEF DetectFine, Stages, Statuses
      <4>2. With(st, "codex", "passed").stages["codex"] \notin Failing
        BY StaysFine DEF Failing, Stages, Statuses
      <4>3. With(st, "codex", "passed").stages["convert"] \notin Failing
        BY WithStages DEF Failing, Order, Stages, Statuses
      <4> QED  BY <4>1, <4>2, <4>3 DEF Sound
    <3> QED  BY <1>1, <3>1, <3>2
  <2> QED  BY <2>1, <2>2
<1>2. CASE Approved(st, u) = With(st, "codex", "passed")
  <2>1. With(st, "codex", "passed").stages["detect"] \notin Failing
    BY StaysFine DEF DetectFine, Stages, Statuses
  <2>2. With(st, "codex", "passed").stages["codex"] \notin Failing
    BY StaysFine DEF Failing, Stages, Statuses
  <2>3. With(st, "codex", "passed").stages["convert"] \notin Failing
    BY WithStages DEF Failing, Order, Stages, Statuses
  <2> QED  BY <1>2, <2>1, <2>2, <2>3 DEF Sound, DetectFine
<1> QED  BY <1>1, <1>2 DEF Approved

LEMMA WithSound ==
    ASSUME NEW st \in Status, NEW stage \in {"convert", "execute", "document"},
           NEW status \in Statuses, DetectFine(st)
    PROVE  /\ With(st, stage, status) \in Status /\ DetectFine(With(st, stage, status))
           /\ Sound(st) /\ (stage = "convert" => status \notin Failing)
                => Sound(With(st, stage, status))
<1>1. stage \in Stages /\ {"detect", "codex", "convert"} \subseteq Stages
  BY DEF Stages
<1>2. With(st, stage, status) \in Status
  BY <1>1, WithStage
<1>3. DetectFine(With(st, stage, status))
  BY <1>1, StaysFine DEF DetectFine
<1>4. ASSUME Sound(st), stage = "convert" => status \notin Failing,
             NEW s \in {"detect", "codex", "convert"}
      PROVE  With(st, stage, status).stages[s] \notin Failing
  BY <1>1, <1>4, StaysFine DEF Sound
<1> QED  BY <1>2, <1>3, <1>4 DEF Sound

\* What each update makes of a status.
LEMMA ReportSound ==
    ASSUME NEW st \in Status, DetectFine(st),
           NEW u \in {"deploying", "converted", "deployed", "undocumented", "failed", "unsafe"}
    PROVE  /\ DetectFine(Report(st, u))
           /\ u = "deploying" => Sound(Report(st, u))
           /\ Sound(st) /\ u = "converted" => Sound(Report(st, u))
           /\ Sound(st) /\ u = "deployed" => ~Red(Report(st, u))
<1> DEFINE a == Approved(st, u)
<1>a. /\ a \in Status /\ DetectFine(a)
      /\ Sound(st) \/ u = "deploying" => Sound(a)
  BY ApprovedStatus, ApprovedFine
<1>s. {"done", "running", "failed", "human"} \subseteq Statuses
  BY DEF Statuses
<1>f. "running" \notin Failing /\ "done" \notin Failing
  BY DEF Failing
<1> HIDE DEF a
<1>1. CASE u = "deploying"
  <2> DEFINE stage == IF Converts THEN "convert" ELSE "execute"
  <2>1. Report(st, u) = With(a, stage, "running")
    BY <1>1 DEF Report, a
  <2>2. stage \in {"convert", "execute", "document"}
    OBVIOUS
  <2> HIDE DEF stage
  <2> QED  BY <1>1, <1>a, <1>s, <1>f, <2>1, <2>2, WithSound
<1>2. CASE u = "converted"
  <2> DEFINE b == With(a, "convert", "done")
  <2>1. Report(st, u) = With(b, "execute", "running")
    BY <1>2 DEF Report, a
  <2>2. b \in Status /\ DetectFine(b) /\ (Sound(st) => Sound(b))
    BY <1>a, <1>s, <1>f, WithSound
  <2> HIDE DEF b
  <2> QED  BY <1>2, <1>s, <1>f, <2>1, <2>2, WithSound
<1>3. CASE u = "deployed"
  <2> DEFINE b == With(a, "execute", "done")
             r == With(b, "document", "done")
  <2>1. Report(st, u) = r
    BY <1>3 DEF Report, a
  <2>2. b \in Status /\ DetectFine(b) /\ (Sound(st) => Sound(b))
    BY <1>a, <1>s, <1>f, WithSound
  <2>3. b.stages["execute"] = "done"
    BY <1>a, <1>s, WithStages DEF Stages
  <2> HIDE DEF b
  <2>4. DetectFine(r) /\ (Sound(st) => Sound(r))
    BY <2>2, <1>s, <1>f, WithSound
  <2>5. r.stages["document"] = "done"
    BY <2>2, <1>s, WithStages DEF Stages
  <2>6. r.stages["execute"] = "done"
    <3>1. ~(Order["execute"] > Order["document"])
      BY DEF Order, Stages
    <3> QED  BY <2>2, <2>3, <1>s, <3>1, WithStages DEF Stages
  <2>7. r.deploy = "deployed"
    <3>1. r.deploy = NextDeploy("document", "done", b.deploy)
      BY <2>2, <1>s, WithStage DEF Stages
    <3>2. NextDeploy("document", "done", b.deploy) = "deployed"
      BY DEF NextDeploy, Failing
    <3> QED  BY <3>1, <3>2
  <2> HIDE DEF r
  <2>8. ASSUME Sound(st) PROVE ~Red(r)
    <3>1. ~HasFailing(r)
      BY <1>f, <2>4, <2>5, <2>6, <2>8 DEF Sound, HasFailing, Stages
    <3> QED  BY <2>7, <3>1 DEF Red
  <2> QED  BY <1>3, <2>1, <2>4, <2>8
<1>4. CASE u = "undocumented"
  <2> DEFINE b == With(a, "execute", "done")
  <2>1. Report(st, u) = With(b, "document", "human")
    BY <1>4 DEF Report, a
  <2>2. b \in Status /\ DetectFine(b)
    BY <1>a, <1>s, WithSound
  <2> HIDE DEF b
  <2> QED  BY <1>4, <1>s, <2>1, <2>2, WithSound
<1>5. CASE u = "failed"
  <2>1. Report(st, u) = With(a, FailedStage(st), "failed")
    BY <1>5 DEF Report, a
  <2>2. FailedStage(st) \in {"convert", "execute", "document"}
    BY DEF FailedStage
  <2> QED  BY <1>5, <1>a, <1>s, <2>1, <2>2, WithSound
<1>6. CASE u = "unsafe"
  <2>1. Report(st, u) = With(a, "execute", "human")
    BY <1>6 DEF Report, a
  <2> QED  BY <1>6, <1>a, <1>s, <2>1, WithSound
<1> QED  BY <1>1, <1>2, <1>3, <1>4, <1>5, <1>6

LEMMA MergedSound ==
    ASSUME NEW st \in Status, NEW u \in Updates, DetectFine(st)
    PROVE  /\ DetectFine(Merged(st, u))
           /\ u = "deploying" => Sound(Merged(st, u))
           /\ Sound(st) /\ u = "converted" => Sound(Merged(st, u))
           /\ Sound(st) /\ u = "deployed" => ~Red(Merged(st, u))
<1>s. {"done", "to_review", "waiting", "human"} \subseteq Statuses
      /\ {"detect", "codex"} \subseteq Stages
  BY DEF Statuses, Stages
<1>f. "done" \notin Failing
  BY DEF Failing
<1>1. CASE u = "detect"
  <2>1. Merged(st, u) = With(st, "detect", "done")
    BY <1>1 DEF Merged
  <2> QED  BY <1>1, <1>s, <1>f, <2>1, StaysFine DEF DetectFine
<1>2. CASE u \in {"announce", "wait"}
  <2>1. PICK status \in {"to_review", "waiting"} : Merged(st, u) = With(st, "codex", status)
    BY <1>2 DEF Merged
  <2> QED  BY <1>2, <1>s, <2>1, StaysFine DEF DetectFine
<1>3. CASE u = "ask"
  <2> DEFINE a == With(st, "codex", "human")
  <2>1. Merged(st, u) = [a EXCEPT !.review = TRUE]
    BY <1>3 DEF Merged
  <2>2. a \in Status /\ DetectFine(a)
    BY <1>s, WithStage, StaysFine DEF DetectFine
  <2> HIDE DEF a
  <2>3. [a EXCEPT !.review = TRUE].stages = a.stages
    BY <2>2 DEF Status
  <2> QED  BY <1>3, <2>1, <2>2, <2>3 DEF DetectFine
<1>4. CASE u \notin {"detect", "announce", "wait", "ask"}
  <2> DEFINE a == Report(st, u)
  <2>0. u \in {"deploying", "converted", "deployed", "undocumented", "failed", "unsafe"}
    BY <1>4 DEF Updates
  <2>1. Merged(st, u) = [a EXCEPT !.review = TRUE]
    BY <1>4 DEF Merged
  <2>2. a \in Status
    BY <2>0, ReportIsShown
  <2>3. /\ DetectFine(a)
        /\ u = "deploying" => Sound(a)
        /\ Sound(st) /\ u = "converted" => Sound(a)
        /\ Sound(st) /\ u = "deployed" => ~Red(a)
    BY <2>0, ReportSound
  <2> HIDE DEF a
  <2>4. [a EXCEPT !.review = TRUE].stages = a.stages
        /\ [a EXCEPT !.review = TRUE].deploy = a.deploy
    BY <2>2 DEF Status
  <2> QED  BY <2>1, <2>3, <2>4 DEF DetectFine, Sound, Red, HasFailing
<1> QED  BY <1>1, <1>2, <1>3, <1>4

LEMMA NextUndisturbed ==
    ASSUME IInv, Bounds, Undisturbed, [Next]_vars, CardsAssumption PROVE Undisturbed'
<1>u. /\ DetectFine(stored) /\ \A w \in Writers : Merges(w)
      /\ \A w \in alone : Alone(w) /\ w \in Writers
  BY DEF Undisturbed, Bounds, Histories
<1>m. \A w : /\ w \in Merging <=> w \in Writers /\ job[w].at \in {"send", "write"}
             /\ w \in Merging' <=> w \in Writers /\ job'[w].at \in {"send", "write"}
  BY DEF Merging
<1>j. \A w \in Writers : job[w].tries \in 1..Tries
  BY DEF Bounds, Within
<1>1. ASSUME NEW w \in Writers, Read(w) PROVE Undisturbed'
  <2>1. UNCHANGED <<stored, alone>>
    BY <1>1 DEF Read, history
  <2>2. PICK u \in job[w].next : /\ u \in Updates /\ job'[w].update = u
                                 /\ job'[w].st = Merged(Base(job[w].id), u)
    BY <1>1, ReadDoes
  <2>3. OnlyOf(w) /\ job[w].at = "read" /\ job'[w].at \in {"send", "write"}
    BY <1>1, ReadDoes
  <2>4. /\ Base(job[w].id) \in Status /\ DetectFine(Base(job[w].id))
        /\ Sound(stored) => Sound(Base(job[w].id))
    <3> DEFINE b == IF stored.card \in {0, job[w].id} THEN stored ELSE Empty
    <3>1. job[w].id \in Nat /\ stored \in Status /\ Empty \in Status
      BY FreshJobs DEF IInv, Types, Jobs, Empty, Status, Stages, Statuses, Deploys
    <3>2. DetectFine(Empty) /\ Sound(Empty)
      BY DEF Empty, DetectFine, Sound, Stages, Failing
    <3>3. b \in Status /\ DetectFine(b) /\ (Sound(stored) => Sound(b))
      BY <1>u, <3>1, <3>2
    <3> HIDE DEF b
    <3>4. [b EXCEPT !.card = job[w].id].stages = b.stages
      BY <3>3 DEF Status
    <3>5. CASE job[w].id = 0
      BY <1>u, <3>1, <3>5 DEF Base
    <3>6. CASE job[w].id # 0
      <4>1. Base(job[w].id) = [b EXCEPT !.card = job[w].id]
        BY <3>6 DEF Base, b
      <4> QED  BY <3>1, <3>3, <3>4, <4>1, BaseCard DEF DetectFine, Sound
    <3> QED  BY <3>5, <3>6
  <2>5. /\ DetectFine(job'[w].st) /\ (u = "deploying" => Sound(job'[w].st))
        /\ Sound(stored) /\ u = "converted" => Sound(job'[w].st)
        /\ Sound(stored) /\ u = "deployed" => ~Red(job'[w].st)
    BY <2>2, <2>4, MergedSound
  <2>6. ASSUME NEW v \in Writers PROVE Merges(v)'
    BY <1>u, <1>m, <2>2, <2>3, <2>5 DEF Merges, Update, OnlyOf
  <2>7. ASSUME NEW v \in alone PROVE Alone(v)'
    <3>1. CASE v = w
      <4>1. Sound(stored) /\ u \in Outcomes \cup {"converted"}
        BY <1>u, <2>2, <2>3, <3>1 DEF Alone
      <4> QED  BY <2>1, <2>2, <2>3, <2>5, <3>1, <4>1 DEF Alone, Update
    <3>2. CASE v # w
      <4>1. job'[v] = job[v] /\ Alone(v) /\ (v \in Merging' <=> v \in Merging)
        BY <1>u, <1>m, <2>3, <3>2 DEF OnlyOf
      <4> QED  BY <2>1, <4>1 DEF Alone, Update
    <3> QED  BY <3>1, <3>2
  <2> QED  BY <1>u, <2>1, <2>6, <2>7 DEF Undisturbed
<1>2. ASSUME NEW w \in Writers, Send(w) \/ AttemptFails(w) \/ Rejected(w) PROVE Undisturbed'
  <2>1. UNCHANGED <<stored, alone>>
    BY <1>2 DEF Send, AttemptFails, Rejected
  <2>2. /\ OnlyOf(w) /\ job[w].at = "send" /\ job'[w].at \in {"send", "write"}
        /\ job'[w].update = job[w].update /\ job'[w].st.stages = job[w].st.stages
        /\ job'[w].st.deploy = job[w].st.deploy
    <3>1. CASE Send(w)
      BY <3>1, SendDoes
    <3>2. CASE AttemptFails(w) \/ Rejected(w)
      BY <1>j, <3>2, FailureDoes
    <3> QED  BY <1>2, <3>1, <3>2
  <2>3. \A v \in Writers : /\ v \in Merging' <=> v \in Merging
                           /\ Update(v)' = Update(v)
                           /\ job'[v].st.stages = job[v].st.stages
                           /\ job'[v].st.deploy = job[v].st.deploy
                           /\ v = w \/ job'[v] = job[v]
    BY <1>m, <2>2 DEF OnlyOf, Update
  <2>4. ASSUME NEW v \in Writers PROVE Merges(v)'
    BY <1>u, <2>3 DEF Merges, DetectFine, Sound
  <2>5. ASSUME NEW v \in alone PROVE Alone(v)'
    <3>1. Sound(stored)' /\ job'[v].at \in {"read", "send", "write"}
      BY <1>u, <2>1, <2>2, <2>3 DEF Alone, Sound
    <3>2. job'[v].at = "read" => job'[v].next \subseteq Outcomes \cup {"converted"}
      BY <1>u, <2>2, <2>3 DEF Alone
    <3>3. v \in Merging' => /\ Update(v)' \in Outcomes \cup {"converted"}
                            /\ Update(v)' = "converted" => Sound(job[v].st)'
                            /\ Update(v)' = "deployed" => ~Red(job[v].st)'
      BY <1>u, <2>3 DEF Alone, Sound, Red, HasFailing
    <3> QED  BY <3>1, <3>2, <3>3 DEF Alone
  <2> QED  BY <1>u, <2>1, <2>4, <2>5 DEF Undisturbed
<1>3. ASSUME NEW w \in Writers, Write(w) PROVE Undisturbed'
  <2>1. /\ job[w].at = "write" /\ stored' = job[w].st /\ job'[w] = After(w)
        /\ \A v \in Writers \ {w} :
             /\ job'[v].at = job[v].at /\ job'[v].st = job[v].st
             /\ job'[v].update = job[v].update
    BY <1>3, WriteDoes
  <2>2. /\ After(w).at \notin {"send", "write"}
        /\ After(w).at = "read" => After(w).next = Then(Update(w))
        /\ Update(w) \in {"deploying", "converted"} => After(w).at = "read"
        /\ Update(w) \in Outcomes => After(w) = Idle
    BY AfterDoes
  <2>3. w \in Merging /\ w \notin Merging'
    BY <1>m, <2>1, <2>2
  <2>4. DetectFine(stored)'
    BY <1>u, <2>1, <2>3 DEF Merges, DetectFine
  <2>5. ASSUME NEW v \in Writers PROVE Merges(v)'
    <3>1. CASE v = w
      BY <2>3, <3>1 DEF Merges
    <3>2. CASE v # w
      BY <1>u, <1>m, <2>1, <3>2 DEF Merges, Update
    <3> QED  BY <3>1, <3>2
  <2>6. ASSUME NEW v \in alone' PROVE Alone(v)'
    <3>1. /\ v = w /\ Update(w) \in {"deploying", "converted"} /\ Sound(job[w].st)
      <4>1. CASE Update(w) = "deploying"
        <5>1. alone' = {w}
          BY <1>3, <4>1 DEF Write
        <5> QED  BY <1>u, <2>3, <2>6, <4>1, <5>1 DEF Merges
      <4>2. CASE Update(w) # "deploying"
        <5>1. After(w) # Idle /\ v \in alone \cap {w}
          BY <1>3, <2>6, <4>2 DEF Write
        <5>2. Alone(w)
          BY <1>u, <5>1
        <5> QED  BY <2>2, <2>3, <5>1, <5>2 DEF Alone
      <4> QED  BY <4>1, <4>2
    <3>2. Sound(stored)'
      BY <2>1, <3>1 DEF Sound
    <3>3. Then(Update(w)) \subseteq Outcomes \cup {"converted"}
      BY <3>1 DEF Then
    <3> QED  BY <2>1, <2>2, <2>3, <3>1, <3>2, <3>3 DEF Alone
  <2> QED  BY <2>4, <2>5, <2>6 DEF Undisturbed
<1>4. CASE Begins
  <2>1. PICK w \in Writers : Began(w)
    BY <1>4, BeginsDoes
  <2>2. UNCHANGED <<stored, alone>>
    BY <1>4, BeginsDoes DEF history
  <2>3. /\ \A v \in Writers \ {w} : job'[v] = job[v]
        /\ w \notin Merging /\ w \notin Merging' /\ w \notin alone
    BY <1>u, <1>m, <2>1 DEF Began, OnlyOf, Alone
  <2>4. ASSUME NEW v \in Writers PROVE Merges(v)'
    BY <1>u, <1>m, <2>3 DEF Merges, Update
  <2>5. ASSUME NEW v \in alone PROVE Alone(v)'
    <3>1. job'[v] = job[v] /\ Alone(v) /\ (v \in Merging' <=> v \in Merging)
      BY <1>u, <1>m, <2>3
    <3> QED  BY <2>2, <3>1 DEF Alone, Update
  <2> QED  BY <1>u, <2>2, <2>4, <2>5 DEF Undisturbed
<1>5. ASSUME NEW w \in Writers, Die(w) PROVE Undisturbed'
  <2>1. /\ \A v \in Writers \ {w} : job'[v] = job[v]
        /\ job'[w].at = "idle" /\ stored' = stored
    BY <1>5, DieDoes DEF OnlyOf
  <2>2. alone' = alone \ {w}
    BY <1>5 DEF Die
  <2>3. ASSUME NEW v \in Writers PROVE Merges(v)'
    BY <1>u, <1>m, <2>1 DEF Merges, Update
  <2>4. ASSUME NEW v \in alone' PROVE Alone(v)'
    <3>1. job'[v] = job[v] /\ Alone(v) /\ (v \in Merging' <=> v \in Merging)
      BY <1>u, <1>m, <2>1, <2>2
    <3> QED  BY <2>1, <3>1 DEF Alone, Update
  <2> QED  BY <1>u, <2>1, <2>3, <2>4 DEF Undisturbed
<1>6. CASE ApplyLate \/ UNCHANGED vars
  <2>1. UNCHANGED <<stored, job, alone>>
    BY <1>6 DEF ApplyLate, vars, history
  <2> QED  BY <1>u, <2>1 DEF Undisturbed, Merges, Alone, Merging, Update
<1> QED  BY <1>1, <1>2, <1>3, <1>4, <1>5, <1>6 DEF Next, Begins

\* When a deployment succeeds that nobody else reported into, its card is not red
\* (task_status_with_stage, update_executor_task_status).
THEOREM SuccessIsGreen == Spec => DeployedIsGreen
<1>1. Init => IInv /\ Bounds /\ Undisturbed
  BY InitIInv, InitBounds, InitUndisturbed, CardsAssumption
<1>2. IInv /\ Bounds /\ Undisturbed /\ [Next]_vars => IInv' /\ Bounds' /\ Undisturbed'
  BY NextIInv, NextBounds, NextUndisturbed, CardsAssumption
<1>3. IInv /\ Bounds /\ Undisturbed
        => \A w \in alone : Write(w) /\ Update(w) = "deployed" => ~Red(stored')
  <2> SUFFICES ASSUME IInv, Bounds, Undisturbed, NEW w \in alone, Write(w), Update(w) = "deployed"
               PROVE  ~Red(stored')
    OBVIOUS
  <2>1. w \in Merging /\ stored' = job[w].st
    BY DEF Write, Merging, Bounds, Histories
  <2> QED  BY <2>1 DEF Undisturbed, Alone
<1>4. IInv /\ Bounds /\ Undisturbed /\ [Next]_vars
        => [\A w \in alone : Write(w) /\ Update(w) = "deployed" => ~Red(stored')]_vars
  BY <1>3
<1> QED  BY <1>1, <1>2, <1>4, PTL DEF Spec, DeployedIsGreen
=============================================================================
