------------------------ MODULE ReviewAuditorProofs ------------------------
(***************************************************************************)
(* Theorems about ReviewAuditor, for every set of reviews and workers and  *)
(* every configuration: its types, the exclusion of two deployments on one *)
(* worker, the limit on parallel deployments, that claims respect what     *)
(* people decided, that a recovery requeues what a death left behind and   *)
(* nothing else (without card actions), and that the queue implements      *)
(* ReviewLifecycle where operators act on settled reviews only.            *)
(***************************************************************************)
EXTENDS ReviewAuditor, FiniteSetTheorems, TLAPS

USE DEF Statuses, Resting, InFlight, Settled, Verdicts, Executors, Phases,
        LivePhases, Sections, Recoveries, Claims

-----------------------------------------------------------------------------
(* Types                                                                   *)

\* One write to a row keeps the types of the table and of its ages.
LEMMA WriteType ==
    ASSUME TypeOK, NEW r \in Reviews, NEW s \in Statuses, Write(r, s)
    PROVE  status' \in [Reviews -> Statuses] /\ aged' \subseteq Reviews
  BY DEF TypeOK, Write

\* One step of an executor keeps the type of the phases.
LEMMA MoveType ==
    ASSUME TypeOK, NEW p \in Executors, NEW r \in Reviews, NEW f \in Phases,
           Move(p, r, f)
    PROVE  run' \in [Executors -> [Reviews -> Phases]]
  BY DEF TypeOK, Move

\* The main loop keeps the types: what it remembers of a listing is a set of
\* reviews, and cur is a review exactly between the claim and the submission.
LEMMA MainStepType ==
    ASSUME TypeOK, MainStep
    PROVE  TypeOK'
  <1> USE ReviewsAssumption, EnvironmentAssumption
  <1>1. CASE BeginTick
    BY <1>1 DEF TypeOK, BeginTick, Live, Keep, counters
  <1>2. CASE ListSection
    BY <1>2 DEF TypeOK, ListSection, Listed, Keep, counters
  <1>3. CASE EndRecovery
    BY <1>3 DEF TypeOK, EndRecovery, Keep, counters
  <1>4. CASE ScanWorkers
    BY <1>4 DEF TypeOK, ScanWorkers, ActiveWorkers, Live, Keep, counters
  <1>5. CASE SubmitClaimed
    BY <1>5 DEF TypeOK, SubmitClaimed, Move, Keep, counters
  <1>6. CASE EndClaims \/ NextClaims \/ EndTick
    BY <1>6 DEF TypeOK, EndClaims, NextClaims, EndTick, Keep, counters
  <1>7. ASSUME NEW r \in Reviews,
               RecoverOrphan(r) \/ MarkStale(r) \/ Claim(r)
        PROVE  TypeOK'
    BY <1>7 DEF TypeOK, RecoverOrphan, MarkStale, Claim, ClaimStatus, Write,
                counters
  <1>8. ASSUME NEW r \in Reviews, SkipBusyWorker(r) \/ LoseClaim(r)
        PROVE  TypeOK'
    BY <1>8 DEF TypeOK, SkipBusyWorker, LoseClaim, Keep, counters
  <1>9. QED
    BY <1>1, <1>2, <1>3, <1>4, <1>5, <1>6, <1>7, <1>8 DEF MainStep

\* execute_if_enabled keeps the types, in either process.
LEMMA ExecuteStepType ==
    ASSUME TypeOK, NEW p \in Executors, NEW r \in Reviews, ExecuteStep(p, r)
    PROVE  TypeOK'
  <1> USE DEF main, counters, Keep, Finish, Holds
  <1>1. CASE ExecuteNothing(p, r) \/ ReportDone(p, r)
    BY <1>1, MoveType DEF TypeOK, ExecuteNothing, ReportDone
  <1>2. CASE ExecuteUnsafe(p, r) \/ ExecuteBegin(p, r)
    BY <1>2, MoveType, WriteType DEF TypeOK, ExecuteUnsafe, ExecuteBegin
  <1>3. CASE DeployFail(p, r) \/ DeployDone(p, r)
    BY <1>3, MoveType, WriteType DEF TypeOK, DeployFail, DeployDone
  <1>4. CASE NotifyDeployed(p, r)
    BY <1>4, MoveType, WriteType DEF TypeOK, NotifyDeployed
  <1>5. QED
    BY <1>1, <1>2, <1>3, <1>4 DEF ExecuteStep

\* A pool thread keeps the types; a Codex RETRY is counted within its bound.
LEMMA ThreadStepType ==
    ASSUME TypeOK, NEW r \in Reviews, ThreadStep(r)
    PROVE  TypeOK'
  <1> USE DEF main, counters, Finish, AfterVerdict
  <1>1. CASE PolicyApprove(r) \/ CodexDisabled(r) \/ StartCodex(r)
    BY <1>1, MoveType, WriteType
       DEF TypeOK, PolicyApprove, CodexDisabled, StartCodex
  <1>2. ASSUME NEW s \in Verdicts, CodexVerdict(r, s)
        PROVE  TypeOK'
    <2>1. rounds' \in 0 .. MaxRounds
      BY <1>2, EnvironmentAssumption DEF TypeOK, CodexVerdict
    <2>2. AfterVerdict(s) \in Phases
      OBVIOUS
    <2>3. QED
      BY <1>2, <2>1, <2>2, MoveType, WriteType DEF TypeOK, CodexVerdict
  <1>3. CASE ReportFail(r)
    BY <1>3, MoveType, WriteType DEF TypeOK, ReportFail
  <1>4. CASE ExecuteStep("auditor", r)
    BY <1>4, ExecuteStepType
  <1>5. QED
    BY <1>1, <1>2, <1>3, <1>4 DEF ThreadStep

\* The type invariant: statuses, phases and the main loop's memory stay in
\* their sets, and a review is remembered as claimed exactly between the claim
\* and its submission to the pool.
THEOREM TypeInvariant == Spec => []TypeOK
  <1>1. Init => TypeOK
    BY ReviewsAssumption, EnvironmentAssumption DEF Init, TypeOK
  <1>2. ASSUME TypeOK, [Next]_vars
        PROVE  TypeOK'
    <2> USE DEF main, counters
    <2>1. CASE MainStep
      BY <1>2, <2>1, MainStepType
    <2>2. ASSUME NEW r \in Reviews, ThreadStep(r) \/ ExecuteStep("api", r)
          PROVE  TypeOK'
      BY <1>2, <2>2, ThreadStepType, ExecuteStepType
    <2>3. ASSUME NEW r \in Reviews, CreateReview(r)
          PROVE  TypeOK'
      BY <1>2, <2>3, WriteType DEF TypeOK, CreateReview
    <2>4. ASSUME NEW r \in Reviews, NEW s \in Verdicts, Decide(r, s)
          PROVE  TypeOK'
      <3>1. rounds' \in 0 .. MaxRounds
        BY <1>2, <2>4, EnvironmentAssumption DEF TypeOK, Decide
      <3>2. QED
        BY <1>2, <2>4, <3>1, WriteType DEF TypeOK, Decide
    <2>5. ASSUME NEW r \in Reviews, CardApprove(r)
          PROVE  TypeOK'
      <3>1. rounds' \in 0 .. MaxRounds
        BY <1>2, <2>5, EnvironmentAssumption DEF TypeOK, CardApprove
      <3>2. QED
        BY <1>2, <2>5, <3>1, WriteType, MoveType DEF TypeOK, CardApprove
    <2>6. ASSUME NEW r \in Reviews, Age(r)
          PROVE  TypeOK'
      BY <1>2, <2>6 DEF TypeOK, Age
    <2>7. CASE Crash \/ CrashApi
      <3>1. crashes' \in 0 .. MaxCrashes
        BY <1>2, <2>7, EnvironmentAssumption DEF TypeOK, Crash, CrashApi
      <3>2. QED
        BY <1>2, <2>7, <3>1 DEF TypeOK, Crash, CrashApi, Keep
    <2>8. CASE Restart
      BY <1>2, <2>8 DEF TypeOK, Restart, Keep
    <2>9. CASE UNCHANGED vars
      BY <1>2, <2>9 DEF TypeOK, vars
    <2>10. QED
      BY <1>2, <2>1, <2>2, <2>3, <2>4, <2>5, <2>6, <2>7, <2>8, <2>9 DEF Next
  <1>3. QED
    BY <1>1, <1>2, PTL DEF Spec

-----------------------------------------------------------------------------
(* What a step does to the unfinished futures                              *)

\* A step of an executor or of a thread neither starts a future nor touches
\* the main loop's memory, and the row it writes is one it works on.
LEMMA ExecuteStepLive ==
    ASSUME TypeOK, NEW p \in Executors, NEW r \in Reviews, ExecuteStep(p, r)
    PROVE  /\ Live' \subseteq Live
           /\ UNCHANGED main
           /\ run[p][r] \in LivePhases
           /\ \A q \in Reviews \ {r} : status'[q] = status[q]
  <1> USE DEF ExecuteStep, ExecuteNothing, ExecuteUnsafe, ExecuteBegin,
              DeployFail, DeployDone, NotifyDeployed, ReportDone, Holds,
              Finish, Move, Write, Keep
  <1>1. /\ UNCHANGED main
        /\ run[p][r] \in LivePhases
        /\ \A q \in Reviews \ {r} : status'[q] = status[q]
    BY DEF TypeOK
  <1>2. \E f \in Phases : run' = [run EXCEPT ![p][r] = f]
    OBVIOUS
  <1>3. Live' \subseteq Live
    BY <1>1, <1>2 DEF TypeOK, Live
  <1>4. QED
    BY <1>1, <1>3

\* A thread works on its own review and leaves the API process alone.
LEMMA ThreadStepLive ==
    ASSUME TypeOK, NEW r \in Reviews, ThreadStep(r)
    PROVE  /\ Live' \subseteq Live
           /\ UNCHANGED main
           /\ r \in Live
           /\ run'["api"] = run["api"]
           /\ \A q \in Reviews \ {r} : status'[q] = status[q]
  <1> USE DEF PolicyApprove, CodexDisabled, StartCodex, CodexVerdict,
              ReportFail, Finish, Move, Write
  <1>1. CASE ExecuteStep("auditor", r)
    <2>1. run'["api"] = run["api"]
      BY <1>1 DEF TypeOK, ExecuteStep, ExecuteNothing, ExecuteUnsafe,
                  ExecuteBegin, DeployFail, DeployDone, NotifyDeployed,
                  ReportDone
    <2>2. QED
      BY <1>1, <2>1, ExecuteStepLive DEF Live
  <1>2. CASE PolicyApprove(r) \/ CodexDisabled(r) \/ StartCodex(r)
             \/ ReportFail(r) \/ \E s \in Verdicts : CodexVerdict(r, s)
    <2>1. /\ UNCHANGED main
          /\ r \in Live
          /\ \A q \in Reviews \ {r} : status'[q] = status[q]
          /\ \E f : run' = [run EXCEPT !["auditor"][r] = f]
      BY <1>2 DEF TypeOK, Live
    <2>2. Live' \subseteq Live /\ run'["api"] = run["api"]
      BY <2>1 DEF TypeOK, Live
    <2>3. QED
      BY <2>1, <2>2
  <1>3. QED
    BY <1>1, <1>2 DEF ThreadStep

\* Only the submission of a claimed review starts a future.
LEMMA LiveGrowsBySubmission ==
    ASSUME TypeOK, [Next]_vars, ~SubmitClaimed
    PROVE  Live' \subseteq Live
  <1> USE DEF Live
  <1>1. CASE BeginTick
    BY <1>1 DEF TypeOK, BeginTick
  <1>2. CASE MainStep /\ ~BeginTick
    BY <1>2 DEF MainStep, ListSection, EndRecovery, ScanWorkers, EndClaims,
                NextClaims, EndTick, RecoverOrphan, MarkStale, SkipBusyWorker,
                Claim, LoseClaim
  <1>3. ASSUME NEW r \in Reviews, ThreadStep(r) \/ ExecuteStep("api", r)
        PROVE  Live' \subseteq Live
    BY <1>3, ThreadStepLive, ExecuteStepLive
  <1>4. ASSUME NEW r \in Reviews, CardApprove(r)
        PROVE  Live' \subseteq Live
    BY <1>4 DEF TypeOK, CardApprove, Move
  <1>5. CASE Crash \/ CrashApi
    BY <1>5 DEF TypeOK, Crash, CrashApi
  <1>6. ASSUME NEW r \in Reviews,
               \/ CreateReview(r) \/ Age(r)
               \/ \E s \in Verdicts : Decide(r, s)
        PROVE  Live' \subseteq Live
    BY <1>6 DEF CreateReview, Age, Decide
  <1>7. CASE Restart \/ UNCHANGED vars
    BY <1>7 DEF Restart, vars
  <1>8. QED
    BY <1>1, <1>2, <1>3, <1>4, <1>5, <1>6, <1>7 DEF Next

\* The submission makes a future for the claimed review and for no other.
LEMMA SubmissionAddsOne ==
    ASSUME TypeOK, SubmitClaimed
    PROVE  Live' = Live \cup {cur}
  BY DEF TypeOK, SubmitClaimed, Move, Live

-----------------------------------------------------------------------------
(* The limit on parallel deployments                                       *)

\* Counting futures: fewer futures, a smaller count.
LEMMA LiveFinite ==
    ASSUME NEW S \in SUBSET Reviews, NEW T \in SUBSET S
    PROVE  /\ Cardinality(S) \in Nat /\ Cardinality(T) \in Nat
           /\ Cardinality(T) <= Cardinality(S)
  BY ReviewsAssumption, FS_Subset, FS_CardinalityType

\* The auditor never has more than max_parallel_deployments unfinished
\* futures: the limit is tested before the claim, and until the submission
\* that follows futures only end.
THEOREM AtMostMaxParallel == Spec => []ParallelBound
  <1>1. Init => RoomForClaimed
    <2> SUFFICES ASSUME Init PROVE RoomForClaimed
      OBVIOUS
    <2>1. Live = {}
      BY DEF Init, Live
    <2>2. QED
      BY <2>1, FS_EmptySet, ConfigAssumption
         DEF Init, RoomForClaimed, ParallelBound
  <1>2. ASSUME TypeOK, RoomForClaimed, [Next]_vars
        PROVE  RoomForClaimed'
    <2>0. Live \in SUBSET Reviews /\ MaxParallel \in Nat
      BY ConfigAssumption DEF Live
    <2>1. CASE SubmitClaimed
      <3>1. pc = "submit" /\ pc' # "submit"
        BY <2>1 DEF SubmitClaimed
      <3>2. IsFiniteSet(Live)
        BY <2>0, ReviewsAssumption, FS_Subset
      <3>3. /\ Cardinality(Live') <= Cardinality(Live) + 1
            /\ Cardinality(Live') \in Nat /\ Cardinality(Live) \in Nat
        <4>1. Live' = Live \cup {cur}
          BY <1>2, <2>1, SubmissionAddsOne
        <4>2. /\ IsFiniteSet(Live \cup {cur})
              /\ Cardinality(Live \cup {cur}) = IF cur \in Live
                    THEN Cardinality(Live) ELSE Cardinality(Live) + 1
          BY <3>2, FS_AddElement
        <4>3. Cardinality(Live) \in Nat
          BY <3>2, FS_CardinalityType
        <4>4. QED
          BY <4>1, <4>2, <4>3
      <3>4. QED
        BY <1>2, <2>0, <3>1, <3>3 DEF RoomForClaimed, ParallelBound
    <2>2. CASE ~SubmitClaimed
      <3>1. /\ Cardinality(Live') <= Cardinality(Live)
            /\ Cardinality(Live') \in Nat /\ Cardinality(Live) \in Nat
        BY <1>2, <2>0, <2>2, LiveGrowsBySubmission, LiveFinite
      <3>2. CASE \E r \in Reviews : Claim(r)
        BY <1>2, <2>0, <3>1, <3>2
           DEF Claim, AtCapacity, RoomForClaimed, ParallelBound
      <3>3. CASE ~(\E r \in Reviews : Claim(r))
        <4>1. pc' = "submit" => pc = "submit"
          BY <1>2, <2>2, <3>3, ThreadStepLive, ExecuteStepLive
             DEF Next, MainStep, BeginTick, ListSection, EndRecovery,
                 ScanWorkers, EndClaims, NextClaims, EndTick, RecoverOrphan,
                 MarkStale, SkipBusyWorker, LoseClaim, CreateReview, Age,
                 Decide, CardApprove, Crash, CrashApi, Restart, vars, main
        <4>2. QED
          BY <1>2, <2>0, <3>1, <4>1 DEF RoomForClaimed, ParallelBound
      <3>4. QED
        BY <3>2, <3>3
    <2>3. QED
      BY <2>1, <2>2
  <1>3. RoomForClaimed => ParallelBound
    BY DEF RoomForClaimed
  <1>4. QED
    BY <1>1, <1>2, <1>3, TypeInvariant, PTL DEF Spec

-----------------------------------------------------------------------------
(* One deployment per worker                                               *)

\* What a scan knows is made by ScanWorkers and Claim, lost at its end, and
\* left alone by every other step.
LEMMA ScanFrame ==
    ASSUME TypeOK, [Next]_vars, ~SubmitClaimed, ~ScanWorkers,
           ~(\E r \in Reviews : Claim(r))
    PROVE  /\ section' \in Claims =>
                  section \in Claims /\ busy' = busy /\ cur' = cur
           /\ pc' = "submit" => UNCHANGED main
           /\ cur' = None \/ cur' = cur
  <1>1. CASE MainStep
    <2>1. CASE BeginTick \/ EndRecovery \/ EndTick
      <3>1. section' \notin Claims /\ pc' # "submit" /\ cur' = cur
        BY <2>1 DEF BeginTick, EndRecovery, EndTick
      <3>2. QED
        BY <3>1
    <2>2. CASE ListSection \/ EndClaims \/ NextClaims
      <3>1. /\ section' \in Claims => section \in Claims
            /\ UNCHANGED <<busy, cur>> /\ pc' # "submit"
        BY <2>2 DEF ListSection, EndClaims, NextClaims
      <3>2. QED
        BY <3>1
    <2>3. ASSUME NEW r \in Reviews,
                 \/ RecoverOrphan(r) \/ MarkStale(r)
                 \/ SkipBusyWorker(r) \/ LoseClaim(r)
          PROVE  UNCHANGED <<section, busy, cur, pc>> /\ pc # "submit"
      BY <2>3 DEF RecoverOrphan, MarkStale, SkipBusyWorker, LoseClaim
    <2>4. QED
      BY <1>1, <2>1, <2>2, <2>3 DEF MainStep
  <1>2. ASSUME NEW r \in Reviews,
               \/ ThreadStep(r) \/ ExecuteStep("api", r) \/ CreateReview(r)
               \/ Age(r) \/ CardApprove(r) \/ \E s \in Verdicts : Decide(r, s)
        PROVE  UNCHANGED main
    BY <1>2, ThreadStepLive, ExecuteStepLive
       DEF CreateReview, Age, CardApprove, Decide
  <1>3. CASE Crash \/ Restart
    <2>1. CASE Crash
      BY <2>1 DEF Crash
    <2>2. CASE Restart
      BY <2>2 DEF Restart
    <2>3. QED
      BY <1>3, <2>1, <2>2
  <1>4. CASE CrashApi \/ UNCHANGED vars
    BY <1>4 DEF CrashApi, vars, main
  <1>5. QED
    BY <1>1, <1>2, <1>3, <1>4 DEF Next, main

\* During a scan active_workers covers the live futures.
LEMMA ScanCoverage == Spec => []ScanCoversLive
  <1>1. Init => ScanCoversLive
    BY DEF Init, ScanCoversLive, WorkerExclusion, Live
  <1>2. ASSUME TypeOK, ScanCoversLive, [Next]_vars
        PROVE  ScanCoversLive'
    <2> USE DEF ScanCoversLive, WorkerExclusion
    <2>1. CASE SubmitClaimed
      <3>1. Live' = Live \cup {cur}
        BY <1>2, <2>1, SubmissionAddsOne
      <3>2. /\ pc = "submit" /\ pc' = "each"
            /\ busy' = busy \cup {WorkerOf[cur]}
            /\ section' = section
        BY <2>1 DEF SubmitClaimed
      <3>3. QED
        BY <1>2, <3>1, <3>2
    <2>2. CASE ScanWorkers
      <3>1. Live' = Live /\ pc' = "list" /\ busy' = ActiveWorkers
        BY <2>2 DEF ScanWorkers, Live
      <3>2. \A r \in Live : WorkerOf[r] \in ActiveWorkers
        BY DEF ActiveWorkers
      <3>3. QED
        BY <1>2, <3>1, <3>2
    <2>3. ASSUME NEW r \in Reviews, Claim(r)
          PROVE  ScanCoversLive'
      BY <1>2, <2>3 DEF Claim, Live
    <2>4. CASE ~SubmitClaimed /\ ~ScanWorkers /\ ~(\E r \in Reviews : Claim(r))
      <3>1. Live' \subseteq Live
        BY <1>2, <2>4, LiveGrowsBySubmission
      <3>2. /\ section' \in Claims => section \in Claims /\ busy' = busy
            /\ pc' = "submit" => UNCHANGED main
        BY <1>2, <2>4, ScanFrame
      <3>3. QED
        BY <1>2, <3>1, <3>2 DEF main
    <2>5. QED
      BY <2>1, <2>2, <2>3, <2>4
  <1>3. QED
    BY <1>1, <1>2, TypeInvariant, PTL DEF Spec

\* Two threads of the auditor never work on one worker, whatever the operators
\* and the API process do meanwhile: the set active_workers covers the live
\* futures during the whole scan.
THEOREM OneThreadPerWorker == Spec => []WorkerExclusion
  <1>1. ScanCoversLive => WorkerExclusion
    BY DEF ScanCoversLive
  <1>2. QED
    BY <1>1, ScanCoverage, PTL

\* Without card actions the API process executes nothing.
LEMMA ApiStaysQuiet ==
    ASSUME TypeOK, ~CardActions, [Next]_vars,
           \A r \in Reviews : run["api"][r] = "none"
    PROVE  \A r \in Reviews : run'["api"][r] = "none"
  <1>1. CASE MainStep
    BY <1>1 DEF TypeOK, MainStep, BeginTick, ListSection, EndRecovery,
                ScanWorkers, EndClaims, NextClaims, EndTick, RecoverOrphan,
                MarkStale, SkipBusyWorker, Claim, LoseClaim, SubmitClaimed,
                Move
  <1>2. ASSUME NEW r \in Reviews, ThreadStep(r)
        PROVE  \A q \in Reviews : run'["api"][q] = "none"
    BY <1>2, ThreadStepLive
  <1>3. ASSUME NEW r \in Reviews, ExecuteStep("api", r)
        PROVE  FALSE
    BY <1>3, ExecuteStepLive
  <1>4. CASE Crash \/ CrashApi
    BY <1>4 DEF TypeOK, Crash, CrashApi
  <1>5. QED
    BY <1>1, <1>2, <1>3, <1>4
       DEF Next, CardApprove, CreateReview, Age, Decide, Restart, vars

\* Without card actions only a claim makes a new owner.
LEMMA OwnersGrowByClaim ==
    ASSUME TypeOK, ~CardActions, [Next]_vars,
           ~(\E r \in Reviews : Claim(r)),
           \A r \in Reviews : run["api"][r] = "none",
           NEW q \in Reviews, Owns(q)'
    PROVE  Owns(q)
  <1> USE DEF Owns
  <1>1. CASE SubmitClaimed
    <2>1. UNCHANGED status
      BY <1>1 DEF SubmitClaimed, Keep
    <2>2. cur' = None /\ None \notin Reviews
      BY <1>1, ReviewsAssumption DEF SubmitClaimed
    <2>3. QED
      BY <1>1, <2>1, <2>2, SubmissionAddsOne
  <1>2. CASE ~SubmitClaimed
    <2>1. q \in Live' => q \in Live
      BY <1>2, LiveGrowsBySubmission
    <2>2. q = cur' => q = cur
      <3>1. CASE ScanWorkers
        BY <3>1 DEF ScanWorkers
      <3>2. CASE ~ScanWorkers
        BY <1>2, <3>2, ScanFrame, ReviewsAssumption
      <3>3. QED
        BY <3>1, <3>2
    <2>3. status'[q] \in InFlight => status[q] \in InFlight \/ q \in Live
      <3>1. CASE MainStep
        BY <1>2, <3>1 DEF TypeOK, MainStep, BeginTick, ListSection,
           EndRecovery, ScanWorkers, EndClaims, NextClaims, EndTick,
           RecoverOrphan, MarkStale, SkipBusyWorker, LoseClaim, Write, Keep
      <3>2. ASSUME NEW r \in Reviews, ThreadStep(r)
            PROVE  status'[q] \in InFlight
                     => status[q] \in InFlight \/ q \in Live
        BY <3>2, ThreadStepLive
      <3>3. ASSUME NEW r \in Reviews, ExecuteStep("api", r)
            PROVE  FALSE
        BY <3>3, ExecuteStepLive
      <3>4. ASSUME NEW r \in Reviews,
                   \/ CreateReview(r) \/ Age(r) \/ CardApprove(r)
                   \/ \E s \in Verdicts : Decide(r, s)
            PROVE  status'[q] \in InFlight => status[q] \in InFlight
        BY <3>4 DEF TypeOK, CreateReview, Age, CardApprove, Decide, Write
      <3>5. CASE Crash \/ CrashApi \/ Restart \/ UNCHANGED vars
        BY <3>5 DEF Crash, CrashApi, Restart, Keep, vars
      <3>6. QED
        BY <3>1, <3>2, <3>3, <3>4, <3>5 DEF Next
    <2>4. QED
      BY <2>1, <2>2, <2>3
  <1>3. QED
    BY <1>1, <1>2

\* Without card actions a worker has one owner: the deployments on a worker
\* are serialized over claims, decisions by operators, deaths of the auditor
\* and recoveries.  The API process, which sets "deploying" without looking at
\* the worker, is what the assumption excludes.
THEOREM OneOwnerPerWorker ==
    ASSUME ~CardActions
    PROVE  Spec => []OneOwner
  <1>1. Init => ScanCoversOwners
    BY ReviewsAssumption
       DEF Init, ScanCoversOwners, OneOwner, Owns, Live
  <1>2. ASSUME TypeOK, ScanCoversOwners, [Next]_vars
        PROVE  ScanCoversOwners'
    <2>0. \A r \in Reviews : run'["api"][r] = "none"
      BY <1>2, ApiStaysQuiet DEF ScanCoversOwners
    <2>1. ASSUME NEW r \in Reviews, Claim(r)
          PROVE  ScanCoversOwners'
      <3>1. /\ cur = None /\ cur' = r /\ WorkerOf[r] \notin busy
            /\ section \in Claims /\ section' = section /\ busy' = busy
            /\ run' = run
            /\ \A q \in Reviews \ {r} : status'[q] = status[q]
        BY <1>2, <2>1 DEF TypeOK, Claim, Write
      <3>2. \A q \in Reviews : Owns(q)' => q = r \/ Owns(q)
        BY <3>1 DEF Owns, Live
      <3>3. \A q \in Reviews : Owns(q) => WorkerOf[q] \in busy
        BY <1>2, <3>1, ReviewsAssumption DEF ScanCoversOwners
      <3>4. OneOwner'
        BY <1>2, <3>1, <3>2, <3>3 DEF ScanCoversOwners, OneOwner
      <3>5. QED
        BY <2>0, <3>1, <3>2, <3>3, <3>4 DEF ScanCoversOwners
    <2>2. CASE ~(\E r \in Reviews : Claim(r))
      <3>1. \A q \in Reviews : Owns(q)' => Owns(q)
        BY <1>2, <2>2, OwnersGrowByClaim DEF ScanCoversOwners
      <3>2. OneOwner'
        BY <1>2, <3>1 DEF ScanCoversOwners, OneOwner
      <3>3. CASE SubmitClaimed
        BY <1>2, <2>0, <3>1, <3>2, <3>3 DEF SubmitClaimed, ScanCoversOwners
      <3>4. CASE ScanWorkers
        <4>1. cur = None /\ cur' = None /\ pc' = "list" /\ busy' = ActiveWorkers
          BY <1>2, <3>4 DEF TypeOK, ScanWorkers
        <4>2. \A q \in Reviews : Owns(q) => WorkerOf[q] \in ActiveWorkers
          BY <4>1, ReviewsAssumption DEF Owns, ActiveWorkers
        <4>3. QED
          BY <2>0, <3>1, <3>2, <4>1, <4>2 DEF ScanCoversOwners
      <3>5. CASE ~SubmitClaimed /\ ~ScanWorkers
        <4>1. /\ section' \in Claims =>
                   section \in Claims /\ busy' = busy /\ cur' = cur
              /\ pc' = "submit" => UNCHANGED main
          BY <1>2, <2>2, <3>5, ScanFrame
        <4>2. QED
          BY <1>2, <2>0, <3>1, <3>2, <4>1 DEF ScanCoversOwners, main
      <3>6. QED
        BY <3>3, <3>4, <3>5
    <2>3. QED
      BY <2>1, <2>2
  <1>3. ScanCoversOwners => OneOwner
    BY DEF ScanCoversOwners
  <1>4. QED
    BY <1>1, <1>2, <1>3, TypeInvariant, PTL DEF Spec

-----------------------------------------------------------------------------
(* Who changes a row and a future                                          *)

\* A row changes by a thread or a task that works on it, by the main loop that
\* listed it or by a person, and such a change renews its age.
LEMMA RowMoves ==
    ASSUME TypeOK, [Next]_vars, NEW q \in Reviews
    PROVE  \/ /\ status'[q] = status[q] /\ (q \in aged => q \in aged')
              /\ q \in aged' => q \in aged \/ Age(q)
           \/ /\ q \notin aged'
              /\ \/ ThreadStep(q) \/ ExecuteStep("api", q) \/ CreateReview(q)
                 \/ RecoverOrphan(q) \/ MarkStale(q) \/ Claim(q)
                 \/ PersonDecides(q)
  <1> DEFINE Same == status'[q] = status[q] /\ (q \in aged' <=> q \in aged)
             New  == q \notin aged'
  <1> USE DEF TypeOK
  <1>w. ASSUME NEW r \in Reviews, NEW s, Write(r, s)
        PROVE  IF r = q THEN New ELSE Same
    BY <1>w DEF Write
  <1>k. ASSUME Keep
        PROVE  Same
    BY <1>k DEF Keep
  <1> HIDE DEF Same, New
  <1>1. CASE \/ BeginTick \/ ListSection \/ EndRecovery \/ ScanWorkers
             \/ SubmitClaimed \/ EndClaims \/ NextClaims \/ EndTick
             \/ Crash \/ Restart \/ CrashApi
    <2>1. Keep
      BY <1>1 DEF BeginTick, ListSection, EndRecovery, ScanWorkers,
                  SubmitClaimed, EndClaims, NextClaims, EndTick, Crash, Restart,
                  CrashApi
    <2>2. QED
      BY <1>k, <2>1 DEF Same
  <1>2. ASSUME NEW r \in Reviews, SkipBusyWorker(r) \/ LoseClaim(r)
        PROVE  Same
    BY <1>2, <1>k DEF SkipBusyWorker, LoseClaim
  <1>3. ASSUME NEW r \in Reviews,
               \/ RecoverOrphan(r) \/ MarkStale(r) \/ Claim(r)
               \/ CreateReview(r) \/ PersonDecides(r)
        PROVE  IF r = q THEN New ELSE Same
    <2>1. \E s : Write(r, s)
      BY <1>3 DEF RecoverOrphan, MarkStale, Claim, CreateReview,
                  PersonDecides, CardApprove, Decide
    <2>2. QED
      BY <1>w, <2>1
  <1>4. ASSUME NEW r \in Reviews, ThreadStep(r) \/ ExecuteStep("api", r)
        PROVE  Same \/ (r = q /\ New)
    <2>1. Keep \/ \E s : Write(r, s)
      BY <1>4 DEF ThreadStep, ExecuteStep, PolicyApprove, CodexDisabled,
                  StartCodex, CodexVerdict, ReportFail, ExecuteNothing,
                  ExecuteUnsafe, ExecuteBegin, DeployFail, DeployDone,
                  NotifyDeployed, ReportDone
    <2>2. QED
      BY <1>w, <1>k, <2>1
  <1>5. ASSUME NEW r \in Reviews, Age(r)
        PROVE  /\ status'[q] = status[q] /\ (q \in aged => q \in aged')
               /\ q \in aged' => q \in aged \/ Age(q)
    BY <1>5 DEF Age
  <1>6. CASE UNCHANGED vars
    BY <1>6 DEF vars
  <1>7. QED
    BY <1>1, <1>2, <1>3, <1>4, <1>5, <1>6
       DEF Next, MainStep, PersonDecides, Same, New

\* A future changes by its thread, at its submission, or by its end.
LEMMA FutureMoves ==
    ASSUME TypeOK, [Next]_vars, NEW q \in Reviews
    PROVE  \/ run'["auditor"][q] = run["auditor"][q]
           \/ SubmitClaimed /\ q = cur
           \/ ThreadStep(q)
           \/ /\ run'["auditor"][q] = "none"
              /\ Crash \/ run["auditor"][q] = "done"
  <1> USE DEF TypeOK
  <1>m. ASSUME NEW p \in Executors, NEW r \in Reviews, NEW f, Move(p, r, f)
        PROVE  (p = "auditor" /\ r = q) \/ run'["auditor"][q] = run["auditor"][q]
    BY <1>m DEF Move
  <1>1. CASE BeginTick
    BY <1>1 DEF BeginTick
  <1>2. CASE SubmitClaimed
    BY <1>2, <1>m DEF SubmitClaimed
  <1>3. CASE MainStep /\ ~BeginTick /\ ~SubmitClaimed
    BY <1>3 DEF MainStep, ListSection, EndRecovery, ScanWorkers, EndClaims,
                NextClaims, EndTick, RecoverOrphan, MarkStale, SkipBusyWorker,
                Claim, LoseClaim
  <1>4. ASSUME NEW r \in Reviews, NEW p \in Executors, ExecuteStep(p, r)
        PROVE  (p = "auditor" /\ r = q) \/ run'["auditor"][q] = run["auditor"][q]
    <2>1. \E f : Move(p, r, f)
      BY <1>4 DEF ExecuteStep, ExecuteNothing, ExecuteUnsafe, ExecuteBegin,
                  DeployFail, DeployDone, NotifyDeployed, ReportDone, Finish
    <2>2. QED
      BY <1>m, <2>1
  <1>5. ASSUME NEW r \in Reviews, ThreadStep(r)
        PROVE  ThreadStep(q) \/ run'["auditor"][q] = run["auditor"][q]
    <2>1. (\E f : Move("auditor", r, f)) \/ ExecuteStep("auditor", r)
      BY <1>5 DEF ThreadStep, PolicyApprove, CodexDisabled, StartCodex,
                  CodexVerdict, ReportFail, Finish
    <2>2. r = q \/ run'["auditor"][q] = run["auditor"][q]
      BY <1>m, <1>4, <2>1
    <2>3. QED
      BY <1>5, <2>2
  <1>6. ASSUME NEW r \in Reviews, CardApprove(r)
        PROVE  run'["auditor"][q] = run["auditor"][q]
    BY <1>6, <1>m DEF CardApprove
  <1>7. CASE Crash \/ CrashApi
    BY <1>7 DEF Crash, CrashApi
  <1>8. ASSUME NEW r \in Reviews,
               \/ CreateReview(r) \/ Age(r)
               \/ \E s \in Verdicts : Decide(r, s)
        PROVE  run'["auditor"][q] = run["auditor"][q]
    BY <1>8 DEF CreateReview, Age, Decide
  <1>9. CASE Restart \/ UNCHANGED vars
    BY <1>9 DEF Restart, vars
  <1>10. QED
    BY <1>1, <1>2, <1>3, <1>4, <1>5, <1>6, <1>7, <1>8, <1>9 DEF Next

\* What a person decided stands: a settled review that no thread works on is
\* changed by a person only, unless a recovery listed it before.  A claim from
\* an old listing finds another status and is lost (claim_review).
THEOREM DecisionsStand == Spec => ClaimsRespectDecisions
  <1>1. ASSUME TypeOK, [Next]_vars, NEW r \in Reviews,
               status[r] \in Settled, status'[r] # status[r], ~Busy(r),
               r \in todo => section \in Claims
        PROVE  PersonDecides(r)
    <2>1. ~ThreadStep(r)
      BY <1>1, ThreadStepLive DEF Busy, Live
    <2>2. ~ExecuteStep("api", r)
      BY <1>1, ExecuteStepLive DEF Busy
    <2>3. ~RecoverOrphan(r) /\ ~MarkStale(r)
      BY <1>1 DEF RecoverOrphan, MarkStale
    <2>4. ~Claim(r) /\ ~CreateReview(r)
      BY <1>1 DEF Claim, Claimable, ListedStatus, CreateReview
    <2>5. QED
      BY <1>1, <2>1, <2>2, <2>3, <2>4, RowMoves
  <1>2. TypeOK /\ [Next]_vars =>
          [\A r \in Reviews :
             /\ status[r] \in Settled /\ status'[r] # status[r]
             /\ ~Busy(r) /\ (r \in todo => section \in Claims)
             => PersonDecides(r)]_vars
    BY <1>1
  <1>3. QED
    BY <1>2, TypeInvariant, PTL DEF Spec, ClaimsRespectDecisions

-----------------------------------------------------------------------------
(* The main loop's memory of a listing                                     *)

Recovering == section \in Recoveries /\ pc \in {"list", "each"}

\* A listing is made by ListSection, shrinks as its rows are visited, and a
\* recovery spares the futures it began with.
LEMMA ListingFrame ==
    ASSUME TypeOK, ScanCoversLive, [Next]_vars
    PROVE  /\ Recovering' => BeginTick \/ (Recovering /\ spared' = spared)
           /\ pc' = "each" /\ section' \notin Claims =>
                \/ ListSection
                \/ /\ pc = "each" /\ section' = section /\ spared' = spared
                   /\ todo' \subseteq todo
           /\ section' = "claim_approved" => section = "claim_approved" \/ AutoDeploy
  <1> DEFINE Goal ==
           /\ Recovering' => BeginTick \/ (Recovering /\ spared' = spared)
           /\ pc' = "each" /\ section' \notin Claims =>
                \/ ListSection
                \/ /\ pc = "each" /\ section' = section /\ spared' = spared
                   /\ todo' \subseteq todo
           /\ section' = "claim_approved" => section = "claim_approved" \/ AutoDeploy
  <1> USE DEF TypeOK, Recovering
  <1>1. CASE BeginTick
    BY <1>1 DEF BeginTick
  <1>2. CASE ListSection
    BY <1>2 DEF ListSection
  <1>3. CASE EndRecovery
    <2>1. pc = "each" /\ section \in Recoveries /\ pc' = "list" /\ section' # "claim_approved"
      BY <1>3 DEF EndRecovery
    <2>2. section' \in Recoveries => spared' = spared
      BY <1>3 DEF EndRecovery
    <2>3. QED
      BY <2>1, <2>2
  <1>4. CASE ScanWorkers \/ NextClaims \/ EndTick
    <2>1. /\ pc' \in {"list", "idle"}
          /\ section' \in Claims \/ pc' = "idle"
          /\ section' = "claim_approved" => AutoDeploy
      BY <1>4 DEF ScanWorkers, NextClaims, EndTick
    <2>2. QED
      BY <2>1
  <1>5. CASE SubmitClaimed
    <2>1. UNCHANGED section /\ pc = "submit" /\ pc' = "each"
          /\ UNCHANGED <<todo, spared>>
      BY <1>5 DEF SubmitClaimed
    <2>2. CASE section \in Claims
      BY <2>1, <2>2
    <2>3. CASE section \notin Claims
      BY <2>1, <2>3 DEF ScanCoversLive
    <2>4. QED
      BY <2>2, <2>3
  <1>6. CASE EndClaims
    BY <1>6 DEF EndClaims
  <1>7. ASSUME NEW r \in Reviews, Claim(r)
        PROVE  Goal
    BY <1>7 DEF Claim
  <1>8. ASSUME NEW r \in Reviews,
               \/ RecoverOrphan(r) \/ MarkStale(r)
               \/ SkipBusyWorker(r) \/ LoseClaim(r)
        PROVE  Goal
    <2>1. /\ UNCHANGED <<section, pc, spared>> /\ todo' \subseteq todo
      BY <1>8 DEF RecoverOrphan, MarkStale, SkipBusyWorker, LoseClaim
    <2>2. QED
      BY <2>1
  <1>9. ASSUME NEW r \in Reviews,
               \/ ThreadStep(r) \/ ExecuteStep("api", r) \/ CreateReview(r)
               \/ Age(r) \/ CardApprove(r) \/ \E s \in Verdicts : Decide(r, s)
        PROVE  Goal
    <2>1. UNCHANGED main
      BY <1>9, ThreadStepLive, ExecuteStepLive
         DEF CreateReview, Age, CardApprove, Decide
    <2>2. QED
      BY <2>1 DEF main
  <1>10. CASE Crash \/ Restart
    BY <1>10 DEF Crash, Restart
  <1>11. CASE CrashApi \/ UNCHANGED vars
    BY <1>11 DEF CrashApi, vars, main
  <1>12. QED
    BY <1>1, <1>2, <1>3, <1>4, <1>5, <1>6, <1>7, <1>8, <1>9, <1>10, <1>11
       DEF Next, MainStep

-----------------------------------------------------------------------------
(* What a thread does to its row                                           *)

\* From a phase f and a status s to a phase g and a status t.
Outcome(r, f, s, g, t) ==
    \/ f = "queued" /\ t = "approved" /\ g = AfterVerdict("approved")
    \/ f = "queued" /\ t = "needs_human" /\ g = "reporting"
    \/ f = "queued" /\ t = "codex_reviewing" /\ g = "codex"
    \/ f = "codex" /\ t \in Verdicts /\ g = AfterVerdict(t)
    \/ /\ f \in {"direct", "approved"} /\ t = s /\ g = "done"
       /\ ~AutoDeploy \/ r \in ErrorStage
    \/ f \in {"direct", "approved"} /\ t = "needs_human" /\ g = "reporting"
    \/ f \in {"direct", "approved"} /\ t = "deploying" /\ g = "deploying" /\ AutoDeploy
    \/ f = "deploying" /\ t = "deploy_failed" /\ g = "reporting"
    \/ f = "deploying" /\ t = "deployed" /\ g = "deployed"
    \/ f = "deployed" /\ t \in {s, "deployed"} /\ g = "reporting"
    \/ f = "reporting" /\ t \in {s, "needs_human"} /\ g = "done"

LEMMA ThreadOutcome ==
    ASSUME TypeOK, NEW r \in Reviews, ThreadStep(r)
    PROVE  /\ Outcome(r, run["auditor"][r], status[r], run'["auditor"][r], status'[r])
           /\ status' = [status EXCEPT ![r] = status'[r]]
  <1> USE DEF TypeOK
  <1>w. ASSUME NEW s, Write(r, s)
        PROVE  status'[r] = s /\ status' = [status EXCEPT ![r] = status'[r]]
    BY <1>w DEF Write
  <1>k. ASSUME Keep
        PROVE  status'[r] = status[r] /\ status' = [status EXCEPT ![r] = status'[r]]
    BY <1>k DEF Keep
  <1>m. ASSUME NEW f, Move("auditor", r, f)
        PROVE  run'["auditor"][r] = f
    BY <1>m DEF Move
  <1> DEFINE Goal ==
           /\ Outcome(r, run["auditor"][r], status[r], run'["auditor"][r], status'[r])
           /\ status' = [status EXCEPT ![r] = status'[r]]
  <1>1. CASE PolicyApprove(r)
    BY <1>1, <1>w, <1>m DEF PolicyApprove, Outcome
  <1>2. CASE CodexDisabled(r)
    BY <1>2, <1>w, <1>m DEF CodexDisabled, Outcome
  <1>3. CASE StartCodex(r)
    BY <1>3, <1>w, <1>m DEF StartCodex, Outcome
  <1>4. ASSUME NEW s \in Verdicts, CodexVerdict(r, s)
        PROVE  Goal
    BY <1>4, <1>w, <1>m DEF CodexVerdict, Outcome
  <1>5. CASE ReportFail(r)
    BY <1>5, <1>w, <1>m DEF ReportFail, Finish, Outcome
  <1>6. CASE ExecuteNothing("auditor", r)
    BY <1>6, <1>k, <1>m DEF ExecuteNothing, Holds, Finish, Outcome
  <1>7. CASE ExecuteUnsafe("auditor", r)
    BY <1>7, <1>w, <1>m DEF ExecuteUnsafe, Holds, Outcome
  <1>8. CASE ExecuteBegin("auditor", r)
    BY <1>8, <1>w, <1>m DEF ExecuteBegin, Holds, Outcome
  <1>9. CASE DeployFail("auditor", r)
    BY <1>9, <1>w, <1>m DEF DeployFail, Outcome
  <1>10. CASE DeployDone("auditor", r)
    BY <1>10, <1>w, <1>m DEF DeployDone, Outcome
  <1>11. CASE NotifyDeployed("auditor", r)
    BY <1>11, <1>k, <1>w, <1>m DEF NotifyDeployed, Outcome
  <1>12. CASE ReportDone("auditor", r)
    BY <1>12, <1>k, <1>m DEF ReportDone, Finish, Outcome
  <1>13. QED
    BY <1>1, <1>2, <1>3, <1>4, <1>5, <1>6, <1>7, <1>8, <1>9, <1>10, <1>11, <1>12
       DEF ThreadStep, ExecuteStep

\* The claimed review stays so until its submission, and deaths are counted.
LEMMA ClaimedFrame ==
    ASSUME TypeOK, [Next]_vars
    PROVE  /\ cur' = cur \/ SubmitClaimed \/ Crash \/ cur = None
           /\ crashes' = 0 => crashes = 0 /\ ~Crash /\ ~CrashApi
  <1>1. cur' = cur \/ SubmitClaimed \/ Crash \/ cur = None
    <2>1. CASE MainStep
      BY <2>1 DEF TypeOK, MainStep, BeginTick, ListSection, EndRecovery,
                  ScanWorkers, EndClaims, NextClaims, EndTick, RecoverOrphan,
                  MarkStale, SkipBusyWorker, Claim, LoseClaim
    <2>2. ASSUME NEW r \in Reviews, ThreadStep(r) \/ ExecuteStep("api", r)
          PROVE  cur' = cur
      BY <2>2, ThreadStepLive, ExecuteStepLive DEF main
    <2>3. QED
      BY <2>1, <2>2 DEF Next, CreateReview, Age, CardApprove, Decide, CrashApi,
                        Restart, vars, main
  <1>2. crashes' = crashes \/ (crashes' = crashes + 1 /\ (Crash \/ CrashApi))
    <2>1. CASE MainStep
      BY <2>1 DEF MainStep, BeginTick, ListSection, EndRecovery,
                  ScanWorkers, EndClaims, NextClaims, EndTick, RecoverOrphan,
                  MarkStale, SkipBusyWorker, Claim, LoseClaim, SubmitClaimed,
                  counters
    <2>2. ASSUME NEW r \in Reviews, ThreadStep(r) \/ ExecuteStep("api", r)
          PROVE  crashes' = crashes
      BY <2>2 DEF ThreadStep, ExecuteStep, PolicyApprove, CodexDisabled,
                  StartCodex, CodexVerdict, ReportFail, ExecuteNothing,
                  ExecuteUnsafe, ExecuteBegin, DeployFail, DeployDone,
                  NotifyDeployed, ReportDone, counters
    <2>3. QED
      BY <2>1, <2>2 DEF Next, CreateReview, Age, CardApprove, Decide, Crash,
                        CrashApi, Restart, vars, counters
  <1>3. crashes \in Nat /\ (Crash \/ CrashApi => crashes' = crashes + 1)
    BY EnvironmentAssumption DEF TypeOK, Crash, CrashApi
  <1>4. QED
    BY <1>1, <1>2, <1>3

-----------------------------------------------------------------------------
(* Only a death makes orphans                                              *)

ApiQuiet == \A r \in Reviews : run["api"][r] = "none"

\* The phases in which a thread's row is in flight.
Working == {"queued", "direct", "codex", "approved", "deploying"}

\* Without automatic deployment nothing is deployed.
Manual ==
    /\ section # "claim_approved"
    /\ \A r \in Reviews : /\ status[r] # "deploying"
                          /\ run["auditor"][r] \notin {"direct", "approved", "deploying"}

\* While the auditor has not died, a row in flight that can be deployed has its
\* future, and so no recovery lists it.
Owned ==
    /\ \A r \in Reviews \ ErrorStage :
          status[r] \in InFlight => r = cur \/ run["auditor"][r] \in Working
    /\ pc = "each" /\ section \in Recoveries => todo \subseteq ErrorStage
NoOrphan ==
    /\ ApiQuiet
    /\ AutoDeploy \/ Manual
    /\ Recovering => Live \subseteq spared
    /\ crashes = 0 => Owned

\* The futures that a recovery began with are all there are.
LEMMA SparesLive ==
    ASSUME TypeOK, ScanCoversLive, [Next]_vars, Recovering => Live \subseteq spared,
           Recovering'
    PROVE  Live' \subseteq spared'
  <1>1. ~SubmitClaimed
    BY DEF SubmitClaimed, ScanCoversLive, Recovering
  <1>2. Live' \subseteq Live
    BY <1>1, LiveGrowsBySubmission
  <1>3. CASE BeginTick
    BY <1>2, <1>3 DEF BeginTick
  <1>4. CASE Recovering /\ spared' = spared
    BY <1>2, <1>4
  <1>5. QED
    BY <1>3, <1>4, ListingFrame

\* A claimed review has no future yet.
LEMMA ClaimedHasNoThread ==
    ASSUME TypeOK, ScanCoversLive, cur # None
    PROVE  cur \in Reviews /\ cur \notin Live
  BY DEF TypeOK, ScanCoversLive

LEMMA ManualStays ==
    ASSUME TypeOK, ScanCoversLive, ApiQuiet, Manual, ~AutoDeploy, [Next]_vars
    PROVE  Manual'
  <1>1. section' # "claim_approved"
    BY ListingFrame DEF Manual
  <1>2. ASSUME NEW q \in Reviews, ThreadStep(q)
        PROVE  /\ status'[q] # "deploying"
               /\ run'["auditor"][q] \notin {"direct", "approved", "deploying"}
    BY <1>2, ThreadOutcome DEF Outcome, Manual, AfterVerdict
  <1>3. ASSUME NEW q \in Reviews
        PROVE  status'[q] # "deploying"
    <2>1. ~ExecuteStep("api", q)
      BY ExecuteStepLive DEF ApiQuiet
    <2>2. CASE \/ CreateReview(q) \/ RecoverOrphan(q) \/ MarkStale(q)
               \/ Claim(q) \/ PersonDecides(q)
      BY <2>2 DEF TypeOK, CreateReview, RecoverOrphan, MarkStale, Claim,
                  ClaimStatus, PersonDecides, CardApprove, Decide, Write, Manual
    <2>3. QED
      BY <1>2, <2>1, <2>2, RowMoves DEF Manual
  <1>4. ASSUME NEW q \in Reviews
        PROVE  run'["auditor"][q] \notin {"direct", "approved", "deploying"}
    <2>1. CASE SubmitClaimed /\ q = cur
      BY <2>1 DEF TypeOK, SubmitClaimed, Move, Manual
    <2>2. QED
      BY <1>2, <2>1, FutureMoves DEF Manual
  <1>5. QED
    BY <1>1, <1>3, <1>4 DEF Manual

LEMMA OwnedStays ==
    ASSUME TypeOK, ScanCoversLive, NoOrphan, Owned, crashes' = 0, [Next]_vars
    PROVE  Owned'
  <1>0. ~Crash
    BY ClaimedFrame
  <1>1. ASSUME NEW q \in Reviews \ ErrorStage, status'[q] \in InFlight
        PROVE  q = cur' \/ run'["auditor"][q] \in Working
    <2>1. CASE ThreadStep(q)
      <3>1. q \in Live /\ q # cur
        BY <2>1, ThreadStepLive, ClaimedHasNoThread, ReviewsAssumption
      <3>2. status[q] \in InFlight => run["auditor"][q] \in Working
        BY <3>1 DEF Owned
      <3>3. AutoDeploy \/ run["auditor"][q] \notin {"direct", "approved"}
        BY DEF NoOrphan, Manual
      <3>4. Outcome(q, run["auditor"][q], status[q], run'["auditor"][q], status'[q])
        BY <2>1, ThreadOutcome
      <3>5. QED
        BY <1>1, <3>2, <3>3, <3>4 DEF Outcome, Working
    <2>2. CASE status'[q] = status[q] /\ ~ThreadStep(q)
      <3>1. CASE SubmitClaimed /\ q = cur
        BY <3>1 DEF TypeOK, SubmitClaimed, Move, Working
      <3>2. CASE q = cur /\ ~SubmitClaimed
        BY <1>0, <3>2, ClaimedFrame, ReviewsAssumption
      <3>3. CASE q # cur
        <4>1. run["auditor"][q] \in Working
          BY <1>1, <2>2, <3>3 DEF Owned
        <4>2. run'["auditor"][q] = run["auditor"][q]
          BY <1>0, <2>2, <3>3, <4>1, FutureMoves DEF Working
        <4>3. QED
          BY <4>1, <4>2
      <3>4. QED
        BY <3>1, <3>2, <3>3
    <2>3. CASE \/ CreateReview(q) \/ RecoverOrphan(q) \/ MarkStale(q)
               \/ PersonDecides(q)
      <3>1. status'[q] \notin InFlight
        BY <2>3 DEF TypeOK, CreateReview, RecoverOrphan, MarkStale,
                    PersonDecides, CardApprove, Decide, Write
      <3>2. QED
        BY <1>1, <3>1
    <2>4. CASE Claim(q)
      BY <2>4 DEF Claim
    <2>5. ~ExecuteStep("api", q)
      BY ExecuteStepLive DEF NoOrphan, ApiQuiet
    <2>6. QED
      BY <2>1, <2>2, <2>3, <2>4, <2>5, RowMoves
  <1>2. ASSUME pc' = "each", section' \in Recoveries
        PROVE  todo' \subseteq ErrorStage
    <2>1. CASE ListSection
      <3>1. /\ pc = "list" /\ section \in Recoveries /\ cur = None
            /\ todo' = Listed(section)
        BY <1>2, <2>1 DEF ListSection, TypeOK
      <3>2. ASSUME NEW r \in Listed(section), r \notin ErrorStage
            PROVE  FALSE
        <4>1. r \in Reviews /\ status[r] \in InFlight /\ r \notin spared
          BY <3>1, <3>2 DEF Listed, ListedStatus
        <4>2. run["auditor"][r] \in Working
          BY <3>1, <3>2, <4>1, ReviewsAssumption DEF Owned
        <4>3. r \in Live /\ Live \subseteq spared
          BY <3>1, <4>1, <4>2 DEF Live, Working, NoOrphan, Recovering
        <4>4. QED
          BY <4>1, <4>3
      <3>3. QED
        BY <3>1, <3>2
    <2>2. CASE pc = "each" /\ section' = section /\ todo' \subseteq todo
      BY <1>2, <2>2 DEF Owned
    <2>3. QED
      BY <1>2, <2>1, <2>2, ListingFrame
  <1>3. QED
    BY <1>1, <1>2 DEF Owned

\* The recovery never requeues a review of an auditor that did not die, whatever
\* the operators decide meanwhile (_recover_orphaned_inflight_reviews).  The
\* API process, which sets "deploying" on rows that no future owns, is what the
\* assumption excludes.
THEOREM OrphansComeFromDeaths ==
    ASSUME ~CardActions
    PROVE  Spec => RequeueOnlyAfterRestart
  <1>1. Init => NoOrphan
    <2> SUFFICES ASSUME Init PROVE NoOrphan
      OBVIOUS
    <2>1. ApiQuiet /\ Manual /\ Live = {} /\ pc = "down"
      BY DEF Init, ApiQuiet, Manual, Live
    <2>2. Owned
      BY DEF Init, Owned
    <2>3. QED
      BY <2>1, <2>2 DEF NoOrphan, Recovering
  <1>2. ASSUME TypeOK, ScanCoversLive, NoOrphan, [Next]_vars
        PROVE  NoOrphan'
    <2>1. ApiQuiet'
      BY <1>2, ApiStaysQuiet DEF NoOrphan, ApiQuiet
    <2>2. AutoDeploy \/ Manual'
      BY <1>2, ManualStays DEF NoOrphan
    <2>3. Recovering' => Live' \subseteq spared'
      BY <1>2, SparesLive DEF NoOrphan
    <2>4. crashes' = 0 => Owned'
      BY <1>2, OwnedStays, ClaimedFrame DEF NoOrphan
    <2>5. QED
      BY <2>1, <2>2, <2>3, <2>4 DEF NoOrphan
  <1>3. ASSUME TypeOK, NoOrphan, NEW r \in Reviews \ ErrorStage, RecoverOrphan(r)
        PROVE  crashes > 0
    <2>1. crashes # 0
      BY <1>3 DEF RecoverOrphan, NoOrphan, Owned
    <2>2. crashes \in Nat
      BY <1>3, EnvironmentAssumption DEF TypeOK
    <2>3. QED
      BY <2>1, <2>2
  <1>4. TypeOK /\ NoOrphan /\ [Next]_vars =>
          [\A r \in Reviews \ ErrorStage : RecoverOrphan(r) => crashes > 0]_vars
    BY <1>3
  <1>5. QED
    BY <1>1, <1>2, <1>4, TypeInvariant, ScanCoverage, PTL
       DEF Spec, RequeueOnlyAfterRestart

-----------------------------------------------------------------------------
(* The life cycle of a review                                              *)

\* The statuses a row can have while a thread is in a phase, when nobody else
\* decides a review in flight.
Expected(f) ==
    CASE f \in {"queued", "codex"}     -> {"codex_reviewing"}
      [] f \in {"direct", "deploying"} -> {"deploying"}
      [] f = "approved"                -> {"approved"}
      [] f = "deployed"                -> {"deployed"}
      [] f = "reporting"               -> (Settled \cup Resting) \ {"pending"}
      [] OTHER                         -> Statuses

\* What a caller remembers of a row is still true when it acts on it.
Steady ==
    /\ ApiQuiet
    /\ \A r \in Reviews : status[r] \in Expected(run["auditor"][r])
    /\ pc = "submit" => status[cur] \in InFlight
    /\ \A r \in aged : status[r] = "approved" /\ r \notin Live /\ r # cur
    /\ Recovering => Live \subseteq spared
    /\ pc = "each" /\ section \in Recoveries =>
          \A r \in todo : status[r] = ListedStatus[section] /\ r \notin spared
    /\ pc = "each" /\ section = "stale" => todo \subseteq aged

\* Nobody decides a review that is queued, in flight, approved or deployed.
OnlySettledDecided == ~CardActions /\ OperatorActsOn \subseteq Settled \ {"deployed"}

\* A thread takes its review along the edges of the life cycle.
LEMMA ThreadEdge ==
    ASSUME TypeOK, NEW r \in Reviews, ThreadStep(r),
           status[r] \in Expected(run["auditor"][r])
    PROVE  /\ Lifecycle!Next \/ status' = status
           /\ status'[r] \in Expected(run'["auditor"][r])
  <1> DEFINE f == run["auditor"][r]
             g == run'["auditor"][r]
             s == status[r]
             t == status'[r]
  <1>1. Outcome(r, f, s, g, t) /\ status' = [status EXCEPT ![r] = t]
    BY ThreadOutcome
  <1>2. s \in Statuses /\ s \in Expected(f)
    BY DEF TypeOK
  <1>e. status[r] = s
    OBVIOUS
  <1> HIDE DEF f, g, s, t
  <1>3. t \in Expected(g)
    BY <1>1, <1>2 DEF Outcome, Expected, AfterVerdict
  <1>4. \/ t = s
        \/ s = "codex_reviewing" /\ t \in Verdicts
        \/ s = "deploying" /\ t \in {"deployed", "deploy_failed"}
        \/ s \in {"approved", "deploying"} /\ t = "needs_human"
        \/ s = "approved" /\ t = "deploying"
        \/ /\ s \in {"blocked", "deployed", "deploy_failed", "approved", "retry_requested"}
           /\ t = "needs_human"
    BY <1>1, <1>2 DEF Outcome, Expected
  <1>5. t = s => status' = status
    BY <1>1, <1>e DEF TypeOK
  <1>6. ASSUME s = "codex_reviewing" /\ t \in Verdicts
        PROVE  Lifecycle!Next
    BY <1>1, <1>e, <1>6 DEF Lifecycle!Next, Lifecycle!Judge, Lifecycle!Edge
  <1>7. ASSUME s = "deploying" /\ t \in {"deployed", "deploy_failed"}
        PROVE  Lifecycle!Next
    BY <1>1, <1>e, <1>7 DEF Lifecycle!Next, Lifecycle!Conclude, Lifecycle!Edge
  <1>8. ASSUME s \in {"approved", "deploying"} /\ t = "needs_human"
        PROVE  Lifecycle!Next
    BY <1>1, <1>e, <1>8 DEF Lifecycle!Next, Lifecycle!Conclude, Lifecycle!Edge
  <1>9. ASSUME s = "approved" /\ t = "deploying"
        PROVE  Lifecycle!Next
    BY <1>1, <1>e, <1>9 DEF Lifecycle!Next, Lifecycle!Take, Lifecycle!Edge
  <1>10. ASSUME /\ s \in {"blocked", "deployed", "deploy_failed", "approved",
                          "retry_requested"}
                /\ t = "needs_human"
        PROVE  Lifecycle!Next
    BY <1>1, <1>e, <1>10 DEF Lifecycle!Next, Lifecycle!Escalate, Lifecycle!Edge
  <1>11. QED
    BY <1>3, <1>4, <1>5, <1>6, <1>7, <1>8, <1>9, <1>10 DEF g, t

\* The other writers find the row in the status that the edge starts from.
LEMMA RowsFound ==
    ASSUME TypeOK, ScanCoversLive, Steady, OnlySettledDecided, NEW r \in Reviews
    PROVE  /\ RecoverOrphan(r) => status[r] \in InFlight /\ r \notin Live
           /\ MarkStale(r) => status[r] = "approved" /\ r \notin Live
           /\ Claim(r) => r \notin Live
           /\ \A s : Decide(r, s) => status[r] \in OperatorActsOn
           /\ ~CardApprove(r) /\ ~ExecuteStep("api", r)
  <1>1. ASSUME RecoverOrphan(r)
        PROVE  status[r] \in InFlight /\ r \notin Live
    <2>1. pc = "each" /\ section \in Recoveries /\ r \in todo
      BY <1>1 DEF RecoverOrphan
    <2>2. status[r] = ListedStatus[section] /\ r \notin spared /\ Live \subseteq spared
      BY <2>1 DEF Steady, Recovering
    <2>3. QED
      BY <2>1, <2>2 DEF ListedStatus
  <1>2. ASSUME MarkStale(r)
        PROVE  status[r] = "approved" /\ r \notin Live
    BY <1>2 DEF MarkStale, Steady
  <1>3. ASSUME Claim(r)
        PROVE  r \notin Live
    BY <1>3 DEF Claim, ScanCoversLive
  <1>4. ~CardApprove(r) /\ \A s : Decide(r, s) => status[r] \in OperatorActsOn
    BY DEF CardApprove, Decide, OnlySettledDecided
  <1>5. ~ExecuteStep("api", r)
    BY ExecuteStepLive DEF Steady, ApiQuiet
  <1>6. QED
    BY <1>1, <1>2, <1>3, <1>4, <1>5

\* Every step takes an edge of the life cycle or none.
LEMMA StepRefines ==
    ASSUME TypeOK, ScanCoversLive, Steady, OnlySettledDecided, [Next]_vars
    PROVE  [Lifecycle!Next]_status
  <1>1. CASE status' = status
    BY <1>1
  <1>2. ASSUME NEW r \in Reviews, ThreadStep(r)
        PROVE  Lifecycle!Next \/ status' = status
    BY <1>2, ThreadEdge DEF Steady
  <1>3. ASSUME NEW r \in Reviews, CreateReview(r)
        PROVE  Lifecycle!Next
    BY <1>3 DEF CreateReview, Write, Lifecycle!Next, Lifecycle!Ask, Lifecycle!Edge
  <1>4. ASSUME NEW r \in Reviews, RecoverOrphan(r)
        PROVE  Lifecycle!Next
    <2>1. status[r] \in InFlight
      BY <1>4, RowsFound
    <2>2. QED
      BY <1>4, <2>1 DEF RecoverOrphan, Write, Lifecycle!Next, Lifecycle!Requeue,
                        Lifecycle!Edge
  <1>5. ASSUME NEW r \in Reviews, MarkStale(r)
        PROVE  Lifecycle!Next
    <2>1. status[r] = "approved"
      BY <1>5, RowsFound
    <2>2. QED
      BY <1>5, <2>1 DEF MarkStale, Write, Lifecycle!Next, Lifecycle!Conclude,
                        Lifecycle!Edge
  <1>6. ASSUME NEW r \in Reviews, Claim(r)
        PROVE  Lifecycle!Next
    <2>1. \/ status[r] \in {"pending", "retry_requested"} /\ ClaimStatus = "codex_reviewing"
          \/ status[r] = "approved" /\ ClaimStatus = "deploying"
      BY <1>6 DEF Claim, Claimable, ListedStatus, ClaimStatus
    <2>2. status' = [status EXCEPT ![r] = ClaimStatus]
      BY <1>6 DEF Claim, Write
    <2>3. QED
      BY <2>1, <2>2 DEF Lifecycle!Next, Lifecycle!Take, Lifecycle!Edge
  <1>7. ASSUME NEW r \in Reviews, NEW s \in Verdicts, Decide(r, s)
        PROVE  Lifecycle!Next
    BY <1>7 DEF Decide, Write, Lifecycle!Next, Lifecycle!Person, Lifecycle!Edge
  <1>8. ASSUME NEW r \in Reviews, CardApprove(r) \/ ExecuteStep("api", r)
        PROVE  FALSE
    BY <1>8, RowsFound
  <1>9. CASE \/ BeginTick \/ ListSection \/ EndRecovery \/ ScanWorkers
             \/ SubmitClaimed \/ EndClaims \/ NextClaims \/ EndTick
             \/ Crash \/ Restart \/ CrashApi
    BY <1>9 DEF BeginTick, ListSection, EndRecovery, ScanWorkers,
                SubmitClaimed, EndClaims, NextClaims, EndTick, Crash, Restart,
                CrashApi, Keep
  <1>10. ASSUME NEW r \in Reviews, SkipBusyWorker(r) \/ LoseClaim(r) \/ Age(r)
        PROVE  status' = status
    BY <1>10 DEF SkipBusyWorker, LoseClaim, Age, Keep
  <1>11. CASE UNCHANGED vars
    BY <1>11 DEF vars
  <1>12. QED
    BY <1>1, <1>2, <1>3, <1>4, <1>5, <1>6, <1>7, <1>8, <1>9, <1>10, <1>11
       DEF Next, MainStep

LEMMA SteadyStays ==
    ASSUME TypeOK, TypeOK', ScanCoversLive, Steady, OnlySettledDecided, [Next]_vars
    PROVE  Steady'
  <1> USE DEF TypeOK
  <1>1. ApiQuiet'
    BY ApiStaysQuiet DEF Steady, ApiQuiet, OnlySettledDecided
  <1>2. ASSUME NEW q \in Reviews
        PROVE  status'[q] \in Expected(run'["auditor"][q])
    <2> DEFINE f == run["auditor"][q]
               g == run'["auditor"][q]
    <2>0. status[q] \in Expected(f) /\ status'[q] \in Statuses
      BY DEF Steady
    <2>1. CASE ThreadStep(q)
      BY <2>0, <2>1, ThreadEdge
    <2>2. CASE SubmitClaimed /\ q = cur
      <3>1. status[cur] \in InFlight /\ status' = status
            /\ g = IF status[cur] = "deploying" THEN "direct" ELSE "queued"
        BY <2>2 DEF SubmitClaimed, Steady, Move, Keep
      <3>2. QED
        BY <2>2, <3>1 DEF Expected
    <2>3. CASE g = "none"
      BY <2>0, <2>3 DEF Expected
    <2>4. CASE g = f /\ ~ThreadStep(q)
      <3>1. CASE status'[q] = status[q]
        BY <2>0, <2>4, <3>1
      <3>2. CASE RecoverOrphan(q) \/ MarkStale(q) \/ Claim(q)
        <4>1. f \notin LivePhases
          BY <3>2, RowsFound DEF Live
        <4>2. QED
          BY <2>0, <2>4, <4>1 DEF Expected
      <3>3. CASE CreateReview(q)
        <4>1. f \notin LivePhases
          BY <2>0, <3>3 DEF CreateReview, Expected
        <4>2. QED
          BY <2>0, <2>4, <4>1 DEF Expected
      <3>4. CASE PersonDecides(q)
        <4>1. PICK s \in Verdicts : Decide(q, s)
          BY <3>4, RowsFound DEF PersonDecides
        <4>2. status[q] \in Settled \ {"deployed"} /\ status'[q] = s
          BY <4>1, RowsFound DEF OnlySettledDecided, Decide, Write
        <4>3. f \notin LivePhases \ {"reporting"}
          BY <2>0, <4>2 DEF Expected
        <4>4. QED
          BY <2>0, <2>4, <4>2, <4>3 DEF Expected
      <3>5. QED
        BY <2>4, <3>1, <3>2, <3>3, <3>4, RowMoves, RowsFound
    <2>5. QED
      BY <2>1, <2>2, <2>3, <2>4, FutureMoves
  <1>3. ASSUME pc' = "submit"
        PROVE  status'[cur'] \in InFlight
    <2>1. ASSUME NEW r \in Reviews, Claim(r)
          PROVE  status'[cur'] \in InFlight
      BY <2>1 DEF Claim, ClaimStatus, Write
    <2>2. CASE ~\E r \in Reviews : Claim(r)
      <3>1. ~SubmitClaimed /\ ~ScanWorkers
        BY <1>3 DEF SubmitClaimed, ScanWorkers
      <3>2. UNCHANGED main
        BY <1>3, <2>2, <3>1, ScanFrame
      <3>3. /\ pc = "submit" /\ cur' = cur /\ cur \in Reviews
            /\ cur \notin Live /\ status[cur] \in InFlight
        BY <1>3, <3>2 DEF main, Steady, ScanCoversLive
      <3>4. ~ThreadStep(cur) /\ ~ExecuteStep("api", cur) /\ ~Claim(cur)
            /\ ~RecoverOrphan(cur) /\ ~MarkStale(cur) /\ ~CreateReview(cur)
        BY <2>2, <3>3, ThreadStepLive, RowsFound
           DEF RecoverOrphan, MarkStale, CreateReview
      <3>5. ~PersonDecides(cur)
        BY <3>3, RowsFound DEF PersonDecides, OnlySettledDecided
      <3>6. QED
        BY <3>3, <3>4, <3>5, RowMoves
    <2>3. QED
      BY <2>1, <2>2
  <1>4. ASSUME NEW q \in aged'
        PROVE  status'[q] = "approved" /\ q \notin Live' /\ q # cur'
    <2>1. q \in Reviews /\ status'[q] = status[q] /\ (q \in aged \/ Age(q))
      BY <1>4, RowMoves
    <2>2. status[q] = "approved" /\ q \notin Live /\ q # cur
      <3>1. CASE q \in aged
        BY <3>1 DEF Steady
      <3>2. CASE Age(q)
        <4>1. pc # "submit" /\ run["auditor"][q] \notin LivePhases
          BY <3>2 DEF Age
        <4>2. QED
          BY <2>1, <3>2, <4>1, ReviewsAssumption DEF Age, Live
      <3>3. QED
        BY <2>1, <3>1, <3>2
    <2>3. q \notin Live'
      BY <2>2, LiveGrowsBySubmission, SubmissionAddsOne
    <2>4. q # cur'
      <3>1. ASSUME NEW r \in Reviews, Claim(r)
            PROVE  cur' # q
        BY <2>1, <1>4, <3>1 DEF Claim, Write
      <3>2. CASE SubmitClaimed \/ ScanWorkers
        <4>1. cur' = cur \/ cur' = None
          BY <3>2 DEF SubmitClaimed, ScanWorkers
        <4>2. QED
          BY <2>1, <2>2, <4>1, ReviewsAssumption
      <3>3. CASE ~SubmitClaimed /\ ~ScanWorkers /\ ~\E r \in Reviews : Claim(r)
        BY <2>1, <2>2, <3>3, ScanFrame, ReviewsAssumption
      <3>4. QED
        BY <3>1, <3>2, <3>3
    <2>5. QED
      BY <2>1, <2>2, <2>3, <2>4
  <1>5. Recovering' => Live' \subseteq spared'
    BY SparesLive DEF Steady
  <1>6. ASSUME pc' = "each", section' \in Recoveries, NEW r \in todo'
        PROVE  status'[r] = ListedStatus[section'] /\ r \notin spared'
    <2>1. /\ r \in Reviews /\ Recovering /\ section' = section /\ spared' = spared
          /\ status[r] = ListedStatus[section] /\ r \notin spared
      <3>1. CASE ListSection
        BY <1>6, <3>1 DEF ListSection, Listed, Recovering
      <3>2. CASE /\ pc = "each" /\ section' = section /\ spared' = spared
                 /\ todo' \subseteq todo
        BY <1>6, <3>2 DEF Steady, Recovering
      <3>3. QED
        BY <1>6, <3>1, <3>2, ListingFrame
    <2>2. status[r] \in InFlight /\ r \notin Live
      BY <1>6, <2>1 DEF ListedStatus, Steady
    <2>3. ~ThreadStep(r) /\ ~ExecuteStep("api", r) /\ ~PersonDecides(r)
          /\ ~CreateReview(r) /\ ~Claim(r) /\ ~MarkStale(r)
      BY <1>6, <2>1, <2>2, ThreadStepLive, RowsFound
         DEF PersonDecides, CreateReview, Claim, MarkStale, OnlySettledDecided
    <2>4. ~RecoverOrphan(r)
      BY <1>6 DEF RecoverOrphan
    <2>5. QED
      BY <2>1, <2>3, <2>4, RowMoves
  <1>7. ASSUME pc' = "each", section' = "stale", NEW r \in todo'
        PROVE  r \in aged'
    <2>1. r \in Reviews /\ section = "stale" /\ r \in aged
      <3>1. CASE ListSection
        BY <1>7, <3>1 DEF ListSection, Listed
      <3>2. CASE pc = "each" /\ section' = section /\ todo' \subseteq todo
        BY <1>7, <3>2 DEF Steady
      <3>3. QED
        BY <1>7, <3>1, <3>2, ListingFrame
    <2>2. status[r] = "approved" /\ r \notin Live
      BY <2>1 DEF Steady
    <2>3. ~MarkStale(r)
      BY <1>7 DEF MarkStale
    <2>4. ~ThreadStep(r) /\ ~ExecuteStep("api", r) /\ ~PersonDecides(r)
          /\ ~CreateReview(r) /\ ~Claim(r) /\ ~RecoverOrphan(r)
      BY <2>1, <2>2, ThreadStepLive, RowsFound
         DEF PersonDecides, CreateReview, Claim, RecoverOrphan, OnlySettledDecided
    <2>5. QED
      BY <2>1, <2>3, <2>4, RowMoves
  <1>8. QED
    BY <1>1, <1>2, <1>3, <1>4, <1>5, <1>6, <1>7 DEF Steady, Recovering

\* Where people decide settled reviews only, and no deployed one, the queue keeps
\* the life cycle of a review, over deaths of the auditor and recoveries: what the
\* main loop, a thread or an operator remembers of a row is still true when it
\* writes the row.  The API process, a second writer, is excluded.
THEOREM ImplementsReviewLifecycle ==
    ASSUME OnlySettledDecided
    PROVE  Spec => ImplementsLifecycle
  <1>1. Init => Steady /\ Lifecycle!Init
    BY DEF Init, Steady, Lifecycle!Init, ApiQuiet, Expected, Recovering
  <1>2. ASSUME TypeOK, TypeOK', ScanCoversLive, Steady, [Next]_vars
        PROVE  Steady' /\ [Lifecycle!Next]_status
    BY <1>2, SteadyStays, StepRefines
  <1>3. QED
    BY <1>1, <1>2, TypeInvariant, ScanCoverage, PTL
       DEF Spec, ImplementsLifecycle, Lifecycle!Spec
=============================================================================
