------------------------ MODULE WeightConversionProofs ------------------------
(***************************************************************************)
(* Theorems about WeightConversion, for any deployments, processes and     *)
(* checkpoints, and however often scripts hang, fail or are left alone:    *)
(* its types, that a process waits for one conversion at a time (IInv),    *)
(* that a deployment loads an output which can be loaded, and a whole one  *)
(* if nothing disturbed it (Written), and that it loads the weights of its *)
(* own checkpoint if people left the name to the loop (Origins).           *)
(***************************************************************************)
EXTENDS WeightConversion, FiniteSetTheorems, TLAPS

USE ConversionAssumption

Jobs == [at : {"new", "approved", "queued", "ready"} \cup Hands \cup Ended,
         path : Paths \cup Dirs \cup {None}, source : Sources \cup {None},
         alias : Names \cup {None}, proc : Procs \cup {None}]
Scripts == [output : Paths, source : Sources, todo : SUBSET Files, of : Entries \cup {None}]

\* A deployment that waits for the lock or has it knows its process and, having it,
\* also its checkpoint and its output.
Placed ==
    \A e \in Entries :
        /\ job[e].at \in Hands \cup {"queued"}
               => job[e].proc \in Procs /\ job[e].path \in Paths /\ job[e].source \in Sources
        /\ job[e].source # None => job[e].path \in Paths
        /\ job[e].at = "new" => job[e].source = None

\* Nobody waits for two scripts.
OneScript == \A s, t \in scripts : s.of = t.of /\ s.of # None => s = t

IInv == TypeOK /\ Placed /\ OneConversionPerProcess /\ OneScript

-----------------------------------------------------------------------------
(* The plan                                                                *)

LEMMA OnlyIsMember == ASSUME NEW S PROVE TheOnly(S) \in S \cup {None}
<1>1. CASE Cardinality(S) = 1
  <2>1. \E x : x \in S
    <3>1. S # {}
      <4>1. SUFFICES ASSUME S = {} PROVE FALSE
        OBVIOUS
      <4>2. Cardinality(S) = 0
        BY <4>1, FS_EmptySet, Zenon
      <4> QED  BY <1>1, <4>2
    <3> QED  BY <3>1, Zenon
  <2>2. (CHOOSE p \in S : TRUE) \in S
    BY <2>1, Zenon
  <2> QED  BY <1>1, <2>2 DEF TheOnly
<1>2. CASE Cardinality(S) # 1
  BY <1>2 DEF TheOnly
<1> QED  BY <1>1, <1>2

LEMMA ChildType == ASSUME NEW d PROVE Child(d) \in Paths \cup {None}
<1>1. \A needed : TheOnly(Below(d, needed)) \in Paths \cup {None}
  BY OnlyIsMember DEF Below
<1> QED  BY <1>1 DEF Child

\* What is converted is a DistCP checkpoint.
LEMMA ConvertsSource == ASSUME NEW p, Converts(p) PROVE p \in Sources
<1>1. p \in Paths /\ Format(p) = "distcp" /\ p \notin Dirs
  BY DEF Converts
<1>2. CASE p \in Paths \ Sources
  BY <1>1, <1>2 DEF Format
<1> QED  BY <1>1, <1>2

LEMMA PlanIInv == ASSUME IInv, NEW e \in Entries, Plan(e) PROVE IInv'
<1>1. PICK ask \in Asks[e] :
        LET path == Resolved(ask.path)
        IN  job' = [job EXCEPT ![e] =
                IF Converts(path)
                THEN [@ EXCEPT !.at = "approved", !.path = Output(path, ask.alias),
                               !.source = path, !.alias = ask.alias]
                ELSE [@ EXCEPT !.at = "approved", !.path = path]]
  BY DEF Plan
<1> DEFINE path == Resolved(ask.path)
<1>2. ask.path \in Paths \cup Dirs /\ ask.alias \in Names \cup {None}
  OBVIOUS
<1>3. path \in Paths \cup Dirs
  BY <1>2, ChildType DEF Resolved
<1>4. job[e] \in Jobs /\ job[e].at = "new" /\ job \in [Entries -> Jobs]
  BY DEF IInv, TypeOK, Jobs, Plan
<1>5. PICK new \in Jobs : /\ new.at = "approved" /\ job' = [job EXCEPT ![e] = new]
                          /\ new.source # None => new.path \in Paths
  <2>1. CASE Converts(path)
    <3>1. path \in Sources /\ path \in Paths
      BY <2>1, ConvertsSource DEF Converts
    <3> DEFINE out == Output(path, ask.alias)
    <3>2. out \in Paths
      BY <1>2, <3>1 DEF Output, Paths
    <3>3. job' = [job EXCEPT ![e] = [job[e] EXCEPT !.at = "approved", !.path = out,
                                            !.source = path, !.alias = ask.alias]]
      BY <1>1, <2>1
    <3> HIDE DEF out, path
    <3> DEFINE new == [job[e] EXCEPT !.at = "approved", !.path = out, !.source = path,
                                     !.alias = ask.alias]
    <3>4. new \in Jobs /\ new.at = "approved" /\ new.path = out
      BY <1>2, <1>4, <3>1, <3>2 DEF Jobs
    <3>5. job' = [job EXCEPT ![e] = new]
      BY <3>3
    <3> HIDE DEF new
    <3> QED  BY <3>2, <3>4, <3>5
  <2>2. CASE ~Converts(path)
    <3>1. job' = [job EXCEPT ![e] = [job[e] EXCEPT !.at = "approved", !.path = path]]
      BY <1>1, <2>2
    <3> HIDE DEF path
    <3> DEFINE new == [job[e] EXCEPT !.at = "approved", !.path = path]
    <3>2. new \in Jobs /\ new.at = "approved" /\ new.source = job[e].source /\ new.path = path
      BY <1>3, <1>4 DEF Jobs
    <3>3. job' = [job EXCEPT ![e] = new]
      BY <3>1
    <3> HIDE DEF new
    <3>4. job[e].source = None
      BY <1>4 DEF IInv, Placed
    <3> QED  BY <3>2, <3>3, <3>4
  <2> QED  BY <2>1, <2>2
<1>6. job' \in [Entries -> Jobs] /\ job'[e] = new /\ \A f \in Entries \ {e} : job'[f] = job[f]
  BY <1>4, <1>5
<1>7. UNCHANGED <<files, origin, lock, scripts, disturbed, bounds>>
  BY DEF Plan
<1>8. TypeOK'
  BY <1>6, <1>7 DEF IInv, TypeOK, Jobs, bounds
<1>9. Placed'
  BY <1>5, <1>6 DEF IInv, Placed, Hands
<1>10. OneConversionPerProcess' /\ OneScript'
  BY <1>4, <1>5, <1>6, <1>7 DEF IInv, OneConversionPerProcess, OneScript, Hands
<1> QED  BY <1>8, <1>9, <1>10 DEF IInv

-----------------------------------------------------------------------------
(* The executors                                                           *)

\* A deployment goes elsewhere, and no longer to the converter host: its lock is
\* its own no more.
LEMMA LeavesIInv ==
    ASSUME IInv, NEW e \in Entries, NEW new \in Jobs,
           job' = [job EXCEPT ![e] = new],
           new.at \notin Hands \cup {"new", "queued"},
           new.source # None => new.path \in Paths,
           lock' \in [Procs -> Entries \cup {None}],
           \A p \in Procs : lock[p] # e => lock'[p] = lock[p],
           scripts' \subseteq Scripts,
           \A s \in scripts' : s.of # None => s \in scripts /\ s.of # e,
           files' \in [Paths -> SUBSET Files], origin' \in [Paths -> SUBSET Sources],
           disturbed' \subseteq Paths,
           retries' \in 0..MaxRetries, troubles' \in 0..MaxTroubles
    PROVE  IInv'
<1>1. job \in [Entries -> Jobs]
  BY DEF IInv, TypeOK, Jobs
<1>2. job' \in [Entries -> Jobs] /\ job'[e] = new /\ \A f \in Entries \ {e} : job'[f] = job[f]
  BY <1>1
<1>3. TypeOK'
  BY <1>2 DEF TypeOK, Jobs, Scripts
<1>4. Placed'
  BY <1>2 DEF IInv, Placed
<1>5. OneConversionPerProcess'
  <2>1. \A f \in Entries : job'[f].at \in Hands => lock'[job'[f].proc] = f
    <3> TAKE f \in Entries
    <3> HAVE job'[f].at \in Hands
    <3>1. f # e /\ job'[f] = job[f] /\ job[f].at \in Hands
      BY <1>2
    <3>2. job[f].proc \in Procs /\ lock[job[f].proc] = f
      BY <3>1 DEF IInv, Placed, OneConversionPerProcess
    <3> QED  BY <3>1, <3>2
  <2>2. \A s \in scripts' : s.of # None => job'[s.of].at = "converting"
    <3> TAKE s \in scripts'
    <3> HAVE s.of # None
    <3>1. s \in scripts /\ s.of \in Entries \ {e}
      BY DEF Scripts
    <3> QED  BY <1>2, <3>1 DEF IInv, OneConversionPerProcess
  <2> QED  BY <2>1, <2>2 DEF OneConversionPerProcess
<1>6. OneScript'
  BY DEF IInv, OneScript
<1> QED  BY <1>3, <1>4, <1>5, <1>6 DEF IInv

LEMMA BeginIInv ==
    ASSUME IInv, NEW e \in Entries, NEW p \in Procs, Begin(e, p)
    PROVE  IInv'
<1>1. job[e] \in Jobs /\ job[e].at = "approved" /\ job \in [Entries -> Jobs]
  BY DEF IInv, TypeOK, Jobs, Begin
<1> DEFINE at == IF job[e].source = None THEN "ready" ELSE "queued"
           new == [job[e] EXCEPT !.at = at, !.proc = p]
<1>2. job' = [job EXCEPT ![e] = new]
  BY DEF Begin
<1>3. /\ new \in Jobs /\ new.proc = p /\ new.source = job[e].source /\ new.path = job[e].path
      /\ new.at \in {"ready", "queued"} /\ (new.at = "queued" => new.source # None)
  BY <1>1, ZenonT(60) DEF Jobs
<1>4. new.at \notin Hands /\ new.at # "new" /\ new.at # "converting"
  BY <1>3 DEF Hands
<1> HIDE DEF new
<1>5. job' \in [Entries -> Jobs] /\ job'[e] = new /\ \A f \in Entries \ {e} : job'[f] = job[f]
  BY <1>1, <1>2, <1>3
<1>6. TypeOK'
  BY <1>5 DEF IInv, TypeOK, Jobs, Begin, bounds
<1>7. Placed'
  BY <1>1, <1>3, <1>4, <1>5 DEF IInv, Placed, Jobs
<1>8. \A s \in scripts : s.of # None => s.of \in Entries \ {e}
  BY <1>1 DEF IInv, TypeOK, OneConversionPerProcess
<1>9. OneConversionPerProcess' /\ OneScript'
  BY <1>4, <1>5, <1>8 DEF IInv, OneConversionPerProcess, OneScript, Begin
<1> QED  BY <1>6, <1>7, <1>9 DEF IInv

LEMMA AcquireIInv ==
    ASSUME IInv, NEW e \in Entries, Acquire(e)
    PROVE  IInv'
<1>1. /\ job[e] \in Jobs /\ job[e].at = "queued" /\ job \in [Entries -> Jobs]
      /\ job[e].proc \in Procs /\ lock[job[e].proc] = None
  BY DEF IInv, TypeOK, Jobs, Acquire, Placed
<1> DEFINE new == [job[e] EXCEPT !.at = "testing"]
<1>2. job' = [job EXCEPT ![e] = new]
  BY DEF Acquire, Goto
<1>3. /\ new \in Jobs /\ new.proc = job[e].proc /\ new.source = job[e].source
      /\ new.path = job[e].path /\ new.at = "testing"
  BY <1>1 DEF Jobs, Hands
<1> HIDE DEF new
<1>4. job' \in [Entries -> Jobs] /\ job'[e] = new /\ \A f \in Entries \ {e} : job'[f] = job[f]
  BY <1>1, <1>2, <1>3
<1>5. /\ lock' \in [Procs -> Entries \cup {None}] /\ lock'[job[e].proc] = e
      /\ \A p \in Procs : lock[p] # None => lock'[p] = lock[p]
  BY <1>1 DEF IInv, TypeOK, Acquire
<1>6. TypeOK'
  BY <1>4, <1>5 DEF IInv, TypeOK, Jobs, Acquire, bounds
<1>7. Placed'
  BY <1>1, <1>3, <1>4 DEF IInv, Placed
<1>8. OneConversionPerProcess'
  <2>1. \A f \in Entries : job'[f].at \in Hands => lock'[job'[f].proc] = f
    BY <1>1, <1>3, <1>4, <1>5 DEF IInv, Placed, OneConversionPerProcess
  <2>2. \A s \in scripts : s.of # None => s.of \in Entries \ {e}
    BY <1>1 DEF IInv, TypeOK, OneConversionPerProcess
  <2>3. \A s \in scripts' : s.of # None => job'[s.of].at = "converting"
    BY <1>4, <2>2 DEF IInv, OneConversionPerProcess, Acquire
  <2> QED  BY <2>1, <2>3 DEF OneConversionPerProcess
<1>9. OneScript'
  BY DEF IInv, OneScript, Acquire
<1> QED  BY <1>6, <1>7, <1>8, <1>9 DEF IInv

\* What Released, after a test or a script of its own, does.
LEMMA ReleasedIInv ==
    ASSUME IInv, NEW e \in Entries, NEW next \in {"ready", "failed"}, Released(e, next),
           job[e].at \in Hands,
           scripts' \subseteq Scripts,
           \A s \in scripts' : s.of # None => s \in scripts /\ s.of # e,
           files' = files, origin' = origin, disturbed' \subseteq Paths,
           retries' = retries, troubles' \in 0..MaxTroubles
    PROVE  IInv'
<1>1. job[e] \in Jobs
  BY DEF IInv, TypeOK, Jobs
<1> DEFINE new == [job[e] EXCEPT !.at = next]
<1>2. job' = [job EXCEPT ![e] = new]
  BY DEF Released, Goto
<1>3. new \in Jobs /\ new.at = next /\ new.path = job[e].path /\ new.source = job[e].source
  BY <1>1 DEF Jobs, Ended
<1>4. new.at \notin Hands \cup {"new", "queued"} /\ (new.source # None => new.path \in Paths)
  BY <1>3 DEF IInv, Placed, Hands
<1>5. job[e].proc \in Procs /\ lock[job[e].proc] = e
  BY DEF IInv, Placed, OneConversionPerProcess
<1>6. lock' \in [Procs -> Entries \cup {None}] /\ \A p \in Procs : lock[p] # e => lock'[p] = lock[p]
  BY <1>5 DEF IInv, TypeOK, Released
<1> HIDE DEF new
<1>7. files' \in [Paths -> SUBSET Files] /\ origin' \in [Paths -> SUBSET Sources]
      /\ retries' \in 0..MaxRetries
  BY DEF IInv, TypeOK
<1> QED  BY <1>2, <1>3, <1>4, <1>6, <1>7, LeavesIInv

LEMMA TestIInv ==
    ASSUME IInv, NEW e \in Entries, Test(e)
    PROVE  IInv'
<1>1. /\ job[e] \in Jobs /\ job[e].at = "testing" /\ job[e].path \in Paths
      /\ job[e].source \in Sources /\ job \in [Entries -> Jobs] /\ scripts \subseteq Scripts
  BY DEF IInv, TypeOK, Jobs, Scripts, Test, Placed, Hands
<1>2. disturbed' \subseteq Paths
  BY <1>1 DEF IInv, TypeOK, Test
<1>3. \A s \in scripts : s.of # e
  BY <1>1 DEF IInv, OneConversionPerProcess
<1>4. /\ files' = files /\ origin' = origin /\ retries' = retries
      /\ troubles' \in 0..MaxTroubles /\ files' \in [Paths -> SUBSET Files]
      /\ origin' \in [Paths -> SUBSET Sources] /\ retries' \in 0..MaxRetries
  BY DEF IInv, TypeOK, Test, bounds
<1>5. ASSUME NEW next \in {"ready", "failed"}, Released(e, next), UNCHANGED scripts
      PROVE  IInv'
  BY <1>1, <1>2, <1>3, <1>4, <1>5, ReleasedIInv DEF Hands
<1> DEFINE new == [output |-> job[e].path, source |-> job[e].source, todo |-> Files, of |-> e]
<1>6. CASE scripts' = scripts \cup {new} /\ Goto(e, "converting") /\ UNCHANGED lock
  <2> DEFINE j == [job[e] EXCEPT !.at = "converting"]
  <2>1. job' = [job EXCEPT ![e] = j]
    BY <1>6 DEF Goto
  <2>2. /\ j \in Jobs /\ j.proc = job[e].proc /\ j.source = job[e].source
        /\ j.path = job[e].path /\ j.at = "converting"
    BY <1>1 DEF Jobs, Hands
  <2> HIDE DEF j
  <2>3. job' \in [Entries -> Jobs] /\ job'[e] = j /\ \A f \in Entries \ {e} : job'[f] = job[f]
    BY <1>1, <2>1, <2>2
  <2>4. new \in Scripts /\ new.of = e
    BY <1>1 DEF Scripts
  <2>5. scripts' = scripts \cup {new} /\ lock' = lock
    BY <1>6
  <2> HIDE DEF new
  <2>6. TypeOK'
    BY <1>1, <1>2, <1>4, <2>3, <2>4, <2>5 DEF IInv, TypeOK, Jobs, Scripts
  <2>7. Placed'
    BY <1>1, <2>2, <2>3 DEF IInv, Placed, Hands
  <2>8. OneConversionPerProcess'
    <3>1. \A f \in Entries : job'[f].at \in Hands => lock'[job'[f].proc] = f
      BY <1>1, <2>2, <2>3, <2>5 DEF IInv, OneConversionPerProcess, Hands
    <3>2. \A s \in scripts' : s.of # None => job'[s.of].at = "converting"
      <4> TAKE s \in scripts'
      <4> HAVE s.of # None
      <4>1. CASE s = new
        BY <2>2, <2>3, <2>4, <4>1
      <4>2. CASE s \in scripts
        <5>1. s.of \in Entries \ {e}
          BY <1>1, <1>3, <4>2 DEF Scripts
        <5> QED  BY <2>3, <4>2, <5>1 DEF IInv, OneConversionPerProcess
      <4> QED  BY <2>5, <4>1, <4>2
    <3> QED  BY <3>1, <3>2 DEF OneConversionPerProcess
  <2>9. OneScript'
    BY <1>3, <2>4, <2>5 DEF IInv, OneScript
  <2> QED  BY <2>6, <2>7, <2>8, <2>9 DEF IInv
<1> QED  BY <1>5, <1>6 DEF Test

LEMMA RetryIInv ==
    ASSUME IInv, NEW e \in Entries, Retry(e)
    PROVE  IInv'
<1>1. job[e] \in Jobs /\ job[e].at = "failed" /\ scripts \subseteq Scripts
  BY DEF IInv, TypeOK, Jobs, Scripts, Retry
<1> DEFINE new == [job[e] EXCEPT !.at = "approved"]
<1>2. job' = [job EXCEPT ![e] = new]
  BY DEF Retry, Goto
<1>3. new \in Jobs /\ new.at = "approved" /\ new.path = job[e].path /\ new.source = job[e].source
  BY <1>1 DEF Jobs
<1>4. new.at \notin Hands \cup {"new", "queued"} /\ (new.source # None => new.path \in Paths)
  BY <1>3 DEF IInv, Placed, Hands
<1>5. \A s \in scripts : s.of # e
  BY <1>1 DEF IInv, OneConversionPerProcess
<1> HIDE DEF new
<1>6. /\ lock' = lock /\ scripts' = scripts /\ disturbed' \subseteq Paths
      /\ lock \in [Procs -> Entries \cup {None}]
      /\ files' \in [Paths -> SUBSET Files] /\ origin' \in [Paths -> SUBSET Sources]
      /\ retries' \in 0..MaxRetries /\ troubles' \in 0..MaxTroubles
  BY DEF IInv, TypeOK, Retry
<1> QED  BY <1>1, <1>2, <1>3, <1>4, <1>5, <1>6, LeavesIInv

LEMMA DeployIInv ==
    ASSUME IInv, NEW e \in Entries, Deploy(e)
    PROVE  IInv'
<1> DEFINE path == Probed(job[e].path)
           at == IF path = None THEN "failed" ELSE "deployed"
           to == IF path = None THEN job[e].path ELSE path
           new == [job[e] EXCEPT !.at = at, !.path = to]
<1>1. job[e] \in Jobs /\ job[e].at = "ready" /\ scripts \subseteq Scripts
  BY DEF IInv, TypeOK, Jobs, Scripts, Deploy
<1>2. job' = [job EXCEPT ![e] = new]
  BY DEF Deploy
<1>3. path \in Paths \cup {None} \/ path = job[e].path
  BY OnlyIsMember DEF Probed, Below
<1>4. to \in Paths \cup Dirs \cup {None} /\ (job[e].path \in Paths => to \in Paths)
      /\ at \in Ended
  BY <1>1, <1>3 DEF Jobs, Ended
<1> HIDE DEF path, at, to
<1>5. new \in Jobs /\ new.at = at /\ new.path = to /\ new.source = job[e].source
  BY <1>1, <1>4 DEF Jobs
<1>6. new.at \notin Hands \cup {"new", "queued"} /\ (new.source # None => new.path \in Paths)
  BY <1>4, <1>5 DEF IInv, Placed, Hands, Ended
<1>7. \A s \in scripts : s.of # e
  BY <1>1 DEF IInv, OneConversionPerProcess
<1> HIDE DEF new
<1>8. /\ lock' = lock /\ scripts' = scripts /\ disturbed' \subseteq Paths
      /\ lock \in [Procs -> Entries \cup {None}]
      /\ files' \in [Paths -> SUBSET Files] /\ origin' \in [Paths -> SUBSET Sources]
      /\ retries' \in 0..MaxRetries /\ troubles' \in 0..MaxTroubles
  BY DEF IInv, TypeOK, Deploy, bounds
<1> QED  BY <1>1, <1>2, <1>5, <1>6, <1>7, <1>8, LeavesIInv

-----------------------------------------------------------------------------
(* The scripts                                                             *)

LEMMA CopyIInv ==
    ASSUME IInv, NEW s \in scripts, Copy(s)
    PROVE  IInv'
<1>1. s \in Scripts /\ s.output \in Paths /\ s.source \in Sources
  BY DEF IInv, TypeOK, Scripts
<1>2. PICK f \in s.todo :
        /\ files' = [files EXCEPT ![s.output] = @ \cup {f}]
        /\ scripts' = (scripts \ {s}) \cup {[s EXCEPT !.todo = @ \ {f}]}
  BY DEF Copy
<1> DEFINE t == [s EXCEPT !.todo = @ \ {f}]
<1>3. t \in Scripts /\ t.of = s.of /\ f \in Files
  BY <1>1 DEF Scripts
<1>4. scripts' = (scripts \ {s}) \cup {t}
  BY <1>2
<1> HIDE DEF t
<1>5. files' \in [Paths -> SUBSET Files]
  BY <1>1, <1>2, <1>3 DEF IInv, TypeOK
<1>6. origin' \in [Paths -> SUBSET Sources]
  BY <1>1 DEF IInv, TypeOK, Copy
<1>7. TypeOK'
  BY <1>3, <1>4, <1>5, <1>6 DEF IInv, TypeOK, Scripts, Copy, bounds
<1>8. OneConversionPerProcess'
  BY <1>3, <1>4 DEF IInv, OneConversionPerProcess, Copy
<1>9. OneScript'
  BY <1>3, <1>4 DEF IInv, OneScript
<1> QED  BY <1>7, <1>8, <1>9 DEF IInv, Placed, Copy

\* A script that ends, with what it means to the deployment that waits for it.
LEMMA ScriptEnds ==
    ASSUME IInv, NEW s \in scripts, NEW next \in {"ready", "failed"},
           scripts' = scripts \ {s},
           IF s.of = None THEN UNCHANGED <<job, lock>> ELSE Released(s.of, next),
           disturbed' \subseteq Paths, troubles' \in 0..MaxTroubles,
           UNCHANGED <<files, origin, retries>>
    PROVE  IInv'
<1>1. scripts \subseteq Scripts
  BY DEF IInv, TypeOK, Scripts
<1>2. CASE s.of = None
  BY <1>2 DEF IInv, TypeOK, Placed, OneConversionPerProcess, OneScript
<1>3. CASE s.of # None
  <2>1. s.of \in Entries /\ job[s.of].at \in Hands
    BY <1>1, <1>3 DEF IInv, OneConversionPerProcess, Scripts, Hands
  <2>2. \A t \in scripts' : t.of # None => t \in scripts /\ t.of # s.of
    BY <1>3 DEF IInv, OneScript
  <2> QED  BY <1>1, <1>3, <2>1, <2>2, ReleasedIInv
<1> QED  BY <1>2, <1>3

LEMMA FinishIInv == ASSUME IInv, NEW s \in scripts, Finish(s) PROVE IInv'
<1>1. disturbed' \subseteq Paths /\ troubles' \in 0..MaxTroubles
  BY DEF IInv, TypeOK, Finish, bounds
<1> QED  BY <1>1, ScriptEnds DEF Finish, bounds

LEMMA FailIInv == ASSUME IInv, NEW s \in scripts, Fail(s) PROVE IInv'
<1>1. disturbed' \subseteq Paths /\ troubles' \in 0..MaxTroubles
  BY DEF IInv, TypeOK, Fail, Trouble
<1> QED  BY <1>1, ScriptEnds DEF Fail

\* The scripts that are abandoned belong to nobody.
LEMMA AbandonedScripts ==
    ASSUME IInv, NEW es \in SUBSET Entries, Abandon(es)
    PROVE  /\ scripts' \subseteq Scripts /\ disturbed' \subseteq Paths
           /\ \A s \in scripts' : s.of # None => s \in scripts /\ s.of \notin es
<1> DEFINE left == {s \in scripts : s.of \in es}
<1>1. PICK on \in SUBSET left :
        scripts' = (scripts \ left) \cup {[s EXCEPT !.of = None] : s \in on}
  BY DEF Abandon
<1>2. scripts \subseteq Scripts
  BY DEF IInv, TypeOK, Scripts
<1>3. \A s \in on : [s EXCEPT !.of = None] \in Scripts /\ [s EXCEPT !.of = None].of = None
  BY <1>2 DEF Scripts
<1>4. disturbed' \subseteq Paths
  BY <1>2 DEF Abandon, IInv, TypeOK, Scripts
<1>5. scripts' \subseteq Scripts
  BY <1>1, <1>2, <1>3
<1>6. \A s \in scripts' : s.of # None => s \in scripts /\ s.of \notin es
  BY <1>1, <1>3
<1> QED  BY <1>4, <1>5, <1>6

LEMMA TimeoutIInv == ASSUME IInv, NEW e \in Entries, Timeout(e) PROVE IInv'
<1>1. Abandon({e}) /\ Released(e, "failed") /\ job[e].at \in Hands
  BY DEF Timeout
<1>2. /\ scripts' \subseteq Scripts /\ disturbed' \subseteq Paths
      /\ \A s \in scripts' : s.of # None => s \in scripts /\ s.of # e
  BY <1>1, AbandonedScripts
<1>3. files' = files /\ origin' = origin /\ retries' = retries /\ troubles' \in 0..MaxTroubles
  BY DEF Timeout, bounds, IInv, TypeOK
<1> QED  BY <1>1, <1>2, <1>3, ReleasedIInv

LEMMA DieIInv == ASSUME IInv, NEW p \in Procs, Die(p) PROVE IInv'
<1> DEFINE lost == {e \in Entries : job[e].proc = p
                                    /\ job[e].at \in Hands \cup {"queued", "ready"}}
<1>1. /\ Abandon(lost) /\ lock' = [lock EXCEPT ![p] = None]
      /\ job' = [e \in Entries |-> IF e \in lost THEN [job[e] EXCEPT !.at = "failed"] ELSE job[e]]
  BY DEF Die
<1>2. /\ scripts' \subseteq Scripts /\ disturbed' \subseteq Paths
      /\ \A s \in scripts' : s.of # None => s \in scripts /\ s.of \notin lost
  BY <1>1, AbandonedScripts
<1>3. \A e \in Entries : job[e] \in Jobs
  BY DEF IInv, TypeOK, Jobs
<1>4. \A e \in lost : /\ job'[e] \in Jobs /\ job'[e].at = "failed"
                      /\ job'[e].path = job[e].path /\ job'[e].source = job[e].source
  <2> TAKE e \in lost
  <2>1. job'[e] = [job[e] EXCEPT !.at = "failed"] /\ job[e] \in Jobs
    BY <1>1, <1>3
  <2> QED  BY <2>1 DEF Jobs, Ended
<1>5. \A e \in Entries \ lost : job'[e] = job[e]
  BY <1>1
<1>6. job' \in [Entries -> Jobs]
  <2>1. \A e \in Entries : job'[e] \in Jobs
    BY <1>3, <1>4, <1>5
  <2>2. DOMAIN job' = Entries /\ job' = [e \in Entries |-> job'[e]]
    BY <1>1
  <2> QED  BY <2>1, <2>2
<1>7. \A e \in Entries : job[e].proc = p /\ job[e].at \in Hands => e \in lost
  OBVIOUS
<1> HIDE DEF lost
<1>8. lost \subseteq Entries
  BY DEF lost
<1>9. TypeOK'
  <2>1. /\ lock' \in [Procs -> Entries \cup {None}] /\ files' = files /\ origin' = origin
        /\ retries' = retries /\ troubles' \in 0..MaxTroubles
    BY <1>1 DEF IInv, TypeOK, Die, Trouble
  <2> QED  BY <1>2, <1>6, <2>1 DEF IInv, TypeOK, Jobs, Scripts
<1>10. Placed'
  BY <1>4, <1>5, <1>8 DEF IInv, Placed, Hands
<1>11. OneConversionPerProcess'
  <2>1. \A e \in Entries : job'[e].at \in Hands => lock'[job'[e].proc] = e
    <3> TAKE e \in Entries
    <3> HAVE job'[e].at \in Hands
    <3>1. e \notin lost /\ job'[e] = job[e]
      BY <1>4, <1>5 DEF Hands
    <3>2. job[e].proc # p /\ job[e].proc \in Procs /\ lock[job[e].proc] = e
      BY <1>7, <3>1 DEF IInv, Placed, OneConversionPerProcess
    <3> QED  BY <1>1, <3>1, <3>2 DEF IInv, TypeOK
  <2>2. \A s \in scripts' : s.of # None => job'[s.of].at = "converting"
    BY <1>2, <1>5 DEF IInv, OneConversionPerProcess, Scripts
  <2> QED  BY <2>1, <2>2 DEF OneConversionPerProcess
<1>12. OneScript'
  BY <1>2 DEF IInv, OneScript
<1> QED  BY <1>9, <1>10, <1>11, <1>12 DEF IInv

-----------------------------------------------------------------------------
LEMMA InitIInv == Init => IInv
BY DEF Init, New, IInv, TypeOK, Placed, OneConversionPerProcess, OneScript, Hands

LEMMA NextIInv == IInv /\ [Next]_vars => IInv'
<1> SUFFICES ASSUME IInv, [Next]_vars PROVE IInv'
  OBVIOUS
<1>1. ASSUME NEW e \in Entries, Step(e) \/ Retry(e) PROVE IInv'
  BY <1>1, PlanIInv, BeginIInv, AcquireIInv, TestIInv, TimeoutIInv, DeployIInv, RetryIInv DEF Step
<1>2. ASSUME NEW s \in scripts, Copy(s) \/ Finish(s) \/ Fail(s) PROVE IInv'
  BY <1>2, CopyIInv, FinishIInv, FailIInv
<1>3. ASSUME NEW p \in Procs, Die(p) PROVE IInv'
  BY <1>3, DieIInv
<1>4. CASE UNCHANGED vars
  BY <1>4 DEF vars, bounds, IInv, TypeOK, Placed, OneConversionPerProcess, OneScript
<1> QED  BY <1>1, <1>2, <1>3, <1>4 DEF Next

\* The types of plans, deployments, locks, outputs and scripts (weight_conversion.py).
THEOREM TypeCorrect == Spec => []TypeOK
<1>1. IInv => TypeOK
  BY DEF IInv
<1> QED  BY <1>1, InitIInv, NextIInv, PTL DEF Spec

\* A process waits for one conversion at a time, for any number of deployments and
\* processes (reusable_executor.py, _run_weight_conversion).
THEOREM OneConversion == Spec => []OneConversionPerProcess
<1>1. IInv => OneConversionPerProcess
  BY DEF IInv
<1> QED  BY <1>1, InitIInv, NextIInv, PTL DEF Spec

-----------------------------------------------------------------------------
(* What an output holds                                                    *)

\* A script has written what it has not to write any more; a deployment that is
\* ready has an output that can be loaded; and an output that nothing disturbed is
\* empty, whole or in the hands of a script.
Written ==
    /\ \A s \in scripts :
          /\ Files \ s.todo \subseteq files[s.output]
          /\ s.of # None => job[s.of].path = s.output
    /\ \A e \in Entries : job[e].at = "ready" /\ job[e].source # None =>
          /\ Loadable \subseteq files[job[e].path]
          /\ job[e].path \in disturbed \/ files[job[e].path] = Files
    /\ \A p \in Paths \ disturbed :
          files[p] \in {{}, Files} \/ \E s \in scripts : s.output = p

\* What an output was made from is what a deployment planned for that path.
Planned(p, source) == \E f \in Entries : job[f].path = p /\ job[f].source = source
Origins ==
    /\ \A e \in Entries : job[e].source # None => job[e].path = Output(job[e].source, job[e].alias)
    /\ \A p \in Paths : /\ files[p] # {} => origin[p] # {}
                        /\ \A source \in origin[p] : Planned(p, source)
    /\ \A s \in scripts : Planned(s.output, s.source)

\* A deployment keeps its plan.
Kept(f) ==
    job'[f].path = job[f].path /\ job'[f].source = job[f].source /\ job'[f].alias = job[f].alias

LEMMA GotoDoes ==
    ASSUME IInv, NEW e \in Entries, NEW at, Goto(e, at)
    PROVE  /\ \A f \in Entries : Kept(f)
           /\ job'[e].at = at /\ job'[e].proc = job[e].proc
           /\ \A f \in Entries \ {e} : job'[f] = job[f]
<1>1. job[e] \in Jobs /\ job \in [Entries -> Jobs]
  BY DEF IInv, TypeOK, Jobs
<1> DEFINE new == [job[e] EXCEPT !.at = at]
<1>2. job' = [job EXCEPT ![e] = new]
  BY DEF Goto
<1>3. /\ new.at = at /\ new.path = job[e].path /\ new.source = job[e].source
      /\ new.alias = job[e].alias /\ new.proc = job[e].proc
  BY <1>1 DEF Jobs
<1> HIDE DEF new
<1>4. job'[e] = new /\ \A f \in Entries \ {e} : job'[f] = job[f]
  BY <1>1, <1>2
<1> QED  BY <1>3, <1>4 DEF Kept

LEMMA PlannedStays ==
    ASSUME NEW p, NEW source \in Sources, Planned(p, source),
           \A f \in Entries : Kept(f) \/ job[f].source = None
    PROVE  Planned(p, source)'
<1>1. PICK f \in Entries : job[f].path = p /\ job[f].source = source
  BY DEF Planned
<1>2. source # None
  OBVIOUS
<1> QED  BY <1>1, <1>2 DEF Planned, Kept

\* A step that writes no file: the plans of the deployments stay, none becomes ready,
\* and a script that ends before its time leaves a disturbed output.
LEMMA NothingWritten ==
    ASSUME IInv, Written, Origins, files' = files, origin' = origin,
           \A f \in Entries : Kept(f) \/ (job[f].source = None /\ job'[f].source = None),
           \A f \in Entries : job'[f].at = "ready" /\ job'[f].source # None => job[f].at = "ready",
           \A t \in scripts' : \E s \in scripts :
               t.output = s.output /\ t.source = s.source /\ t.todo = s.todo /\ t.of \in {s.of, None},
           disturbed \subseteq disturbed',
           \A s \in scripts : s.output \in disturbed' \/ s \in scripts'
    PROVE  Written' /\ Origins'
<1>0. scripts \subseteq Scripts /\ origin \in [Paths -> SUBSET Sources]
  BY DEF IInv, TypeOK, Scripts
<1>1. ASSUME NEW t \in scripts'
      PROVE  /\ Files \ t.todo \subseteq files'[t.output]
             /\ t.of # None => job'[t.of].path = t.output
             /\ Planned(t.output, t.source)'
  <2>1. PICK s \in scripts : t.output = s.output /\ t.source = s.source /\ t.todo = s.todo
                             /\ t.of \in {s.of, None}
    OBVIOUS
  <2>2. s.source \in Sources /\ s.of \in Entries \cup {None}
    BY <1>0 DEF Scripts
  <2>3. Planned(s.output, s.source)'
    BY <2>2, PlannedStays DEF Origins
  <2>4. ASSUME t.of # None PROVE job'[t.of].path = t.output
    <3>1. t.of = s.of /\ s.of \in Entries /\ job[s.of].path = s.output
      BY <2>1, <2>2, <2>4 DEF Written
    <3>2. job[s.of].source # None
      BY <2>1, <2>4, <3>1 DEF IInv, OneConversionPerProcess, Placed, Hands
    <3> QED  BY <2>1, <3>1, <3>2 DEF Kept
  <2> QED  BY <2>1, <2>3, <2>4 DEF Written
<1>2. ASSUME NEW e \in Entries, job'[e].at = "ready", job'[e].source # None
      PROVE  /\ Loadable \subseteq files'[job'[e].path]
             /\ job'[e].path \in disturbed' \/ files'[job'[e].path] = Files
  BY <1>2 DEF Written, Kept
<1>3. ASSUME NEW p \in Paths \ disturbed'
      PROVE  files'[p] \in {{}, Files} \/ \E s \in scripts' : s.output = p
  BY <1>3 DEF Written
<1>4. ASSUME NEW e \in Entries, job'[e].source # None
      PROVE  job'[e].path = Output(job'[e].source, job'[e].alias)
  BY <1>4 DEF Origins, Kept
<1>5. ASSUME NEW p \in Paths
      PROVE  /\ files'[p] # {} => origin'[p] # {}
             /\ \A source \in origin'[p] : Planned(p, source)'
  <2>1. \A source \in origin[p] : source \in Sources
    BY <1>0
  <2> QED  BY <2>1, PlannedStays DEF Origins
<1>6. Written'
  BY <1>1, <1>2, <1>3 DEF Written
<1>7. Origins'
  BY <1>1, <1>4, <1>5 DEF Origins
<1> QED  BY <1>6, <1>7

\* The scripts that are abandoned leave disturbed outputs.
LEMMA AbandonDoes ==
    ASSUME IInv, NEW es, Abandon(es)
    PROVE  /\ \A t \in scripts' : \E s \in scripts :
                  t.output = s.output /\ t.source = s.source /\ t.todo = s.todo
                  /\ t.of \in {s.of, None}
           /\ disturbed \subseteq disturbed'
           /\ \A s \in scripts : s.output \in disturbed' \/ s \in scripts'
<1> DEFINE left == {s \in scripts : s.of \in es}
<1>1. PICK on \in SUBSET left :
        scripts' = (scripts \ left) \cup {[s EXCEPT !.of = None] : s \in on}
  BY DEF Abandon
<1>2. scripts \subseteq Scripts
  BY DEF IInv, TypeOK, Scripts
<1>3. \A s \in scripts : LET t == [s EXCEPT !.of = None]
                         IN  t.output = s.output /\ t.source = s.source /\ t.todo = s.todo
                             /\ t.of = None
  BY <1>2 DEF Scripts
<1>4. disturbed' = disturbed \cup {s.output : s \in left}
  BY DEF Abandon
<1> QED  BY <1>1, <1>3, <1>4, ZenonT(60)

LEMMA PlanWritten ==
    ASSUME IInv, Written, Origins, NEW e \in Entries, Plan(e) PROVE Written' /\ Origins'
<1>1. PICK ask \in Asks[e] :
        LET path == Resolved(ask.path)
        IN  job' = [job EXCEPT ![e] =
                IF Converts(path)
                THEN [@ EXCEPT !.at = "approved", !.path = Output(path, ask.alias),
                               !.source = path, !.alias = ask.alias]
                ELSE [@ EXCEPT !.at = "approved", !.path = path]]
  BY DEF Plan
<1> DEFINE path == Resolved(ask.path)
<1>2. job[e] \in Jobs /\ job[e].at = "new" /\ job \in [Entries -> Jobs] /\ job[e].source = None
  BY DEF IInv, TypeOK, Jobs, Plan, Placed
<1>3. /\ job'[e].at = "approved" /\ \A f \in Entries \ {e} : job'[f] = job[f]
      /\ job'[e].source # None => job'[e].path = Output(job'[e].source, job'[e].alias)
  <2>1. CASE Converts(path)
    <3> DEFINE out == Output(path, ask.alias)
    <3>1. job' = [job EXCEPT ![e] = [job[e] EXCEPT !.at = "approved", !.path = out,
                                            !.source = path, !.alias = ask.alias]]
      BY <1>1, <2>1
    <3>2. out = Output(path, ask.alias)
      OBVIOUS
    <3> HIDE DEF out, path
    <3> DEFINE new == [job[e] EXCEPT !.at = "approved", !.path = out, !.source = path,
                                     !.alias = ask.alias]
    <3>3. new.at = "approved" /\ new.path = out /\ new.source = path /\ new.alias = ask.alias
      BY <1>2 DEF Jobs
    <3>4. job' = [job EXCEPT ![e] = new]
      BY <3>1
    <3> HIDE DEF new
    <3> QED  BY <1>2, <3>2, <3>3, <3>4
  <2>2. CASE ~Converts(path)
    <3>1. job' = [job EXCEPT ![e] = [job[e] EXCEPT !.at = "approved", !.path = path]]
      BY <1>1, <2>2
    <3> HIDE DEF path
    <3> DEFINE new == [job[e] EXCEPT !.at = "approved", !.path = path]
    <3>2. new.at = "approved" /\ new.source = job[e].source
      BY <1>2 DEF Jobs
    <3>3. job' = [job EXCEPT ![e] = new]
      BY <3>1
    <3> HIDE DEF new
    <3> QED  BY <1>2, <3>2, <3>3
  <2> QED  BY <2>1, <2>2
<1>4. UNCHANGED <<files, origin, scripts, disturbed>>
  BY DEF Plan
<1>5. \A f \in Entries : Kept(f) \/ job[f].source = None
  BY <1>2, <1>3 DEF Kept
<1>6. scripts \subseteq Scripts /\ origin \in [Paths -> SUBSET Sources]
  BY DEF IInv, TypeOK, Scripts
<1>7. \A p, source \in Paths : source \in Sources /\ Planned(p, source) => Planned(p, source)'
  BY <1>5, PlannedStays
<1>8. \A s \in scripts : s.of # None => s.of \in Entries \ {e}
  BY <1>2, <1>6 DEF IInv, OneConversionPerProcess, Scripts
<1>9. Written'
  BY <1>3, <1>4, <1>8 DEF Written
<1>10. Origins'
  <2>1. \A s \in scripts : s.output \in Paths /\ s.source \in Sources /\ s.source \in Paths
    BY <1>6 DEF Scripts
  <2>2. \A p \in Paths : \A source \in origin[p] : source \in Sources /\ source \in Paths
    BY <1>6
  <2> QED  BY <1>3, <1>4, <1>7, <2>1, <2>2 DEF Origins
<1> QED  BY <1>9, <1>10

\* The script finds an output, half an output or none.
LEMMA TestWritten ==
    ASSUME IInv, Written, Origins, NEW e \in Entries, Test(e) PROVE Written' /\ Origins'
<1> DEFINE held == files[job[e].path]
<1>1. /\ job[e].at = "testing" /\ job[e].path \in Paths /\ job[e].source \in Sources
      /\ lock[job[e].proc] = e /\ UNCHANGED <<files, origin>> /\ held \subseteq Files
  BY DEF Test, IInv, Placed, OneConversionPerProcess, Hands, TypeOK
<1>2. scripts \subseteq Scripts /\ origin \in [Paths -> SUBSET Sources]
      /\ disturbed \subseteq disturbed' /\ disturbed' \subseteq disturbed \cup {job[e].path}
  BY DEF IInv, TypeOK, Scripts, Test
<1>3. \A s \in scripts : s.of # e
  BY <1>1 DEF IInv, OneConversionPerProcess
<1>4. CASE Exists(held) /\ Released(e, "ready") /\ UNCHANGED scripts
  <2>1. Goto(e, "ready")
    BY <1>4 DEF Released
  <2>2. /\ \A f \in Entries : Kept(f)
        /\ job'[e].at = "ready" /\ \A f \in Entries \ {e} : job'[f] = job[f]
    BY <2>1, GotoDoes
  <2>3. ASSUME job[e].path \notin disturbed' PROVE held = Files
    <3>1. ~InOtherHands(e)
      BY <2>3 DEF Test
    <3>2. ASSUME NEW s \in scripts, s.output = job[e].path PROVE FALSE
      <4>1. s.of # None /\ job[s.of].proc = job[e].proc
        BY <3>1, <3>2 DEF InOtherHands
      <4>2. s.of \in Entries /\ job[s.of].at = "converting"
        BY <1>2, <4>1 DEF Scripts, IInv, OneConversionPerProcess
      <4>3. lock[job[s.of].proc] = s.of
        BY <4>2 DEF IInv, OneConversionPerProcess, Hands
      <4> QED  BY <1>1, <1>3, <3>2, <4>1, <4>3
    <3>3. held # {}
      BY <1>4 DEF Exists, Loadable
    <3> QED  BY <1>1, <1>2, <2>3, <3>2, <3>3 DEF Written
  <2>4. Written'
    <3>1. ASSUME NEW s \in scripts'
          PROVE  /\ Files \ s.todo \subseteq files'[s.output]
                 /\ s.of # None => job'[s.of].path = s.output
      BY <1>1, <1>2, <1>4, <2>2 DEF Written, Kept, Scripts
    <3>2. ASSUME NEW f \in Entries, job'[f].at = "ready", job'[f].source # None
          PROVE  /\ Loadable \subseteq files'[job'[f].path]
                 /\ job'[f].path \in disturbed' \/ files'[job'[f].path] = Files
      <4>1. CASE f = e
        BY <1>1, <1>4, <2>2, <2>3, <4>1 DEF Kept, Exists
      <4>2. CASE f # e
        BY <1>1, <1>2, <2>2, <3>2, <4>2 DEF Written
      <4> QED  BY <4>1, <4>2
    <3>3. ASSUME NEW p \in Paths \ disturbed'
          PROVE  files'[p] \in {{}, Files} \/ \E s \in scripts' : s.output = p
      BY <1>1, <1>2, <1>4 DEF Written
    <3> QED  BY <3>1, <3>2, <3>3 DEF Written
  <2>5. Origins'
    <3>1. \A p, source \in Paths : source \in Sources /\ Planned(p, source) => Planned(p, source)'
      BY <2>2, PlannedStays
    <3>2. \A s \in scripts : s.output \in Paths /\ s.source \in Sources /\ s.source \in Paths
      BY <1>2 DEF Scripts
    <3>3. \A p \in Paths : \A source \in origin[p] : source \in Sources /\ source \in Paths
      BY <1>2
    <3> QED  BY <1>1, <1>4, <2>2, <3>1, <3>2, <3>3 DEF Origins, Kept
  <2> QED  BY <2>4, <2>5
<1>5. CASE Released(e, "failed") /\ UNCHANGED scripts
  <2>1. Goto(e, "failed")
    BY <1>5 DEF Released
  <2>2. /\ \A f \in Entries : Kept(f)
        /\ job'[e].at = "failed" /\ \A f \in Entries \ {e} : job'[f] = job[f]
    BY <2>1, GotoDoes
  <2>3. \A f \in Entries : job'[f].at = "ready" /\ job'[f].source # None => job[f].at = "ready"
    BY <2>2
  <2> QED  BY <1>1, <1>2, <1>5, <2>2, <2>3, NothingWritten
<1>6. CASE /\ held = {}
           /\ scripts' = scripts \cup {[output |-> job[e].path, source |-> job[e].source,
                                        todo |-> Files, of |-> e]}
           /\ Goto(e, "converting")
  <2> DEFINE new == [output |-> job[e].path, source |-> job[e].source, todo |-> Files, of |-> e]
  <2>1. new.output = job[e].path /\ new.source = job[e].source /\ new.todo = Files /\ new.of = e
        /\ scripts' = scripts \cup {new}
    BY <1>6
  <2> HIDE DEF new
  <2>2. /\ \A f \in Entries : Kept(f)
        /\ job'[e].at = "converting" /\ \A f \in Entries \ {e} : job'[f] = job[f]
    BY <1>6, GotoDoes
  <2>3. ASSUME NEW s \in scripts'
        PROVE  /\ Files \ s.todo \subseteq files'[s.output]
               /\ s.of # None => job'[s.of].path = s.output
    BY <1>1, <1>2, <2>1, <2>2 DEF Written, Kept, Scripts
  <2>4. ASSUME NEW f \in Entries, job'[f].at = "ready", job'[f].source # None
        PROVE  /\ Loadable \subseteq files'[job'[f].path]
               /\ job'[f].path \in disturbed' \/ files'[job'[f].path] = Files
    BY <1>1, <1>2, <2>2, <2>4 DEF Written
  <2>5. ASSUME NEW p \in Paths \ disturbed'
        PROVE  files'[p] \in {{}, Files} \/ \E s \in scripts' : s.output = p
    BY <1>1, <1>2, <2>1 DEF Written
  <2>6. \A p, source \in Paths : source \in Sources /\ Planned(p, source) => Planned(p, source)'
    BY <2>2, PlannedStays
  <2>7. \A s \in scripts : s.output \in Paths /\ s.source \in Sources /\ s.source \in Paths
    BY <1>2 DEF Scripts
  <2>8. \A p \in Paths : \A source \in origin[p] : source \in Sources /\ source \in Paths
    BY <1>2
  <2>9. ASSUME NEW s \in scripts' PROVE Planned(s.output, s.source)'
    <3>1. CASE s = new
      <4>1. s.output = job'[e].path /\ s.source = job'[e].source
        BY <2>1, <2>2, <3>1 DEF Kept
      <4> QED  BY <4>1 DEF Planned
    <3>2. CASE s \in scripts
      <4>1. s.output \in Paths /\ s.source \in Sources /\ Planned(s.output, s.source)
        BY <2>7, <3>2 DEF Origins
      <4> QED  BY <2>2, <4>1, PlannedStays
    <3> QED  BY <2>1, <3>1, <3>2
  <2>10. Origins'
    BY <1>1, <2>2, <2>6, <2>8, <2>9 DEF Origins, Kept
  <2>11. Written'
    BY <2>3, <2>4, <2>5 DEF Written
  <2> QED  BY <2>10, <2>11
<1> QED  BY <1>4, <1>5, <1>6 DEF Test

LEMMA CopyWritten ==
    ASSUME IInv, Written, Origins, NEW s \in scripts, Copy(s) PROVE Written' /\ Origins'
<1>1. s \in Scripts /\ s.output \in Paths /\ s.source \in Sources /\ scripts \subseteq Scripts
      /\ files \in [Paths -> SUBSET Files] /\ origin \in [Paths -> SUBSET Sources]
  BY DEF IInv, TypeOK, Scripts
<1>2. PICK f \in s.todo :
        /\ files' = [files EXCEPT ![s.output] = @ \cup {f}]
        /\ scripts' = (scripts \ {s}) \cup {[s EXCEPT !.todo = @ \ {f}]}
  BY DEF Copy
<1> DEFINE t == [s EXCEPT !.todo = @ \ {f}]
<1>3. t.of = s.of /\ t.output = s.output /\ t.source = s.source /\ t.todo = s.todo \ {f}
      /\ f \in Files /\ scripts' = (scripts \ {s}) \cup {t}
  BY <1>1, <1>2 DEF Scripts
<1> HIDE DEF t
<1>4. /\ job' = job /\ disturbed' = disturbed
      /\ origin' = [origin EXCEPT ![s.output] = @ \cup {s.source}]
  BY DEF Copy
<1>5. \A p \in Paths : /\ files[p] \subseteq files'[p] /\ files'[p] \subseteq Files
                       /\ p # s.output => files'[p] = files[p] /\ origin'[p] = origin[p]
                       /\ p = s.output => f \in files'[p] /\ origin'[p] = origin[p] \cup {s.source}
  BY <1>1, <1>2, <1>3, <1>4
<1>6. ASSUME NEW u \in scripts'
      PROVE  /\ Files \ u.todo \subseteq files'[u.output]
             /\ u.of # None => job'[u.of].path = u.output
             /\ Planned(u.output, u.source)'
  <2>1. CASE u = t
    BY <1>1, <1>3, <1>4, <1>5, <2>1 DEF Written, Origins, Planned
  <2>2. CASE u \in scripts
    BY <1>1, <1>4, <1>5, <2>2 DEF Written, Origins, Planned, Scripts
  <2> QED  BY <1>3, <2>1, <2>2
<1>7. ASSUME NEW e \in Entries, job'[e].at = "ready", job'[e].source # None
      PROVE  /\ Loadable \subseteq files'[job'[e].path]
             /\ job'[e].path \in disturbed' \/ files'[job'[e].path] = Files
  <2>1. job[e].path \in Paths
    BY <1>4, <1>7 DEF IInv, Placed
  <2>2. Loadable \subseteq files[job[e].path]
        /\ (job[e].path \in disturbed \/ files[job[e].path] = Files)
    BY <1>4, <1>7 DEF Written
  <2>3. files[job[e].path] \subseteq files'[job[e].path]
        /\ files'[job[e].path] \subseteq Files
    BY <1>5, <2>1
  <2>4. files[job[e].path] = Files => files'[job[e].path] = Files
    BY <2>3
  <2>5. Loadable \subseteq files'[job[e].path]
    BY <2>2, <2>3
  <2> QED  BY <1>4, <2>2, <2>4, <2>5
<1>8. ASSUME NEW p \in Paths \ disturbed'
      PROVE  files'[p] \in {{}, Files} \/ \E u \in scripts' : u.output = p
  BY <1>3, <1>4, <1>5 DEF Written
<1>9. ASSUME NEW p \in Paths
      PROVE  /\ files'[p] # {} => origin'[p] # {}
             /\ \A source \in origin'[p] : Planned(p, source)'
  <2>1. (files[p] # {} => origin[p] # {}) /\ \A source \in origin[p] : Planned(p, source)
    BY DEF Origins
  <2>2. Planned(s.output, s.source)
    BY DEF Origins
  <2>3. CASE p = s.output
    <3>1. origin'[p] = origin[p] \cup {s.source}
      BY <1>5, <2>3
    <3>2. \A source \in origin'[p] : Planned(p, source)
      BY <2>1, <2>2, <2>3, <3>1
    <3> QED  BY <1>4, <3>1, <3>2 DEF Planned
  <2>4. CASE p # s.output
    <3>1. origin'[p] = origin[p] /\ files'[p] = files[p]
      BY <1>5, <2>4
    <3> QED  BY <1>4, <2>1, <3>1 DEF Planned
  <2> QED  BY <2>3, <2>4
<1>10. Written'
  BY <1>6, <1>7, <1>8 DEF Written
<1>11. Origins'
  BY <1>4, <1>6, <1>9 DEF Origins
<1> QED  BY <1>10, <1>11

\* A script that ends has written everything, and its deployment is ready.
LEMMA FinishWritten ==
    ASSUME IInv, Written, Origins, NEW s \in scripts, Finish(s) PROVE Written' /\ Origins'
<1>1. s \in Scripts /\ s.output \in Paths /\ scripts \subseteq Scripts
      /\ files \in [Paths -> SUBSET Files] /\ origin \in [Paths -> SUBSET Sources]
  BY DEF IInv, TypeOK, Scripts
<1>2. /\ UNCHANGED <<files, origin, disturbed>> /\ scripts' = scripts \ {s}
      /\ files[s.output] = Files
  <2>1. s.todo = {} /\ Files \ s.todo \subseteq files[s.output] /\ files[s.output] \subseteq Files
    BY <1>1 DEF Finish, Written
  <2>2. files[s.output] = Files
    BY <2>1
  <2> QED  BY <2>2 DEF Finish
<1>3. /\ \A e \in Entries : Kept(e)
      /\ \A e \in Entries : job'[e].at = "ready" => job[e].at = "ready" \/ e = s.of
      /\ s.of # None => job[s.of].path = s.output
  <2>1. CASE s.of = None
    BY <2>1 DEF Finish, Kept
  <2>2. CASE s.of # None
    <3>1. Goto(s.of, "ready") /\ s.of \in Entries
      BY <1>1, <2>2 DEF Finish, Released, Scripts
    <3> QED  BY <2>2, <3>1, GotoDoes DEF Written
  <2> QED  BY <2>1, <2>2
<1>4. ASSUME NEW u \in scripts'
      PROVE  /\ Files \ u.todo \subseteq files'[u.output]
             /\ u.of # None => job'[u.of].path = u.output
  BY <1>1, <1>2, <1>3 DEF Written, Kept, Scripts
<1>5. ASSUME NEW e \in Entries, job'[e].at = "ready", job'[e].source # None
      PROVE  /\ Loadable \subseteq files'[job'[e].path]
             /\ job'[e].path \in disturbed' \/ files'[job'[e].path] = Files
  <2>1. CASE job[e].at = "ready"
    BY <1>2, <1>3, <1>5, <2>1 DEF Written, Kept
  <2>2. CASE e = s.of
    <3>1. e # None
      OBVIOUS
    <3> QED  BY <1>2, <1>3, <2>2, <3>1 DEF Kept, Loadable, Files
  <2> QED  BY <1>3, <1>5, <2>1, <2>2
<1>6. ASSUME NEW p \in Paths \ disturbed'
      PROVE  files'[p] \in {{}, Files} \/ \E u \in scripts' : u.output = p
  BY <1>2 DEF Written
<1>7. Written'
  BY <1>4, <1>5, <1>6 DEF Written
<1>8. Origins'
  <2>1. \A p, source \in Paths : source \in Sources /\ Planned(p, source) => Planned(p, source)'
    BY <1>3, PlannedStays
  <2>2. \A u \in scripts : u.output \in Paths /\ u.source \in Sources /\ u.source \in Paths
    BY <1>1 DEF Scripts
  <2>3. \A p \in Paths : \A source \in origin[p] : source \in Sources /\ source \in Paths
    BY <1>1
  <2> QED  BY <1>2, <1>3, <2>1, <2>2, <2>3 DEF Origins, Kept
<1> QED  BY <1>7, <1>8

-----------------------------------------------------------------------------
(* The steps that write nothing                                            *)

LEMMA BeginWritten ==
    ASSUME IInv, Written, Origins, NEW e \in Entries, NEW p \in Procs, Begin(e, p)
    PROVE  Written' /\ Origins'
<1>1. job[e] \in Jobs /\ job \in [Entries -> Jobs]
  BY DEF IInv, TypeOK, Jobs
<1> DEFINE at == IF job[e].source = None THEN "ready" ELSE "queued"
           new == [job[e] EXCEPT !.at = at, !.proc = p]
<1>2. job' = [job EXCEPT ![e] = new]
  BY <1>1 DEF Begin, Jobs
<1>3. /\ new.at = at /\ new.path = job[e].path /\ new.source = job[e].source
      /\ new.alias = job[e].alias
  BY <1>1 DEF Jobs
<1>4. at = "ready" => job[e].source = None
  OBVIOUS
<1> HIDE DEF new, at
<1>5. job'[e] = new /\ \A f \in Entries \ {e} : job'[f] = job[f]
  BY <1>1, <1>2
<1>6. \A f \in Entries : Kept(f)
  BY <1>3, <1>5 DEF Kept
<1>7. \A f \in Entries : job'[f].at = "ready" /\ job'[f].source # None => job[f].at = "ready"
  BY <1>3, <1>4, <1>5
<1>8. UNCHANGED <<files, origin, scripts, disturbed>> /\ scripts \subseteq Scripts
  BY DEF Begin, IInv, TypeOK, Scripts
<1> QED  BY <1>6, <1>7, <1>8, NothingWritten

\* A deployment goes on to something other than a deployment that is ready.
LEMMA GoesWritten ==
    ASSUME IInv, Written, Origins, NEW e \in Entries, NEW at, at # "ready", Goto(e, at),
           UNCHANGED <<files, origin, scripts, disturbed>>
    PROVE  Written' /\ Origins'
<1>1. /\ \A f \in Entries : Kept(f)
      /\ job'[e].at = at /\ \A f \in Entries \ {e} : job'[f] = job[f]
  BY GotoDoes
<1>2. \A f \in Entries : job'[f].at = "ready" /\ job'[f].source # None => job[f].at = "ready"
  BY <1>1
<1>3. scripts \subseteq Scripts
  BY DEF IInv, TypeOK, Scripts
<1> QED  BY <1>1, <1>2, <1>3, NothingWritten

LEMMA AcquireWritten ==
    ASSUME IInv, Written, Origins, NEW e \in Entries, Acquire(e) \/ Retry(e)
    PROVE  Written' /\ Origins'
<1>1. CASE Acquire(e)
  BY <1>1, GoesWritten DEF Acquire
<1>2. CASE Retry(e)
  BY <1>2, GoesWritten DEF Retry
<1> QED  BY <1>1, <1>2

\* What is deployed is the planned output itself when it was converted.
LEMMA DeployWritten ==
    ASSUME IInv, Written, Origins, NEW e \in Entries, Deploy(e) PROVE Written' /\ Origins'
<1> DEFINE path == Probed(job[e].path)
           at == IF path = None THEN "failed" ELSE "deployed"
           to == IF path = None THEN job[e].path ELSE path
           new == [job[e] EXCEPT !.at = at, !.path = to]
<1>1. job[e] \in Jobs /\ job \in [Entries -> Jobs]
  BY DEF IInv, TypeOK, Jobs
<1>2. job' = [job EXCEPT ![e] = new]
  BY <1>1 DEF Deploy, Jobs
<1>3. job[e].source # None => to = job[e].path
  BY DEF IInv, Placed, Probed
<1>4. at # "ready"
  OBVIOUS
<1> HIDE DEF at, to, path
<1>5. new.at = at /\ new.path = to /\ new.source = job[e].source /\ new.alias = job[e].alias
  BY <1>1 DEF Jobs
<1> HIDE DEF new
<1>6. job'[e] = new /\ \A f \in Entries \ {e} : job'[f] = job[f]
  BY <1>1, <1>2
<1>7. \A f \in Entries : Kept(f) \/ (job[f].source = None /\ job'[f].source = None)
  BY <1>3, <1>5, <1>6 DEF Kept
<1>8. \A f \in Entries : job'[f].at = "ready" /\ job'[f].source # None => job[f].at = "ready"
  BY <1>4, <1>5, <1>6
<1>9. UNCHANGED <<files, origin, scripts, disturbed>> /\ scripts \subseteq Scripts
  BY DEF Deploy, IInv, TypeOK, Scripts
<1> QED  BY <1>7, <1>8, <1>9, NothingWritten

LEMMA FailWritten ==
    ASSUME IInv, Written, Origins, NEW s \in scripts, Fail(s) PROVE Written' /\ Origins'
<1>1. /\ scripts' = scripts \ {s} /\ disturbed' = disturbed \cup {s.output}
      /\ UNCHANGED <<files, origin>> /\ scripts \subseteq Scripts
  BY DEF Fail, IInv, TypeOK, Scripts
<1>2. /\ \A f \in Entries : Kept(f)
      /\ \A f \in Entries : job'[f].at = "ready" /\ job'[f].source # None => job[f].at = "ready"
  <2>1. CASE s.of = None
    BY <2>1 DEF Fail, Kept
  <2>2. CASE s.of # None
    <3>1. Goto(s.of, "failed") /\ s.of \in Entries
      BY <1>1, <2>2 DEF Fail, Released, Scripts
    <3> QED  BY <3>1, GotoDoes
  <2> QED  BY <2>1, <2>2
<1>3. \A t \in scripts' : t \in scripts
  BY <1>1
<1>4. disturbed \subseteq disturbed' /\ \A t \in scripts : t.output \in disturbed' \/ t \in scripts'
  BY <1>1
<1> QED  BY <1>1, <1>2, <1>3, <1>4, NothingWritten

LEMMA TimeoutWritten ==
    ASSUME IInv, Written, Origins, NEW e \in Entries, Timeout(e) PROVE Written' /\ Origins'
<1>1. Goto(e, "failed") /\ Abandon({e}) /\ UNCHANGED <<files, origin>>
  BY DEF Timeout, Released
<1>2. /\ \A f \in Entries : Kept(f)
      /\ \A f \in Entries : job'[f].at = "ready" /\ job'[f].source # None => job[f].at = "ready"
  BY <1>1, GotoDoes
<1> QED  BY <1>1, <1>2, AbandonDoes, NothingWritten

LEMMA DieWritten ==
    ASSUME IInv, Written, Origins, NEW p \in Procs, Die(p) PROVE Written' /\ Origins'
<1> DEFINE lost == {e \in Entries : job[e].proc = p
                                    /\ job[e].at \in Hands \cup {"queued", "ready"}}
<1>1. /\ Abandon(lost) /\ UNCHANGED <<files, origin>>
      /\ job' = [e \in Entries |-> IF e \in lost THEN [job[e] EXCEPT !.at = "failed"] ELSE job[e]]
  BY DEF Die
<1> HIDE DEF lost
<1>2. \A e \in Entries : job[e] \in Jobs
  BY DEF IInv, TypeOK, Jobs
<1>3. ASSUME NEW e \in Entries PROVE Kept(e) /\ (job'[e].at = "ready" => job[e].at = "ready")
  <2>1. CASE e \in lost
    <3>1. job'[e] = [job[e] EXCEPT !.at = "failed"]
      BY <1>1, <2>1
    <3> QED  BY <1>2, <3>1 DEF Kept, Jobs
  <2>2. CASE e \notin lost
    BY <1>1, <2>2 DEF Kept
  <2> QED  BY <2>1, <2>2
<1> QED  BY <1>1, <1>3, AbandonDoes, NothingWritten

LEMMA InitWritten == Init => Written /\ Origins
BY DEF Init, New, Written, Origins

LEMMA NextWritten == IInv /\ Written /\ Origins /\ [Next]_vars => Written' /\ Origins'
<1> SUFFICES ASSUME IInv, Written, Origins, [Next]_vars PROVE Written' /\ Origins'
  OBVIOUS
<1>1. ASSUME NEW e \in Entries, Step(e) \/ Retry(e) PROVE Written' /\ Origins'
  BY <1>1, PlanWritten, BeginWritten, AcquireWritten, TestWritten, TimeoutWritten, DeployWritten
     DEF Step
<1>2. ASSUME NEW s \in scripts, Copy(s) \/ Finish(s) \/ Fail(s) PROVE Written' /\ Origins'
  BY <1>2, CopyWritten, FinishWritten, FailWritten
<1>3. ASSUME NEW p \in Procs, Die(p) PROVE Written' /\ Origins'
  BY <1>3, DieWritten
<1>4. CASE UNCHANGED vars
  <2>1. \A p, source : Planned(p, source)' <=> Planned(p, source)
    BY <1>4 DEF vars, Planned
  <2> QED  BY <1>4, <2>1 DEF vars, Written, Origins
<1> QED  BY <1>1, <1>2, <1>3, <1>4 DEF Next

\* A deployment of a conversion loads an output with a configuration and weights,
\* and a whole one if no script for it ended early or worked beside another one
\* (weight_conversion.py, build_remote_conversion_command).
THEOREM WholeOutputs == Spec => DeploysWhole
<1>1. Written => \A e \in Entries : LoadsConverted(e) =>
           /\ Loadable \subseteq files[job[e].path]
           /\ job[e].path \notin disturbed => files[job[e].path] = Files
  BY DEF Written, LoadsConverted
<1> DEFINE A == \A e \in Entries : LoadsConverted(e) =>
           /\ Loadable \subseteq files[job[e].path]
           /\ job[e].path \notin disturbed => files[job[e].path] = Files
<1>2. IInv /\ Written /\ Origins /\ [Next]_vars => [A]_vars
  BY <1>1
<1>3. Spec => [][A]_vars
  BY <1>2, InitIInv, NextIInv, InitWritten, NextWritten, PTL DEF Spec
<1> QED  BY <1>3 DEF DeploysWhole

\* A deployment of a conversion loads what was converted from its own checkpoint when
\* nobody chose the name of that output (_conversion_output_path).
THEOREM OwnWeights == Spec => DeploysOwnWeights
<1> DEFINE Unnamed(e) == \A f \in Entries : job[f].path = job[e].path => job[f].alias = None
           A == \A e \in Entries :
                  LoadsConverted(e) /\ Unnamed(e) => origin[job[e].path] = {job[e].source}
<1>1. ASSUME IInv, Written, Origins, NEW e \in Entries, LoadsConverted(e), Unnamed(e)
      PROVE  origin[job[e].path] = {job[e].source}
  <2>1. /\ job[e].path \in Paths /\ job[e].source \in Sources
        /\ job[e].alias = None /\ job[e].path = Output(job[e].source, None)
    <3>1. job[e].source # None /\ job[e] \in Jobs
      BY <1>1 DEF LoadsConverted, IInv, TypeOK, Jobs
    <3>2. job[e].path \in Paths /\ job[e].source \in Sources
      BY <1>1, <3>1 DEF IInv, Placed, Jobs
    <3>3. job[e].alias = None
      BY <1>1
    <3>4. job[e].path = Output(job[e].source, job[e].alias)
      BY <1>1, <3>1 DEF Origins
    <3> QED  BY <3>2, <3>3, <3>4
  <2>2. origin[job[e].path] # {}
    BY <1>1, <2>1 DEF LoadsConverted, Written, Origins, Loadable
  <2>3. ASSUME NEW source \in origin[job[e].path] PROVE source = job[e].source
    <3>1. source \in Sources
      BY <1>1, <2>1 DEF IInv, TypeOK
    <3>2. PICK f \in Entries : job[f].path = job[e].path /\ job[f].source = source
      BY <1>1, <2>1 DEF Origins, Planned
    <3>3. job[f].alias = None /\ source # None
      BY <1>1, <3>1, <3>2
    <3>4. job[e].path = Output(source, None)
      BY <1>1, <3>2, <3>3 DEF Origins
    <3>5. [source EXCEPT !.hf = TRUE] = [job[e].source EXCEPT !.hf = TRUE]
      BY <2>1, <3>4 DEF Output
    <3>6. /\ source \in Paths /\ ~source.hf /\ job[e].source \in Paths /\ ~job[e].source.hf
      BY <2>1, <3>1
    <3>7. \A p, q \in Paths : ~p.hf /\ ~q.hf /\ [p EXCEPT !.hf = TRUE] = [q EXCEPT !.hf = TRUE]
                              => p = q
      <4>1. SUFFICES ASSUME NEW p \in Paths, NEW q \in Paths, ~p.hf, ~q.hf,
                            [p EXCEPT !.hf = TRUE] = [q EXCEPT !.hf = TRUE]
                     PROVE  p = q
        OBVIOUS
      <4>2. p.dir = q.dir /\ p.name = q.name
        BY <4>1 DEF Paths
      <4> QED  BY <4>1, <4>2 DEF Paths
    <3> QED  BY <3>5, <3>6, <3>7
  <2> QED  BY <2>2, <2>3
<1>2. IInv /\ Written /\ Origins /\ [Next]_vars => [A]_vars
  BY <1>1
<1>3. Spec => [][A]_vars
  BY <1>2, InitIInv, NextIInv, InitWritten, NextWritten, PTL DEF Spec
<1> QED  BY <1>3 DEF DeploysOwnWeights
=============================================================================
