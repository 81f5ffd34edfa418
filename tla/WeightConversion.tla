--------------------------- MODULE WeightConversion ---------------------------
(***************************************************************************)
(* The conversion of checkpoints (weight_conversion.py and its use by      *)
(* poller.py and reusable_executor.py).  The loop decides by the format of *)
(* what an entry names whether to convert it, and where to; an executor    *)
(* runs a script on the converter host through ssh, one at a time in its   *)
(* process, and then deploys the output.  The script finds what others     *)
(* left in the output directory.  When ssh or the process ends first, the  *)
(* script may go on without them.                                          *)
(***************************************************************************)
EXTENDS Naturals, FiniteSets

CONSTANTS
    Entries,     \* deployments
    Procs,       \* processes with an executor
    Dirs,        \* directories of training runs
    Names,       \* names of checkpoints, and of outputs that people choose
    Sources,     \* the DistCP checkpoints: paths
    Asks,        \* what an entry may ask for
    Mounted,     \* the bot sees the directories itself
    MaxRetries,  \* bounds
    MaxTroubles,
    None

\* hf: the name begins with output_basename_prefix.
Paths == [dir : Dirs, name : Names, hf : BOOLEAN]

ASSUME ConversionAssumption ==
    /\ None \notin Entries \cup Procs \cup Dirs \cup Names \cup Paths
    /\ Dirs \cap Paths = {}
    /\ Sources \subseteq {p \in Paths : ~p.hf}
    /\ \A e \in Entries : Asks[e] \subseteq [path : Paths \cup Dirs, alias : Names \cup {None}]
    /\ Mounted \in BOOLEAN /\ MaxRetries \in Nat /\ MaxTroubles \in Nat

\* What an output consists of, written in any order.
Files == {"config", "shard", "rest"}
Loadable == {"config", "shard"}

VARIABLES
    files,     \* what each path holds of an output
    origin,    \* the checkpoints it was converted from
    job,       \* the deployments
    lock,      \* _WEIGHT_CONVERSION_LOCK of each process: the entry in it
    scripts,   \* the scripts on the converter host that passed their tests
    disturbed, \* history: outputs of which a script ended early, or that two
               \* processes had in hand
    retries, troubles  \* bounds

bounds == <<retries, troubles>>
vars == <<files, origin, job, lock, scripts, disturbed, bounds>>

New == [at |-> "new", path |-> None, source |-> None, alias |-> None, proc |-> None]
Hands == {"testing", "converting"}
Ended == {"deployed", "failed"}

Init ==
    /\ files = [p \in Paths |-> {}] /\ origin = [p \in Paths |-> {}]
    /\ job = [e \in Entries |-> New]
    /\ lock = [p \in Procs |-> None]
    /\ scripts = {} /\ disturbed = {}
    /\ retries = 0 /\ troubles = 0

-----------------------------------------------------------------------------
\* The plan.

\* detect_weight_format.
Format(p) ==
    CASE p \in Sources                      -> "distcp"
      [] p \in Dirs                         -> "unknown"
      [] p \in Paths \ Sources /\ files[p] = {} -> "missing"
      [] p \in Paths \ Sources /\ files[p] # {} ->
             IF "config" \in files[p] THEN "hf" ELSE "unknown"

\* _find_hf_child_path: the one model below a directory, as the bot sees it or, where
\* it sees none, the converter host.
TheOnly(S) == IF Cardinality(S) = 1 THEN CHOOSE p \in S : TRUE ELSE None
Below(d, needed) == {p \in Paths : p.dir = d /\ needed \subseteq files[p]}
Child(d) ==
    LET local == TheOnly(Below(d, {"config"}))
    IN  IF Mounted /\ local # None THEN local ELSE TheOnly(Below(d, Loadable))

Resolved(path) ==
    IF path \in Dirs /\ Child(path) # None THEN Child(path) ELSE path

\* Faulty variant: the format is not detected.
ConvertsAny(path) == path \in Paths /\ ~path.hf

Converts(path) == path \in Paths /\ ~path.hf /\ Format(path) = "distcp"

\* Faulty variant: the output is named after the checkpoint alone.
OutputByName(source, alias) ==
    IF alias = None THEN [source EXCEPT !.dir = CHOOSE d \in Dirs : TRUE, !.hf = TRUE]
                    ELSE [source EXCEPT !.name = alias]

\* _conversion_output_path: hf_<name> beside the checkpoint, or the name people chose.
Output(source, alias) ==
    IF alias = None THEN [source EXCEPT !.hf = TRUE] ELSE [source EXCEPT !.name = alias]

Plan(e) ==
    /\ job[e].at = "new"
    /\ \E ask \in Asks[e] :
           LET path == Resolved(ask.path)
           IN  job' = [job EXCEPT ![e] =
                   IF Converts(path)
                   THEN [@ EXCEPT !.at = "approved", !.path = Output(path, ask.alias),
                                  !.source = path, !.alias = ask.alias]
                   ELSE [@ EXCEPT !.at = "approved", !.path = path]]
    /\ UNCHANGED <<files, origin, lock, scripts, disturbed, bounds>>

-----------------------------------------------------------------------------
\* The executor.

Goto(e, at) == job' = [job EXCEPT ![e].at = at]

Begin(e, p) ==
    /\ job[e].at = "approved"
    /\ job' = [job EXCEPT ![e].at = IF job[e].source = None THEN "ready" ELSE "queued",
                          ![e].proc = p]
    /\ UNCHANGED <<files, origin, lock, scripts, disturbed, bounds>>

\* Faulty variant: no lock.
AcquireFreely(e) ==
    /\ job[e].at = "queued"
    /\ lock' = [lock EXCEPT ![job[e].proc] = e]
    /\ Goto(e, "testing")
    /\ UNCHANGED <<files, origin, scripts, disturbed, bounds>>

Acquire(e) ==
    /\ job[e].at = "queued" /\ lock[job[e].proc] = None
    /\ lock' = [lock EXCEPT ![job[e].proc] = e]
    /\ Goto(e, "testing")
    /\ UNCHANGED <<files, origin, scripts, disturbed, bounds>>

\* Another process, or a script that nobody waits for, has the output in hand.
InOtherHands(e) ==
    \E s \in scripts : /\ s.output = job[e].path
                       /\ s.of = None \/ job[s.of].proc # job[e].proc

\* Faulty variant: any output that is there is taken for a converted one.
ExistsAtAll(held) == held # {}

Exists(held) == Loadable \subseteq held

\* Faulty variant: the lock is kept by a conversion that fails.
ReleasedIfDone(e, next) ==
    /\ Goto(e, next)
    /\ lock' = IF next = "ready" THEN [lock EXCEPT ![job[e].proc] = None] ELSE lock

Released(e, next) ==
    /\ Goto(e, next)
    /\ lock' = [lock EXCEPT ![job[e].proc] = None]

\* The script: an output that can be loaded is taken as it is, another one is an
\* error, and none is made.
Test(e) ==
    LET held == files[job[e].path] IN
    /\ job[e].at = "testing"
    /\ \/ Exists(held) /\ Released(e, "ready") /\ UNCHANGED scripts
       \/ held # {} /\ ~Exists(held) /\ Released(e, "failed") /\ UNCHANGED scripts
       \/ /\ held = {}
          /\ scripts' = scripts \cup {[output |-> job[e].path, source |-> job[e].source,
                                       todo |-> Files, of |-> e]}
          /\ Goto(e, "converting") /\ UNCHANGED lock
    /\ disturbed' = IF InOtherHands(e) THEN disturbed \cup {job[e].path} ELSE disturbed
    /\ UNCHANGED <<files, origin, bounds>>

Copy(s) ==
    /\ \E f \in s.todo :
           /\ files' = [files EXCEPT ![s.output] = @ \cup {f}]
           /\ scripts' = (scripts \ {s}) \cup {[s EXCEPT !.todo = @ \ {f}]}
    /\ origin' = [origin EXCEPT ![s.output] = @ \cup {s.source}]
    /\ UNCHANGED <<job, lock, disturbed, bounds>>

Finish(s) ==
    /\ s.todo = {}
    /\ scripts' = scripts \ {s}
    /\ IF s.of = None THEN UNCHANGED <<job, lock>> ELSE Released(s.of, "ready")
    /\ UNCHANGED <<files, origin, disturbed, bounds>>

Trouble == troubles < MaxTroubles /\ troubles' = troubles + 1

Fail(s) ==
    /\ Trouble
    /\ scripts' = scripts \ {s}
    /\ IF s.of = None THEN UNCHANGED <<job, lock>> ELSE Released(s.of, "failed")
    /\ disturbed' = disturbed \cup {s.output}
    /\ UNCHANGED <<files, origin, retries>>

\* The scripts of some entries are on their own, or end with the connection.
Abandon(es) ==
    LET left == {s \in scripts : s.of \in es} IN
    /\ \E on \in SUBSET left :
           scripts' = (scripts \ left) \cup {[s EXCEPT !.of = None] : s \in on}
    /\ disturbed' = disturbed \cup {s.output : s \in left}

\* timeout_sec; before the script has tested what is there, also a broken ssh.
Timeout(e) ==
    /\ job[e].at \in Hands
    /\ Released(e, "failed")
    /\ Abandon({e})
    /\ UNCHANGED <<files, origin, bounds>>

\* _model_dir_probe_command: a directory with a configuration, or the one model below.
Probed(path) ==
    IF path \in Dirs THEN TheOnly(Below(path, Loadable))
    ELSE IF "config" \in files[path] THEN path ELSE None

Deploy(e) ==
    LET path == Probed(job[e].path) IN
    /\ job[e].at = "ready"
    /\ job' = [job EXCEPT ![e].at = IF path = None THEN "failed" ELSE "deployed",
                          ![e].path = IF path = None THEN @ ELSE path]
    /\ UNCHANGED <<files, origin, lock, scripts, disturbed, bounds>>

\* The operators retry with the same plan.
Retry(e) ==
    /\ job[e].at = "failed"
    /\ retries < MaxRetries /\ retries' = retries + 1
    /\ Goto(e, "approved")
    /\ UNCHANGED <<files, origin, lock, scripts, disturbed, troubles>>

\* The deployments of a process that dies fail.
Die(p) ==
    LET lost == {e \in Entries : job[e].proc = p
                                 /\ job[e].at \in Hands \cup {"queued", "ready"}} IN
    /\ lost # {} /\ Trouble
    /\ job' = [e \in Entries |-> IF e \in lost THEN [job[e] EXCEPT !.at = "failed"] ELSE job[e]]
    /\ lock' = [lock EXCEPT ![p] = None]
    /\ Abandon(lost)
    /\ UNCHANGED <<files, origin, retries>>

Step(e) ==
    \/ \E p \in Procs : Begin(e, p)
    \/ Plan(e) \/ Acquire(e) \/ Test(e) \/ Timeout(e) \/ Deploy(e)

Next ==
    \/ \E e \in Entries : Step(e) \/ Retry(e)
    \/ \E s \in scripts : Copy(s) \/ Finish(s) \/ Fail(s)
    \/ \E p \in Procs : Die(p)

Spec == Init /\ [][Next]_vars

\* The executors go on, and no conversion outlasts its time; a script may hang.
FairSpec == Spec /\ \A e \in Entries : WF_vars(Step(e))

-----------------------------------------------------------------------------
TypeOK ==
    /\ files \in [Paths -> SUBSET Files] /\ origin \in [Paths -> SUBSET Sources]
    /\ job \in [Entries -> [at : {"new", "approved", "queued", "ready"} \cup Hands \cup Ended,
                            path : Paths \cup Dirs \cup {None},
                            source : Sources \cup {None}, alias : Names \cup {None},
                            proc : Procs \cup {None}]]
    /\ lock \in [Procs -> Entries \cup {None}]
    /\ scripts \subseteq [output : Paths, source : Sources, todo : SUBSET Files,
                          of : Entries \cup {None}]
    /\ disturbed \subseteq Paths
    /\ retries \in 0..MaxRetries /\ troubles \in 0..MaxTroubles

\* A process waits for one conversion at a time, and a script that somebody waits
\* for is one of those.
OneConversionPerProcess ==
    /\ \A e \in Entries : job[e].at \in Hands => lock[job[e].proc] = e
    /\ \A s \in scripts : s.of # None => job[s.of].at = "converting"

LoadsConverted(e) ==
    job[e].at = "ready" /\ job'[e].at = "deployed" /\ job[e].source # None

\* A deployment of a conversion loads an output with a configuration and weights,
\* whatever ended early or was done twice, and a whole one if nothing disturbed it.
DeploysWhole ==
    [][\A e \in Entries : LoadsConverted(e) =>
           /\ Loadable \subseteq files[job[e].path]
           /\ job[e].path \notin disturbed => files[job[e].path] = Files]_vars

\* A deployment loads what was converted from its own checkpoint, unless people
\* chose the name of the output.
DeploysOwnWeights ==
    [][\A e \in Entries :
           LoadsConverted(e)
               /\ (\A f \in Entries : job[f].path = job[e].path => job[f].alias = None)
           => origin[job[e].path] = {job[e].source}]_vars

\* Each deployment ends, though scripts hang and conversions wait for each other.
EveryDeploymentEnds ==
    \A e \in Entries : job[e].at \in Hands \cup {"queued", "ready"} ~> job[e].at \in Ended
=============================================================================
