----------------------------- MODULE Deployment -----------------------------
(***************************************************************************)
(* Deployments on reusable workers (reusable_executor.py, _execute and the *)
(* document writes around it), with what they change and who else changes  *)
(* it: the deployed-models document, edited cell by cell through Feishu    *)
(* and by people; the vLLM processes; the people who test on the workers.  *)
(*                                                                         *)
(* A deployment is one review that the executor works on.  Deployments of  *)
(* one process share its two locks.  Every remote call is a step.          *)
(***************************************************************************)
EXTENDS WorkerRows, Sequences, SequencesExt

CONSTANTS
    RowIds,           \* rows of the table, as block ids
    FirstOrder,       \* the table at the start, top to bottom
    FirstRows,        \* and the contents of its rows
    Deployments,
    Processes,        \* the processes that run the executor
    ProcessOf,        \* whose thread a deployment is
    PlannedRow,       \* the row its stored plan was made for
    Target,           \* the model path of its plan; also names the model id
    Child,            \* the directory a path may resolve to on the worker
    Converts,         \* deployments whose plan has a weight conversion
    RowsMayGo,        \* people delete rows
    CarefulEditors,   \* people leave the table alone in the bot's windows
    RetryFrom,        \* ends of a deployment after which it is retried
    MaxEdits,         \* bound: edits by people
    MaxRetries,       \* bound: reviews executed once more
    MaxDeaths,        \* bound: process deaths
    MaxTroubles       \* bound: edits and deaths together

ASSUME DeploymentAssumption ==
    /\ RowIds # {} /\ FirstOrder \in Seq(RowIds) /\ IsInjective(FirstOrder)
    /\ FirstRows \in [RowIds -> RowType]
    /\ ProcessOf \in [Deployments -> Processes]
    /\ PlannedRow \in [Deployments -> ToSet(FirstOrder)]
    /\ Target \in [Deployments -> Names]
    /\ Child \in [Names -> Names]
    /\ Converts \subseteq Deployments
    /\ \A d \in Deployments : FirstRows[PlannedRow[d]].ip \in Workers
    /\ None \notin Deployments
    /\ RowsMayGo \in BOOLEAN /\ CarefulEditors \in BOOLEAN
    /\ RetryFrom \subseteq {"failed", "deployed"}
    /\ MaxEdits \in Nat /\ MaxRetries \in Nat /\ MaxDeaths \in Nat
    /\ MaxTroubles \in Nat

VARIABLES
    order,      \* the table, top to bottom
    row,        \* the contents of its rows
    vllm,       \* on each worker: nothing, or a process and whether it is up
    testing,    \* workers on which people run tests
    pc,         \* where each deployment is
    plan,       \* plan["row"]: position, IP and GPU count
    path,       \* plan["path"]: the worker path
    work,       \* the local variables ip, session and endpoint
    late,       \* the worker's directory is probed after the stop
    block,      \* the row whose cells it is writing
    cells,      \* the cells left to write, with their values
    converter,  \* holder of each process's _WEIGHT_CONVERSION_LOCK
    writer,     \* holder of each process's _DEPLOYED_DOC_WRITE_LOCK
    documented, \* outcome of the final document write
    edits, retries, deaths

sheet  == <<order, row>>
locks  == <<converter, writer>>
memory == <<plan, path, work, late, block, cells>>
bounds == <<edits, retries, deaths>>
vars   == <<sheet, vllm, testing, pc, memory, locks, documented, bounds>>

Idle == [of |-> None, up |-> FALSE]

\* Between the mark on the document and the end of _execute.
Hands == {"stop", "stopped", "launch", "wait"}
Ended == {"failed", "deployed"}
PCs   == {"start", "probe", "ready", "converting", "preflight", "mark",
          "marking_locked", "marking", "served", "final_locked", "final"}
         \cup Hands \cup Ended

CellWrites == [col : {"model", "id"}, val : Cells]
              \cup [col : {"ip"}, val : Workers \cup {None}]
              \cup [col : {"tested"}, val : SUBSET Tokens]
              \cup [col : {"reuse"}, val : BOOLEAN]

TypeOK ==
    /\ order \in Seq(RowIds)
    /\ row \in [RowIds -> RowType]
    /\ vllm \in [Workers -> {Idle} \cup [of : Names, up : BOOLEAN]]
    /\ testing \subseteq Workers
    /\ pc \in [Deployments -> PCs]
    /\ plan \in [Deployments -> [index : Nat, ip : Workers, gpus : Nat]]
    /\ path \in [Deployments -> Names]
    /\ work \in [Deployments -> Workers]
    /\ late \subseteq Deployments
    /\ block \in [Deployments -> RowIds]
    /\ cells \in [Deployments -> Seq(CellWrites)]
    /\ converter \in [Processes -> Deployments \cup {None}]
    /\ writer \in [Processes -> Deployments \cup {None}]
    /\ documented \in [Deployments -> {"no", "yes", "failed"}]
    /\ edits \in 0 .. MaxEdits
    /\ retries \in 0 .. MaxRetries
    /\ deaths \in 0 .. MaxDeaths

-----------------------------------------------------------------------------
(* The row of a plan                                                       *)

\* The table as get_doc_markdown and parse_deployed_models_table give it.
Table == [i \in DOMAIN order |-> row[order[i]]]

RowFor(i) == [index |-> i, ip |-> Table[i].ip, gpus |-> Table[i].gpus]

WithIp(ip) == {i \in DOMAIN order : Table[i].ip = ip}

\* Faulty variant: the row at the stored position, whatever it is about.
RowsByPosition(d) ==
    {i \in DOMAIN order : i = plan[d].index /\ Table[i].ip # None}

\* _refresh_plan_row_from_doc: the row at the stored position if it is still
\* that worker's, else the first row of that worker, else a reusable row of
\* any worker.  At most one.
LocatedRows(d) ==
    LET ip   == plan[d].ip
        here == WithIp(ip) \cap {plan[d].index}
    IN  IF here # {} THEN here
        ELSE IF WithIp(ip) # {}
             THEN {i \in WithIp(ip) : \A j \in WithIp(ip) : i <= j}
             ELSE Chosen(Table, {}, plan[d].gpus)

\* The worker's own row must still be safe; a replacement was just chosen.
Safe(d, i) == SafeForPlan(Table[i], path[d], Target[d])

Refreshed(d, i) == i \in LocatedRows(d) /\ Safe(d, i)

-----------------------------------------------------------------------------
Goto(d, l) == pc' = [pc EXCEPT ![d] = l]

\* An exception in _execute: deploy_failed.
Fail(d) ==
    /\ Goto(d, "failed")
    /\ UNCHANGED <<sheet, vllm, testing, memory, locks, documented, bounds>>

\* The first refresh, and the locals read from the plan after it.
Locate(d) ==
    /\ pc[d] = "start"
    /\ \E i \in DOMAIN order :
          /\ Refreshed(d, i)
          /\ plan' = [plan EXCEPT ![d] = RowFor(i)]
          /\ work' = [work EXCEPT ![d] = Table[i].ip]
          /\ Goto(d, IF AlreadyServes(Table[i], path[d], Target[d])
                     THEN "probe" ELSE "ready")
    /\ UNCHANGED <<sheet, vllm, testing, path, late, block, cells, locks,
                   documented, bounds>>

\* The row names the target already and the endpoint serves it.
ProbeServing(d) ==
    /\ pc[d] = "probe"
    /\ vllm[work[d]] = [of |-> Target[d], up |-> TRUE]
    /\ Goto(d, "served")
    /\ UNCHANGED <<sheet, vllm, testing, memory, locks, documented, bounds>>

\* It does not, or does not answer in time.
ProbeElse(d) ==
    /\ pc[d] = "probe"
    /\ Goto(d, "ready")
    /\ UNCHANGED <<sheet, vllm, testing, memory, locks, documented, bounds>>

StartConversion(d) ==
    /\ pc[d] = "ready" /\ d \in Converts
    /\ converter[ProcessOf[d]] = None
    /\ converter' = [converter EXCEPT ![ProcessOf[d]] = d]
    /\ Goto(d, "converting")
    /\ UNCHANGED <<sheet, vllm, testing, memory, writer, documented, bounds>>

NoConversion(d) ==
    /\ pc[d] = "ready" /\ d \notin Converts
    /\ Goto(d, "preflight")
    /\ UNCHANGED <<sheet, vllm, testing, memory, locks, documented, bounds>>

\* Faulty variant: the lock stays taken when the conversion raises.
EndConversionHeld(d) ==
    /\ pc[d] = "converting"
    /\ \/ /\ Goto(d, "preflight")
          /\ converter' = [converter EXCEPT ![ProcessOf[d]] = None]
       \/ /\ Goto(d, "failed")
          /\ UNCHANGED converter
    /\ UNCHANGED <<sheet, vllm, testing, memory, writer, documented, bounds>>

\* The conversion ends, or raises; the lock is released either way.
EndConversion(d) ==
    /\ pc[d] = "converting"
    /\ Goto(d, "preflight") \/ Goto(d, "failed")
    /\ converter' = [converter EXCEPT ![ProcessOf[d]] = None]
    /\ UNCHANGED <<sheet, vllm, testing, memory, writer, documented, bounds>>

\* The probe of the model directory: fine as given, or the one child to use.
Probed(d) == path' = path \/ path' = [path EXCEPT ![d] = Child[path[d]]]

\* _preflight, with direct ssh or, without it, the probe put off.
Preflight(d) ==
    /\ pc[d] = "preflight"
    /\ \/ Probed(d) /\ late' = late \ {d}
       \/ path' = path /\ late' = late \cup {d}
    /\ Goto(d, "mark")
    /\ UNCHANGED <<sheet, vllm, testing, plan, work, block, cells, locks,
                   documented, bounds>>

-----------------------------------------------------------------------------
(* Writing a row: _write_table_values and update_deployed_models_row       *)

Cell(c, v) == [col |-> c, val |-> v]

\* Faulty variant: the tested tasks are not cleared.
MarkValuesKeepTests(d) ==
    << Cell("model", Deploying(path[d])), Cell("id", Deploying(Target[d])),
       Cell("reuse", TRUE) >>

\* Faulty variant: the marker without the names.
MarkValuesNameless(d) ==
    << Cell("model", Deploying(None)), Cell("id", Deploying(None)),
       Cell("tested", {}), Cell("reuse", TRUE) >>

\* deploying_table_values.  The reuse flag is that of the row when the plan
\* was made for it, and it allowed reuse then.
MarkValues(d) ==
    << Cell("model", Deploying(path[d])), Cell("id", Deploying(Target[d])),
       Cell("tested", {}), Cell("reuse", TRUE) >>

\* final_table_values.  The address is that of the plan's row.
FinalValues(d) ==
    << Cell("model", Named(path[d])), Cell("id", Named(Target[d])),
       Cell("ip", plan[d].ip), Cell("tested", {}), Cell("reuse", TRUE) >>

\* The values are taken from the plan before the refresh replaces its row.
RefreshAndWrite(d, values, next) ==
    /\ \E i \in DOMAIN order :
          /\ Refreshed(d, i)
          /\ plan' = [plan EXCEPT ![d] = RowFor(i)]
    /\ cells' = [cells EXCEPT ![d] = values]
    /\ Goto(d, next)
    /\ UNCHANGED <<sheet, vllm, testing, path, work, late, block, locks,
                   documented, bounds>>

RefreshToMark(d) ==
    pc[d] = "mark" /\ RefreshAndWrite(d, MarkValues(d), "marking_locked")

RefreshToFinish(d) ==
    pc[d] = "served" /\ RefreshAndWrite(d, FinalValues(d), "final_locked")

\* Under the lock the table is found, and in it the row at that position.
FindRow(d) ==
    /\ pc[d] \in {"marking_locked", "final_locked"}
    /\ writer[ProcessOf[d]] = None
    /\ plan[d].index \in DOMAIN order
    /\ writer' = [writer EXCEPT ![ProcessOf[d]] = d]
    /\ block' = [block EXCEPT ![d] = order[plan[d].index]]
    /\ Goto(d, IF pc[d] = "final_locked" THEN "final" ELSE "marking")
    /\ UNCHANGED <<sheet, vllm, testing, plan, path, work, late, cells,
                   converter, documented, bounds>>

\* One cell is patched; after the last one the lock is released.
PatchCell(d) ==
    /\ pc[d] \in {"marking", "final"}
    /\ cells[d] # <<>>
    /\ block[d] \in ToSet(order)
    /\ row' = [row EXCEPT ![block[d]][Head(cells[d]).col] = Head(cells[d]).val]
    /\ cells' = [cells EXCEPT ![d] = Tail(@)]
    /\ UNCHANGED <<order, vllm, testing, pc, plan, path, work, late, block,
                   locks, documented, bounds>>

EndWrite(d) ==
    /\ pc[d] \in {"marking", "final"}
    /\ cells[d] = <<>>
    /\ writer' = [writer EXCEPT ![ProcessOf[d]] = None]
    /\ IF pc[d] = "marking"
       THEN Goto(d, "stop") /\ UNCHANGED documented
       ELSE /\ Goto(d, "deployed")
            /\ documented' = [documented EXCEPT ![d] = "yes"]
    /\ UNCHANGED <<sheet, vllm, testing, memory, converter, bounds>>

\* A refresh or a write raises (the wait for the lock does not): before the
\* stop the deployment fails, after it only the document does.
WriteFails(d) ==
    /\ \/ pc[d] \in {"mark", "marking", "served", "final"}
       \/ pc[d] \in {"marking_locked", "final_locked"}
          /\ writer[ProcessOf[d]] = None
    /\ writer' = [writer EXCEPT ![ProcessOf[d]] =
                     IF @ = d THEN None ELSE @]
    /\ cells' = [cells EXCEPT ![d] = <<>>]
    /\ IF pc[d] \in {"mark", "marking_locked", "marking"}
       THEN Goto(d, "failed") /\ UNCHANGED documented
       ELSE /\ Goto(d, "deployed")
            /\ documented' = [documented EXCEPT ![d] = "failed"]
    /\ UNCHANGED <<sheet, vllm, testing, plan, path, work, late, block,
                   converter, bounds>>

-----------------------------------------------------------------------------
(* The worker                                                              *)

\* Ctrl-C, then kill, until the endpoint is down and the GPUs are free.
Stop(d) ==
    /\ pc[d] = "stop"
    /\ vllm' = [vllm EXCEPT ![work[d]] = Idle]
    /\ Goto(d, "stopped")
    /\ UNCHANGED <<sheet, testing, memory, locks, documented, bounds>>

\* It gives up, having stopped the service or not.
StopFails(d) ==
    /\ pc[d] = "stop"
    /\ vllm' = vllm \/ vllm' = [vllm EXCEPT ![work[d]] = Idle]
    /\ Goto(d, "failed")
    /\ UNCHANGED <<sheet, testing, memory, locks, documented, bounds>>

\* The directory is probed now if it could not be before.
VerifyPath(d) ==
    /\ pc[d] = "stopped"
    /\ IF d \in late THEN Probed(d) ELSE path' = path
    /\ Goto(d, "launch")
    /\ UNCHANGED <<sheet, vllm, testing, plan, work, late, block, cells, locks,
                   documented, bounds>>

\* The command is typed into the pane; a busy pane does not run it.
Launch(d) ==
    /\ pc[d] = "launch"
    /\ vllm' = [vllm EXCEPT ![work[d]] =
                   IF @ = Idle THEN [of |-> Target[d], up |-> FALSE] ELSE @]
    /\ Goto(d, "wait")
    /\ UNCHANGED <<sheet, testing, memory, locks, documented, bounds>>

Served(d) ==
    /\ pc[d] = "wait"
    /\ vllm[work[d]] = [of |-> Target[d], up |-> TRUE]
    /\ Goto(d, "served")
    /\ UNCHANGED <<sheet, vllm, testing, memory, locks, documented, bounds>>

\* Any other exception: an unsafe row, a missing tmux session or directory,
\* a failed command, a wrong model, the timeout.
Raises(d) ==
    /\ pc[d] \in {"start", "probe", "preflight", "stopped", "launch", "wait"}
    /\ Fail(d)

Step(d) ==
    \/ Locate(d)
    \/ ProbeServing(d) \/ ProbeElse(d)
    \/ StartConversion(d) \/ NoConversion(d) \/ EndConversion(d)
    \/ Preflight(d)
    \/ RefreshToMark(d) \/ RefreshToFinish(d)
    \/ FindRow(d) \/ PatchCell(d) \/ EndWrite(d) \/ WriteFails(d)
    \/ Stop(d) \/ StopFails(d) \/ VerifyPath(d)
    \/ Launch(d) \/ Served(d)
    \/ Raises(d)

FirstPlan(d) ==
    [index |-> CHOOSE i \in DOMAIN FirstOrder : FirstOrder[i] = PlannedRow[d],
     ip    |-> FirstRows[PlannedRow[d]].ip,
     gpus  |-> FirstRows[PlannedRow[d]].gpus]

\* The review is executed again, with its stored plan.
Retry(d) ==
    /\ pc[d] \in RetryFrom
    /\ retries < MaxRetries
    /\ retries' = retries + 1
    /\ plan' = [plan EXCEPT ![d] = FirstPlan(d)]
    /\ path' = [path EXCEPT ![d] = Target[d]]
    /\ documented' = [documented EXCEPT ![d] = "no"]
    /\ Goto(d, "start")
    /\ UNCHANGED <<sheet, vllm, testing, work, late, block, cells, locks,
                   edits, deaths>>

\* A process dies with its threads and its locks.
Die(p) ==
    LET lost == {d \in Deployments : ProcessOf[d] = p /\ pc[d] \notin Ended}
    IN  /\ lost # {}
        /\ deaths < MaxDeaths /\ edits + deaths < MaxTroubles
        /\ deaths' = deaths + 1
        /\ pc' = [d \in Deployments |-> IF d \in lost THEN "failed" ELSE pc[d]]
        /\ cells' = [d \in Deployments |-> IF d \in lost THEN <<>> ELSE cells[d]]
        /\ converter' = [converter EXCEPT ![p] = None]
        /\ writer' = [writer EXCEPT ![p] = None]
        /\ UNCHANGED <<sheet, vllm, testing, plan, path, work, late, block,
                       documented, edits, retries>>

-----------------------------------------------------------------------------
(* The workers and the people                                              *)

ModelLoaded(w) ==
    /\ vllm[w] # Idle /\ ~vllm[w].up
    /\ vllm' = [vllm EXCEPT ![w].up = TRUE]
    /\ UNCHANGED <<sheet, testing, pc, memory, locks, documented, bounds>>

ModelDies(w) ==
    /\ vllm[w] # Idle
    /\ vllm' = [vllm EXCEPT ![w] = Idle]
    /\ UNCHANGED <<sheet, testing, pc, memory, locks, documented, bounds>>

\* A deployment has read the table and not yet written what it decided.
Window(d) == pc[d] \in {"marking_locked", "marking", "final_locked", "final"}

Edit ==
    /\ edits < MaxEdits /\ edits + deaths < MaxTroubles
    /\ edits' = edits + 1
    /\ CarefulEditors => \A d \in Deployments : ~Window(d)
    /\ UNCHANGED <<vllm, pc, memory, locks, documented, retries, deaths>>

\* Tests start on a row that names a model and is not being deployed.
BeginTests(r) ==
    /\ Edit
    /\ r \in ToSet(order)
    /\ row[r].model \in {Named(n) : n \in Names}
    /\ row[r].ip # None
    /\ row' = [row EXCEPT ![r].tested = @ \cup {"running"}]
    /\ testing' = testing \cup {row[r].ip}
    /\ UNCHANGED order

EndTests(r) ==
    /\ Edit
    /\ r \in ToSet(order)
    /\ row[r].ip \in testing
    /\ row' = [row EXCEPT ![r].tested = RequiredTasks]
    /\ testing' = testing \ {row[r].ip}
    /\ UNCHANGED order

\* A row is withheld from reuse, or offered again.
SetReuse(r) ==
    /\ Edit
    /\ r \in ToSet(order)
    /\ row' = [row EXCEPT ![r].reuse = ~@]
    /\ UNCHANGED <<order, testing>>

\* A row is moved to the top.
MoveUp(i) ==
    /\ Edit
    /\ order' = <<order[i]>> \o RemoveAt(order, i)
    /\ UNCHANGED <<row, testing>>

DeleteRow(i) ==
    /\ RowsMayGo
    /\ Edit
    /\ order' = RemoveAt(order, i)
    /\ UNCHANGED <<row, testing>>

Init ==
    /\ order = FirstOrder
    /\ row = FirstRows
    /\ vllm = [w \in Workers |->
                 IF \E r \in ToSet(FirstOrder) :
                        FirstRows[r].ip = w /\ FirstRows[r].id # Blank
                 THEN [of |-> FirstRows[CHOOSE r \in ToSet(FirstOrder) :
                                  FirstRows[r].ip = w /\ FirstRows[r].id # Blank].id.of,
                       up |-> TRUE]
                 ELSE Idle]
    /\ testing = {w \in Workers : \E r \in ToSet(FirstOrder) :
                     FirstRows[r].ip = w /\ "running" \in FirstRows[r].tested}
    /\ pc = [d \in Deployments |-> "start"]
    /\ plan = [d \in Deployments |-> FirstPlan(d)]
    /\ path = Target
    /\ work = [d \in Deployments |-> FirstPlan(d).ip]
    /\ late = {}
    /\ block = PlannedRow
    /\ cells = [d \in Deployments |-> <<>>]
    /\ converter = [p \in Processes |-> None]
    /\ writer = [p \in Processes |-> None]
    /\ documented = [d \in Deployments |-> "no"]
    /\ edits = 0 /\ retries = 0 /\ deaths = 0

Next ==
    \/ \E d \in Deployments : Step(d) \/ Retry(d)
    \/ \E p \in Processes : Die(p)
    \/ \E w \in Workers : ModelLoaded(w) \/ ModelDies(w)
    \/ \E r \in RowIds : BeginTests(r) \/ EndTests(r) \/ SetReuse(r)
    \/ \E i \in DOMAIN order : MoveUp(i) \/ DeleteRow(i)

Spec == Init /\ [][Next]_vars

(***************************************************************************)
(* Fairness: a thread goes on whenever it can.  Every remote command has a *)
(* timeout, and the locks are released on every way out.                   *)
(***************************************************************************)
FairSpec == Spec /\ \A d \in Deployments : WF_vars(Step(d))

-----------------------------------------------------------------------------
(* Properties                                                              *)

AllListed == \A d \in Deployments : PlannedRow[d] \in ToSet(order)

\* Two deployments, admitted to different workers, come to stop and start services on
\* one worker only after a row that one of them was planned for was deleted.
SeparateWorkers ==
    \A d, e \in Deployments :
        pc[d] \in Hands /\ pc[e] \in Hands /\ work[d] = work[e] /\ d # e => ~AllListed

\* The document lists the worker, and no row of it can be taken for reusable,
\* whatever its flag says.
Reserved(d) ==
    /\ \E r \in ToSet(order) : row[r].ip = work[d]
    /\ \A r \in ToSet(order) : row[r].ip = work[d] => ~ReusableState(row[r])

\* While a service is stopped, replaced and awaited, nobody who reads the
\* document would reuse its worker, unless people report finished tests there
\* that were running when it was stopped.
ReservedWhileReplaced ==
    [][\A d \in Deployments :
          /\ pc'[d] \in Hands
          /\ pc[d] \in Hands => Reserved(d)
          => Reserved(d)' \/ \E r \in RowIds : EndTests(r) /\ row[r].ip = work[d]]_vars

\* The two locks of a process are held by a thread inside their blocks and by
\* no one else: every way out of a block releases them, a death included.
LocksHeld ==
    \A d \in Deployments :
        /\ converter[ProcessOf[d]] = d <=> pc[d] = "converting"
        /\ writer[ProcessOf[d]] = d <=> pc[d] \in {"marking", "final"}

\* The row a finished deployment has to be written to is accepted by the last
\* refresh: the marker it wrote itself does not lock it out.
FinishedRowAccepted ==
    \A d \in Deployments : pc[d] = "served" =>
        \E i \in DOMAIN order : Refreshed(d, i)

\* A deployment writes only into the row of the worker it works on, wherever
\* in the table that row is by now.
WritesOwnRow ==
    [][\A d \in Deployments : PatchCell(d) => row[block[d]].ip = work[d]]_vars

\* No service is stopped on which people run tests.
NeverStopsTests ==
    [][\A d \in Deployments : Stop(d) => work[d] \notin testing]_vars

\* Only a deployment that is repeated after a death may do that, or one whose
\* row named its model already when it was planned.
OnlyRepeatsStopTests ==
    [][\A d \in Deployments : Stop(d) /\ work[d] \in testing =>
          \/ deaths > 0 /\ retries > 0
          \/ FirstRows[PlannedRow[d]].id.of = Target[d]]_vars

\* Every execution ends, deployed or failed.
EventuallyEnds ==
    \A d \in Deployments : (pc[d] = "start") ~> (pc[d] \in Ended)
=============================================================================
