----------------------------- MODULE WorkerRows -----------------------------
(***************************************************************************)
(* The rows of the deployed-models document (reusable_workers.py): when a  *)
(* row may be reused, and which one is chosen.                             *)
(*                                                                         *)
(* A cell of the columns model and model id is blank or names something,   *)
(* possibly with the marker of a deployment in progress.  The cell of the  *)
(* tested tasks is the set of its tokens, the markers (running) and        *)
(* (blocked) among them; a cell of whitespace is the empty set.            *)
(***************************************************************************)
EXTENDS Naturals, FiniteSets

CONSTANTS
    Names,            \* model paths and model ids
    Workers,          \* worker IPs
    RequiredTasks,    \* [reusable_workers].required_finished_tasks
    OtherTasks,       \* further words people write into the cell
    ReuseColumn,      \* the table has a column "reuse"
    None              \* no name, no IP

Marks  == {"running", "blocked"}
Tokens == RequiredTasks \cup OtherTasks \cup Marks

ASSUME RowsAssumption ==
    /\ None \notin Names \cup Workers
    /\ ReuseColumn \in BOOLEAN
    /\ (RequiredTasks \cup OtherTasks) \cap Marks = {}

Blank        == [of |-> None, deploying |-> FALSE]
Named(n)     == [of |-> n, deploying |-> FALSE]
Deploying(n) == [of |-> n, deploying |-> TRUE]
Cells        == {Blank} \cup [of : Names, deploying : BOOLEAN]

RowType == [ip : Workers \cup {None}, gpus : Nat, model : Cells, id : Cells,
            tested : SUBSET Tokens, reuse : BOOLEAN]

-----------------------------------------------------------------------------
HasModel(row)       == row.model # Blank \/ row.id # Blank
IsIdleEmpty(row)    == ~HasModel(row) /\ row.tested = {}
IsFreshUntested(row) == HasModel(row) /\ row.tested = {}
HasFinished(row)    == RequiredTasks \subseteq row.tested

\* Faulty variant: the markers are forgotten.
UnmarkedState(row) ==
    IsIdleEmpty(row) \/ (row.tested # {} /\ HasFinished(row))

\* is_reusable_worker_state: idle, or tested with everything required.
ReusableState(row) ==
    /\ row.tested \cap Marks = {}
    /\ \/ IsIdleEmpty(row)
       \/ row.tested # {} /\ HasFinished(row)

ReuseAllows(row) == ReuseColumn => row.reuse

IsReusable(row) == ReuseAllows(row) /\ ReusableState(row)

\* Faulty variant: a row that carries the deploying marker does not count.
ServesUnmarked(row, path, id) == row.model = Named(path) /\ row.id = Named(id)

\* _row_already_serves_model: the row names the target, marked or not.
AlreadyServes(row, path, id) == row.model.of = path /\ row.id.of = id

\* _current_row_safe_for_plan
SafeForPlan(row, path, id) == AlreadyServes(row, path, id) \/ IsReusable(row)

(***************************************************************************)
(* choose_reusable_row.  rows is the table, top to bottom.                 *)
(***************************************************************************)
Candidates(rows, excluded, gpus) ==
    {i \in DOMAIN rows \ excluded : /\ rows[i].ip # None
                                    /\ rows[i].gpus > 0
                                    /\ rows[i].gpus >= gpus
                                    /\ IsReusable(rows[i])}

\* The sort key: idle rows first, then the fewest GPUs, then the position.
Before(rows, i, j) ==
    IF IsIdleEmpty(rows[i]) # IsIdleEmpty(rows[j])
    THEN IsIdleEmpty(rows[i])
    ELSE \/ rows[i].gpus < rows[j].gpus
         \/ rows[i].gpus = rows[j].gpus /\ i < j

\* The first candidate, as the set of it (empty when there is none).
Chosen(rows, excluded, gpus) ==
    LET fit == Candidates(rows, excluded, gpus)
    IN  {i \in fit : \A j \in fit \ {i} : Before(rows, i, j)}
=============================================================================
