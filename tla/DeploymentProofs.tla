-------------------------- MODULE DeploymentProofs --------------------------
(***************************************************************************)
(* Theorems about Deployment, for every table, every set of deployments    *)
(* and processes, and any number of edits, retries and deaths: its types,  *)
(* its locks, and, where people are careful and delete no rows, that each  *)
(* deployment keeps to its row and its worker (KeepsHome).  Where besides  *)
(* a worker has one row and one deployment: the row of a service that is   *)
(* replaced carries the marker (AllMarked) and cannot be taken for         *)
(* reusable, the last refresh accepts it (NamesTarget), and nothing but a  *)
(* repeated execution stops a service that people test (Quiet).            *)
(***************************************************************************)
EXTENDS Deployment, SequenceTheorems, WellFoundedInduction, TLAPS

USE DEF Hands, Ended, PCs

-----------------------------------------------------------------------------
(* The table                                                               *)

\* Removing a position from a table leaves rows of it, in a sequence.
LEMMA RemoveAtType ==
    ASSUME NEW S, NEW s \in Seq(S), NEW i \in DOMAIN s
    PROVE  RemoveAt(s, i) \in Seq(S)
  <1>1. i \in 1 .. Len(s) /\ Len(s) \in Nat
    BY LenProperties
  <1>2. \A j \in 1 .. Len(s) : s[j] \in S
    BY ElementOfSeq
  <1>3. SubSeq(s, 1, i - 1) \in Seq(S)
    BY <1>1, <1>2, SubSeqProperties
  <1>4. SubSeq(s, i + 1, Len(s)) \in Seq(S)
    BY <1>1, <1>2, SubSeqProperties
  <1>5. QED
    BY <1>3, <1>4, ConcatProperties DEF RemoveAt

\* Neither deleting a row nor moving one up adds a row.
LEMMA NoRowAdded ==
    ASSUME NEW S, NEW s \in Seq(S), NEW i \in DOMAIN s
    PROVE  /\ \A k \in DOMAIN RemoveAt(s, i) :
                 \E j \in DOMAIN s : s[j] = RemoveAt(s, i)[k]
           /\ \A k \in DOMAIN (<<s[i]>> \o RemoveAt(s, i)) :
                 \E j \in DOMAIN s : s[j] = (<<s[i]>> \o RemoveAt(s, i))[k]
  <1> DEFINE T == {s[j] : j \in DOMAIN s}
  <1>1. s \in Seq(T) /\ s[i] \in T
    BY LenProperties, ElementOfSeq
  <1>2. RemoveAt(s, i) \in Seq(T)
    BY <1>1, RemoveAtType
  <1>3. <<s[i]>> \o RemoveAt(s, i) \in Seq(T)
    BY <1>1, <1>2, ConcatProperties
  <1>4. QED
    BY <1>2, <1>3, LenProperties, ElementOfSeq

\* Moving a row up neither loses a row nor adds one.
LEMMA MovedUp ==
    ASSUME NEW S, NEW s \in Seq(S), NEW i \in DOMAIN s
    PROVE  /\ <<s[i]>> \o RemoveAt(s, i) \in Seq(S)
           /\ \A j \in DOMAIN s :
                 \E k \in DOMAIN (<<s[i]>> \o RemoveAt(s, i)) :
                     (<<s[i]>> \o RemoveAt(s, i))[k] = s[j]
  <1> DEFINE before == SubSeq(s, 1, i - 1)
             after  == SubSeq(s, i + 1, Len(s))
             top    == <<s[i]>>
             moved  == top \o RemoveAt(s, i)
  <1>1. i \in 1 .. Len(s) /\ Len(s) \in Nat /\ DOMAIN s = 1 .. Len(s)
    BY LenProperties
  <1>2. \A j \in 1 .. Len(s) : s[j] \in S
    BY ElementOfSeq
  <1>3. /\ before \in Seq(S) /\ Len(before) = i - 1
        /\ \A j \in 1 .. i - 1 : before[j] = s[j]
    <2>1. \A j \in 1 .. i - 1 : s[j] \in S
      BY <1>1, <1>2
    <2>2. QED
      BY <1>1, <2>1, SubSeqProperties
  <1>4. /\ after \in Seq(S) /\ Len(after) = Len(s) - i
        /\ \A j \in 1 .. Len(s) - i : after[j] = s[i + j]
    <2>1. \A j \in i + 1 .. Len(s) : s[j] \in S
      BY <1>1, <1>2
    <2>2. /\ after \in Seq(S)
          /\ Len(after) = IF i + 1 <= Len(s) THEN Len(s) - (i + 1) + 1 ELSE 0
          /\ \A j \in 1 .. Len(s) - (i + 1) + 1 : after[j] = s[(i + 1) + j - 1]
      BY <1>1, <2>1, SubSeqProperties
    <2>3. QED
      BY <1>1, <2>2, SMTT(30)
  <1>5. top \in Seq(S) /\ Len(top) = 1 /\ top[1] = s[i]
    BY <1>1, <1>2
  <1>6. /\ RemoveAt(s, i) \in Seq(S)
        /\ Len(RemoveAt(s, i)) = Len(before) + Len(after)
        /\ \A j \in 1 .. Len(before) + Len(after) : RemoveAt(s, i)[j] =
              IF j <= Len(before) THEN before[j] ELSE after[j - Len(before)]
    BY <1>3, <1>4, ConcatProperties DEF RemoveAt
  <1>7. /\ moved \in Seq(S)
        /\ Len(moved) = 1 + Len(RemoveAt(s, i))
        /\ \A j \in 1 .. 1 + Len(RemoveAt(s, i)) :
              moved[j] = IF j <= 1 THEN top[j] ELSE RemoveAt(s, i)[j - 1]
    BY <1>5, <1>6, ConcatProperties
  <1> HIDE DEF before, after, top, moved
  <1>8. Len(RemoveAt(s, i)) = Len(s) - 1
    BY <1>1, <1>3, <1>4, <1>6
  <1>9. Len(moved) = Len(s)
    BY <1>1, <1>7, <1>8
  <1>10. Len(moved) = Len(s) /\ DOMAIN moved = 1 .. Len(s)
    BY <1>7, <1>9, LenProperties
  <1>11. \A j \in 2 .. Len(s) : moved[j] = RemoveAt(s, i)[j - 1]
    <2>1. \A j \in 2 .. Len(s) : j \in 1 .. 1 + Len(RemoveAt(s, i)) /\ ~(j <= 1)
      BY <1>1, <1>8
    <2>2. QED
      BY <1>7, <2>1
  <1>12. \A j \in 1 .. i - 1 : RemoveAt(s, i)[j] = s[j]
    BY <1>1, <1>3, <1>4, <1>6, SMTT(30)
  <1>13. \A j \in i .. Len(s) - 1 : RemoveAt(s, i)[j] = s[j + 1]
    <2>1. ASSUME NEW j \in i .. Len(s) - 1
          PROVE  RemoveAt(s, i)[j] = s[j + 1]
      <3>1. j \in 1 .. Len(before) + Len(after) /\ ~(j <= Len(before))
        BY <1>1, <1>3, <1>4
      <3>2. RemoveAt(s, i)[j] = after[j - Len(before)]
        BY <1>6, <3>1
      <3>3. j - Len(before) = j - i + 1 /\ j - i + 1 \in 1 .. Len(s) - i
        BY <1>1, <1>3
      <3>4. after[j - i + 1] = s[i + (j - i + 1)] /\ i + (j - i + 1) = j + 1
        BY <1>1, <1>4, <3>3
      <3>5. QED
        BY <3>2, <3>3, <3>4
    <2>2. QED
      BY <2>1
  <1>14. ASSUME NEW j \in 1 .. Len(s)
        PROVE  \E k \in 1 .. Len(s) : moved[k] = s[j]
    <2>1. CASE j = i
      <3>1. moved[1] = s[j] /\ 1 \in 1 .. Len(s)
        BY <1>1, <1>5, <1>7, <1>10, <2>1
      <3>2. QED
        BY <3>1
    <2>2. CASE j < i
      <3>1. j + 1 \in 2 .. Len(s) /\ (j + 1) - 1 = j /\ j \in 1 .. i - 1
        BY <1>1, <2>2
      <3>2. moved[j + 1] = RemoveAt(s, i)[j]
        BY <1>11, <3>1
      <3>3. QED
        BY <1>12, <3>1, <3>2
    <2>3. CASE j > i
      <3>1. j \in 2 .. Len(s) /\ j - 1 \in i .. Len(s) - 1 /\ (j - 1) + 1 = j
        BY <1>1, <2>3
      <3>2. moved[j] = RemoveAt(s, i)[j - 1]
        BY <1>11, <3>1
      <3>3. QED
        BY <1>13, <3>1, <3>2
    <2>4. QED
      BY <1>1, <2>1, <2>2, <2>3
  <1>15. QED
    BY <1>1, <1>7, <1>10, <1>14 DEF moved, top
-----------------------------------------------------------------------------
(* Types                                                                   *)

\* A row that a refresh accepts is a row of the table, with a worker.
LEMMA LocatedType ==
    ASSUME TypeOK, NEW d \in Deployments, NEW i \in LocatedRows(d)
    PROVE  /\ i \in DOMAIN order /\ i \in Nat
           /\ order[i] \in RowIds /\ Table[i] = row[order[i]]
           /\ Table[i] \in RowType /\ Table[i].ip \in Workers
  <1>1. DOMAIN order = 1 .. Len(order) /\ Len(order) \in Nat
    BY LenProperties DEF TypeOK
  <1>2. plan[d].ip \in Workers
    BY DEF TypeOK
  <1>3. i \in DOMAIN order
    BY DEF LocatedRows, WithIp, Chosen, Candidates, Table
  <1>4. order[i] \in RowIds /\ Table[i] = row[order[i]] /\ Table[i] \in RowType
    BY <1>1, <1>3, ElementOfSeq DEF TypeOK, Table
  <1>5. Table[i].ip = plan[d].ip \/ Table[i].ip # None
    BY DEF LocatedRows, WithIp, Chosen, Candidates
  <1>6. Table[i].ip \in Workers \cup {None}
    BY <1>4 DEF RowType
  <1>7. QED
    BY <1>1, <1>2, <1>3, <1>4, <1>5, <1>6

\* The plan that a refresh makes has the type of a plan.
LEMMA RowForType ==
    ASSUME TypeOK, NEW d \in Deployments, NEW i \in LocatedRows(d)
    PROVE  RowFor(i) \in [index : Nat, ip : Workers, gpus : Nat]
  BY LocatedType DEF RowFor, RowType

\* The first plan has the type of a plan.
LEMMA FirstPlanType ==
    ASSUME NEW d \in Deployments
    PROVE  FirstPlan(d) \in [index : Nat, ip : Workers, gpus : Nat]
  <1>1. PlannedRow[d] \in ToSet(FirstOrder) /\ FirstOrder \in Seq(RowIds)
    BY DeploymentAssumption
  <1>2. \E i \in DOMAIN FirstOrder : FirstOrder[i] = PlannedRow[d]
    BY <1>1 DEF ToSet
  <1>3. DOMAIN FirstOrder = 1 .. Len(FirstOrder) /\ Len(FirstOrder) \in Nat
    BY <1>1, LenProperties
  <1>4. FirstPlan(d).index \in DOMAIN FirstOrder
    BY <1>2 DEF FirstPlan
  <1>5. PlannedRow[d] \in RowIds
    BY <1>1, <1>2, ElementOfSeq, <1>3
  <1>6. FirstRows[PlannedRow[d]] \in RowType
    BY <1>5, DeploymentAssumption
  <1>7. FirstPlan(d).index \in Nat
    BY <1>3, <1>4
  <1>8. QED
    BY <1>6, <1>7, DeploymentAssumption DEF FirstPlan, RowType

\* Four, or five, elements make a sequence.
LEMMA FourFive ==
    ASSUME NEW S, NEW a \in S, NEW b \in S, NEW c \in S, NEW e \in S, NEW f \in S
    PROVE  <<a, b, c, e>> \in Seq(S) /\ <<a, b, c, e, f>> \in Seq(S)
  OBVIOUS

\* The values of a write are values for their columns.
LEMMA ValuesType ==
    ASSUME TypeOK, NEW d \in Deployments
    PROVE  MarkValues(d) \in Seq(CellWrites) /\ FinalValues(d) \in Seq(CellWrites)
  <1>1. path[d] \in Names /\ Target[d] \in Names /\ plan[d].ip \in Workers
    BY DeploymentAssumption DEF TypeOK
  <1>2. \A n \in Names : Deploying(n) \in Cells /\ Named(n) \in Cells
    BY DEF Deploying, Named, Cells
  <1>3. /\ Cell("model", Deploying(path[d])) \in CellWrites
        /\ Cell("id", Deploying(Target[d])) \in CellWrites
        /\ Cell("model", Named(path[d])) \in CellWrites
        /\ Cell("id", Named(Target[d])) \in CellWrites
    BY <1>1, <1>2 DEF Cell, CellWrites
  <1>4. Cell("ip", plan[d].ip) \in CellWrites
    BY <1>1 DEF Cell, CellWrites
  <1>5. Cell("tested", {}) \in CellWrites
    BY DEF Cell, CellWrites
  <1>6. Cell("reuse", TRUE) \in CellWrites
    BY DEF Cell, CellWrites
  <1>7. MarkValues(d) \in Seq(CellWrites)
    BY <1>3, <1>5, <1>6, FourFive DEF MarkValues
  <1>8. FinalValues(d) \in Seq(CellWrites)
    BY <1>3, <1>4, <1>5, <1>6, FourFive DEF FinalValues
  <1>9. QED
    BY <1>7, <1>8

\* A patched row is a row.
LEMMA PatchType ==
    ASSUME NEW r \in RowType, NEW c \in CellWrites
    PROVE  /\ [r EXCEPT ![c.col] = c.val] \in RowType
           /\ [r EXCEPT ![c.col] = c.val].ip = IF c.col = "ip" THEN c.val ELSE r.ip
  <1>1. CASE c \in [col : {"model", "id"}, val : Cells]
    BY <1>1 DEF RowType
  <1>2. CASE c \in [col : {"ip"}, val : Workers \cup {None}]
    BY <1>2 DEF RowType
  <1>3. CASE c \in [col : {"tested"}, val : SUBSET Tokens]
    BY <1>3 DEF RowType
  <1>4. CASE c \in [col : {"reuse"}, val : BOOLEAN]
    BY <1>4 DEF RowType
  <1>5. QED
    BY <1>1, <1>2, <1>3, <1>4 DEF CellWrites

\* The initial states are typed.
LEMMA InitType == Init => TypeOK
  <1> SUFFICES ASSUME Init PROVE TypeOK
    OBVIOUS
  <1> USE DeploymentAssumption, RowsAssumption
  <1>1. /\ order \in Seq(RowIds) /\ row \in [RowIds -> RowType]
        /\ pc \in [Deployments -> PCs] /\ path \in [Deployments -> Names]
        /\ late \subseteq Deployments /\ testing \subseteq Workers
        /\ cells \in [Deployments -> Seq(CellWrites)]
        /\ converter \in [Processes -> Deployments \cup {None}]
        /\ writer \in [Processes -> Deployments \cup {None}]
        /\ documented \in [Deployments -> {"no", "yes", "failed"}]
        /\ edits \in 0 .. MaxEdits /\ retries \in 0 .. MaxRetries
        /\ deaths \in 0 .. MaxDeaths
    BY DEF Init
  <1>2. /\ plan \in [Deployments -> [index : Nat, ip : Workers, gpus : Nat]]
        /\ work \in [Deployments -> Workers]
    <2>1. \A d \in Deployments :
             /\ FirstPlan(d) \in [index : Nat, ip : Workers, gpus : Nat]
             /\ FirstPlan(d).ip \in Workers
      BY FirstPlanType
    <2>2. QED
      BY <2>1 DEF Init
  <1>3. \A r \in ToSet(FirstOrder) : r \in RowIds
    BY LenProperties, ElementOfSeq DEF ToSet
  <1>4. block \in [Deployments -> RowIds]
    BY <1>3 DEF Init
  <1>5. vllm \in [Workers -> {Idle} \cup [of : Names, up : BOOLEAN]]
    <2>1. ASSUME NEW w \in Workers,
                 \E r \in ToSet(FirstOrder) :
                     FirstRows[r].ip = w /\ FirstRows[r].id # Blank
          PROVE  FirstRows[CHOOSE r \in ToSet(FirstOrder) :
                     FirstRows[r].ip = w /\ FirstRows[r].id # Blank].id.of \in Names
      <3> DEFINE r == CHOOSE q \in ToSet(FirstOrder) :
                         FirstRows[q].ip = w /\ FirstRows[q].id # Blank
      <3>1. r \in ToSet(FirstOrder) /\ FirstRows[r].id # Blank
        BY <2>1
      <3> HIDE DEF r
      <3>2. FirstRows[r].id \in Cells
        BY <1>3, <3>1 DEF RowType
      <3>3. FirstRows[r].id.of \in Names
        BY <3>1, <3>2 DEF Cells
      <3>4. QED
        BY <3>3 DEF r
    <2>2. QED
      BY <2>1 DEF Init
  <1>6. QED
    BY <1>1, <1>2, <1>4, <1>5 DEF TypeOK

\* A thread that goes to a place is at a place.
LEMMA GotoType ==
    ASSUME pc \in [Deployments -> PCs], NEW d \in Deployments, NEW l \in PCs,
           pc' = [pc EXCEPT ![d] = l]
    PROVE  pc' \in [Deployments -> PCs]
  OBVIOUS

\* A step of a deployment keeps the types.
LEMMA StepType ==
    ASSUME TypeOK, NEW d \in Deployments, Step(d)
    PROVE  TypeOK'
  <1> USE DeploymentAssumption, RowsAssumption
      DEF sheet, locks, memory, bounds, Goto, Fail
  <1>0. pc \in [Deployments -> PCs] /\ path \in [Deployments -> Names]
    BY DEF TypeOK
  <1>1. CASE Locate(d)
    <2>1. PICK i \in LocatedRows(d) :
             /\ plan' = [plan EXCEPT ![d] = RowFor(i)]
             /\ work' = [work EXCEPT ![d] = Table[i].ip]
             /\ pc' = [pc EXCEPT ![d] = IF AlreadyServes(Table[i], path[d], Target[d])
                                        THEN "probe" ELSE "ready"]
      BY <1>1 DEF Locate, Refreshed
    <2>2. /\ RowFor(i) \in [index : Nat, ip : Workers, gpus : Nat]
          /\ Table[i].ip \in Workers
      BY LocatedType, RowForType
    <2>3. QED
      BY <1>1, <2>1, <2>2 DEF TypeOK, Locate
  <1>2. CASE ProbeServing(d) \/ ProbeElse(d) \/ NoConversion(d) \/ Served(d) \/ Raises(d)
    <2>1. PICK l \in PCs : pc' = [pc EXCEPT ![d] = l]
      BY <1>2 DEF ProbeServing, ProbeElse, NoConversion, Served, Raises
    <2>2. UNCHANGED <<sheet, vllm, testing, memory, locks, documented, bounds>>
      BY <1>2 DEF ProbeServing, ProbeElse, NoConversion, Served, Raises
    <2>3. QED
      BY <1>0, <2>1, <2>2, GotoType DEF TypeOK
  <1>3. CASE StartConversion(d) \/ EndConversion(d)
    <2>1. ProcessOf[d] \in Processes
      OBVIOUS
    <2>2. PICK l \in PCs : pc' = [pc EXCEPT ![d] = l]
      BY <1>3 DEF StartConversion, EndConversion
    <2>3. converter' \in [Processes -> Deployments \cup {None}]
      <3>1. converter \in [Processes -> Deployments \cup {None}]
        BY DEF TypeOK
      <3>2. \/ converter' = [converter EXCEPT ![ProcessOf[d]] = d]
            \/ converter' = [converter EXCEPT ![ProcessOf[d]] = None]
        BY <1>3 DEF StartConversion, EndConversion
      <3>3. QED
        BY <2>1, <3>1, <3>2
    <2>4. UNCHANGED <<sheet, vllm, testing, memory, writer, documented, bounds>>
      BY <1>3 DEF StartConversion, EndConversion
    <2>5. QED
      BY <1>0, <2>2, <2>3, <2>4, GotoType DEF TypeOK
  <1>4. CASE Preflight(d) \/ VerifyPath(d)
    <2>1. Child[path[d]] \in Names
      BY DEF TypeOK
    <2>2. path' \in [Deployments -> Names]
      <3>1. path' = path \/ path' = [path EXCEPT ![d] = Child[path[d]]]
        BY <1>4 DEF Preflight, VerifyPath, Probed
      <3>2. QED
        BY <1>0, <2>1, <3>1
    <2>3. late' \subseteq Deployments
      BY <1>4 DEF TypeOK, Preflight, VerifyPath
    <2>4. PICK l \in PCs : pc' = [pc EXCEPT ![d] = l]
      BY <1>4 DEF Preflight, VerifyPath
    <2>5. UNCHANGED <<sheet, vllm, testing, plan, work, block, cells, locks,
                      documented, bounds>>
      BY <1>4 DEF Preflight, VerifyPath
    <2>6. QED
      BY <1>0, <2>2, <2>3, <2>4, <2>5, GotoType DEF TypeOK
  <1>5. CASE RefreshToMark(d) \/ RefreshToFinish(d)
    <2>1. PICK values \in Seq(CellWrites), next \in PCs : RefreshAndWrite(d, values, next)
      BY <1>5, ValuesType DEF RefreshToMark, RefreshToFinish
    <2>2. PICK i \in LocatedRows(d) : plan' = [plan EXCEPT ![d] = RowFor(i)]
      BY <2>1 DEF RefreshAndWrite, Refreshed
    <2>3. RowFor(i) \in [index : Nat, ip : Workers, gpus : Nat]
      BY RowForType
    <2>4. QED
      BY <2>1, <2>2, <2>3 DEF TypeOK, RefreshAndWrite
  <1>6. CASE FindRow(d)
    <2>1. order[plan[d].index] \in RowIds
      BY <1>6, LenProperties, ElementOfSeq DEF TypeOK, FindRow
    <2>2. QED
      BY <1>6, <2>1 DEF TypeOK, FindRow
  <1>7. CASE PatchCell(d)
    <2>1. /\ Head(cells[d]) \in CellWrites /\ Tail(cells[d]) \in Seq(CellWrites)
          /\ block[d] \in RowIds
      BY <1>7, HeadTailProperties DEF TypeOK, PatchCell
    <2>2. [row[block[d]] EXCEPT ![Head(cells[d]).col] = Head(cells[d]).val] \in RowType
      BY <2>1, PatchType DEF TypeOK
    <2>3. row' = [row EXCEPT ![block[d]] =
                     [row[block[d]] EXCEPT ![Head(cells[d]).col] = Head(cells[d]).val]]
      BY <1>7 DEF PatchCell
    <2>4. row' \in [RowIds -> RowType]
      BY <2>1, <2>2, <2>3 DEF TypeOK
    <2>5. QED
      BY <1>7, <2>1, <2>4 DEF TypeOK, PatchCell
  <1>8. CASE EndWrite(d)
    <2>1. /\ \E l \in PCs : pc' = [pc EXCEPT ![d] = l]
          /\ writer' = [writer EXCEPT ![ProcessOf[d]] = None]
          /\ documented' = documented \/ documented' = [documented EXCEPT ![d] = "yes"]
          /\ UNCHANGED <<sheet, vllm, testing, memory, converter, bounds>>
      BY <1>8 DEF EndWrite
    <2>2. writer' \in [Processes -> Deployments \cup {None}]
      BY <2>1 DEF TypeOK
    <2>3. documented' \in [Deployments -> {"no", "yes", "failed"}]
      BY <2>1 DEF TypeOK
    <2>4. QED
      BY <1>0, <2>1, <2>2, <2>3, GotoType DEF TypeOK
  <1>9. CASE WriteFails(d)
    <2>1. <<>> \in Seq(CellWrites)
      OBVIOUS
    <2>2. /\ \E l \in PCs : pc' = [pc EXCEPT ![d] = l]
          /\ writer' = [writer EXCEPT ![ProcessOf[d]] = IF @ = d THEN None ELSE @]
          /\ cells' = [cells EXCEPT ![d] = <<>>]
          /\ documented' = documented \/ documented' = [documented EXCEPT ![d] = "failed"]
          /\ UNCHANGED <<sheet, vllm, testing, plan, path, work, late, block,
                         converter, bounds>>
      BY <1>9 DEF WriteFails
    <2>3. writer' \in [Processes -> Deployments \cup {None}]
      BY <2>2 DEF TypeOK
    <2>4. /\ documented' \in [Deployments -> {"no", "yes", "failed"}]
          /\ cells' \in [Deployments -> Seq(CellWrites)]
      BY <2>1, <2>2 DEF TypeOK
    <2>5. QED
      BY <1>0, <2>2, <2>3, <2>4, GotoType DEF TypeOK
  <1>10. CASE Stop(d) \/ StopFails(d) \/ Launch(d)
    <2>1. PICK l \in PCs : pc' = [pc EXCEPT ![d] = l]
      BY <1>10 DEF Stop, StopFails, Launch
    <2>2. [of |-> Target[d], up |-> FALSE] \in [of : Names, up : BOOLEAN]
      OBVIOUS
    <2>3. vllm' \in [Workers -> {Idle} \cup [of : Names, up : BOOLEAN]]
      <3>1. CASE Stop(d) \/ StopFails(d)
        BY <3>1 DEF TypeOK, Stop, StopFails
      <3>2. CASE Launch(d)
        BY <3>2, <2>2 DEF TypeOK, Launch
      <3>3. QED
        BY <1>10, <3>1, <3>2
    <2>4. UNCHANGED <<sheet, testing, memory, locks, documented, bounds>>
      BY <1>10 DEF Stop, StopFails, Launch
    <2>5. QED
      BY <1>0, <2>1, <2>3, <2>4, GotoType DEF TypeOK
  <1>11. QED
    BY <1>1, <1>2, <1>3, <1>4, <1>5, <1>6, <1>7, <1>8, <1>9, <1>10 DEF Step

\* Retries, deaths, services and people keep the types.
LEMMA OtherType ==
    ASSUME TypeOK, Next, \A d \in Deployments : ~Step(d)
    PROVE  TypeOK'
  <1> USE DeploymentAssumption, RowsAssumption
      DEF sheet, locks, memory, bounds, Goto
  <1>1. ASSUME NEW d \in Deployments, Retry(d)
        PROVE  TypeOK'
    BY <1>1, FirstPlanType, SMTT(30) DEF TypeOK, Retry
  <1>2. ASSUME NEW p \in Processes, Die(p)
        PROVE  TypeOK'
    <2>1. <<>> \in Seq(CellWrites)
      OBVIOUS
    <2>2. /\ pc' \in [Deployments -> PCs]
          /\ cells' \in [Deployments -> Seq(CellWrites)]
      BY <1>2, <2>1 DEF TypeOK, Die
    <2>3. QED
      BY <1>2, <2>2 DEF TypeOK, Die
  <1>3. ASSUME NEW w \in Workers, ModelLoaded(w) \/ ModelDies(w)
        PROVE  TypeOK'
    <2>1. CASE ModelLoaded(w)
      <3>1. vllm[w] \in [of : Names, up : BOOLEAN]
        BY <2>1 DEF TypeOK, ModelLoaded
      <3>2. [vllm[w] EXCEPT !.up = TRUE] \in [of : Names, up : BOOLEAN]
        BY <3>1
      <3>3. vllm' \in [Workers -> {Idle} \cup [of : Names, up : BOOLEAN]]
        BY <2>1, <3>2 DEF TypeOK, ModelLoaded
      <3>4. UNCHANGED <<sheet, testing, pc, memory, locks, documented, bounds>>
        BY <2>1 DEF ModelLoaded
      <3>5. QED
        BY <3>3, <3>4 DEF TypeOK
    <2>2. CASE ModelDies(w)
      BY <2>2 DEF TypeOK, ModelDies
    <2>3. QED
      BY <1>3, <2>1, <2>2
  <1>4. ASSUME NEW r \in RowIds, BeginTests(r) \/ EndTests(r) \/ SetReuse(r)
        PROVE  TypeOK'
    <2>1. row[r] \in RowType
      BY DEF TypeOK
    <2>2. /\ [row[r] EXCEPT !.tested = @ \cup {"running"}] \in RowType
          /\ [row[r] EXCEPT !.tested = RequiredTasks] \in RowType
          /\ [row[r] EXCEPT !.reuse = ~@] \in RowType
      BY <2>1 DEF RowType, Tokens, Marks
    <2>3. row' \in [RowIds -> RowType]
      <3>1. PICK v \in RowType : row' = [row EXCEPT ![r] = v]
        <4>1. CASE BeginTests(r)
          BY <2>2, <4>1 DEF BeginTests
        <4>2. CASE EndTests(r)
          BY <2>2, <4>2 DEF EndTests
        <4>3. CASE SetReuse(r)
          BY <2>2, <4>3 DEF SetReuse
        <4>4. QED
          BY <1>4, <4>1, <4>2, <4>3
      <3>2. QED
        BY <3>1 DEF TypeOK
    <2>4. row[r].ip \in Workers \cup {None}
      BY <2>1 DEF RowType
    <2>5. testing' \subseteq Workers
      BY <1>4, <2>4 DEF TypeOK, BeginTests, EndTests, SetReuse
    <2>6. /\ edits' \in 0 .. MaxEdits
          /\ UNCHANGED <<order, vllm, pc, memory, locks, documented, retries, deaths>>
      BY <1>4 DEF TypeOK, BeginTests, EndTests, SetReuse, Edit
    <2>7. QED
      BY <2>3, <2>5, <2>6 DEF TypeOK
  <1>5. ASSUME NEW i \in DOMAIN order, MoveUp(i) \/ DeleteRow(i)
        PROVE  TypeOK'
    <2>1. order' \in Seq(RowIds)
      <3>1. order \in Seq(RowIds)
        BY DEF TypeOK
      <3>2. /\ <<order[i]>> \o RemoveAt(order, i) \in Seq(RowIds)
            /\ RemoveAt(order, i) \in Seq(RowIds)
        BY <3>1, MovedUp, RemoveAtType
      <3>3. QED
        BY <1>5, <3>2 DEF MoveUp, DeleteRow
    <2>2. QED
      BY <1>5, <2>1 DEF TypeOK, MoveUp, DeleteRow, Edit
  <1>6. QED
    BY <1>1, <1>2, <1>3, <1>4, <1>5 DEF Next

\* TypeOK holds in every reachable state.
THEOREM DeploymentTypes == Spec => []TypeOK
  <1>1. TypeOK /\ [Next]_vars => TypeOK'
    <2> SUFFICES ASSUME TypeOK, [Next]_vars PROVE TypeOK'
      OBVIOUS
    <2>1. CASE Next
      BY <2>1, StepType, OtherType
    <2>2. CASE UNCHANGED vars
      BY <2>2 DEF TypeOK, vars, sheet, locks, memory, bounds
    <2>3. QED
      BY <2>1, <2>2
  <1>2. QED
    BY <1>1, InitType, PTL DEF Spec

-----------------------------------------------------------------------------
(* The locks                                                               *)

\* A step of a deployment keeps its own locks and those of the others: it
\* takes a lock that is free, or releases the one it holds.
LEMMA StepLocks ==
    ASSUME TypeOK, LocksHeld, NEW d \in Deployments, Step(d)
    PROVE  LocksHeld'
  <1> USE DeploymentAssumption DEF LocksHeld, locks, Goto, Fail
  <1>0. /\ pc \in [Deployments -> PCs]
        /\ converter \in [Processes -> Deployments \cup {None}]
        /\ writer \in [Processes -> Deployments \cup {None}]
    BY DEF TypeOK
  <1>1. CASE StartConversion(d)
    BY <1>0, <1>1 DEF StartConversion
  <1>2. CASE EndConversion(d)
    BY <1>0, <1>2 DEF EndConversion
  <1>3. CASE FindRow(d)
    BY <1>0, <1>3 DEF FindRow
  <1>4. CASE EndWrite(d)
    BY <1>0, <1>4 DEF EndWrite
  <1>5. CASE WriteFails(d)
    <2>1. /\ pc' \in [Deployments -> PCs] /\ pc'[d] \in Ended
          /\ \A e \in Deployments \ {d} : pc'[e] = pc[e]
          /\ converter' = converter
          /\ pc[d] # "converting"
      BY <1>0, <1>5 DEF WriteFails
    <2>2. /\ writer'[ProcessOf[d]] # d
          /\ \A e \in Deployments \ {d} :
                writer'[ProcessOf[e]] = e <=> writer[ProcessOf[e]] = e
      BY <1>0, <1>5 DEF WriteFails
    <2>3. ASSUME NEW e \in Deployments
          PROVE  /\ converter'[ProcessOf[e]] = e <=> pc'[e] = "converting"
                 /\ writer'[ProcessOf[e]] = e <=> pc'[e] \in {"marking", "final"}
      <3>1. CASE e = d
        BY <2>1, <2>2, <3>1
      <3>2. CASE e # d
        BY <2>1, <2>2, <3>2
      <3>3. QED
        BY <3>1, <3>2
    <2>4. QED
      BY <2>3
  <1>6. CASE PatchCell(d)
    BY <1>0, <1>6 DEF PatchCell
  <1>7. CASE Locate(d) \/ ProbeServing(d) \/ ProbeElse(d) \/ NoConversion(d)
             \/ Preflight(d)
    BY <1>0, <1>7 DEF Locate, ProbeServing, ProbeElse, NoConversion, Preflight
  <1>8. CASE RefreshToMark(d) \/ RefreshToFinish(d)
    BY <1>0, <1>8 DEF RefreshToMark, RefreshToFinish, RefreshAndWrite
  <1>9. CASE Stop(d) \/ StopFails(d) \/ VerifyPath(d) \/ Launch(d) \/ Served(d)
             \/ Raises(d)
    BY <1>0, <1>9 DEF Stop, StopFails, VerifyPath, Launch, Served, Raises
  <1>10. QED
    BY <1>1, <1>2, <1>3, <1>4, <1>5, <1>6, <1>7, <1>8, <1>9 DEF Step

\* So do the steps of the others; a process that dies takes its locks along.
LEMMA OtherLocks ==
    ASSUME TypeOK, LocksHeld, Next, \A d \in Deployments : ~Step(d)
    PROVE  LocksHeld'
  <1> USE DeploymentAssumption DEF LocksHeld, locks, Goto
  <1>0. /\ pc \in [Deployments -> PCs]
        /\ converter \in [Processes -> Deployments \cup {None}]
        /\ writer \in [Processes -> Deployments \cup {None}]
    BY DEF TypeOK
  <1>1. ASSUME NEW d \in Deployments, Retry(d)
        PROVE  LocksHeld'
    BY <1>0, <1>1 DEF Retry
  <1>2. ASSUME NEW p \in Processes, Die(p)
        PROVE  LocksHeld'
    <2>1. ASSUME NEW d \in Deployments, ProcessOf[d] = p
          PROVE  /\ pc'[d] \in Ended
                 /\ converter'[ProcessOf[d]] = None /\ writer'[ProcessOf[d]] = None
      BY <1>0, <1>2, <2>1 DEF Die
    <2>2. ASSUME NEW d \in Deployments, ProcessOf[d] # p
          PROVE  /\ pc'[d] = pc[d]
                 /\ converter'[ProcessOf[d]] = converter[ProcessOf[d]]
                 /\ writer'[ProcessOf[d]] = writer[ProcessOf[d]]
      BY <1>0, <1>2, <2>2 DEF Die
    <2>3. ASSUME NEW d \in Deployments
          PROVE  /\ converter'[ProcessOf[d]] = d <=> pc'[d] = "converting"
                 /\ writer'[ProcessOf[d]] = d <=> pc'[d] \in {"marking", "final"}
      <3>1. d # None
        OBVIOUS
      <3>2. QED
        BY <2>1, <2>2, <3>1
    <2>4. QED
      BY <2>3
  <1>3. CASE UNCHANGED <<pc, converter, writer>>
    BY <1>3
  <1>4. QED
    BY <1>1, <1>2, <1>3
       DEF Next, ModelLoaded, ModelDies, BeginTests, EndTests, SetReuse,
           MoveUp, DeleteRow, Edit

\* No lock is left behind, by an exception or by a death.
THEOREM NoLockLeft == Spec => []LocksHeld
  <1>1. Init => LocksHeld
    BY DeploymentAssumption DEF Init, LocksHeld
  <1>2. TypeOK /\ LocksHeld /\ [Next]_vars => LocksHeld'
    <2> SUFFICES ASSUME TypeOK, LocksHeld, [Next]_vars PROVE LocksHeld'
      OBVIOUS
    <2>1. CASE Next
      BY <2>1, StepLocks, OtherLocks
    <2>2. CASE UNCHANGED vars
      BY <2>2 DEF LocksHeld, vars, locks
    <2>3. QED
      BY <2>1, <2>2
  <1>3. QED
    BY <1>1, <1>2, DeploymentTypes, PTL DEF Spec

-----------------------------------------------------------------------------
(* Each deployment at its own row and worker                               *)

\* The worker a deployment was admitted to.
Home(d) == FirstRows[PlannedRow[d]].ip

\* What careful people do not do.
Careful == CarefulEditors /\ ~RowsMayGo

\* The rows keep their addresses, and the planned ones are in the table.
RowsStay ==
    /\ \A r \in RowIds : row[r].ip = FirstRows[r].ip
    /\ AllListed

\* A deployment's plan, its locals and the address it writes are about the
\* worker it was admitted to, ...
AtHome ==
    \A d \in Deployments :
        /\ plan[d].ip = Home(d)
        /\ work[d] = Home(d)
        /\ \A k \in DOMAIN cells[d] :
              cells[d][k].col = "ip" => cells[d][k].val = Home(d)

\* ... and so are the position it waits with and the row it writes.
Aims ==
    \A d \in Deployments :
        /\ pc[d] \in {"marking_locked", "final_locked"} =>
              plan[d].index \in DOMAIN order
              /\ row[order[plan[d].index]].ip = Home(d)
        /\ pc[d] \in {"marking", "final"} => row[block[d]].ip = Home(d)

KeepsHome == RowsStay /\ AtHome /\ Aims

\* While the rows stay, a refresh finds a row of the plan's own worker.
LEMMA LocatedAtHome ==
    ASSUME TypeOK, KeepsHome, NEW d \in Deployments, NEW i \in LocatedRows(d)
    PROVE  /\ i \in DOMAIN order /\ Table[i] = row[order[i]]
           /\ Table[i].ip = Home(d)
  <1>2. PICK j \in DOMAIN order : order[j] = PlannedRow[d]
    BY DEF KeepsHome, RowsStay, AllListed, ToSet
  <1>3. PlannedRow[d] \in RowIds
    BY <1>2, LenProperties, ElementOfSeq DEF TypeOK
  <1>4. Table[j].ip = Home(d)
    BY <1>2, <1>3 DEF KeepsHome, RowsStay, Table, Home
  <1>5. j \in WithIp(plan[d].ip)
    BY <1>2, <1>4 DEF KeepsHome, AtHome, WithIp
  <1>6. i \in WithIp(plan[d].ip)
    BY <1>5 DEF LocatedRows
  <1>7. QED
    BY <1>6, LocatedType DEF KeepsHome, AtHome, WithIp

\* The values of a write name the worker of the plan.
LEMMA ValuesAtHome ==
    ASSUME TypeOK, KeepsHome, NEW d \in Deployments
    PROVE  /\ \A k \in DOMAIN MarkValues(d) : MarkValues(d)[k].col # "ip"
           /\ \A k \in DOMAIN FinalValues(d) :
                 FinalValues(d)[k].col = "ip" => FinalValues(d)[k].val = Home(d)
  <1>1. plan[d].ip = Home(d)
    BY DEF KeepsHome, AtHome
  <1>2. QED
    BY <1>1 DEF MarkValues, FinalValues, Cell

\* A step of a deployment changes no address, and no position.
LEMMA AddressesStay ==
    ASSUME TypeOK, KeepsHome, NEW d \in Deployments, Step(d)
    PROVE  order' = order /\ \A r \in RowIds : row'[r].ip = row[r].ip
  <1>1. CASE PatchCell(d)
    <2>1. /\ cells[d] \in Seq(CellWrites) /\ cells[d] # <<>>
          /\ block[d] \in RowIds /\ row[block[d]] \in RowType
          /\ row \in [RowIds -> RowType]
          /\ pc[d] \in {"marking", "final"}
      BY <1>1 DEF TypeOK, PatchCell
    <2>2. Head(cells[d]) \in CellWrites
      BY <2>1, HeadTailProperties
    <2>3. 1 \in DOMAIN cells[d] /\ Head(cells[d]) = cells[d][1]
      BY <2>1
    <2>4. Head(cells[d]).col = "ip" => Head(cells[d]).val = Home(d)
      BY <2>3 DEF KeepsHome, AtHome
    <2>5. row[block[d]].ip = Home(d)
      BY <2>1 DEF KeepsHome, Aims
    <2>6. [row[block[d]] EXCEPT ![Head(cells[d]).col] = Head(cells[d]).val].ip
             = row[block[d]].ip
      BY <2>1, <2>2, <2>4, <2>5, PatchType
    <2>7. row' = [row EXCEPT ![block[d]] =
                     [row[block[d]] EXCEPT ![Head(cells[d]).col] = Head(cells[d]).val]]
      BY <1>1 DEF PatchCell
    <2>8. \A r \in RowIds : row'[r].ip = row[r].ip
      BY <2>1, <2>6, <2>7
    <2>9. QED
      BY <1>1, <2>8 DEF PatchCell
  <1>2. CASE ~PatchCell(d)
    <2>1. row' = row /\ order' = order
      BY <1>2
         DEF Step, Locate, ProbeServing, ProbeElse, StartConversion,
             NoConversion, EndConversion, Preflight, RefreshToMark,
             RefreshToFinish, RefreshAndWrite, FindRow, EndWrite, WriteFails,
             Stop, StopFails, VerifyPath, Launch, Served, Raises, Fail, sheet
    <2>2. QED
      BY <2>1
  <1>3. QED
    BY <1>1, <1>2

\* A step of a deployment leaves its plan, locals and cells about its worker.
LEMMA StepAtHome ==
    ASSUME TypeOK, KeepsHome, NEW d \in Deployments, Step(d)
    PROVE  AtHome'
  <1> USE DEF AtHome, KeepsHome
  <1>0. /\ plan \in [Deployments -> [index : Nat, ip : Workers, gpus : Nat]]
        /\ work \in [Deployments -> Workers]
        /\ cells \in [Deployments -> Seq(CellWrites)]
    BY DEF TypeOK
  <1>1. CASE Locate(d)
    <2>1. PICK i \in LocatedRows(d) :
             /\ plan' = [plan EXCEPT ![d] = RowFor(i)]
             /\ work' = [work EXCEPT ![d] = Table[i].ip]
             /\ cells' = cells
      BY <1>1 DEF Locate, Refreshed
    <2>2. Table[i].ip = Home(d) /\ RowFor(i).ip = Home(d)
      BY LocatedAtHome DEF RowFor
    <2>3. QED
      BY <1>0, <2>1, <2>2
  <1>2. CASE RefreshToMark(d) \/ RefreshToFinish(d)
    <2>1. PICK values \in {MarkValues(d), FinalValues(d)} :
             /\ cells' = [cells EXCEPT ![d] = values]
             /\ \E i \in DOMAIN order : /\ Refreshed(d, i)
                                        /\ plan' = [plan EXCEPT ![d] = RowFor(i)]
             /\ work' = work
      BY <1>2 DEF RefreshToMark, RefreshToFinish, RefreshAndWrite
    <2>2. PICK i \in LocatedRows(d) : plan' = [plan EXCEPT ![d] = RowFor(i)]
      BY <2>1 DEF Refreshed
    <2>3. RowFor(i).ip = Home(d)
      BY LocatedAtHome DEF RowFor
    <2>4. \A k \in DOMAIN values : values[k].col = "ip" => values[k].val = Home(d)
      BY <2>1, ValuesAtHome
    <2>5. QED
      BY <1>0, <2>1, <2>2, <2>3, <2>4
  <1>3. CASE PatchCell(d)
    <2>1. cells[d] \in Seq(CellWrites) /\ cells[d] # <<>>
      BY <1>0, <1>3 DEF PatchCell
    <2>2. /\ Tail(cells[d]) \in Seq(CellWrites)
          /\ Len(Tail(cells[d])) = Len(cells[d]) - 1
          /\ \A k \in 1 .. Len(Tail(cells[d])) : Tail(cells[d])[k] = cells[d][k + 1]
      BY <2>1, HeadTailProperties
    <2>3. \A k \in DOMAIN Tail(cells[d]) :
             k + 1 \in DOMAIN cells[d] /\ Tail(cells[d])[k] = cells[d][k + 1]
      BY <2>1, <2>2, LenProperties
    <2>4. /\ cells' = [cells EXCEPT ![d] = Tail(cells[d])]
          /\ plan' = plan /\ work' = work
      BY <1>3 DEF PatchCell
    <2>5. QED
      BY <1>0, <2>3, <2>4
  <1>4. CASE WriteFails(d)
    BY <1>0, <1>4 DEF WriteFails
  <1>5. CASE UNCHANGED <<plan, work, cells>>
    BY <1>5
  <1>6. QED
    BY <1>1, <1>2, <1>3, <1>4, <1>5
       DEF Step, ProbeServing, ProbeElse, StartConversion, NoConversion,
           EndConversion, Preflight, FindRow, EndWrite, Stop, StopFails,
           VerifyPath, Launch, Served, Raises, Fail, memory

\* It aims at a row of its worker before it writes there, ...
LEMMA StepAims ==
    ASSUME TypeOK, KeepsHome, NEW d \in Deployments, Step(d)
    PROVE  Aims'
  <1>0. /\ plan \in [Deployments -> [index : Nat, ip : Workers, gpus : Nat]]
        /\ block \in [Deployments -> RowIds] /\ pc \in [Deployments -> PCs]
        /\ order \in Seq(RowIds)
        /\ \A i \in DOMAIN order : order[i] \in RowIds
    BY LenProperties, ElementOfSeq DEF TypeOK
  <1>1. order' = order /\ \A r \in RowIds : row'[r].ip = row[r].ip
    BY AddressesStay
  <1>2. \A e \in Deployments \ {d} :
           plan'[e] = plan[e] /\ block'[e] = block[e] /\ pc'[e] = pc[e]
    BY <1>0
       DEF Step, Locate, ProbeServing, ProbeElse, StartConversion, NoConversion,
           EndConversion, Preflight, RefreshToMark, RefreshToFinish,
           RefreshAndWrite, FindRow, PatchCell, EndWrite, WriteFails, Stop,
           StopFails, VerifyPath, Launch, Served, Raises, Fail, Goto, memory
  <1>3. /\ pc'[d] \in {"marking_locked", "final_locked"} =>
              plan'[d].index \in DOMAIN order
              /\ row[order[plan'[d].index]].ip = Home(d)
        /\ pc'[d] \in {"marking", "final"} => row[block'[d]].ip = Home(d)
    <2>1. CASE RefreshToMark(d) \/ RefreshToFinish(d)
      <3>1. PICK i \in LocatedRows(d) : plan' = [plan EXCEPT ![d] = RowFor(i)]
        BY <2>1 DEF RefreshToMark, RefreshToFinish, RefreshAndWrite, Refreshed
      <3>2. pc'[d] \in {"marking_locked", "final_locked"}
        BY <1>0, <2>1 DEF RefreshToMark, RefreshToFinish, RefreshAndWrite, Goto
      <3>3. plan'[d].index = i
        BY <1>0, <3>1 DEF RowFor
      <3>4. QED
        BY <3>2, <3>3, LocatedAtHome
    <2>2. CASE FindRow(d)
      <3>1. /\ pc[d] \in {"marking_locked", "final_locked"}
            /\ pc'[d] \in {"marking", "final"}
            /\ block'[d] = order[plan[d].index]
        BY <1>0, <2>2 DEF FindRow, Goto
      <3>2. QED
        BY <3>1 DEF KeepsHome, Aims
    <2>3. CASE PatchCell(d)
      BY <2>3 DEF PatchCell, KeepsHome, Aims
    <2>4. CASE pc'[d] \notin {"marking_locked", "final_locked", "marking", "final"}
      BY <2>4
    <2>5. QED
      BY <1>0, <2>1, <2>2, <2>3, <2>4
         DEF Step, Locate, ProbeServing, ProbeElse, StartConversion,
             NoConversion, EndConversion, Preflight, EndWrite, WriteFails, Stop,
             StopFails, VerifyPath, Launch, Served, Raises, Fail, Goto
  <1>4. block'[d] \in RowIds
    BY StepType DEF TypeOK
  <1>5. ASSUME NEW e \in Deployments
        PROVE  /\ pc'[e] \in {"marking_locked", "final_locked"} =>
                     plan'[e].index \in DOMAIN order
                     /\ row[order[plan'[e].index]].ip = Home(e)
               /\ pc'[e] \in {"marking", "final"} => row[block'[e]].ip = Home(e)
               /\ block'[e] \in RowIds
    <2>1. CASE e = d
      BY <1>3, <1>4, <2>1
    <2>2. CASE e # d
      BY <1>0, <1>2, <2>2 DEF KeepsHome, Aims
    <2>3. QED
      BY <2>1, <2>2
  <1>6. ASSUME NEW e \in Deployments
        PROVE  /\ pc'[e] \in {"marking_locked", "final_locked"} =>
                     plan'[e].index \in DOMAIN order'
                     /\ row'[order'[plan'[e].index]].ip = Home(e)
               /\ pc'[e] \in {"marking", "final"} => row'[block'[e]].ip = Home(e)
    BY <1>0, <1>1, <1>5
  <1>7. QED
    BY <1>6 DEF Aims, Home

\* ... and the people who move and delete rows wait until it has written.
LEMMA OthersKeepHome ==
    ASSUME TypeOK, KeepsHome, CarefulEditors, Next, \A d \in Deployments : ~Step(d),
           AllListed'
    PROVE  KeepsHome'
  <1>0. /\ row \in [RowIds -> RowType] /\ order \in Seq(RowIds)
        /\ pc \in [Deployments -> PCs]
        /\ plan \in [Deployments -> [index : Nat, ip : Workers, gpus : Nat]]
    BY DEF TypeOK
  <1>1. ASSUME NEW d \in Deployments, Retry(d)
        PROVE  KeepsHome'
    <2>1. /\ order' = order /\ row' = row /\ work' = work /\ cells' = cells
          /\ block' = block
          /\ plan' = [plan EXCEPT ![d] = FirstPlan(d)]
          /\ pc' = [pc EXCEPT ![d] = "start"]
      BY <1>1 DEF Retry, Goto, sheet
    <2>2. FirstPlan(d).ip = Home(d)
      BY DEF FirstPlan, Home
    <2>3. RowsStay'
      BY <2>1 DEF KeepsHome, RowsStay
    <2>4. AtHome'
      BY <1>0, <2>1, <2>2 DEF KeepsHome, AtHome, Home
    <2>5. Aims'
      BY <1>0, <2>1 DEF KeepsHome, Aims, Home
    <2>6. QED
      BY <2>3, <2>4, <2>5 DEF KeepsHome
  <1>2. ASSUME NEW p \in Processes, Die(p)
        PROVE  KeepsHome'
    <2>1. /\ order' = order /\ row' = row /\ work' = work /\ plan' = plan
          /\ block' = block
          /\ \A d \in Deployments :
                /\ cells'[d] = cells[d] \/ cells'[d] = <<>>
                /\ pc'[d] = pc[d] \/ pc'[d] = "failed"
      BY <1>2 DEF Die, sheet
    <2>2. QED
      BY <2>1 DEF KeepsHome, RowsStay, AtHome, Aims, Home
  <1>3. ASSUME UNCHANGED <<order, pc, memory>>, \A r \in RowIds : row'[r].ip = row[r].ip
        PROVE  KeepsHome'
    <2>1. RowsStay' /\ AtHome'
      BY <1>3 DEF KeepsHome, RowsStay, AtHome, Home, memory
    <2>2. \A i \in DOMAIN order : order[i] \in RowIds
      BY <1>0, LenProperties, ElementOfSeq
    <2>3. \A d \in Deployments : block[d] \in RowIds
      BY DEF TypeOK
    <2>4. Aims'
      BY <1>3, <2>2, <2>3 DEF KeepsHome, Aims, Home, memory
    <2>5. QED
      BY <2>1, <2>4 DEF KeepsHome
  <1>4. ASSUME NEW w \in Workers, ModelLoaded(w) \/ ModelDies(w)
        PROVE  KeepsHome'
    BY <1>3, <1>4 DEF ModelLoaded, ModelDies, sheet
  <1>5. ASSUME NEW r \in RowIds, BeginTests(r) \/ EndTests(r) \/ SetReuse(r)
        PROVE  KeepsHome'
    <2>1. row[r] \in RowType
      BY <1>0
    <2>2. \/ row' = [row EXCEPT ![r].tested = @ \cup {"running"}]
          \/ row' = [row EXCEPT ![r].tested = RequiredTasks]
          \/ row' = [row EXCEPT ![r].reuse = ~@]
      BY <1>5 DEF BeginTests, EndTests, SetReuse
    <2>3. \A q \in RowIds : row'[q].ip = row[q].ip
      <3>1. /\ [row[r] EXCEPT !.tested = @ \cup {"running"}].ip = row[r].ip
            /\ [row[r] EXCEPT !.tested = RequiredTasks].ip = row[r].ip
            /\ [row[r] EXCEPT !.reuse = ~@].ip = row[r].ip
        BY <2>1 DEF RowType
      <3>2. PICK v : /\ v.ip = row[r].ip
                     /\ row' = [row EXCEPT ![r] = v]
        <4>1. CASE row' = [row EXCEPT ![r].tested = @ \cup {"running"}]
          BY <3>1, <4>1
        <4>2. CASE row' = [row EXCEPT ![r].tested = RequiredTasks]
          BY <3>1, <4>2
        <4>3. CASE row' = [row EXCEPT ![r].reuse = ~@]
          BY <3>1, <4>3
        <4>4. QED
          BY <2>2, <4>1, <4>2, <4>3
      <3>3. QED
        BY <1>0, <3>2
    <2>4. UNCHANGED <<order, pc, memory>>
      BY <1>5 DEF BeginTests, EndTests, SetReuse, Edit
    <2>5. QED
      BY <1>3, <2>3, <2>4
  <1>6. ASSUME NEW i \in DOMAIN order, MoveUp(i) \/ DeleteRow(i)
        PROVE  KeepsHome'
    <2>1. /\ row' = row /\ pc' = pc /\ UNCHANGED memory
          /\ \A d \in Deployments : ~Window(d)
      BY <1>6 DEF MoveUp, DeleteRow, Edit
    <2>2. RowsStay' /\ AtHome' /\ Aims'
      BY <2>1 DEF KeepsHome, RowsStay, AtHome, Aims, Window, Home, memory
    <2>3. QED
      BY <2>2 DEF KeepsHome
  <1>7. QED
    BY <1>1, <1>2, <1>4, <1>5, <1>6 DEF Next

\* No step lists a row that was not listed.
LEMMA ListedBefore ==
    ASSUME TypeOK, Next, AllListed'
    PROVE  AllListed
  <1>0. order \in Seq(RowIds)
    BY DEF TypeOK
  <1>1. \A k \in DOMAIN order' : \E j \in DOMAIN order : order[j] = order'[k]
    <2>1. ASSUME NEW i \in DOMAIN order, MoveUp(i) \/ DeleteRow(i)
          PROVE  \A k \in DOMAIN order' : \E j \in DOMAIN order : order[j] = order'[k]
      BY <1>0, <2>1, NoRowAdded, SMTT(30) DEF MoveUp, DeleteRow
    <2>2. CASE order' = order
      BY <2>2
    <2>3. QED
      BY <2>1, <2>2
         DEF Next, Step, Locate, ProbeServing, ProbeElse, StartConversion,
             NoConversion, EndConversion, Preflight, RefreshToMark,
             RefreshToFinish, RefreshAndWrite, FindRow, PatchCell, EndWrite,
             WriteFails, Stop, StopFails, VerifyPath, Launch, Served, Raises, Fail,
             Retry, Die, ModelLoaded, ModelDies, BeginTests, EndTests, SetReuse, sheet
  <1>2. QED
    BY <1>1 DEF AllListed, ToSet

\* As long as no planned row was deleted, every deployment keeps to its home.
THEOREM HomeWhileListed == ASSUME CarefulEditors PROVE Spec => [](AllListed => KeepsHome)
  <1>1. ASSUME Init PROVE KeepsHome
    <2>1. RowsStay
      BY <1>1, DeploymentAssumption DEF Init, RowsStay, AllListed
    <2>2. \A d \in Deployments : FirstPlan(d).ip = Home(d)
      BY DEF FirstPlan, Home
    <2>3. AtHome
      BY <1>1, <2>2 DEF Init, AtHome
    <2>4. Aims
      BY <1>1 DEF Init, Aims
    <2>5. QED
      BY <2>1, <2>3, <2>4 DEF KeepsHome
  <1>2. ASSUME TypeOK, AllListed => KeepsHome, [Next]_vars, AllListed'
        PROVE  KeepsHome'
    <2>1. ASSUME NEW d \in Deployments, Step(d)
          PROVE  KeepsHome'
      <3>1. KeepsHome
        BY <1>2, <2>1, ListedBefore DEF Next
      <3>2. RowsStay'
        BY <1>2, <2>1, <3>1, AddressesStay DEF KeepsHome, RowsStay
      <3>3. QED
        BY <1>2, <2>1, <3>1, <3>2, StepAtHome, StepAims DEF KeepsHome
    <2>2. CASE Next /\ \A d \in Deployments : ~Step(d)
      BY <1>2, <2>2, ListedBefore, OthersKeepHome
    <2>3. CASE UNCHANGED vars
      BY <1>2, <2>3
         DEF KeepsHome, RowsStay, AllListed, AtHome, Aims, Home, vars, sheet, memory
    <2>4. QED
      BY <1>2, <2>1, <2>2, <2>3
  <1>3. TypeOK /\ (AllListed => KeepsHome) /\ [Next]_vars => (AllListed => KeepsHome)'
    BY <1>2
  <1>4. QED
    BY <1>1, <1>3, DeploymentTypes, PTL DEF Spec

\* With careful people, who delete no row, that is always.
THEOREM AlwaysAtHome == ASSUME Careful PROVE Spec => []KeepsHome
  <1>1. Init => AllListed
    BY DeploymentAssumption DEF Init, AllListed
  <1>2. ASSUME TypeOK, AllListed, KeepsHome, [Next]_vars PROVE AllListed'
    <2>1. ASSUME NEW d \in Deployments, Step(d) PROVE AllListed'
      BY <1>2, <2>1, AddressesStay DEF AllListed
    <2>2. ASSUME NEW i \in DOMAIN order, MoveUp(i) PROVE AllListed'
      <3>1. \A j \in DOMAIN order : \E k \in DOMAIN order' : order'[k] = order[j]
        <4>1. order \in Seq(RowIds)
          BY <1>2 DEF TypeOK
        <4>2. order' = <<order[i]>> \o RemoveAt(order, i)
          BY <2>2 DEF MoveUp
        <4>3. QED
          BY <4>1, <4>2, MovedUp
      <3>2. QED
        BY <1>2, <3>1 DEF AllListed, ToSet
    <2>3. CASE order' = order
      BY <1>2, <2>3 DEF AllListed
    <2>4. QED
      BY <1>2, <2>1, <2>2, <2>3
         DEF Next, Retry, Die, ModelLoaded, ModelDies, BeginTests, EndTests, SetReuse,
             DeleteRow, Careful, sheet, vars
  <1>3. QED
    BY <1>1, <1>2, HomeWhileListed, DeploymentTypes, PTL DEF Spec, Careful

\* A cell is written only into the row of the worker at work, however the
\* rows are moved between the writes.
THEOREM OnlyOwnRow == ASSUME Careful PROVE Spec => WritesOwnRow
  <1>1. ASSUME KeepsHome, NEW d \in Deployments, PatchCell(d)
        PROVE  row[block[d]].ip = work[d]
    BY <1>1 DEF KeepsHome, Aims, AtHome, PatchCell
  <1>2. KeepsHome => [\A d \in Deployments : PatchCell(d) => row[block[d]].ip = work[d]]_vars
    BY <1>1
  <1>3. QED
    BY <1>2, AlwaysAtHome, PTL DEF WritesOwnRow, Spec

\* Deployments that were admitted to different workers stay on different workers
\* for as long as the rows they were planned for are listed, whatever other rows are
\* moved, deleted and chosen (reusable_executor.py:575, _refresh_plan_row_from_doc).
THEOREM AdmittedApart ==
    ASSUME CarefulEditors,
           \A d, e \in Deployments : Home(d) = Home(e) => d = e
    PROVE  Spec => []SeparateWorkers
  <1>1. (AllListed => KeepsHome) => SeparateWorkers
    BY DEF KeepsHome, AtHome, SeparateWorkers
  <1>2. QED
    BY <1>1, HomeWhileListed, PTL
-----------------------------------------------------------------------------
(* What happens to the row of a deployment                                 *)

\* Every worker has one row.
OneRowEach ==
    \A r, q \in RowIds :
        FirstRows[r].ip = FirstRows[q].ip /\ FirstRows[r].ip # None => r = q

\* The auditor admits one deployment per worker.
OneEach == \A d, e \in Deployments : Home(d) = Home(e) => d = e

\* The row a deployment was admitted to, as it is now.
Own(d) == row[PlannedRow[d]]

\* A deployment's row is in the table, and the only one of its worker.
LEMMA OwnRow ==
    ASSUME TypeOK, KeepsHome, OneRowEach, NEW d \in Deployments
    PROVE  /\ PlannedRow[d] \in RowIds /\ PlannedRow[d] \in ToSet(order)
           /\ Home(d) \in Workers /\ Own(d) \in RowType /\ Own(d).ip = Home(d)
           /\ \A r \in RowIds : row[r].ip = Home(d) => r = PlannedRow[d]
  <1>2. PICK j \in DOMAIN order : order[j] = PlannedRow[d]
    BY DEF KeepsHome, RowsStay, AllListed, ToSet
  <1>3. PlannedRow[d] \in RowIds
    BY <1>2, LenProperties, ElementOfSeq DEF TypeOK
  <1>4. PlannedRow[d] \in ToSet(order)
    BY <1>2 DEF ToSet
  <1>5. Home(d) \in Workers /\ Home(d) # None
    BY DeploymentAssumption, RowsAssumption DEF Home
  <1>6. \A r \in RowIds : row[r].ip = FirstRows[r].ip
    BY DEF KeepsHome, RowsStay
  <1>7. Own(d) \in RowType /\ Own(d).ip = Home(d)
    BY <1>3, <1>6 DEF TypeOK, Own, Home
  <1>8. ASSUME NEW r \in RowIds, row[r].ip = Home(d)
        PROVE  r = PlannedRow[d]
    BY <1>3, <1>5, <1>6, <1>8 DEF OneRowEach, Home
  <1>9. QED
    BY <1>3, <1>4, <1>5, <1>7, <1>8

\* It is the row that a refresh finds, ...
LEMMA LocatedOwn ==
    ASSUME TypeOK, KeepsHome, OneRowEach, NEW d \in Deployments,
           NEW i \in LocatedRows(d)
    PROVE  Table[i] = Own(d)
  <1>1. i \in DOMAIN order /\ Table[i] = row[order[i]] /\ Table[i].ip = Home(d)
    BY LocatedAtHome
  <1>2. order[i] \in RowIds
    BY LocatedType
  <1>3. order[i] = PlannedRow[d]
    BY <1>1, <1>2, OwnRow
  <1>4. QED
    BY <1>1, <1>3 DEF Own

\* ... and the row that it writes.
LEMMA WritesOwn ==
    ASSUME TypeOK, KeepsHome, OneRowEach, NEW d \in Deployments,
           pc[d] \in {"marking", "final"}
    PROVE  block[d] = PlannedRow[d]
  <1>1. block[d] \in RowIds /\ row[block[d]].ip = Home(d)
    BY DEF TypeOK, KeepsHome, Aims
  <1>2. QED
    BY <1>1, OwnRow

\* What a patch does to each cell of a row.
LEMMA PatchFields ==
    ASSUME NEW r \in RowType, NEW c \in CellWrites,
           NEW p, p = [r EXCEPT ![c.col] = c.val]
    PROVE  /\ p.model  = IF c.col = "model" THEN c.val ELSE r.model
           /\ p.id     = IF c.col = "id" THEN c.val ELSE r.id
           /\ p.tested = IF c.col = "tested" THEN c.val ELSE r.tested
  <1>1. CASE c \in [col : {"model", "id"}, val : Cells]
    BY <1>1 DEF RowType
  <1>2. CASE c \in [col : {"ip"}, val : Workers \cup {None}]
    BY <1>2 DEF RowType
  <1>3. CASE c \in [col : {"tested"}, val : SUBSET Tokens]
    BY <1>3 DEF RowType
  <1>4. CASE c \in [col : {"reuse"}, val : BOOLEAN]
    BY <1>4 DEF RowType
  <1>5. QED
    BY <1>1, <1>2, <1>3, <1>4 DEF CellWrites

\* A deployment that writes puts its next value into its own row.
LEMMA OwnPatch ==
    ASSUME TypeOK, KeepsHome, OneRowEach, NEW d \in Deployments, PatchCell(d)
    PROVE  LET c == cells[d][1] IN
           /\ 1 \in DOMAIN cells[d]
           /\ Own(d)'.model  = IF c.col = "model" THEN c.val ELSE Own(d).model
           /\ Own(d)'.id     = IF c.col = "id" THEN c.val ELSE Own(d).id
           /\ Own(d)'.tested = IF c.col = "tested" THEN c.val ELSE Own(d).tested
  <1>1. /\ cells[d] \in Seq(CellWrites) /\ cells[d] # <<>>
        /\ pc[d] \in {"marking", "final"} /\ row \in [RowIds -> RowType]
        /\ row' = [row EXCEPT ![block[d]][Head(cells[d]).col] = Head(cells[d]).val]
    BY DEF TypeOK, PatchCell
  <1>2. 1 \in DOMAIN cells[d] /\ Head(cells[d]) = cells[d][1]
        /\ cells[d][1] \in CellWrites
    BY <1>1, HeadTailProperties
  <1>3. block[d] = PlannedRow[d] /\ PlannedRow[d] \in RowIds /\ Own(d) \in RowType
    BY <1>1, WritesOwn, OwnRow
  <1>4. Own(d)' = [Own(d) EXCEPT ![cells[d][1].col] = cells[d][1].val]
    BY <1>1, <1>2, <1>3 DEF Own
  <1>5. QED
    BY <1>2, <1>3, <1>4, PatchFields, ZenonT(60)

\* The cells that are left are those behind it.
LEMMA CellsLeft ==
    ASSUME TypeOK, NEW d \in Deployments, PatchCell(d)
    PROVE  /\ \A k \in DOMAIN cells'[d] :
                 k + 1 \in DOMAIN cells[d] /\ cells'[d][k] = cells[d][k + 1]
           /\ \A k \in DOMAIN cells[d] \ {1} :
                 k - 1 \in DOMAIN cells'[d] /\ cells'[d][k - 1] = cells[d][k]
  <1>1. cells[d] \in Seq(CellWrites) /\ cells[d] # <<>>
        /\ cells'[d] = Tail(cells[d])
    BY DEF TypeOK, PatchCell
  <1>2. /\ Tail(cells[d]) \in Seq(CellWrites)
        /\ Len(Tail(cells[d])) = Len(cells[d]) - 1
        /\ \A k \in 1 .. Len(Tail(cells[d])) : Tail(cells[d])[k] = cells[d][k + 1]
    BY <1>1, HeadTailProperties
  <1>3. /\ DOMAIN cells[d] = 1 .. Len(cells[d]) /\ Len(cells[d]) \in Nat
        /\ DOMAIN Tail(cells[d]) = 1 .. Len(cells[d]) - 1
    BY <1>1, <1>2, LenProperties
  <1>4. \A k \in DOMAIN Tail(cells[d]) :
           k + 1 \in DOMAIN cells[d] /\ Tail(cells[d])[k] = cells[d][k + 1]
    BY <1>2, <1>3
  <1>5. ASSUME NEW k \in DOMAIN cells[d] \ {1}
        PROVE  k - 1 \in DOMAIN Tail(cells[d]) /\ Tail(cells[d])[k - 1] = cells[d][k]
    <2>1. k - 1 \in 1 .. Len(Tail(cells[d])) /\ (k - 1) + 1 = k
      BY <1>2, <1>3
    <2>2. QED
      BY <1>2, <1>3, <2>1
  <1>6. QED
    BY <1>1, <1>4, <1>5

\* The steps of another deployment leave a deployment and its row alone.
LEMMA AnotherStep ==
    ASSUME TypeOK, KeepsHome, OneRowEach, OneEach, NEW d \in Deployments,
           NEW e \in Deployments, e # d, Step(e)
    PROVE  /\ Own(d)' = Own(d) /\ testing' = testing
           /\ pc'[d] = pc[d] /\ cells'[d] = cells[d] /\ path'[d] = path[d]
           /\ deaths' = deaths /\ retries' = retries
  <1>0. /\ pc \in [Deployments -> PCs] /\ path \in [Deployments -> Names]
        /\ cells \in [Deployments -> Seq(CellWrites)]
        /\ row \in [RowIds -> RowType]
    BY DEF TypeOK
  <1>1. CASE PatchCell(e)
    <2>1. block[e] = PlannedRow[e] /\ PlannedRow[e] \in RowIds
      BY <1>1, WritesOwn, OwnRow DEF PatchCell
    <2>2. PlannedRow[e] # PlannedRow[d]
      BY DEF OneEach, Home
    <2>3. row'[PlannedRow[d]] = row[PlannedRow[d]]
      BY <1>0, <1>1, <2>1, <2>2, OwnRow DEF PatchCell
    <2>4. QED
      BY <1>0, <1>1, <2>3 DEF PatchCell, Own, bounds
  <1>2. CASE ~PatchCell(e)
    <2>1. row' = row /\ testing' = testing /\ deaths' = deaths /\ retries' = retries
      BY <1>2
         DEF Step, Locate, ProbeServing, ProbeElse, StartConversion,
             NoConversion, EndConversion, Preflight, RefreshToMark,
             RefreshToFinish, RefreshAndWrite, FindRow, EndWrite, WriteFails,
             Stop, StopFails, VerifyPath, Launch, Served, Raises, Fail, sheet,
             bounds
    <2>2. pc'[d] = pc[d]
      BY <1>0, <1>2
         DEF Step, Locate, ProbeServing, ProbeElse, StartConversion,
             NoConversion, EndConversion, Preflight, RefreshToMark,
             RefreshToFinish, RefreshAndWrite, FindRow, EndWrite, WriteFails,
             Stop, StopFails, VerifyPath, Launch, Served, Raises, Fail, Goto
    <2>3. cells'[d] = cells[d]
      BY <1>0, <1>2
         DEF Step, Locate, ProbeServing, ProbeElse, StartConversion,
             NoConversion, EndConversion, Preflight, RefreshToMark,
             RefreshToFinish, RefreshAndWrite, FindRow, EndWrite, WriteFails,
             Stop, StopFails, VerifyPath, Launch, Served, Raises, Fail, memory
    <2>4. path'[d] = path[d]
      BY <1>0, <1>2
         DEF Step, Locate, ProbeServing, ProbeElse, StartConversion,
             NoConversion, EndConversion, Preflight, Probed, RefreshToMark,
             RefreshToFinish, RefreshAndWrite, FindRow, EndWrite, WriteFails,
             Stop, StopFails, VerifyPath, Launch, Served, Raises, Fail, memory
    <2>5. QED
      BY <2>1, <2>2, <2>3, <2>4 DEF Own
  <1>3. QED
    BY <1>1, <1>2

\* What everybody else may do to a deployment and its row: let it die, or
\* edit its row while it neither waits to write there nor writes.
LEMMA NotItsStep ==
    ASSUME TypeOK, KeepsHome, Careful, OneRowEach, OneEach, Next,
           NEW d \in Deployments, ~Step(d), ~Retry(d)
    PROVE  /\ \/ Own(d)' = Own(d) /\ (Home(d) \in testing' <=> Home(d) \in testing)
              \/ /\ ~Window(d) /\ pc'[d] = pc[d]
                 /\ \/ BeginTests(PlannedRow[d]) \/ EndTests(PlannedRow[d])
                    \/ SetReuse(PlannedRow[d])
           /\ \/ pc'[d] = pc[d] /\ cells'[d] = cells[d] /\ path'[d] = path[d]
              \/ pc'[d] = "failed" /\ path'[d] = path[d] /\ deaths' > 0
           /\ retries' >= retries /\ deaths' >= deaths
  <1>0. /\ pc \in [Deployments -> PCs] /\ path \in [Deployments -> Names]
        /\ cells \in [Deployments -> Seq(CellWrites)]
        /\ row \in [RowIds -> RowType]
        /\ retries \in Nat /\ deaths \in Nat
    BY DeploymentAssumption DEF TypeOK
  <1>1. ASSUME NEW e \in Deployments, Step(e)
        PROVE  /\ Own(d)' = Own(d) /\ testing' = testing
               /\ pc'[d] = pc[d] /\ cells'[d] = cells[d] /\ path'[d] = path[d]
               /\ deaths' = deaths /\ retries' = retries
    BY <1>1, AnotherStep
  <1>2. ASSUME NEW e \in Deployments, Retry(e)
        PROVE  /\ Own(d)' = Own(d) /\ testing' = testing
               /\ pc'[d] = pc[d] /\ cells'[d] = cells[d] /\ path'[d] = path[d]
               /\ deaths' = deaths /\ retries' = retries + 1
    <2>1. e # d
      BY <1>2
    <2>2. QED
      BY <1>0, <1>2, <2>1 DEF Retry, Goto, Own, sheet
  <1>3. ASSUME NEW p \in Processes, Die(p)
        PROVE  /\ Own(d)' = Own(d) /\ testing' = testing /\ path'[d] = path[d]
               /\ \/ pc'[d] = pc[d] /\ cells'[d] = cells[d]
                  \/ pc'[d] = "failed"
               /\ deaths' = deaths + 1 /\ retries' = retries
    BY <1>3 DEF Die, Own, sheet
  <1>4. ASSUME NEW w \in Workers, ModelLoaded(w) \/ ModelDies(w)
        PROVE  /\ Own(d)' = Own(d) /\ testing' = testing
               /\ pc'[d] = pc[d] /\ cells'[d] = cells[d] /\ path'[d] = path[d]
               /\ deaths' = deaths /\ retries' = retries
    BY <1>4 DEF ModelLoaded, ModelDies, Own, sheet, memory, bounds
  <1>5. ASSUME NEW i \in DOMAIN order, MoveUp(i) \/ DeleteRow(i)
        PROVE  /\ Own(d)' = Own(d) /\ testing' = testing
               /\ pc'[d] = pc[d] /\ cells'[d] = cells[d] /\ path'[d] = path[d]
               /\ deaths' = deaths /\ retries' = retries
    BY <1>5 DEF MoveUp, DeleteRow, Edit, Own, memory
  <1>6. ASSUME NEW r \in RowIds, BeginTests(r) \/ EndTests(r) \/ SetReuse(r)
        PROVE  /\ ~Window(d)
               /\ pc'[d] = pc[d] /\ cells'[d] = cells[d] /\ path'[d] = path[d]
               /\ deaths' = deaths /\ retries' = retries
               /\ \/ r = PlannedRow[d]
                  \/ /\ Own(d)' = Own(d)
                     /\ Home(d) \in testing' <=> Home(d) \in testing
    <2>1. /\ ~Window(d)
          /\ pc' = pc /\ cells' = cells /\ path' = path
          /\ deaths' = deaths /\ retries' = retries
      BY <1>6 DEF BeginTests, EndTests, SetReuse, Edit, Careful, memory
    <2>2. ASSUME r # PlannedRow[d]
          PROVE  Own(d)' = Own(d) /\ (Home(d) \in testing' <=> Home(d) \in testing)
      <3>1. row[r].ip # Home(d) /\ PlannedRow[d] \in RowIds
        BY <2>2, OwnRow
      <3>2. Own(d)' = Own(d)
        BY <1>0, <1>6, <2>2, <3>1 DEF BeginTests, EndTests, SetReuse, Own
      <3>3. Home(d) \in testing' <=> Home(d) \in testing
        BY <1>6, <3>1 DEF BeginTests, EndTests, SetReuse
      <3>4. QED
        BY <3>2, <3>3
    <2>3. QED
      BY <2>1, <2>2
  <1>7. CASE \E e \in Deployments : Step(e) \/ Retry(e)
    <2>1. PICK e \in Deployments : Step(e) \/ Retry(e)
      BY <1>7
    <2>2. CASE Step(e)
      BY <1>0, <1>1, <2>2
    <2>3. CASE Retry(e)
      BY <1>0, <1>2, <2>3
    <2>4. QED
      BY <2>1, <2>2, <2>3
  <1>8. CASE \E p \in Processes : Die(p)
    BY <1>0, <1>3, <1>8
  <1>9. CASE \/ \E w \in Workers : ModelLoaded(w) \/ ModelDies(w)
             \/ \E i \in DOMAIN order : MoveUp(i) \/ DeleteRow(i)
    BY <1>0, <1>4, <1>5, <1>9
  <1>10. CASE \E r \in RowIds : BeginTests(r) \/ EndTests(r) \/ SetReuse(r)
    <2>1. PICK r \in RowIds : BeginTests(r) \/ EndTests(r) \/ SetReuse(r)
      BY <1>10
    <2>2. CASE r = PlannedRow[d]
      BY <1>0, <1>6, <2>1, <2>2
    <2>3. CASE r # PlannedRow[d]
      BY <1>0, <1>6, <2>1, <2>3
    <2>4. QED
      BY <2>2, <2>3
  <1>11. QED
    BY <1>7, <1>8, <1>9, <1>10 DEF Next

\* A step of a deployment that writes nothing and does not begin to: its row
\* stays, and it does not come to a place where it holds values to write.
LEMMA QuietStep ==
    ASSUME TypeOK, NEW d \in Deployments, Step(d),
           ~RefreshToMark(d), ~RefreshToFinish(d), ~FindRow(d), ~PatchCell(d),
           ~EndWrite(d)
    PROVE  /\ Own(d)' = Own(d) /\ testing' = testing
           /\ ~Window(d)'
           /\ pc'[d] \in Hands => pc[d] \in Hands
           /\ pc'[d] \in {"stop", "stopped"} => path'[d] = path[d]
  <1>0. pc \in [Deployments -> PCs]
    BY DEF TypeOK
  <1>1. CASE Locate(d)
    BY <1>0, <1>1 DEF Locate, Goto, Window, Own, sheet
  <1>2. CASE ProbeServing(d) \/ ProbeElse(d) \/ StartConversion(d)
             \/ NoConversion(d) \/ EndConversion(d) \/ Preflight(d)
    BY <1>0, <1>2
       DEF ProbeServing, ProbeElse, StartConversion, NoConversion,
           EndConversion, Preflight, Goto, Window, Own, sheet, memory
  <1>3. CASE WriteFails(d)
    BY <1>0, <1>3 DEF WriteFails, Goto, Window, Own, sheet
  <1>4. CASE Stop(d) \/ StopFails(d) \/ VerifyPath(d) \/ Launch(d) \/ Served(d)
             \/ Raises(d)
    BY <1>0, <1>4
       DEF Stop, StopFails, VerifyPath, Launch, Served, Raises, Fail, Goto,
           Window, Own, sheet, memory
  <1>5. QED
    BY <1>1, <1>2, <1>3, <1>4 DEF Step

-----------------------------------------------------------------------------
(* The marked row                                                          *)

\* A value for this column is still to be written.
Left(d, c) == \E k \in DOMAIN cells[d] : cells[d][k].col = c

\* What it has still to write belongs to what it is writing.
Fit(d) ==
    /\ pc[d] \in {"marking_locked", "marking"} =>
          \A k \in DOMAIN cells[d] :
             /\ cells[d][k].col = "model" => cells[d][k].val = Deploying(path[d])
             /\ cells[d][k].col = "id" => cells[d][k].val = Deploying(Target[d])
             /\ cells[d][k].col = "tested" => cells[d][k].val = {}
    /\ pc[d] \in {"final_locked", "final"} =>
          \A k \in DOMAIN cells[d] :
             /\ cells[d][k].col = "model" => cells[d][k].val = Named(path[d])
             /\ cells[d][k].col = "id" => cells[d][k].val = Named(Target[d])
             /\ cells[d][k].col = "tested" => cells[d][k].val = {}

\* While it marks its row, every value is either there or still to be written;
\* then the marker stays until the service has been replaced.
Marked(d) ==
    /\ pc[d] \in {"marking_locked", "marking"} =>
          /\ Left(d, "model") \/ Own(d).model = Deploying(path[d])
          /\ Left(d, "id") \/ Own(d).id = Deploying(Target[d])
          /\ Left(d, "tested") \/ Own(d).tested = {}
    /\ pc[d] \in Hands => Own(d).model.deploying /\ Own(d).id = Deploying(Target[d])
    /\ pc[d] \in {"stop", "stopped"} => Own(d).model = Deploying(path[d])

AllMarked == \A d \in Deployments : Fit(d) /\ Marked(d)

\* A row with the markers alone is not reusable.
LEMMA MarkedNotReusable ==
    ASSUME NEW r \in RowType, NEW n, r.id = Deploying(n), n \in Names, r.tested = {}
    PROVE  ~ReusableState(r)
  <1>1. r.id # Blank
    BY RowsAssumption DEF Deploying, Blank
  <1>2. QED
    BY <1>1 DEF ReusableState, IsIdleEmpty, HasModel

\* People leave the names in a row alone.
LEMMA NamesStay ==
    ASSUME TypeOK, KeepsHome, OneRowEach, NEW d \in Deployments,
           BeginTests(PlannedRow[d]) \/ EndTests(PlannedRow[d])
           \/ SetReuse(PlannedRow[d])
    PROVE  Own(d)'.model = Own(d).model /\ Own(d)'.id = Own(d).id
  <1> DEFINE h == PlannedRow[d]
  <1>1. h \in RowIds /\ row \in [RowIds -> RowType] /\ row[h] \in RowType
    BY OwnRow DEF TypeOK, Own
  <1>2. \/ row' = [row EXCEPT ![h].tested = @ \cup {"running"}]
        \/ row' = [row EXCEPT ![h].tested = RequiredTasks]
        \/ row' = [row EXCEPT ![h].reuse = ~@]
    BY DEF BeginTests, EndTests, SetReuse
  <1>3. \/ row'[h] = [row[h] EXCEPT !.tested = @ \cup {"running"}]
        \/ row'[h] = [row[h] EXCEPT !.tested = RequiredTasks]
        \/ row'[h] = [row[h] EXCEPT !.reuse = ~@]
    BY <1>1, <1>2
  <1>4. row'[h].model = row[h].model /\ row'[h].id = row[h].id
    BY <1>1, <1>3 DEF RowType
  <1>5. QED
    BY <1>4 DEF Own

\* The values of the two writes.
LEMMA MarkFits ==
    ASSUME NEW d \in Deployments, cells'[d] = MarkValues(d), path'[d] = path[d]
    PROVE  /\ Left(d, "model")' /\ Left(d, "id")' /\ Left(d, "tested")'
           /\ \A k \in DOMAIN cells'[d] :
                 /\ cells'[d][k].col = "model" => cells'[d][k].val = Deploying(path'[d])
                 /\ cells'[d][k].col = "id" => cells'[d][k].val = Deploying(Target[d])
                 /\ cells'[d][k].col = "tested" => cells'[d][k].val = {}
  <1>1. /\ 1 \in DOMAIN MarkValues(d) /\ 2 \in DOMAIN MarkValues(d)
        /\ 3 \in DOMAIN MarkValues(d)
        /\ MarkValues(d)[1].col = "model" /\ MarkValues(d)[2].col = "id"
        /\ MarkValues(d)[3].col = "tested"
    BY DEF MarkValues, Cell
  <1>2. Left(d, "model")' /\ Left(d, "id")' /\ Left(d, "tested")'
    BY <1>1 DEF Left
  <1>3. \A k \in DOMAIN MarkValues(d) :
           /\ MarkValues(d)[k].col = "model" => MarkValues(d)[k].val = Deploying(path[d])
           /\ MarkValues(d)[k].col = "id" => MarkValues(d)[k].val = Deploying(Target[d])
           /\ MarkValues(d)[k].col = "tested" => MarkValues(d)[k].val = {}
    BY DEF MarkValues, Cell
  <1>4. QED
    BY <1>2, <1>3

LEMMA FinalFits ==
    ASSUME NEW d \in Deployments, cells'[d] = FinalValues(d), path'[d] = path[d]
    PROVE  \A k \in DOMAIN cells'[d] :
              /\ cells'[d][k].col = "model" => cells'[d][k].val = Named(path'[d])
              /\ cells'[d][k].col = "id" => cells'[d][k].val = Named(Target[d])
              /\ cells'[d][k].col = "tested" => cells'[d][k].val = {}
  <1>1. \A k \in DOMAIN FinalValues(d) :
           /\ FinalValues(d)[k].col = "model" => FinalValues(d)[k].val = Named(path[d])
           /\ FinalValues(d)[k].col = "id" => FinalValues(d)[k].val = Named(Target[d])
           /\ FinalValues(d)[k].col = "tested" => FinalValues(d)[k].val = {}
    BY DEF FinalValues, Cell
  <1>2. QED
    BY <1>1

\* A step of a deployment keeps its row marked.
LEMMA StepMarks ==
    ASSUME TypeOK, KeepsHome, OneRowEach, AllMarked, NEW d \in Deployments, Step(d)
    PROVE  Fit(d)' /\ Marked(d)'
  <1>0. /\ pc \in [Deployments -> PCs]
        /\ cells \in [Deployments -> Seq(CellWrites)]
        /\ Fit(d) /\ Marked(d)
    BY DEF TypeOK, AllMarked
  <1>1. CASE RefreshToMark(d)
    <2>1. /\ pc'[d] = "marking_locked" /\ cells'[d] = MarkValues(d)
          /\ path'[d] = path[d]
      BY <1>0, <1>1 DEF RefreshToMark, RefreshAndWrite, Goto
    <2>2. QED
      BY <2>1, MarkFits DEF Fit, Marked
  <1>2. CASE RefreshToFinish(d)
    <2>1. /\ pc'[d] = "final_locked" /\ cells'[d] = FinalValues(d)
          /\ path'[d] = path[d]
      BY <1>0, <1>2 DEF RefreshToFinish, RefreshAndWrite, Goto
    <2>2. QED
      BY <2>1, FinalFits DEF Fit, Marked
  <1>3. CASE FindRow(d)
    <2>1. /\ \/ pc[d] = "marking_locked" /\ pc'[d] = "marking"
             \/ pc[d] = "final_locked" /\ pc'[d] = "final"
          /\ cells' = cells /\ path' = path /\ row' = row
      BY <1>0, <1>3 DEF FindRow, Goto, sheet
    <2>2. QED
      BY <1>0, <2>1 DEF Fit, Marked, Left, Own
  <1>4. CASE PatchCell(d)
    <2>1. pc' = pc /\ path' = path /\ pc[d] \in {"marking", "final"}
      BY <1>4 DEF PatchCell
    <2>2. Fit(d)'
      BY <1>0, <1>4, <2>1, CellsLeft DEF Fit
    <2>3. ASSUME NEW c \in {"model", "id", "tested"}, Left(d, c)
          PROVE  Left(d, c)' \/ cells[d][1].col = c
      <3>1. PICK k \in DOMAIN cells[d] : cells[d][k].col = c
        BY <2>3 DEF Left
      <3>2. CASE k = 1
        BY <3>1, <3>2
      <3>3. CASE k # 1
        BY <1>4, <3>1, <3>3, CellsLeft DEF Left
      <3>4. QED
        BY <3>2, <3>3
    <2>4. CASE pc[d] = "marking"
      <3> DEFINE w == cells[d][1]
      <3>1. /\ w.col = "model" => w.val = Deploying(path[d])
            /\ w.col = "id" => w.val = Deploying(Target[d])
            /\ w.col = "tested" => w.val = {}
        BY <1>0, <1>4, <2>4, OwnPatch DEF Fit
      <3>2. /\ Left(d, "model") \/ Own(d).model = Deploying(path[d])
            /\ Left(d, "id") \/ Own(d).id = Deploying(Target[d])
            /\ Left(d, "tested") \/ Own(d).tested = {}
        BY <1>0, <2>4 DEF Marked
      <3>3. /\ Own(d)'.model  = IF w.col = "model" THEN w.val ELSE Own(d).model
            /\ Own(d)'.id     = IF w.col = "id" THEN w.val ELSE Own(d).id
            /\ Own(d)'.tested = IF w.col = "tested" THEN w.val ELSE Own(d).tested
        BY <1>4, OwnPatch
      <3> HIDE DEF w
      <3>4. Left(d, "model")' \/ Own(d)'.model = Deploying(path[d])
        BY <2>3, <3>1, <3>2, <3>3 DEF w
      <3>5. Left(d, "id")' \/ Own(d)'.id = Deploying(Target[d])
        BY <2>3, <3>1, <3>2, <3>3 DEF w
      <3>6. Left(d, "tested")' \/ Own(d)'.tested = {}
        BY <2>3, <3>1, <3>2, <3>3 DEF w
      <3>7. Marked(d)'
        BY <2>1, <2>4, <3>4, <3>5, <3>6 DEF Marked
      <3>8. QED
        BY <2>2, <3>7
    <2>5. CASE pc[d] = "final"
      BY <2>1, <2>2, <2>5 DEF Marked
    <2>6. QED
      BY <2>1, <2>4, <2>5
  <1>5. CASE EndWrite(d)
    <2>1. /\ \/ pc[d] = "marking" /\ pc'[d] = "stop"
             \/ pc'[d] = "deployed"
          /\ cells[d] = <<>> /\ path' = path /\ row' = row
      BY <1>0, <1>5 DEF EndWrite, Goto, sheet, memory
    <2>2. \A c : ~Left(d, c)
      BY <2>1 DEF Left
    <2>3. pc[d] = "marking" =>
             /\ Own(d).model = Deploying(path[d]) /\ Own(d).id = Deploying(Target[d])
             /\ Own(d).model.deploying
      BY <1>0, <2>2 DEF Marked, Deploying
    <2>4. QED
      BY <2>1, <2>3 DEF Fit, Marked, Own
  <1>6. CASE ~RefreshToMark(d) /\ ~RefreshToFinish(d) /\ ~FindRow(d)
             /\ ~PatchCell(d) /\ ~EndWrite(d)
    <2>1. /\ Own(d)' = Own(d)
          /\ pc'[d] \notin {"marking_locked", "marking", "final_locked", "final"}
          /\ pc'[d] \in Hands => pc[d] \in Hands
          /\ pc'[d] \in {"stop", "stopped"} => path'[d] = path[d]
      BY <1>6, QuietStep DEF Window
    <2>2. pc'[d] \in {"stop", "stopped"} => pc[d] \in {"stop", "stopped"}
      BY <1>0, <1>6
         DEF Step, Locate, ProbeServing, ProbeElse, StartConversion,
             NoConversion, EndConversion, Preflight, WriteFails, Stop, StopFails,
             VerifyPath, Launch, Served, Raises, Fail, Goto
    <2>3. QED
      BY <1>0, <2>1, <2>2 DEF Fit, Marked
  <1>7. QED
    BY <1>1, <1>2, <1>3, <1>4, <1>5, <1>6

\* So do all other steps, and a retry has nothing to write yet.
LEMMA OthersMarks ==
    ASSUME TypeOK, KeepsHome, Careful, OneRowEach, OneEach, AllMarked, Next,
           NEW d \in Deployments, ~Step(d)
    PROVE  Fit(d)' /\ Marked(d)'
  <1>0. pc \in [Deployments -> PCs] /\ Fit(d) /\ Marked(d)
    BY DEF TypeOK, AllMarked
  <1>1. CASE pc'[d] \in {"failed", "start"}
    BY <1>1 DEF Fit, Marked
  <1>2. CASE Retry(d)
    BY <1>0, <1>1, <1>2 DEF Retry, Goto
  <1>3. CASE pc'[d] = pc[d] /\ cells'[d] = cells[d] /\ path'[d] = path[d] /\ ~Retry(d)
    <2>1. CASE Own(d)' = Own(d)
      BY <1>0, <1>3, <2>1 DEF Fit, Marked, Left
    <2>2. CASE Own(d)' # Own(d)
      <3>1. /\ ~Window(d)
            /\ \/ BeginTests(PlannedRow[d]) \/ EndTests(PlannedRow[d])
               \/ SetReuse(PlannedRow[d])
        BY <1>3, <2>2, NotItsStep
      <3>2. Own(d)'.model = Own(d).model /\ Own(d)'.id = Own(d).id
        BY <3>1, NamesStay
      <3>3. QED
        BY <1>0, <1>3, <3>1, <3>2 DEF Fit, Marked, Window
    <2>3. QED
      BY <2>1, <2>2
  <1>4. QED
    BY <1>1, <1>2, <1>3, NotItsStep

\* From the stop of a service until the model is served, the row of its worker
\* names the model that comes, with the marker.
THEOREM MarkedThroughout ==
    ASSUME Careful, OneRowEach, OneEach PROVE Spec => []AllMarked
  <1>1. Init => AllMarked
    BY DEF Init, AllMarked, Fit, Marked
  <1>2. ASSUME TypeOK, KeepsHome, AllMarked, [Next]_vars PROVE AllMarked'
    <2>1. ASSUME NEW d \in Deployments PROVE Fit(d)' /\ Marked(d)'
      <3>1. CASE Next
        BY <1>2, <3>1, StepMarks, OthersMarks
      <3>2. CASE UNCHANGED vars
        BY <1>2, <3>2 DEF AllMarked, Fit, Marked, Left, Own, vars, sheet, memory
      <3>3. QED
        BY <1>2, <3>1, <3>2
    <2>2. QED
      BY <2>1 DEF AllMarked
  <1>3. QED
    BY <1>1, <1>2, DeploymentTypes, AlwaysAtHome, PTL DEF Spec

\* A worker is reserved when its row is not reusable.
OwnReserved == \A d \in Deployments : Reserved(d) <=> ~ReusableState(Own(d))

LEMMA ReservedByRow ==
    ASSUME OneRowEach PROVE TypeOK /\ KeepsHome => OwnReserved
  <1> SUFFICES ASSUME TypeOK, KeepsHome, NEW d \in Deployments
               PROVE  Reserved(d) <=> ~ReusableState(Own(d))
    BY DEF OwnReserved
  <1>1. work[d] = Home(d)
    BY DEF KeepsHome, AtHome
  <1>2. \A r \in ToSet(order) : r \in RowIds
    BY LenProperties, ElementOfSeq DEF TypeOK, ToSet
  <1>3. QED
    BY <1>1, <1>2, OwnRow DEF Reserved, Own

\* A row stays unusable until tests are reported that ran when the service was
\* stopped: none begin on a marked row.
LEMMA StaysReserved ==
    ASSUME TypeOK, KeepsHome, Careful, OneRowEach, OneEach, AllMarked, Next,
           NEW d \in Deployments, pc'[d] \in Hands,
           pc[d] \in Hands => ~ReusableState(Own(d))
    PROVE  ~ReusableState(Own(d)') \/ EndTests(PlannedRow[d])
  <1>0. /\ pc \in [Deployments -> PCs] /\ Marked(d) /\ Fit(d)
        /\ Target[d] \in Names /\ Own(d) \in RowType
    BY DeploymentAssumption, OwnRow DEF TypeOK, AllMarked
  <1>1. CASE Step(d)
    <2>1. CASE EndWrite(d)
      <3>1. pc[d] = "marking" /\ cells[d] = <<>> /\ row' = row
        BY <1>0, <2>1 DEF EndWrite, Goto, sheet
      <3>2. \A c : ~Left(d, c)
        BY <3>1 DEF Left
      <3>3. Own(d).id = Deploying(Target[d]) /\ Own(d).tested = {}
        BY <1>0, <3>1, <3>2 DEF Marked
      <3>4. Own(d)' = Own(d)
        BY <3>1 DEF Own
      <3>5. QED
        BY <1>0, <3>3, <3>4, MarkedNotReusable
    <2>2. CASE RefreshToMark(d) \/ RefreshToFinish(d) \/ FindRow(d) \/ PatchCell(d)
      <3>1. pc'[d] \notin Hands
        BY <1>0, <2>2
           DEF RefreshToMark, RefreshToFinish, RefreshAndWrite, FindRow,
               PatchCell, Goto
      <3>2. QED
        BY <3>1
    <2>3. QED
      BY <1>1, <2>1, <2>2, QuietStep
  <1>2. CASE Retry(d)
    BY <1>0, <1>2 DEF Retry, Goto
  <1>3. CASE ~Step(d) /\ ~Retry(d)
    <2>1. pc'[d] = pc[d]
      BY <1>3, NotItsStep
    <2>2. CASE Own(d)' = Own(d)
      BY <2>1, <2>2
    <2>3. CASE BeginTests(PlannedRow[d])
      <3>1. \E n \in Names : Own(d).model = Named(n)
        BY <2>3 DEF BeginTests, Own
      <3>2. Own(d).model.deploying
        BY <1>0, <2>1 DEF Marked
      <3>3. QED
        BY <3>1, <3>2 DEF Named
    <2>4. CASE SetReuse(PlannedRow[d])
      <3>1. row \in [RowIds -> RowType] /\ PlannedRow[d] \in RowIds
        BY OwnRow DEF TypeOK
      <3>2. Own(d)' = [Own(d) EXCEPT !.reuse = ~@]
        BY <2>4, <3>1 DEF SetReuse, Own
      <3>3. Own(d)'.model = Own(d).model /\ Own(d)'.id = Own(d).id
            /\ Own(d)'.tested = Own(d).tested
        BY <1>0, <3>2 DEF RowType
      <3>4. ReusableState(Own(d)') <=> ReusableState(Own(d))
        BY <3>3 DEF ReusableState, IsIdleEmpty, HasModel, HasFinished
      <3>5. QED
        BY <2>1, <3>4
    <2>5. QED
      BY <1>3, <2>2, <2>3, <2>4, NotItsStep
  <1>4. QED
    BY <1>1, <1>2, <1>3

\* While its service is replaced, a worker's row cannot be taken for reusable,
\* whatever happens to the table and to other deployments
\* (reusable_workers.py:238, is_reusable_worker_state).
THEOREM ReservedThroughout ==
    ASSUME Careful, OneRowEach, OneEach PROVE Spec => ReservedWhileReplaced
  <1> DEFINE A == \A d \in Deployments :
                     /\ pc'[d] \in Hands
                     /\ pc[d] \in Hands => Reserved(d)
                     => Reserved(d)' \/ \E r \in RowIds : EndTests(r) /\ row[r].ip = work[d]
  <1>1. ASSUME TypeOK, KeepsHome, AllMarked, OwnReserved, OwnReserved', Next
        PROVE  A
    <2>1. ASSUME NEW d \in Deployments, pc'[d] \in Hands,
                 pc[d] \in Hands => Reserved(d)
          PROVE  Reserved(d)' \/ \E r \in RowIds : EndTests(r) /\ row[r].ip = work[d]
      <3>1. ~ReusableState(Own(d)') \/ EndTests(PlannedRow[d])
        BY <1>1, <2>1, StaysReserved DEF OwnReserved
      <3>2. CASE ~ReusableState(Own(d)')
        BY <1>1, <3>2 DEF OwnReserved
      <3>3. PlannedRow[d] \in RowIds /\ row[PlannedRow[d]].ip = work[d]
        BY <1>1, OwnRow DEF KeepsHome, AtHome, Own
      <3>4. QED
        BY <3>1, <3>2, <3>3
    <2>2. QED
      BY <2>1
  <1>2. TypeOK /\ KeepsHome /\ AllMarked /\ OwnReserved /\ OwnReserved' /\ [Next]_vars
        => [A]_vars
    BY <1>1
  <1>3. QED
    BY <1>2, DeploymentTypes, AlwaysAtHome, MarkedThroughout, ReservedByRow, PTL
       DEF ReservedWhileReplaced, Spec

-----------------------------------------------------------------------------
(* The row names the target                                                *)

\* Directories are what they are given as.  (Where a path resolves to a child after
\* the marker was written, FinishedRowAccepted fails: the row names the path as given.)
Resolved == \A n \in Names : Child[n] = n

\* From the probe that found the target on, or from the marker on, the row
\* names it.
NamesTarget ==
    \A d \in Deployments :
        /\ path[d] = Target[d]
        /\ pc[d] \in {"probe", "served", "final_locked", "final"} \cup Hands =>
              Own(d).model.of = Target[d] /\ Own(d).id.of = Target[d]

\* A set of positions has a first one.
LEMMA FirstOne ==
    ASSUME NEW T, T \subseteq Nat, T # {}
    PROVE  \E i \in T : \A j \in T : i <= j
  <1>1. PICK i \in T : \A j \in T : ~ (<<j, i>> \in OpToRel(<, Nat))
    BY NatLessThanWellFounded, WFMin
  <1>2. ASSUME NEW j \in T PROVE i <= j
    <2>1. ~ (<<j, i>> \in OpToRel(<, Nat)) /\ <<j, i>> \in Nat \X Nat
      BY <1>1
    <2>2. ~ (j < i)
      BY <2>1 DEF OpToRel
    <2>3. QED
      BY <2>2
  <1>3. QED
    BY <1>2

\* While its rows stay, a refresh finds one.
LEMMA Located ==
    ASSUME TypeOK, KeepsHome, OneRowEach, NEW d \in Deployments
    PROVE  LocatedRows(d) # {}
  <1>1. PlannedRow[d] \in ToSet(order) /\ Own(d).ip = Home(d)
    BY OwnRow
  <1>2. PICK j \in DOMAIN order : order[j] = PlannedRow[d]
    BY <1>1 DEF ToSet
  <1>3. j \in WithIp(plan[d].ip)
    BY <1>1, <1>2 DEF WithIp, Table, Own, KeepsHome, AtHome
  <1>4. WithIp(plan[d].ip) \subseteq Nat
    BY LenProperties DEF WithIp, TypeOK
  <1>5. \E i \in WithIp(plan[d].ip) : \A k \in WithIp(plan[d].ip) : i <= k
    BY <1>3, <1>4, FirstOne
  <1>6. QED
    BY <1>3, <1>5 DEF LocatedRows

\* A step of a deployment keeps to its target.
LEMMA StepNames ==
    ASSUME TypeOK, KeepsHome, OneRowEach, Resolved, AllMarked, NamesTarget,
           NEW d \in Deployments, Step(d)
    PROVE  /\ path'[d] = Target[d]
           /\ pc'[d] \in {"probe", "served", "final_locked", "final"} \cup Hands =>
                 Own(d)'.model.of = Target[d] /\ Own(d)'.id.of = Target[d]
  <1>0. /\ pc \in [Deployments -> PCs] /\ path \in [Deployments -> Names]
        /\ cells \in [Deployments -> Seq(CellWrites)]
        /\ Fit(d) /\ Marked(d) /\ path[d] = Target[d]
        /\ pc[d] \in {"probe", "served", "final_locked", "final"} \cup Hands =>
              Own(d).model.of = Target[d] /\ Own(d).id.of = Target[d]
    BY DEF TypeOK, AllMarked, NamesTarget
  <1>1. path'[d] = Target[d]
    <2>1. CASE Preflight(d) \/ VerifyPath(d)
      <3>1. path' = path \/ path' = [path EXCEPT ![d] = Child[path[d]]]
        BY <2>1 DEF Preflight, VerifyPath, Probed
      <3>2. Child[path[d]] = path[d]
        BY <1>0 DEF Resolved
      <3>3. QED
        BY <1>0, <3>1, <3>2
    <2>2. CASE ~Preflight(d) /\ ~VerifyPath(d)
      <3>1. path' = path
        BY <2>2
           DEF Step, Locate, ProbeServing, ProbeElse, StartConversion,
               NoConversion, EndConversion, RefreshToMark, RefreshToFinish,
               RefreshAndWrite, FindRow, PatchCell, EndWrite, WriteFails, Stop,
               StopFails, Launch, Served, Raises, Fail, memory
      <3>2. QED
        BY <1>0, <3>1
    <2>3. QED
      BY <2>1, <2>2
  <1>2. pc'[d] \in {"probe", "served", "final_locked", "final"} \cup Hands =>
           Own(d)'.model.of = Target[d] /\ Own(d)'.id.of = Target[d]
    <2>1. CASE Locate(d)
      <3>1. PICK i \in LocatedRows(d) :
               pc' = [pc EXCEPT ![d] = IF AlreadyServes(Table[i], path[d], Target[d])
                                       THEN "probe" ELSE "ready"]
        BY <2>1 DEF Locate, Refreshed, Goto
      <3>2. Table[i] = Own(d)
        BY LocatedOwn
      <3>3. Own(d)' = Own(d)
        BY <2>1 DEF Locate, Own, sheet
      <3>4. QED
        BY <1>0, <3>1, <3>2, <3>3 DEF AlreadyServes
    <2>2. CASE PatchCell(d)
      <3>1. pc' = pc /\ pc[d] \in {"marking", "final"}
        BY <2>2 DEF PatchCell
      <3>2. CASE pc[d] = "final"
        <4> DEFINE w == cells[d][1]
        <4>1. /\ w.col = "model" => w.val = Named(Target[d])
              /\ w.col = "id" => w.val = Named(Target[d])
          BY <1>0, <2>2, <3>2, OwnPatch DEF Fit
        <4>2. /\ Own(d)'.model = IF w.col = "model" THEN w.val ELSE Own(d).model
              /\ Own(d)'.id    = IF w.col = "id" THEN w.val ELSE Own(d).id
          BY <2>2, OwnPatch
        <4> HIDE DEF w
        <4>3. QED
          BY <1>0, <3>2, <4>1, <4>2 DEF Named
      <3>3. QED
        BY <3>1, <3>2
    <2>3. CASE EndWrite(d)
      <3>1. /\ pc[d] = "marking" \/ pc'[d] = "deployed"
            /\ cells[d] = <<>> /\ row' = row
        BY <1>0, <2>3 DEF EndWrite, Goto, sheet
      <3>2. \A c : ~Left(d, c)
        BY <3>1 DEF Left
      <3>3. pc[d] = "marking" => Own(d).model = Deploying(path[d])
                                 /\ Own(d).id = Deploying(Target[d])
        BY <1>0, <3>2 DEF Marked
      <3>4. Own(d)' = Own(d)
        BY <3>1 DEF Own
      <3>5. QED
        BY <1>0, <3>1, <3>3, <3>4 DEF Deploying
    <2>4. CASE ~Locate(d) /\ ~PatchCell(d) /\ ~EndWrite(d)
      <3>1. row' = row
        BY <2>4
           DEF Step, ProbeServing, ProbeElse, StartConversion, NoConversion,
               EndConversion, Preflight, RefreshToMark, RefreshToFinish,
               RefreshAndWrite, FindRow, WriteFails, Stop, StopFails,
               VerifyPath, Launch, Served, Raises, Fail, sheet
      <3>2. pc'[d] \in {"probe", "served", "final_locked", "final"} \cup Hands =>
               pc[d] \in {"probe", "served", "final_locked", "final"} \cup Hands
        BY <1>0, <2>4
           DEF Step, ProbeServing, ProbeElse, StartConversion, NoConversion,
               EndConversion, Preflight, RefreshToMark, RefreshToFinish,
               RefreshAndWrite, FindRow, WriteFails, Stop, StopFails,
               VerifyPath, Launch, Served, Raises, Fail, Goto
      <3>3. Own(d)' = Own(d)
        BY <3>1 DEF Own
      <3>4. QED
        BY <1>0, <3>2, <3>3
    <2>5. QED
      BY <2>1, <2>2, <2>3, <2>4
  <1>3. QED
    BY <1>1, <1>2

LEMMA OthersNames ==
    ASSUME TypeOK, KeepsHome, Careful, OneRowEach, OneEach, NamesTarget, Next,
           NEW d \in Deployments, ~Step(d)
    PROVE  /\ path'[d] = Target[d]
           /\ pc'[d] \in {"probe", "served", "final_locked", "final"} \cup Hands =>
                 Own(d)'.model.of = Target[d] /\ Own(d)'.id.of = Target[d]
  <1>0. /\ pc \in [Deployments -> PCs] /\ path \in [Deployments -> Names]
        /\ path[d] = Target[d]
        /\ pc[d] \in {"probe", "served", "final_locked", "final"} \cup Hands =>
              Own(d).model.of = Target[d] /\ Own(d).id.of = Target[d]
    BY DEF TypeOK, NamesTarget
  <1>1. CASE Retry(d)
    BY <1>0, <1>1 DEF Retry, Goto
  <1>2. CASE ~Retry(d)
    <2>1. path'[d] = path[d] /\ (pc'[d] = pc[d] \/ pc'[d] = "failed")
      BY <1>2, NotItsStep
    <2>2. Own(d)'.model = Own(d).model /\ Own(d)'.id = Own(d).id
      BY <1>2, NotItsStep, NamesStay
    <2>3. QED
      BY <1>0, <2>1, <2>2
  <1>3. QED
    BY <1>1, <1>2

\* The refresh before the final write accepts the row that carries the
\* deployment's own marker, or the model it found there
\* (reusable_executor.py:1242, _current_row_safe_for_plan).
THEOREM FinishedAccepted ==
    ASSUME Careful, OneRowEach, OneEach, Resolved
    PROVE  Spec => []FinishedRowAccepted
  <1>1. Init => NamesTarget
    BY DEF Init, NamesTarget
  <1>2. ASSUME TypeOK, KeepsHome, AllMarked, NamesTarget, [Next]_vars
        PROVE  NamesTarget'
    <2>1. ASSUME NEW d \in Deployments
          PROVE  /\ path'[d] = Target[d]
                 /\ pc'[d] \in {"probe", "served", "final_locked", "final"} \cup Hands =>
                       Own(d)'.model.of = Target[d] /\ Own(d)'.id.of = Target[d]
      <3>1. CASE Next
        BY <1>2, <3>1, StepNames, OthersNames
      <3>2. CASE UNCHANGED vars
        BY <1>2, <3>2 DEF NamesTarget, Own, vars, sheet, memory
      <3>3. QED
        BY <1>2, <3>1, <3>2
    <2>2. QED
      BY <2>1 DEF NamesTarget
  <1>3. ASSUME TypeOK, KeepsHome, NamesTarget PROVE FinishedRowAccepted
    <2>1. ASSUME NEW d \in Deployments, pc[d] = "served"
          PROVE  \E i \in DOMAIN order : Refreshed(d, i)
      <3>1. PICK i \in LocatedRows(d) : TRUE
        BY <1>3, Located
      <3>2. i \in DOMAIN order /\ Table[i] = Own(d)
        BY <1>3, LocatedOwn, LocatedAtHome
      <3>3. AlreadyServes(Table[i], path[d], Target[d])
        BY <1>3, <2>1, <3>2 DEF NamesTarget, AlreadyServes
      <3>4. QED
        BY <3>2, <3>3 DEF Refreshed, Safe, SafeForPlan
    <2>2. QED
      BY <2>1 DEF FinishedRowAccepted
  <1>4. QED
    BY <1>1, <1>2, <1>3, DeploymentTypes, AlwaysAtHome, MarkedThroughout, PTL DEF Spec

-----------------------------------------------------------------------------
(* Tests and stops                                                         *)

\* No execution was repeated after a death, and the row did not name the model
\* already when it was planned.
Watched(d) ==
    /\ deaths = 0 \/ retries = 0
    /\ FirstRows[PlannedRow[d]].id.of # Target[d]

\* A deployment that has not come to its final cells, and will go on or may be
\* repeated.
Unfinished(d) ==
    pc[d] \notin {"final", "deployed"} /\ (pc[d] = "failed" => deaths = 0)

\* The model is marked before the model id.
ModelFirst(d) ==
    pc[d] \in {"marking_locked", "marking"} =>
        \A j, k \in DOMAIN cells[d] :
            cells[d][j].col = "model" /\ cells[d][k].col = "id" => j < k

\* Tests show in the row; the row names the target only with the marker and
\* without tests; and none run where the deployment is about to write.
Untested(d) ==
    Watched(d) =>
        /\ Home(d) \in testing => "running" \in Own(d).tested
        /\ Unfinished(d) /\ Own(d).id.of = Target[d] =>
              Own(d).model.deploying /\ Home(d) \notin testing
        /\ Window(d) => Home(d) \notin testing

Quiet == \A d \in Deployments : ModelFirst(d) /\ Untested(d)

\* A row that a refresh accepts has no tests running.
LEMMA AcceptedUntested ==
    ASSUME TypeOK, KeepsHome, OneRowEach, NEW d \in Deployments, Untested(d),
           Watched(d), Unfinished(d), NEW i \in DOMAIN order, Refreshed(d, i)
    PROVE  Home(d) \notin testing
  <1>1. Table[i] = Own(d)
    BY LocatedOwn DEF Refreshed
  <1>2. AlreadyServes(Own(d), path[d], Target[d]) \/ IsReusable(Own(d))
    BY <1>1 DEF Refreshed, Safe, SafeForPlan
  <1>3. CASE AlreadyServes(Own(d), path[d], Target[d])
    BY <1>3 DEF AlreadyServes, Untested
  <1>4. CASE IsReusable(Own(d))
    <2>1. "running" \notin Own(d).tested
      BY <1>4 DEF IsReusable, ReusableState, Marks
    <2>2. QED
      BY <2>1 DEF Untested
  <1>5. QED
    BY <1>2, <1>3, <1>4

\* A step of a deployment starts no tests and names the target only where none
\* run.
LEMMA StepQuiet ==
    ASSUME TypeOK, KeepsHome, OneRowEach, AllMarked, Quiet,
           NEW d \in Deployments, Step(d)
    PROVE  ModelFirst(d)' /\ Untested(d)'
  <1>0. /\ pc \in [Deployments -> PCs]
        /\ cells \in [Deployments -> Seq(CellWrites)]
        /\ Fit(d) /\ Marked(d) /\ ModelFirst(d) /\ Untested(d)
    BY DEF TypeOK, AllMarked, Quiet
  <1>1. testing' = testing /\ deaths' = deaths /\ retries' = retries
    BY DEF Step, Locate, ProbeServing, ProbeElse, StartConversion,
           NoConversion, EndConversion, Preflight, RefreshToMark,
           RefreshToFinish, RefreshAndWrite, FindRow, PatchCell, EndWrite,
           WriteFails, Stop, StopFails, VerifyPath, Launch, Served, Raises,
           Fail, bounds
  <1>2. Watched(d)' <=> Watched(d)
    BY <1>1 DEF Watched
  <1>3. CASE RefreshToMark(d) \/ RefreshToFinish(d)
    <2>1. /\ pc[d] \in {"mark", "served"} /\ row' = row
          /\ \/ pc'[d] = "marking_locked" /\ cells'[d] = MarkValues(d)
             \/ pc'[d] = "final_locked"
          /\ \E i \in DOMAIN order : Refreshed(d, i)
      BY <1>0, <1>3
         DEF RefreshToMark, RefreshToFinish, RefreshAndWrite, Goto, sheet
    <2>2. ModelFirst(d)'
      <3>1. \A j, k \in DOMAIN MarkValues(d) :
               MarkValues(d)[j].col = "model" /\ MarkValues(d)[k].col = "id" => j < k
        BY DEF MarkValues, Cell
      <3>2. QED
        BY <2>1, <3>1 DEF ModelFirst
    <2>3. Watched(d) => Home(d) \notin testing
      BY <1>0, <2>1, AcceptedUntested DEF Unfinished
    <2>4. Own(d)' = Own(d) /\ Unfinished(d)
      BY <2>1 DEF Own, Unfinished
    <2>5. Untested(d)'
      BY <1>0, <1>1, <1>2, <2>3, <2>4 DEF Untested, Home
    <2>6. QED
      BY <2>2, <2>5
  <1>4. CASE FindRow(d)
    <2>1. /\ \/ pc[d] = "marking_locked" /\ pc'[d] = "marking"
             \/ pc[d] = "final_locked" /\ pc'[d] = "final"
          /\ cells' = cells /\ row' = row
      BY <1>0, <1>4 DEF FindRow, Goto, sheet
    <2>2. ModelFirst(d)'
      BY <1>0, <2>1 DEF ModelFirst
    <2>3. Own(d)' = Own(d) /\ Window(d) /\ Unfinished(d)
      BY <2>1 DEF Own, Window, Unfinished
    <2>4. QED
      BY <1>0, <1>1, <1>2, <2>2, <2>3 DEF Untested, Home
  <1>5. CASE PatchCell(d)
    <2> DEFINE w == cells[d][1]
    <2>1. pc' = pc /\ pc[d] \in {"marking", "final"}
      BY <1>5 DEF PatchCell
    <2>2. ModelFirst(d)'
      <3>1. ASSUME pc[d] = "marking", NEW j \in DOMAIN cells'[d], NEW k \in DOMAIN cells'[d],
                   cells'[d][j].col = "model", cells'[d][k].col = "id"
            PROVE  j < k
        <4>1. /\ j + 1 \in DOMAIN cells[d] /\ cells'[d][j] = cells[d][j + 1]
              /\ k + 1 \in DOMAIN cells[d] /\ cells'[d][k] = cells[d][k + 1]
          BY <1>5, <3>1, CellsLeft
        <4>2. j + 1 < k + 1
          BY <1>0, <3>1, <4>1 DEF ModelFirst
        <4>3. j \in Int /\ k \in Int
          <5>1. cells'[d] \in Seq(CellWrites)
            BY StepType DEF TypeOK
          <5>2. QED
            BY <3>1, <5>1, LenProperties
        <4>4. QED
          BY <4>2, <4>3
      <3>2. QED
        BY <2>1, <3>1 DEF ModelFirst
    <2>3. /\ Own(d)'.model  = IF w.col = "model" THEN w.val ELSE Own(d).model
          /\ Own(d)'.id     = IF w.col = "id" THEN w.val ELSE Own(d).id
          /\ 1 \in DOMAIN cells[d]
      BY <1>5, OwnPatch
    <2>4. Watched(d) => Home(d) \notin testing
      BY <1>0, <2>1 DEF Untested, Window
    <2>5. ASSUME pc[d] = "marking", Own(d)'.id.of = Target[d], Watched(d)
          PROVE  Own(d)'.model.deploying
      <3>1. w.col = "model" => w.val = Deploying(path[d])
        BY <1>0, <2>3, <2>5 DEF Fit
      <3>2. CASE w.col = "model"
        BY <2>3, <3>1, <3>2 DEF Deploying
      <3>3. CASE w.col = "id"
        <4>1. ~Left(d, "model")
          <5>1. ASSUME NEW j \in DOMAIN cells[d], cells[d][j].col = "model"
                PROVE  FALSE
            <6>1. j < 1
              BY <1>0, <2>3, <2>5, <3>3, <5>1 DEF ModelFirst
            <6>2. j \in 1 .. Len(cells[d])
              BY <1>0, <5>1, LenProperties
            <6>3. QED
              BY <6>1, <6>2
          <5>2. QED
            BY <5>1 DEF Left
        <4>2. Own(d).model = Deploying(path[d])
          BY <1>0, <2>5, <4>1 DEF Marked
        <4>3. QED
          BY <2>3, <3>3, <4>2 DEF Deploying
      <3>4. CASE w.col # "model" /\ w.col # "id"
        <4>1. Own(d)'.model = Own(d).model /\ Own(d)'.id = Own(d).id
          BY <2>3, <3>4
        <4>2. Unfinished(d) /\ Own(d).id.of = Target[d]
          BY <2>5, <4>1 DEF Unfinished
        <4>3. QED
          BY <1>0, <2>5, <4>1, <4>2 DEF Untested
      <3>5. QED
        BY <3>2, <3>3, <3>4
    <2> HIDE DEF w
    <2>6. Unfinished(d)' => pc[d] = "marking"
      BY <2>1 DEF Unfinished
    <2>7. Untested(d)'
      BY <1>1, <1>2, <2>4, <2>5, <2>6 DEF Untested, Home
    <2>8. QED
      BY <2>2, <2>7
  <1>6. CASE ~RefreshToMark(d) /\ ~RefreshToFinish(d) /\ ~FindRow(d) /\ ~PatchCell(d)
    <2>1. /\ row' = row
          /\ Unfinished(d)' => Unfinished(d)
          /\ ~Window(d)'
      <3>1. CASE EndWrite(d)
        BY <1>0, <3>1 DEF EndWrite, Goto, Unfinished, Window, sheet
      <3>2. CASE ~EndWrite(d)
        <4>1. row' = row
          BY <1>6, <3>2
             DEF Step, Locate, ProbeServing, ProbeElse, StartConversion,
                 NoConversion, EndConversion, Preflight, WriteFails, Stop,
                 StopFails, VerifyPath, Launch, Served, Raises, Fail, sheet
        <4>2. pc[d] \in {"final", "deployed", "failed"} => pc'[d] = "deployed"
          BY <1>0, <1>6, <3>2
             DEF Step, Locate, ProbeServing, ProbeElse, StartConversion,
                 NoConversion, EndConversion, Preflight, WriteFails, Stop,
                 StopFails, VerifyPath, Launch, Served, Raises, Fail, Goto
        <4>3. QED
          BY <1>6, <3>2, <4>1, <4>2, QuietStep DEF Unfinished
      <3>3. QED
        BY <3>1, <3>2
    <2>2. Own(d)' = Own(d)
      BY <2>1 DEF Own
    <2>3. ModelFirst(d)'
      BY <2>1 DEF ModelFirst, Window
    <2>4. QED
      BY <1>0, <1>1, <1>2, <2>1, <2>2, <2>3 DEF Untested, Home
  <1>7. QED
    BY <1>3, <1>4, <1>5, <1>6

\* People begin tests only on a row without a marker.
LEMMA EditedUntested ==
    ASSUME TypeOK, KeepsHome, OneRowEach, NEW d \in Deployments, Untested(d),
           Watched(d), ~Window(d),
           BeginTests(PlannedRow[d]) \/ EndTests(PlannedRow[d])
           \/ SetReuse(PlannedRow[d])
    PROVE  /\ Home(d) \in testing' => "running" \in Own(d)'.tested
           /\ Unfinished(d) /\ Own(d)'.id.of = Target[d] =>
                 Own(d)'.model.deploying /\ Home(d) \notin testing'
  <1> DEFINE h == PlannedRow[d]
  <1>1. /\ h \in RowIds /\ row \in [RowIds -> RowType] /\ Own(d) \in RowType
        /\ row[h] = Own(d) /\ row[h].ip = Home(d)
        /\ Own(d)'.model = Own(d).model /\ Own(d)'.id = Own(d).id
    BY OwnRow, NamesStay DEF TypeOK, Own
  <1>2. /\ Home(d) \in testing => "running" \in Own(d).tested
        /\ Unfinished(d) /\ Own(d).id.of = Target[d] =>
              Own(d).model.deploying /\ Home(d) \notin testing
    BY DEF Untested
  <1>3. CASE BeginTests(h)
    <2>1. Own(d)' = [Own(d) EXCEPT !.tested = @ \cup {"running"}]
      BY <1>1, <1>3 DEF BeginTests, Own
    <2>2. "running" \in Own(d)'.tested
      BY <1>1, <2>1 DEF RowType
    <2>3. ~Own(d).model.deploying
      BY <1>1, <1>3 DEF BeginTests, Named
    <2>4. QED
      BY <1>1, <1>2, <2>2, <2>3
  <1>4. CASE EndTests(h)
    <2>1. Home(d) \notin testing'
      BY <1>1, <1>4 DEF EndTests
    <2>2. QED
      BY <1>1, <1>2, <1>4, <2>1 DEF EndTests
  <1>5. CASE SetReuse(h)
    <2>1. Own(d)' = [Own(d) EXCEPT !.reuse = ~@] /\ testing' = testing
      BY <1>1, <1>5 DEF SetReuse, Own
    <2>2. Own(d)'.tested = Own(d).tested
      BY <1>1, <2>1 DEF RowType
    <2>3. QED
      BY <1>1, <1>2, <2>1, <2>2
  <1>6. QED
    BY <1>3, <1>4, <1>5

LEMMA OthersQuiet ==
    ASSUME TypeOK, KeepsHome, Careful, OneRowEach, OneEach,
           RetryFrom \subseteq {"failed"}, Quiet, Next,
           NEW d \in Deployments, ~Step(d)
    PROVE  ModelFirst(d)' /\ Untested(d)'
  <1>0. /\ pc \in [Deployments -> PCs] /\ ModelFirst(d) /\ Untested(d)
        /\ retries \in Nat /\ deaths \in Nat
    BY DeploymentAssumption DEF TypeOK, Quiet
  <1>1. CASE Retry(d)
    <2>1. /\ pc[d] = "failed" /\ pc'[d] = "start"
          /\ Own(d)' = Own(d) /\ testing' = testing
          /\ retries' # 0 /\ deaths' = deaths
      BY <1>0, <1>1 DEF Retry, Goto, Own, sheet
    <2>2. Watched(d)' => Watched(d) /\ Unfinished(d)
      BY <2>1 DEF Watched, Unfinished
    <2>3. QED
      BY <1>0, <2>1, <2>2 DEF ModelFirst, Untested, Window, Home
  <1>2. CASE ~Retry(d)
    <2>1. Watched(d)' => Watched(d)
      <3>1. (deaths' = 0 => deaths = 0) /\ (retries' = 0 => retries = 0)
        <4>1. retries' >= retries /\ deaths' >= deaths
          BY <1>2, NotItsStep
        <4>2. QED
          BY <1>0, <4>1
      <3>2. QED
        BY <3>1 DEF Watched
    <2>2. CASE pc'[d] = "failed" /\ deaths' > 0
      <3>1. ~Unfinished(d)' /\ ~Window(d)' /\ ModelFirst(d)'
        BY <2>2 DEF Unfinished, Window, ModelFirst
      <3>2. Watched(d)' => (Home(d) \in testing' => "running" \in Own(d)'.tested)
        BY <1>0, <1>2, <2>1, NotItsStep, EditedUntested DEF Untested
      <3>3. QED
        BY <3>1, <3>2 DEF Untested, Home
    <2>3. CASE pc'[d] = pc[d] /\ cells'[d] = cells[d]
      <3>1. ModelFirst(d)' /\ (Window(d)' <=> Window(d))
        BY <1>0, <2>3 DEF ModelFirst, Window
      <3>2. Unfinished(d)' => Unfinished(d)
        <4>1. deaths' = 0 => deaths = 0
          <5>1. deaths' >= deaths
            BY <1>2, NotItsStep
          <5>2. QED
            BY <1>0, <5>1
        <4>2. QED
          BY <2>3, <4>1 DEF Unfinished
      <3>3. CASE Own(d)' = Own(d) /\ (Home(d) \in testing' <=> Home(d) \in testing)
        BY <1>0, <2>1, <3>1, <3>2, <3>3 DEF Untested, Home
      <3>4. CASE /\ ~Window(d)
                 /\ \/ BeginTests(PlannedRow[d]) \/ EndTests(PlannedRow[d])
                    \/ SetReuse(PlannedRow[d])
        BY <1>0, <2>1, <3>1, <3>2, <3>4, EditedUntested DEF Untested, Home
      <3>5. QED
        BY <1>2, <3>3, <3>4, NotItsStep
    <2>4. QED
      BY <1>2, <2>2, <2>3, NotItsStep
  <1>3. QED
    BY <1>1, <1>2

\* Nothing but the repeat of an execution that died, or a plan for a row that
\* named its model already, stops a service on which people run tests
\* (reusable_executor.py:1242, _current_row_safe_for_plan).
THEOREM OnlyRepeatsStop ==
    ASSUME Careful, OneRowEach, OneEach, RetryFrom \subseteq {"failed"}
    PROVE  Spec => OnlyRepeatsStopTests
  <1>1. ASSUME Init, TypeOK, KeepsHome PROVE Quiet
    <2>1. ASSUME NEW d \in Deployments PROVE ModelFirst(d) /\ Untested(d)
      <3>1. PlannedRow[d] \in ToSet(FirstOrder) /\ Own(d) = FirstRows[PlannedRow[d]]
        BY <1>1, DeploymentAssumption DEF Init, Own
      <3>2. ASSUME Home(d) \in testing PROVE "running" \in Own(d).tested
        <4>1. PICK r \in ToSet(FirstOrder) :
                 FirstRows[r].ip = Home(d) /\ "running" \in FirstRows[r].tested
          BY <1>1, <3>2 DEF Init
        <4>2. r \in RowIds
          BY DeploymentAssumption, LenProperties, ElementOfSeq DEF ToSet
        <4>3. row[r].ip = Home(d) /\ row = FirstRows
          BY <1>1, <4>1 DEF Init
        <4>4. r = PlannedRow[d]
          BY <1>1, <4>2, <4>3, OwnRow
        <4>5. QED
          BY <3>1, <4>1, <4>4
      <3>3. pc[d] = "start"
        BY <1>1 DEF Init
      <3>4. QED
        BY <3>1, <3>2, <3>3 DEF ModelFirst, Untested, Watched, Window
    <2>2. QED
      BY <2>1 DEF Quiet
  <1>2. ASSUME TypeOK, KeepsHome, AllMarked, Quiet, [Next]_vars PROVE Quiet'
    <2>1. ASSUME NEW d \in Deployments PROVE ModelFirst(d)' /\ Untested(d)'
      <3>1. CASE Next
        BY <1>2, <3>1, StepQuiet, OthersQuiet
      <3>2. CASE UNCHANGED vars
        BY <1>2, <3>2 DEF Quiet, ModelFirst, Untested, Watched, Unfinished, Window,
                          Own, Home, vars, sheet, memory, bounds
      <3>3. QED
        BY <1>2, <3>1, <3>2
    <2>2. QED
      BY <2>1 DEF Quiet
  <1>3. ASSUME TypeOK, KeepsHome, AllMarked, Quiet, NEW d \in Deployments, Stop(d),
               work[d] \in testing
        PROVE  \/ deaths > 0 /\ retries > 0
               \/ FirstRows[PlannedRow[d]].id.of = Target[d]
    <2>1. work[d] = Home(d) /\ pc[d] = "stop" /\ Untested(d) /\ Marked(d)
      BY <1>3 DEF KeepsHome, AtHome, AllMarked, Quiet, Stop
    <2>2. Own(d).id.of = Target[d] /\ Unfinished(d)
      BY <2>1 DEF Marked, Deploying, Unfinished
    <2>3. ~Watched(d)
      BY <1>3, <2>1, <2>2 DEF Untested
    <2>4. deaths \in Nat /\ retries \in Nat
      BY <1>3, DeploymentAssumption DEF TypeOK
    <2>5. QED
      BY <2>3, <2>4 DEF Watched
  <1>4. TypeOK /\ KeepsHome /\ AllMarked /\ Quiet =>
           [\A d \in Deployments : Stop(d) /\ work[d] \in testing =>
               \/ deaths > 0 /\ retries > 0
               \/ FirstRows[PlannedRow[d]].id.of = Target[d]]_vars
    BY <1>3
  <1>5. QED
    BY <1>1, <1>2, <1>4, DeploymentTypes, AlwaysAtHome, MarkedThroughout, PTL
       DEF OnlyRepeatsStopTests, Spec
=============================================================================
