---------------------------- MODULE MCTaskPoller ----------------------------
(* Instances of TaskPoller for TLC: task t1 has one checkpoint in two       *)
(* spellings, a and a2; task t2 has another, b; t3 has none.                *)
EXTENDS TaskPoller, TLC
CONSTANTS t1, t2, t3, a, a2, b, r1, api

Home    == [k \in Keys |-> IF k = b THEN t2 ELSE t1]
Spelled == [k \in Keys |-> IF k = b THEN 2 ELSE 1]
=============================================================================
