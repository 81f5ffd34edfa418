----------------------------- MODULE MCTaskCards -----------------------------
(* The instance of TaskCards for TLC: the runs of the handler are alike, and   *)
(* so are the executors.                                                       *)
EXTENDS TaskCards, TLC

Alike == Permutations(Pollers) \cup Permutations(Executors)
=============================================================================
