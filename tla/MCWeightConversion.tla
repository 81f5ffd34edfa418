-------------------------- MODULE MCWeightConversion --------------------------
(* The instance of WeightConversion for TLC: two runs that each have a          *)
(* checkpoint of the same name.  One deployment asks for one of them, perhaps   *)
(* with an output of a chosen name; the other for either, or for the directory  *)
(* of a run.                                                                    *)
EXTENDS WeightConversion

CONSTANTS e1, e2, auditor, api, run1, run2, iter, chosen

Source(d)  == [dir |-> d, name |-> iter, hf |-> FALSE]
MCSources  == {Source(run1), Source(run2)}
FirstAsks  == {[path |-> Source(run1), alias |-> a] : a \in {None, chosen}}
SecondAsks == {[path |-> p, alias |-> None] : p \in {Source(run1), Source(run2), run1}}
MCAsks == [e \in Entries |-> IF e = e1 THEN FirstAsks ELSE SecondAsks]
=============================================================================
