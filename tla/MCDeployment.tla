---------------------------- MODULE MCDeployment ----------------------------
(* Instances of Deployment for TLC: worker w1 has a tested model, w2 is     *)
(* idle, w3 has a tested model.                                             *)
EXTENDS Deployment, TLC
CONSTANTS w1, w2, w3, a, b, c, d1, d2, old, new1, new2, child1, auditor, api

Tested(w, n) == [ip |-> w, gpus |-> 4, model |-> Named(n), id |-> Named(n),
                 tested |-> RequiredTasks, reuse |-> TRUE]
Empty(w)     == [ip |-> w, gpus |-> 4, model |-> Blank, id |-> Blank,
                 tested |-> {}, reuse |-> TRUE]

TwoRows   == <<a, b>>
ThreeRows == <<a, b, c>>
Contents  == [r \in RowIds |-> CASE r = a -> Tested(w1, old)
                                [] r = b -> Empty(w2)
                                [] r = c -> Tested(w3, old)]
Plans     == [d \in Deployments |-> IF d = d1 THEN a ELSE b]
Targets   == [d \in Deployments |-> IF d = d1 THEN new1 ELSE new2]
OneProcess   == [d \in Deployments |-> auditor]
TwoProcesses == [d \in Deployments |-> IF d = d1 THEN auditor ELSE api]
AsGiven   == [n \in Names |-> n]
InAChild  == [n \in Names |-> IF n = new1 THEN child1 ELSE n]
=============================================================================
