-------------------------- MODULE MCReviewAuditor --------------------------
(* Instances of ReviewAuditor for TLC: two reviews share worker w1.        *)
EXTENDS ReviewAuditor, TLC
CONSTANTS r1, r2, r3, w1, w2

\* Two reviews on one worker, and a third on another.
ThreeOnTwo == (r1 :> w1) @@ (r2 :> w1) @@ (r3 :> w2)
TwoOnOne   == [r \in Reviews |-> w1]

AnyStatus     == Statuses \ {"absent"}
HandedToHumans == {"needs_human", "blocked", "deploy_failed"}
=============================================================================
