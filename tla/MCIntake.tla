------------------------------ MODULE MCIntake ------------------------------
(* The instance of Intake for TLC: a message of each kind.                  *)
EXTENDS Intake, TLC
CONSTANTS m1, u1, c1, k1, x1, d0, d1, q1, q2

Known == (m1 :> "request") @@ (u1 :> "unclear") @@ (c1 :> "command")
      @@ (k1 :> "check") @@ (x1 :> "chatter")
KindOf == [m \in Messages |-> Known[m]]
Spells == (m1 :> q1) @@ (d1 :> q2) @@ [x \in {u1, c1, k1, x1, d0} |-> None]
=============================================================================
