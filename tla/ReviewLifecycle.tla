-------------------------- MODULE ReviewLifecycle --------------------------
(***************************************************************************)
(* What the review queue promises about one review, whoever serves it: the *)
(* edges its status may take.  Work starts only by taking a queued or an   *)
(* approved review, an outcome is reached only from the work it belongs    *)
(* to, and a review at rest is moved by a person only.                     *)
(***************************************************************************)
CONSTANTS Reviews, Given   \* Given: the settled statuses a person decides from
VARIABLE status

Edge(r, from, to) ==
    /\ status[r] \in from
    /\ \E s \in to : status' = [status EXCEPT ![r] = s]

\* The poller or the CLI asks for a review.
Ask(r) == Edge(r, {"absent"}, {"pending"})

\* The queue takes it, to judge or to deploy.
Take(r) ==
    \/ Edge(r, {"pending", "retry_requested"}, {"codex_reviewing"})
    \/ Edge(r, {"approved"}, {"deploying"})

Judge(r) ==
    Edge(r, {"codex_reviewing"},
         {"approved", "blocked", "retry_requested", "needs_human"})

\* A deployment ends, or is declined because the row is not reusable.
Conclude(r) ==
    \/ Edge(r, {"deploying"}, {"deployed", "deploy_failed"})
    \/ Edge(r, {"approved", "deploying"}, {"needs_human"})

\* Work that died is queued again.
Requeue(r) == Edge(r, {"codex_reviewing", "deploying"}, {"retry_requested"})

\* The result could not be reported and a person is asked to look.
Escalate(r) ==
    Edge(r, {"blocked", "deployed", "deploy_failed", "approved",
             "retry_requested"}, {"needs_human"})

Person(r) ==
    Edge(r, Given, {"approved", "blocked", "retry_requested", "needs_human"})

Init == status = [r \in Reviews |-> "absent"]

Next == \E r \in Reviews :
    Ask(r) \/ Take(r) \/ Judge(r) \/ Conclude(r) \/ Requeue(r) \/ Escalate(r)
           \/ Person(r)

Spec == Init /\ [][Next]_status
=============================================================================
