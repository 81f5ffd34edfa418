--------------------------- MODULE ReviewedTasks ---------------------------
(***************************************************************************)
(* The poller beside the review queue.  TaskPoller keeps of a review what  *)
(* the poller can tell apart; here the table holds the statuses that the   *)
(* auditor, the executors and the people store, and they move as           *)
(* ReviewLifecycle allows, which the auditor's model implements.  A move   *)
(* that the poller can see changes its view.                               *)
(***************************************************************************)
EXTENDS TaskPoller

CONSTANT Given     \* the settled statuses that a person decides from
VARIABLE status    \* operator_reviews: the status of each review, by creation

Ids == 1..MaxReviews

\* The statuses that a poller treats alike.
Reserving == {"pending", "codex_reviewing", "approved"}
Finished  == {"deployed", "deploy_failed", "needs_human"}
Shelved   == {"blocked", "retry_requested"}
Statuses  == Reserving \cup Finished \cup Shelved \cup {"deploying"}

Seen(s) == IF s \in Reserving THEN "pending"
           ELSE IF s \in Finished THEN "ended"
           ELSE IF s \in Shelved THEN "aside"
           ELSE "deploying"

Queue == INSTANCE ReviewLifecycle WITH Reviews <- Ids

ReviewedInit == Init /\ Queue!Init

\* What the poller, its process and its surroundings do; a review that it makes is
\* asked of the queue.
Polls ==
    /\ \/ LoopStep \/ Start \/ Die \/ Time \/ People
       \/ \E h \in Hooks : HookStep(h)
       \/ \E t \in Tasks : Outage(t)
       \/ \E r \in Rows : RowTested(r)
       \/ \E i \in Ids : ExecutorMarks(i)
    /\ IF Len(reviews') # Len(reviews) THEN Queue!Ask(Len(reviews'))
                                       ELSE UNCHANGED status

\* The poller sees no more of a step of the queue than its view tells apart.
Unseen(i) == Seen(status'[i]) = Seen(status[i]) /\ UNCHANGED vars

UpToPoller ==
    <<listed, gone, posted, entries, times, disabled, tick, pc, local, lapses>>

\* A review is taken up, judged, and deployed or declined: the executor has a status
\* to store for the entry too.
Serves(i) ==
    /\ i \in DOMAIN reviews
    /\ \/ Queue!Take(i) /\ status[i] # "retry_requested"
       \/ Queue!Judge(i) \/ Queue!Conclude(i)
    /\ \/ Unseen(i)
       \/ /\ Seen(status'[i]) # Seen(status[i])
          /\ Moved(i, Seen(status'[i]), OwedFor(Seen(status'[i])))
          /\ free' = IF status'[i] = "deploying" THEN free \ {reviews[i].row} ELSE free
          /\ UNCHANGED <<UpToPoller, events, troubles>>

\* A person decides, the auditor requeues or gives up, a retry is taken up.
Disturbs(i) ==
    /\ i \in DOMAIN reviews
    /\ \/ Queue!Take(i) /\ status[i] = "retry_requested"
       \/ Queue!Requeue(i) \/ Queue!Escalate(i) \/ Queue!Person(i)
    /\ \/ Unseen(i)
       \/ /\ Seen(status'[i]) # Seen(status[i])
          /\ Moved(i, Seen(status'[i]), reviews[i].owed)
          /\ Trouble
          /\ UNCHANGED <<UpToPoller, free>>

ReviewedNext == Polls \/ \E i \in Ids : Serves(i) \/ Disturbs(i)

ReviewedSpec == ReviewedInit /\ [][ReviewedNext]_<<vars, status>>

\* The poller's view of the queue is what the queue stores.
ViewIsTrue ==
    /\ status \in [Ids -> Statuses \cup {"absent"}]
    /\ \A i \in Ids : i \notin DOMAIN reviews <=> status[i] = "absent"
    /\ \A i \in DOMAIN reviews : reviews[i].status = Seen(status[i])

\* Two reviews that the queue may still deploy plan for two rows, if the poller has had
\* both in view ever since it made them.
InQueue == {i \in DOMAIN reviews : status[i] \in Reserving \cup {"deploying"}}
QueuedRowsApart ==
    \A i, j \in InQueue :
        i # j /\ reviews[i].kept /\ reviews[j].kept => reviews[i].row # reviews[j].row
=============================================================================
