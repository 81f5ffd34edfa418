------------------------------ MODULE Requests ------------------------------
(***************************************************************************)
(* Deployment requests (orchestrator.py, runner.py, health.py and the      *)
(* table requests).  Threads of several processes submit requests; the one *)
(* that creates a request also executes it, before submit returns.         *)
(*                                                                         *)
(* A step is one transaction or one command typed into a tmux window.      *)
(***************************************************************************)
EXTENDS RequestSettings, Naturals, Sequences

CONSTANT Threads

VARIABLES
    status,  \* requests.status, or "absent"
    sent,    \* the windows of a request into which its command was typed
    doing    \* what a thread is doing for a request
vars == <<status, sent, doing>>

Stages   == {"pending", "launching_resource", "resource_ready", "configuring_env",
             "starting_vllm", "health_checking"}
Final    == {"serving", "dry_run_complete", "failed_resource", "failed_env",
             "failed_vllm", "failed_health_check"}
Statuses == {"absent"} \cup Stages \cup Final

Idle == [request |-> None, at |-> "idle"]
Places == {"idle", "look", "insert", "run", "sent", "done", "raised"}

At(t, place) == doing[t].at = place
Req(t) == doing[t].request
Go(t, place) == doing' = [doing EXCEPT ![t] = [@ EXCEPT !.at = place]]

Init ==
    /\ status = [r \in Requests |-> "absent"]
    /\ sent = [r \in Requests |-> <<>>]
    /\ doing = [t \in Threads |-> Idle]

-----------------------------------------------------------------------------
\* submit.

Submit(t, r) ==
    /\ At(t, "idle")
    /\ doing' = [doing EXCEPT ![t] = [request |-> r, at |-> "look"]]
    /\ UNCHANGED <<status, sent>>

Look(t) ==
    /\ At(t, "look")
    /\ Go(t, IF status[Req(t)] = "absent" THEN "insert" ELSE "done")
    /\ UNCHANGED <<status, sent>>

\* Where the creator of a request goes.  An exception while the plan is built is
\* not caught: the request stays pending.
Planned(r) == IF r \in Unplannable THEN "raised" ELSE "run"

\* Faulty variant: the row is replaced.
InsertAnyway(t) ==
    /\ At(t, "insert")
    /\ status' = [status EXCEPT ![Req(t)] = "pending"]
    /\ Go(t, Planned(Req(t)))
    /\ UNCHANGED sent

\* The row may have been inserted by another process since.
Insert(t) ==
    /\ At(t, "insert")
    /\ IF status[Req(t)] = "absent"
       THEN /\ status' = [status EXCEPT ![Req(t)] = "pending"]
            /\ Go(t, Planned(Req(t)))
       ELSE Go(t, "done") /\ UNCHANGED status
    /\ UNCHANGED sent

-----------------------------------------------------------------------------
\* _execute: the stages, the window of a stage, and its failure.

Window == [launching_resource |-> "rlaunch", configuring_env |-> "env",
           starting_vllm |-> "vllm"]
\* Faulty variant: two stages fail alike.
FailureShared == [launching_resource |-> "failed_resource",
                  configuring_env |-> "failed_resource",
                  starting_vllm |-> "failed_vllm",
                  health_checking |-> "failed_health_check"]
Failure == [launching_resource |-> "failed_resource", configuring_env |-> "failed_env",
            starting_vllm |-> "failed_vllm",
            health_checking |-> "failed_health_check"]

\* The command of the stage, if there is one.
ToSend(s) ==
    IF s \in DOMAIN Window THEN {Window[s]} \cap (Optional \cup {"vllm"}) ELSE {}

Following ==
    [pending            |-> "launching_resource",
     launching_resource |-> "resource_ready",
     resource_ready     |-> IF "env" \in Optional THEN "configuring_env"
                                                  ELSE "starting_vllm",
     configuring_env    |-> "starting_vllm",
     starting_vllm      |-> IF DryRun THEN "dry_run_complete" ELSE "health_checking",
     health_checking    |-> "serving"]

\* The transition.  The requester is told of a final status; nothing that happens
\* to that message matters.
Become(t, s) ==
    /\ status' = [status EXCEPT ![Req(t)] = s]
    /\ Go(t, IF s \in Final THEN "done" ELSE "run")

Executes(t) == doing[t].at \in {"run", "sent"} /\ status[Req(t)] \in Stages

Command(t) ==
    /\ Executes(t) /\ At(t, "run")
    /\ \E w \in ToSend(status[Req(t)]) : sent' = [sent EXCEPT ![Req(t)] = Append(@, w)]
    /\ Go(t, "sent")
    /\ UNCHANGED status

\* To the next stage, or from the health check to serving.
Advance(t) ==
    /\ Executes(t)
    /\ At(t, "sent") \/ ToSend(status[Req(t)]) = {}
    /\ Become(t, Following[status[Req(t)]])
    /\ UNCHANGED sent

\* Faulty variant: the exception is not caught.
StageFailsUncaught(t) ==
    /\ Executes(t) /\ At(t, "run") /\ status[Req(t)] \in DOMAIN Failure
    /\ Go(t, "raised")
    /\ UNCHANGED <<status, sent>>

\* The session or the window cannot be used, or the endpoint stays silent.
StageFails(t) ==
    /\ Executes(t) /\ At(t, "run") /\ status[Req(t)] \in DOMAIN Failure
    /\ Become(t, Failure[status[Req(t)]])
    /\ UNCHANGED sent

\* Any other exception.
Unexpected(t) ==
    /\ Executes(t)
    /\ Become(t, "failed_vllm")
    /\ UNCHANGED sent

-----------------------------------------------------------------------------
Return(t) ==
    /\ doing[t].at \in {"done", "raised"}
    /\ doing' = [doing EXCEPT ![t] = Idle]
    /\ UNCHANGED <<status, sent>>

\* A process dies: nobody resumes its requests.
Abandon(ts) ==
    /\ doing' = [t \in Threads |-> IF t \in ts THEN Idle ELSE doing[t]]
    /\ UNCHANGED <<status, sent>>

Progress(t) == Look(t) \/ Insert(t) \/ Command(t) \/ Advance(t)
Fails(t) == StageFails(t) \/ Unexpected(t)

Next ==
    \/ \E t \in Threads : \/ Progress(t) \/ Fails(t) \/ Return(t)
                         \/ \E r \in Requests : Submit(t, r)
    \/ \E ts \in SUBSET Threads : Abandon(ts)

Spec == Init /\ [][Next]_vars

-----------------------------------------------------------------------------
TypeOK ==
    /\ status \in [Requests -> Statuses]
    /\ sent \in [Requests -> Seq({"rlaunch", "env", "vllm"})]
    /\ doing \in [Threads -> [request : Requests \cup {None}, at : Places]]
    /\ \A t \in Threads : Req(t) = None <=> At(t, "idle")

\* A request has one executor.
OneExecutor ==
    \A t, u \in Threads :
        doing[t].at \in {"run", "sent"} /\ doing[u].at \in {"run", "sent"}
        /\ Req(t) = Req(u) => t = u

\* Whoever submits it and whoever dies, a request's commands are typed once
\* each, in the order of its stages ("must not launch twice").
Rank == [rlaunch |-> 1, env |-> 2, vllm |-> 3]
CommandsSentOnce ==
    \A r \in Requests : \A i, j \in DOMAIN sent[r] :
        i < j => Rank[sent[r][i]] < Rank[sent[r][j]]

\* The statuses take the edges of the documented state machine.
Lifecycle == INSTANCE RequestLifecycle
ImplementsLifecycle == Lifecycle!Spec
=============================================================================
