-------------------------- MODULE RequestLifecycle --------------------------
(***************************************************************************)
(* The life of a deployment request (docs/workflows.md, State Machine): it *)
(* goes forward stage by stage, each stage may fail in its own way, and a  *)
(* final status stays.                                                     *)
(***************************************************************************)
CONSTANT Requests
VARIABLE status

Forward ==
    {<<"absent", "pending">>, <<"pending", "launching_resource">>,
     <<"launching_resource", "resource_ready">>,
     <<"resource_ready", "configuring_env">>, <<"resource_ready", "starting_vllm">>,
     <<"configuring_env", "starting_vllm">>,
     <<"starting_vllm", "health_checking">>, <<"starting_vllm", "dry_run_complete">>,
     <<"health_checking", "serving">>}
Failing ==
    {<<"launching_resource", "failed_resource">>, <<"configuring_env", "failed_env">>,
     <<"health_checking", "failed_health_check">>}
    \cup {<<s, "failed_vllm">> : s \in {"pending", "launching_resource", "resource_ready",
                                        "configuring_env", "starting_vllm",
                                        "health_checking"}}

Init == status = [r \in Requests |-> "absent"]
Next == \E r \in Requests, e \in Forward \cup Failing :
            status[r] = e[1] /\ status' = [status EXCEPT ![r] = e[2]]
Spec == Init /\ [][Next]_status
=============================================================================
