-------------------------- MODULE RequestSettings --------------------------
(* What Requests and Intake assume of the requests and their configuration. *)
CONSTANTS
    Requests, None,
    Optional,     \* the configured ones of the windows "rlaunch" and "env"
    DryRun,       \* the runner's mode
    Unplannable   \* requests whose arguments no command line can hold

ASSUME RequestsAssumption ==
    /\ None \notin Requests
    /\ Optional \subseteq {"rlaunch", "env"} /\ DryRun \in BOOLEAN
    /\ Unplannable \subseteq Requests
=============================================================================
