------------------------------- MODULE JobTable --------------------------------
(***************************************************************************)
(* domain/provisioning_state.py: the approved transitions of a             *)
(* provisioning job, as the machine the farm's service has to follow.      *)
(* Nothing is written to disk, so a restart forgets every job.             *)
(***************************************************************************)
CONSTANT Jobs

VARIABLE state

States == {"pending", "claimed", "preflight", "waiting_for_activation",
           "activation_submitted", "verification", "active", "retryable", "failed"}

\* is_terminal
Terminal == {"active", "failed"}

\* _ALLOWED
Allowed ==
    ({"claimed", "retryable"} \X {"failed"})
    \cup {"pending"} \X {"claimed"}
    \cup {"claimed"} \X {"preflight", "retryable"}
    \cup {"preflight"} \X {"waiting_for_activation", "activation_submitted", "failed", "retryable"}
    \cup {"waiting_for_activation"} \X {"activation_submitted", "failed"}
    \cup {"activation_submitted"} \X {"verification", "failed"}
    \cup {"verification"} \X {"active", "waiting_for_activation", "retryable", "failed"}
    \cup {"retryable"} \X {"claimed", "preflight"}

Init == state = [j \in Jobs |-> "pending"]

\* apply_transition
Advance(j, destination) ==
    /\ <<state[j], destination>> \in Allowed
    /\ state' = [state EXCEPT ![j] = destination]

Forget == state' = [j \in Jobs |-> "pending"]

Next == (\E j \in Jobs, destination \in States : Advance(j, destination)) \/ Forget

Spec == Init /\ [][Next]_state
================================================================================
