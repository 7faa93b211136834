------------------------------ MODULE SmsPromise -------------------------------
(***************************************************************************)
(* What the VPS promises of an outbound SMS: a message is handed to the    *)
(* provider at most once, only after somebody asked for it, and the        *)
(* verdict shown for it never changes once it is there.                    *)
(***************************************************************************)
EXTENDS Naturals

CONSTANTS
    Messages,   \* slot and idempotency key of an API message, or inbound event
    Verdicts    \* final statuses of a message

VARIABLES
    shown,       \* "none", "open" or a verdict
    submissions  \* how often the provider was given the message

vars == <<shown, submissions>>

Init ==
    /\ shown = [m \in Messages |-> "none"]
    /\ submissions = [m \in Messages |-> 0]

Accept(m) ==
    /\ shown[m] = "none"
    /\ shown' = [shown EXCEPT ![m] = "open"]
    /\ UNCHANGED submissions

Submit(m) ==
    /\ shown[m] # "none"
    /\ submissions[m] = 0
    /\ submissions' = [submissions EXCEPT ![m] = 1]
    /\ UNCHANGED shown

Close(m, verdict) ==
    /\ shown[m] = "open"
    /\ shown' = [shown EXCEPT ![m] = verdict]
    /\ UNCHANGED submissions

Next == \E m \in Messages :
    Accept(m) \/ Submit(m) \/ \E verdict \in Verdicts : Close(m, verdict)

Spec == Init /\ [][Next]_vars
================================================================================
