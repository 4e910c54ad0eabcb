--------------------------- MODULE PolicyLifecycle ---------------------------
(***************************************************************************)
(* What the controller promises about one OrchestrationPolicy, without     *)
(* patches, caches, polling or crashes: the order of its phases, that the  *)
(* operator is given work only while the policy is Executing, that it is   *)
(* finished only on a confirmed completion or for a target that appeared,  *)
(* and that Failed is left only when a user asked for a retry.             *)
(* PolicyReconciler implements it when its cache is coherent.              *)
(***************************************************************************)
EXTENDS Naturals

CONSTANT Ids           \* the operator's resources

VARIABLES
    phase,      \* the stored phase, or "deleted"
    retry,      \* a user has asked for a retry
    requests,   \* how often users have asked
    consumed,   \* the policy has been used up, or its target has appeared
    started,    \* resources the operator has created for the policy
    confirmed   \* resources whose completion the operator has reported

vars == <<phase, retry, requests, consumed, started, confirmed>>

Init == /\ phase = "" /\ ~retry /\ requests = 0 /\ ~consumed
        /\ started = {} /\ confirmed = {}

Becomes(new) == phase' = new /\ UNCHANGED <<retry, requests, started, confirmed>>
Moves(old, new) == phase = old /\ Becomes(new) /\ consumed' = consumed

Register == Moves("", "Pending")

Decide == \E verdict \in {"Approved", "Rejected"} : Moves("Pending", verdict)

\* An approved policy is executed, or waits for its target; it may still be
\* refused for its mode, and a used-up one has nothing left to do.
Dispatch == \/ \E next \in {"Executing", "WaitingForTarget", "Rejected"} : Moves("Approved", next)
            \/ consumed /\ Moves("Approved", "Applied")

Match == /\ phase = "WaitingForTarget" /\ ~consumed
         /\ consumed' = TRUE /\ Becomes("Approved")

Unwait == \/ consumed /\ Moves("WaitingForTarget", "Applied")
          \/ Moves("WaitingForTarget", "Failed")

\* A start already on its way may still reach the operator after a deletion.
StartWork == /\ phase \in {"Executing", "deleted"}
             /\ \E id \in Ids \ started : started' = started \cup {id}
             /\ UNCHANGED <<phase, retry, requests, consumed, confirmed>>

Confirm == /\ phase \in {"Executing", "deleted"}
           /\ \E id \in started : confirmed' = confirmed \cup {id}
           /\ UNCHANGED <<phase, retry, requests, consumed, started>>

Postpone == Moves("Executing", "WaitingForTarget")

Finish == /\ phase = "Executing" /\ confirmed # {}
          /\ \/ consumed' = TRUE /\ Becomes("Applied")
             \/ consumed' = consumed /\ Becomes("Approved")         \* Continuous

Fail == Moves("Executing", "Failed")

RequestRetry == /\ phase = "Failed"
                /\ retry' = TRUE /\ requests' = requests + 1
                /\ UNCHANGED <<phase, consumed, started, confirmed>>

\* The request is used up by the retry, or lost in one that fails; a second one
\* made meanwhile is kept for the next failure.
Retry == /\ phase = "Failed" /\ retry
         /\ \/ phase' = "Pending" /\ retry' \in BOOLEAN
            \/ phase' = "Failed"  /\ retry' = FALSE
         /\ UNCHANGED <<requests, consumed, started, confirmed>>

Delete == /\ phase # "deleted" /\ phase' = "deleted"
          /\ retry' = FALSE
          /\ UNCHANGED <<requests, consumed, started, confirmed>>

Next == \/ Register \/ Decide \/ Dispatch \/ Match \/ Unwait
        \/ StartWork \/ Confirm \/ Postpone \/ Finish \/ Fail
        \/ RequestRetry \/ Retry \/ Delete

Spec == Init /\ [][Next]_vars
==============================================================================
