----------------------------- MODULE RemoteCall -----------------------------
(***************************************************************************)
(* What a caller may conclude from a call to the orchestrator or to the    *)
(* scheduler, whatever attempts, replies and errors it was made of: how    *)
(* often it can have taken effect, and what its result says about the      *)
(* resource. An error says nothing. RetriedCall implements it, and the     *)
(* Post, Poll and Rollback of PolicyReconciler have its outcomes.          *)
(***************************************************************************)
EXTENDS Naturals

CONSTANTS Ops, Creating,  \* the operations, and those that make the resource
          Limit           \* how often a call of each may take effect

VARIABLES
    exists,   \* the resource is at the server
    doing,    \* the operation of the call in progress, or "none"
    effects,  \* how often the call has taken effect
    seen,     \* what the caller has been told of the resource last
    result    \* what the last call returned

vars == <<exists, doing, effects, seen, result>>

View(there) == IF there THEN "there" ELSE "absent"

Init == /\ exists = FALSE /\ doing = "none" /\ effects = 0 /\ seen = "nothing"
        /\ result = [op |-> "get", kind |-> "none"]

Begin == /\ doing = "none"
         /\ doing' \in Ops /\ effects' = 0 /\ seen' = "nothing"
         /\ UNCHANGED <<exists, result>>

\* The call takes effect; its caller may not come to know.
Effect == /\ doing \in Ops \ {"get"} /\ effects < Limit[doing] /\ effects' = effects + 1
          /\ doing = "delete" => exists
          /\ exists' = (doing \in Creating)
          /\ seen' \in {"nothing", View(exists')}
          /\ UNCHANGED <<doing, result>>

\* The caller learns what there is, or knows nothing again.
Look == /\ doing \in Ops /\ seen' \in {"nothing", View(exists)}
        /\ UNCHANGED <<exists, doing, effects, result>>

\* What each result says.
Warranted(kind) ==
    \/ kind = "ok" /\ doing \in Creating /\ effects > 0
    \/ kind = "ok" /\ doing = "get" /\ seen = "there"
    \/ kind = "ok" /\ doing = "delete" /\ seen = "absent"
    \/ kind = "waiting" /\ doing = "post" /\ effects = 0
    \/ kind = "missing" /\ seen = "absent"
    \/ kind = "error"

Return == /\ doing \in Ops
          /\ \E kind \in {"ok", "waiting", "missing", "error"} :
                Warranted(kind) /\ result' = [op |-> doing, kind |-> kind]
          /\ doing' = "none" /\ seen' = "nothing"
          /\ UNCHANGED <<exists, effects>>

Outside == exists' = ~exists /\ UNCHANGED <<doing, effects, seen, result>>

Next == Begin \/ Effect \/ Look \/ Return \/ Outside

Spec == Init /\ [][Next]_vars
=============================================================================
