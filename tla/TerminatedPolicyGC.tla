------------------------- MODULE TerminatedPolicyGC -------------------------
(***************************************************************************)
(* The collector of finished OrchestrationPolicy CRs, internal/controller/ *)
(* gc.go. A sweep lists the CRs from the informer cache once, decides from *)
(* that list and the time of the listing, and then sends one DELETE after  *)
(* another, up to BatchMax of them. Between the listing and a DELETE the   *)
(* CR may have been retried, finished again or deleted by someone else.    *)
(*                                                                         *)
(* Of a CR only what the collector reads is kept: its phase, the times     *)
(* since it was created and since it finished, whether the latter is       *)
(* recorded in it, whether it is being deleted; attempt counts its retries *)
(* and tells one finish from another.                                      *)
(***************************************************************************)
EXTENDS Integers

CONSTANTS
    Policies,     \* the CRs
    TTL,          \* time a finished CR is kept
    BatchMax,     \* deletions in one sweep; 0 is no limit
    MaxAttempts,  \* bound: attempts of a policy after its first
    MaxFaults     \* bound: failed DELETEs and crashes

ASSUME GCAssumption == /\ TTL \in Nat /\ BatchMax \in Nat
                       /\ MaxAttempts \in Nat /\ MaxFaults \in Nat

VARIABLES
    kind,      \* what becomes of a DELETE of a CR, see Kinds
    crs,       \* the CRs as the API server stores them
    cache,     \* the CRs as the informer has them
    sweeping,  \* a sweep is in progress
    todo,      \* CRs of its list that it has still to delete
    listed,    \* the attempt each of those was at when it was listed, else 0
    deleted,   \* deletions of the sweep
    faults

vars == <<kind, crs, cache, sweeping, todo, listed, deleted, faults>>

-----------------------------------------------------------------------------
Ages   == 0..(TTL + 1)
CR     == [phase : {"unfinished", "finished", "gone"},
           created : Ages,     \* time since creationTimestamp
           dated : BOOLEAN,    \* completedAt, or a Rejected condition, tells when it finished
           age : Ages,         \* time since then, if dated
           deleting : BOOLEAN, attempt : 0..MaxAttempts]

\* A plain CR goes at its DELETE, a finalizer holds another, and the DELETE of a
\* third always fails (a webhook, a missing permission).
Kinds == {"plain", "finalized", "undeletable"}

Unfinished == [phase |-> "unfinished", created |-> 0, age |-> 0, dated |-> FALSE,
               deleting |-> FALSE, attempt |-> 0]

TypeOK ==
    /\ kind \in [Policies -> Kinds]
    /\ crs \in [Policies -> CR] /\ cache \in [Policies -> CR]
    /\ sweeping \in BOOLEAN
    /\ todo \subseteq Policies /\ listed \in [Policies -> 0..MaxAttempts]
    /\ deleted \in Nat /\ (BatchMax > 0 => deleted <= BatchMax)
    /\ faults \in 0..MaxFaults

Init ==
    /\ kind \in [Policies -> Kinds]
    /\ crs = [p \in Policies |-> Unfinished]
    /\ cache = crs /\ listed = [p \in Policies |-> 0]
    /\ sweeping = FALSE /\ todo = {} /\ deleted = 0 /\ faults = 0

Fault == faults < MaxFaults /\ faults' = faults + 1

-----------------------------------------------------------------------------
(* sweep.                                                                  *)

Finished(cr) == cr.phase = "finished"

\* terminalTime: the recorded time of the finish, or else the time of creation.
TerminalAge(cr) == IF cr.dated THEN cr.age ELSE cr.created

Expired(cr)  == Finished(cr) /\ TerminalAge(cr) > TTL

\* Mutant: the time since the finish is not looked at.
Eligible_NoTTL(cr) == Finished(cr) /\ ~cr.deleting
\* Mutant: a CR that is being deleted is deleted again.
Eligible_Deleting(cr) == Expired(cr)

Eligible(cr) == Expired(cr) /\ ~cr.deleting

List ==
    /\ ~sweeping /\ sweeping' = TRUE
    /\ todo' = {p \in Policies : Eligible(cache[p])}
    /\ listed' = [p \in Policies |-> IF p \in todo' THEN cache[p].attempt ELSE 0]
    /\ deleted' = 0
    /\ UNCHANGED <<kind, crs, cache, faults>>

HasRoom == BatchMax > 0 => deleted < BatchMax

Gone(cr) == [cr EXCEPT !.phase = "gone", !.created = 0, !.age = 0, !.dated = FALSE,
                        !.deleting = FALSE]

\* The API server's side of a DELETE that succeeds.
Remove(p) ==
    crs' = [crs EXCEPT ![p] = IF kind[p] = "finalized" THEN [@ EXCEPT !.deleting = TRUE]
                              ELSE Gone(@)]

\* One DELETE, without a precondition; one that finds no CR counts, too.
Delete(p) ==
    /\ sweeping /\ HasRoom
    /\ p \in todo /\ todo' = todo \ {p}
    /\ \/ /\ crs[p].phase = "gone"
          /\ deleted' = deleted + 1
          /\ UNCHANGED <<crs, faults>>
       \/ /\ crs[p].phase # "gone" /\ kind[p] # "undeletable"
          /\ Remove(p) /\ deleted' = deleted + 1 /\ faults' = faults
       \/ /\ \/ kind[p] = "undeletable" /\ faults' = faults
             \/ Fault
          /\ UNCHANGED <<crs, deleted>>
    /\ UNCHANGED <<kind, cache, sweeping, listed>>

Idle == /\ sweeping' = FALSE /\ todo' = {} /\ deleted' = 0
        /\ listed' = [p \in Policies |-> 0]

EndSweep ==
    /\ sweeping /\ (todo = {} \/ ~HasRoom)
    /\ Idle
    /\ UNCHANGED <<kind, crs, cache, faults>>

-----------------------------------------------------------------------------
(* Everything else.                                                        *)

Environment(p, cr) ==
    crs' = [crs EXCEPT ![p] = cr] /\ UNCHANGED <<kind, cache, sweeping, todo, listed, deleted, faults>>

\* A CR may finish without a time that says when: Completed is a phase that the
\* controller of this repository never writes, and a merge patch can lose completedAt.
Finish(p) ==
    /\ crs[p].phase = "unfinished"
    /\ \E dated \in BOOLEAN :
          Environment(p, [crs[p] EXCEPT !.phase = "finished", !.age = 0, !.dated = dated])

\* A user's retry, served by handleRetryFromFailure. A finished CR that takes this
\* step was Failed; one that never does may be of any other final phase.
Retry(p) ==
    /\ Finished(crs[p]) /\ crs[p].attempt < MaxAttempts
    /\ Environment(p, [crs[p] EXCEPT !.phase = "unfinished", !.age = 0, !.dated = FALSE,
                                     !.attempt = @ + 1])

\* A user deletes a CR, or a finalizer lets one go.
Vanish(p) ==
    /\ crs[p].phase # "gone"
    /\ Environment(p, Gone(crs[p]))

Older(cr) == [cr EXCEPT !.age     = IF cr.dated /\ @ <= TTL THEN @ + 1 ELSE @,
                        !.created = IF cr.phase # "gone" /\ @ <= TTL THEN @ + 1 ELSE @]

Tick ==
    /\ \E p \in Policies : Older(crs[p]) # crs[p] \/ Older(cache[p]) # cache[p]
    /\ crs' = [p \in Policies |-> Older(crs[p])]
    /\ cache' = [p \in Policies |-> Older(cache[p])]
    /\ UNCHANGED <<kind, sweeping, todo, listed, deleted, faults>>

Deliver(p) ==
    /\ cache[p] # crs[p]
    /\ cache' = [cache EXCEPT ![p] = crs[p]]
    /\ UNCHANGED <<kind, crs, sweeping, todo, listed, deleted, faults>>

\* The process dies, or stops being leader; the next one lists the CRs anew.
Crash ==
    /\ Fault
    /\ Idle
    /\ cache' = crs
    /\ UNCHANGED <<kind, crs>>

-----------------------------------------------------------------------------
Sweep == List \/ EndSweep \/ \E p \in Policies : Delete(p)

Next ==
    \/ Sweep \/ Tick \/ Crash
    \/ \E p \in Policies :
          Finish(p) \/ Retry(p) \/ Vanish(p) \/ Deliver(p)

Spec == Init /\ [][Next]_vars

\* The ticker starts a sweep, a sweep goes on, the watch delivers, time passes.
FairSpec == Spec /\ WF_vars(Sweep) /\ WF_vars(Tick) /\ \A p \in Policies : WF_vars(Deliver(p))

-----------------------------------------------------------------------------
Collects(p) == Delete(p) /\ crs'[p] # crs[p]

\* Unless a retry came between, what a DELETE takes has been finished for longer than
\* the TTL or, if nothing in it says since when, exists for longer than the TTL: neither
\* the lag of the cache nor a slow sweep makes it younger.
CollectedIsOld ==
    [][\A p \in Policies :
         Collects(p) /\ crs[p].attempt = listed[p] => Expired(crs[p])]_vars

\* Every finished CR that can be deleted leaves: those whose DELETE fails, or that
\* a finalizer holds, do not use up the batch of the others for ever.
FinishedIsCollected ==
    \A p \in Policies :
        Finished(crs[p]) /\ kind[p] # "undeletable" ~> ~Finished(crs[p]) \/ crs[p].deleting
=============================================================================
