-------------------------- MODULE PolicyReconciler --------------------------
(***************************************************************************)
(* The life of one OrchestrationPolicy custom resource under the           *)
(* controller of internal/controller/orchestrationpolicy_controller.go.    *)
(*                                                                         *)
(* controller-runtime never reconciles one key twice at the same time, so  *)
(* there is one reconciler; what interleaves with it is everything else:   *)
(* the API server's other writers (users), the informer cache it reads     *)
(* from, the orchestrator ("operator") it calls over HTTP, the clock, and  *)
(* crashes. A reconcile is therefore cut at every call that leaves the     *)
(* process: each patch and each HTTP request is a step of its own, `pc`    *)
(* says which call comes next and `local` is the in-memory *policy.        *)
(***************************************************************************)
EXTENDS Integers, Sequences, FiniteSets

CONSTANTS
    Policies,       \* specs a CR may be created with: [type, mode, auto, named]
    AgentAnswers,   \* what the policy agent may answer; {"approve"} if disabled
    AgentModes,     \* execution modes a modifiedSpec of the agent may carry
    StrictReady,    \* ProvisioningStrictReadyOnly
    BackfillAfter,  \* 10s  in ticks: an empty result is re-executed from here
    SyncGrace,      \* 45s: sync policies are verified from here
    HungAfter,      \* 60s: an empty result is a hung execution from here
    ExecTimeout,    \* ExecutionTimeout (30m): Failed beyond it
    MaxStart,       \* 3: start failures before Failed
    Max404,         \* Migration/SyncMaxConsecutive404
    MaxErr,         \* MigrationMaxConsecutivePollErrors, SyncMaxConsecutiveGETErrors
    Targets,        \* pods, deployments, workflows that may match an OnTargetCreated policy
    MaxOps,         \* bound: resources the operator creates for this policy
    MaxLag,         \* bound: versions the informer cache may be behind the API server
    MaxFaults,      \* bound: failed API writes, lost replies and crashes
    MaxRetries      \* bound: times a user asks for a retry of a failed policy

Types     == {"migration", "scaling", "provisioning", "caching", "loadbalance", "preemption"}
Modes     == {"", "Immediate", "OnTargetCreated", "Continuous"}
Phases    == {"", "Pending", "Approved", "Executing", "WaitingForTarget",
              "Applied", "Failed", "Rejected"}
PolicySpec == [type : Types, mode : Modes, auto : BOOLEAN, named : BOOLEAN]

ASSUME PoliciesAssumption == Policies \subseteq PolicySpec
ASSUME AgentAssumption == /\ AgentAnswers \subseteq {"approve", "delay", "reject", "modify"}
                          /\ AgentModes \subseteq Modes
                          /\ StrictReady \in BOOLEAN
ASSUME TimeAssumption == /\ BackfillAfter \in Nat /\ SyncGrace \in Nat
                         /\ HungAfter \in Nat /\ ExecTimeout \in Nat
ASSUME LimitAssumption == {MaxStart, Max404, MaxErr} \subseteq Nat \ {0}
ASSUME BoundAssumption == /\ MaxOps \in Nat /\ MaxLag \in Nat
                          /\ MaxFaults \in Nat /\ MaxRetries \in Nat

VARIABLES
    policy,     \* the immutable part of the spec: type, autoExecute, target named or not
    versions,   \* the CR's history the cache has not yet passed: cached first, stored last
    pc,         \* the call the reconcile in progress makes next; "idle" between reconciles
    local,      \* the *policy of the reconcile in progress
    ops,        \* the operator's resources: id -> status
    present,    \* matching targets created after the policy
    confirmed,  \* ids for which an operator GET reported completion
    faults, retries

vars == <<policy, versions, pc, local, ops, present, confirmed, faults, retries>>
external == <<policy, ops, present, confirmed, faults, retries>>

-----------------------------------------------------------------------------
(* The CR: the part of spec and status the controller branches on, its     *)
(* annotations, and whether it still exists. executedAt is its age in      *)
(* ticks, saturated one past the longest time limit; of completedAt only   *)
(* whether it is set, as nothing in the reconciler reads its value. So two *)
(* completion times are equal here, as two of one second are in the CR,    *)
(* and a patch whose base has one does not carry the other.                *)

OpIds    == 1..MaxOps
NoResult == 0           \* status.result is ""
NoId     == -1          \* a result without a usable id= part
FailText == -2          \* "Policy failed: ...", which parses as an id the operator never issued
Results  == OpIds \cup {NoResult, NoId, FailText}
NoTime   == -1
Ages     == (-1)..(ExecTimeout + 1)
Rollbacks == {"none", "succeeded", "failed", "skipped"}

CR == [live : BOOLEAN, mode : Modes,
       phase : Phases, executedAt : Ages, completedAt : BOOLEAN, result : Results,
       consumed : BOOLEAN, applied : SUBSET Targets,
       starts : Nat, missing : Nat, errors : Nat, retry : BOOLEAN, rollback : Rollbacks]

NewCR(mode) ==
    [live |-> TRUE, mode |-> mode,
     phase |-> "", executedAt |-> NoTime, completedAt |-> FALSE, result |-> NoResult,
     consumed |-> FALSE, applied |-> {},
     starts |-> 0, missing |-> 0, errors |-> 0, retry |-> FALSE, rollback |-> "none"]

Unset  == NewCR("")                    \* no reconcile in progress
Cache  == versions[1]                  \* what r.Get returns
Server == versions[Len(versions)]      \* what the API server stores

OpStates == {"unused", "running", "completed", "failed", "gone"}
PCs == {"idle", "defaultMode", "modifySpec", "save", "begin", "start", "saveResult",
        "clearStarts", "startFailed", "backfill", "lateBackfill", "backfillSave",
        "lateBackfillSave", "backfillMark", "poll", "clearDone", "clearFailed",
        "clearRunning", "countMissing", "countError", "rollback", "saveRollback",
        "clearRetry"}

TypeOK ==
    /\ policy \in Policies
    /\ versions \in Seq(CR) /\ versions # <<>>
    /\ pc \in PCs
    /\ local \in CR
    /\ ops \in [OpIds -> OpStates]
    /\ present \subseteq Targets
    /\ confirmed \subseteq OpIds
    /\ faults \in 0..MaxFaults
    /\ retries \in 0..MaxRetries

Init ==
    /\ policy \in Policies
    /\ versions = <<NewCR(policy.mode)>>
    /\ pc = "idle"
    /\ local = Unset
    /\ ops = [id \in OpIds |-> "unused"]
    /\ present = {}
    /\ confirmed = {}
    /\ faults = 0
    /\ retries = 0

-----------------------------------------------------------------------------
(* Writing. Every write is a JSON merge patch without a resource version:  *)
(* it carries the fields in which the new object differs from a base copy, *)
(* so it never conflicts and never carries a field it did not change. The  *)
(* base of patchStatusWithRetry, patchSpecWithRetry, patchAnnotationInt    *)
(* and clearAnnotations is read from the cache just before.                *)

Put(base, new, stored) == IF new = base THEN stored ELSE new

MergeStatus(base, new) ==
    [Server EXCEPT
        !.phase       = Put(base.phase, new.phase, @),
        !.executedAt  = Put(base.executedAt, new.executedAt, @),
        !.completedAt = Put(base.completedAt, new.completedAt, @),
        !.result      = Put(base.result, new.result, @),
        !.consumed    = Put(base.consumed, new.consumed, @),
        !.applied     = Put(base.applied, new.applied, @)]

\* policy.Status = latest.Status: the reply of the patch replaces the local status.
WithStatus(cr, reply) ==
    [cr EXCEPT !.phase = reply.phase, !.executedAt = reply.executedAt,
               !.completedAt = reply.completedAt, !.result = reply.result,
               !.consumed = reply.consumed, !.applied = reply.applied]

\* p.Annotations = latest.Annotations.
WithAnnotations(cr, reply) ==
    [cr EXCEPT !.starts = reply.starts, !.missing = reply.missing,
               !.errors = reply.errors, !.retry = reply.retry,
               !.rollback = reply.rollback]

\* A write that changes nothing makes no new version; the cache is never more
\* than MaxLag versions behind.
Store(cr) ==
    versions' = IF cr = Server THEN versions
                ELSE IF Len(versions) > MaxLag THEN Append(Tail(versions), cr)
                ELSE Append(versions, cr)

\* The reconcile's next call and its copy; the copy is dropped when it is over.
Then(next, copy) == pc' = next /\ local' = IF next = "idle" THEN Unset ELSE copy

Fault == faults < MaxFaults /\ faults' = faults + 1

\* The patch finds the CR. So does the cached read before it: a deleted CR does
\* not come back, so the cache never misses one the server has.
Reachable == Server.live

\* A patch the API server accepts, and the reconcile's next call after it.
Write(cr, next, copy) ==
    /\ Reachable
    /\ Store(cr)
    /\ Then(next, copy)
    /\ UNCHANGED external

\* The patch returns an error: the CR is gone, or the API server failed.
WriteFails(next, copy) ==
    /\ \/ ~Reachable /\ faults' = faults
       \/ Fault
    /\ Then(next, copy)
    /\ UNCHANGED <<policy, versions, ops, present, confirmed, retries>>

\* The error goes back to the workqueue: the reconcile is over.
Abandon == WriteFails("idle", local)

\* The reconcile goes on to its next call without having written anything.
Proceed(next, copy) == Then(next, copy) /\ UNCHANGED <<versions, external>>

\* patchStatusWithRetry with *st = policy.Status, the last call of a reconcile.
Save ==
    /\ pc = "save"
    /\ \/ Write(MergeStatus(Cache, local), "idle", local)
       \/ Abandon

-----------------------------------------------------------------------------
(* Reconcile dispatches on the phase of the cached CR.                     *)

Reconciling(phase) == pc = "idle" /\ Cache.live /\ Cache.phase = phase

Compatible(cr)    == cr.mode = "Continuous" => policy.type = "scaling"
DefaultMode(type) == IF type = "scaling" THEN "Continuous" ELSE "Immediate"
IsSync            == policy.type # "migration"

Applied(cr)  == [cr EXCEPT !.phase = "Applied", !.completedAt = TRUE]
InPhase(cr, phase) == [cr EXCEPT !.phase = phase]

\* movePolicyToWaitingTarget
MovedToWaiting(cr) == IF cr.consumed THEN Applied(cr) ELSE InPhase(cr, "WaitingForTarget")

\* handleNewPolicy
ReconcileNew ==
    /\ Reconciling("")
    /\ IF Cache.mode = "" THEN Proceed("defaultMode", Cache)
                          ELSE Proceed("save", InPhase(Cache, "Pending"))

PatchDefaultMode ==
    /\ pc = "defaultMode"
    /\ LET mode == DefaultMode(policy.type)
           new  == [Server EXCEPT !.mode = Put(Cache.mode, mode, @)]
       IN  \/ Write(new, "save", [local EXCEPT !.mode = new.mode, !.phase = "Pending"])
           \/ Abandon

\* handleAutoApprove: the policy agent's answer, if the mode fits the type. An
\* agent that cannot be reached changes nothing and is asked again later.
ReconcilePending ==
    /\ Reconciling("Pending")
    /\ policy.auto
    /\ IF ~Compatible(Cache) THEN Proceed("save", InPhase(Cache, "Rejected"))
       ELSE \/ "approve" \in AgentAnswers /\ Proceed("save", InPhase(Cache, "Approved"))
            \/ "delay"   \in AgentAnswers /\ Proceed("save", Cache)
            \/ "reject"  \in AgentAnswers /\ Proceed("save", InPhase(Cache, "Rejected"))
            \/ "modify"  \in AgentAnswers
               /\ \E mode \in AgentModes \cup {Cache.mode} :
                     Proceed("modifySpec", [Cache EXCEPT !.mode = mode])

\* modifyAndApprovePolicy
PatchModifiedSpec ==
    /\ pc = "modifySpec"
    /\ LET new == [Server EXCEPT !.mode = Put(Cache.mode, local.mode, @)]
       IN  \/ Write(new, "save", [local EXCEPT !.mode = new.mode, !.phase = "Approved"])
           \/ Abandon

\* Mutant: the start time is not set.
ReconcileApproved_NoStartTime ==
    /\ Reconciling("Approved")
    /\ Proceed("begin", InPhase(Cache, "Executing"))

\* handleApprovedPolicy up to its first call.
ReconcileApproved ==
    /\ Reconciling("Approved")
    /\ CASE ~Compatible(Cache) ->
                Proceed("save", InPhase(Cache, "Rejected"))
         [] Compatible(Cache) /\ Cache.mode = "OnTargetCreated" ->
                Proceed("save", MovedToWaiting(Cache))
         [] OTHER ->
                Proceed("begin", [Cache EXCEPT !.phase = "Executing", !.executedAt = 0])

\* findNewMatchingTarget returns one of these, in listing order.
NewTargets(cr) == present \ cr.applied

\* handleWaitingForTarget. Its spec patch fills in names that are not empty
\* here, so it writes nothing.
ReconcileWaiting ==
    /\ Reconciling("WaitingForTarget")
    /\ \/ ~policy.named /\ Proceed("rollback", Cache)
       \/ policy.named /\ Cache.consumed /\ Proceed("save", Applied(Cache))
       \/ /\ policy.named /\ ~Cache.consumed
          /\ \E t \in NewTargets(Cache) :
                Proceed("save", [Cache EXCEPT !.phase = "Approved", !.consumed = TRUE,
                                              !.applied = @ \cup {t}])

\* Mutant: every failed policy is retried.
ReconcileRetry_Unasked == Reconciling("Failed") /\ Proceed("clearRetry", Cache)

\* handleRetryFromFailure: the annotations first, the status second.
ReconcileRetry ==
    /\ Reconciling("Failed")
    /\ Cache.retry
    /\ Proceed("clearRetry", Cache)

\* Mutant: returns once the annotations are removed.
ClearRetry_Returns ==
    /\ pc = "clearRetry"
    /\ Write([Server EXCEPT !.retry = FALSE], "idle", local) \/ Abandon

ClearRetry ==
    /\ pc = "clearRetry"
    /\ LET new == [Server EXCEPT !.retry = FALSE,
                                 !.rollback = Put(local.rollback, "none", @)]
       IN  \/ Write(new, "save", [new EXCEPT !.phase = "Pending", !.result = NoResult,
                                             !.executedAt = NoTime, !.completedAt = FALSE])
           \/ Abandon

-----------------------------------------------------------------------------
(* Starting an execution: executePolicyByType, called by                   *)
(* handleApprovedPolicy and again by the backfill of handleExecutingPolicy.*)

\* Status Executing is stored before the operator is called.
Begin ==
    /\ pc = "begin"
    /\ LET new == MergeStatus(Cache, local)
       IN  \/ Write(new, "start", WithStatus(local, new))
           \/ Abandon

NewOp(id) == id \in OpIds /\ ops[id] = "unused" /\ \A j \in 1..(id - 1) : ops[j] # "unused"

\* executeMigrationPolicy sends nothing for a spec without its target.
Sendable == IsSync \/ policy.named

\* The outcomes of one POST: `ok` is the call after an accepted one, `ko` after
\* an error. A resource is created in every outcome but a refusal, and with a
\* status of "failed" the sync types report an error and drop its id.
Post(ok, ko) ==
    /\ UNCHANGED <<policy, versions, present, confirmed, retries>>
    /\ \/ /\ \E id \in OpIds :
               /\ NewOp(id)
               /\ \/ /\ faults' = faults
                     /\ \/ ops' = [ops EXCEPT ![id] = "running"]
                           /\ \E result \in {id, NoId} : Then(ok, [local EXCEPT !.result = result])
                        \/ ops' = [ops EXCEPT ![id] = "failed"] /\ IsSync /\ Then(ko, local)
                  \/ /\ Fault                                    \* the reply is lost
                     /\ ops' = [ops EXCEPT ![id] = "running"]
                     /\ Then(ko, local)
          /\ Sendable
       \/ Then(ko, local) /\ UNCHANGED <<ops, faults>>

Start == pc = "start" /\ Post("saveResult", "startFailed")

\* The error of the POST says that the target is not there yet: the policy waits for
\* it. isWaitingForTargetError looks for that in the text of any error, so not only
\* StartMigration with its OperatorAPIError can say it ("failed with status 425").
StartTooEarly ==
    /\ pc = "start"
    /\ Sendable
    /\ Proceed("save", InPhase(local, "WaitingForTarget"))

\* patchStatusWithRetry with only st.Result, the last call of each executeX.
PatchResult(next, failed) ==
    LET new == [Server EXCEPT !.result = Put(Cache.result, local.result, @)]
    IN  \/ Write(new, next, WithStatus(local, new))
        \/ WriteFails(failed, local)

SaveResult == pc = "saveResult" /\ PatchResult("clearStarts", "startFailed")

\* patchAnnotationInt on the start-failure streak.
PatchStarts(n, next) ==
    LET new == [Server EXCEPT !.starts = Put(Cache.starts, n, @)]
    IN  Write(new, next, WithAnnotations(local, new))

ClearStarts ==
    /\ pc = "clearStarts"
    /\ PatchStarts(0, "idle") \/ Abandon

StartFailed ==
    /\ pc = "startFailed"
    /\ LET n == local.starts + 1
       IN  PatchStarts(n, IF n < MaxStart THEN "idle" ELSE "rollback") \/ Abandon

-----------------------------------------------------------------------------
(* handleExecutingPolicy: the timeout, then the missing result, then the   *)
(* operator's view of the resource.                                        *)

Elapsed     == Cache.executedAt
Monitoring  == Reconciling("Executing") /\ Elapsed # NoTime
TimedOut_Never == FALSE          \* Mutant: no timeout.
MayBackfill_Always == IsSync /\ Elapsed >= BackfillAfter  \* Mutant: no streak check.
TimedOut    == Elapsed > ExecTimeout
MayBackfill == IsSync /\ Elapsed >= BackfillAfter /\ Cache.starts < 1
Parsable(r) == r \in OpIds \cup {FailText}

ExecTimedOut == Monitoring /\ TimedOut /\ Proceed("rollback", Cache)

ExecNoResult ==
    /\ Monitoring /\ ~TimedOut
    /\ Cache.result = NoResult
    /\ \/ /\ MayBackfill
          /\ Proceed(IF Elapsed < HungAfter THEN "backfill" ELSE "lateBackfill", Cache)
       \/ ~MayBackfill /\ Elapsed >= HungAfter /\ Proceed("rollback", Cache)

\* A failed backfill is only logged: before HungAfter the policy goes on as it
\* is, from HungAfter on it is failed by the same reconcile.
Backfill ==
    \/ pc = "backfill"     /\ Post("backfillSave", "idle")
    \/ pc = "lateBackfill" /\ Post("lateBackfillSave", "rollback")

BackfillSave ==
    \/ pc = "backfillSave"     /\ PatchResult("backfillMark", "idle")
    \/ pc = "lateBackfillSave" /\ PatchResult("backfillMark", "rollback")

BackfillMark ==
    /\ pc = "backfillMark"
    /\ PatchStarts(1, "idle") \/ Abandon

ExecPoll ==
    /\ Monitoring /\ ~TimedOut
    /\ Cache.result # NoResult
    /\ \/ Parsable(Cache.result) /\ (IsSync => Elapsed >= SyncGrace) /\ Proceed("poll", Cache)
       \/ ~Parsable(Cache.result) /\ IsSync /\ Elapsed >= SyncGrace /\ Proceed("rollback", Cache)

\* One GET. A status the code knows is terminal for the policy completes or
\* fails it, any other only clears the counters; 404 and every other error count.
\* A provisioning that exists is enough unless StrictReady.
Poll ==
    /\ pc = "poll"
    /\ LET id    == local.result
           state == IF id \in OpIds THEN ops[id] ELSE "gone"
           good  == \/ state = "completed"
                    \/ state = "running" /\ policy.type = "provisioning" /\ ~StrictReady
       IN  /\ pc' = CASE state = "gone"   -> "countMissing"
                      [] state = "failed" -> "clearFailed"
                      [] good             -> "clearDone"
                      [] OTHER            -> "clearRunning"
           /\ confirmed' = IF good THEN confirmed \cup {id} ELSE confirmed
    /\ UNCHANGED <<policy, versions, local, ops, present, faults, retries>>

PollError == pc = "poll" /\ Proceed("countError", local)

\* clearAnnotations: no request at all if the cached CR has nothing to clear.
ClearCounters(next, copy) ==
    LET new == [Server EXCEPT !.missing = Put(Cache.missing, 0, @),
                              !.errors  = Put(Cache.errors, 0, @)]
    IN  \/ Cache.missing = 0 /\ Cache.errors = 0 /\ Proceed(next, copy)
        \/ (Cache.missing # 0 \/ Cache.errors # 0) /\ Write(new, next, WithAnnotations(copy, new))
        \/ Abandon

\* markPolicyCompleted up to its patch: a Continuous policy is due again.
Completed(cr) ==
    IF cr.mode = "Continuous"
    THEN [cr EXCEPT !.phase = "Approved", !.completedAt = FALSE]
    ELSE [Applied(cr) EXCEPT !.consumed = TRUE]

\* Mutant: a resource that is still running completes the policy.
ClearAfterPoll_AnyStatus ==
    \/ pc \in {"clearDone", "clearRunning"} /\ ClearCounters("save", Completed(local))
    \/ pc = "clearFailed"  /\ ClearCounters("rollback", local)

ClearAfterPoll ==
    \/ pc = "clearDone"    /\ ClearCounters("save", Completed(local))
    \/ pc = "clearFailed"  /\ ClearCounters("rollback", local)
    \/ pc = "clearRunning" /\ ClearCounters("idle", local)

\* Mutant: one answer more than the limit.
CountMissing_OneMore ==
    /\ pc = "countMissing"
    /\ LET n   == local.missing + 1
           new == [Server EXCEPT !.missing = Put(Cache.missing, n, @)]
       IN  Write(new, IF n <= Max404 THEN "idle" ELSE "rollback", WithAnnotations(local, new))
           \/ Abandon

CountMissing ==
    /\ pc = "countMissing"
    /\ LET n   == local.missing + 1
           new == [Server EXCEPT !.missing = Put(Cache.missing, n, @)]
       IN  Write(new, IF n < Max404 THEN "idle" ELSE "rollback", WithAnnotations(local, new))
           \/ Abandon

CountError ==
    /\ pc = "countError"
    /\ LET n   == local.errors + 1
           new == [Server EXCEPT !.errors = Put(Cache.errors, n, @)]
       IN  Write(new, IF n < MaxErr THEN "idle" ELSE "rollback", WithAnnotations(local, new))
           \/ Abandon

-----------------------------------------------------------------------------
(* markPolicyFailed: the compensating DELETE, the patch that records it,   *)
(* whose reply replaces the whole in-memory CR, and the status.            *)

HasDelete == policy.type \in {"scaling", "provisioning", "caching", "loadbalance"}

\* Mutant: the error of the DELETE is dropped.
Rollback_IgnoresError ==
    /\ pc = "rollback" /\ ops' = ops
    /\ Then("saveRollback", [local EXCEPT !.rollback = "succeeded"])
    /\ UNCHANGED <<policy, versions, present, confirmed, faults, retries>>

\* attemptOperatorRollback: up to three tries; a lost reply counts as a failure.
Rollback ==
    /\ pc = "rollback"
    /\ \E outcome \in Rollbacks \ {"none"} :
         /\ outcome = "skipped" <=> ~(HasDelete /\ Parsable(local.result))
         /\ outcome = "succeeded" => local.result \in OpIds
         /\ \/ outcome # "succeeded" /\ ops' = ops
            \/ /\ outcome # "skipped" /\ local.result \in OpIds
               /\ ops' = [ops EXCEPT ![local.result] = "gone"]
         /\ Then("saveRollback", [local EXCEPT !.rollback = outcome])
    /\ UNCHANGED <<policy, versions, present, confirmed, faults, retries>>

\* Mutant: the completion time is not set.
SaveRollback_NoTime ==
    /\ pc = "saveRollback"
    /\ LET new == [Server EXCEPT !.rollback = local.rollback]
       IN  Write(new, "save", [new EXCEPT !.phase = "Failed", !.result = FailText]) \/ Abandon

\* patchRollbackMeta. Its base is the in-memory CR before the DELETE, of which
\* it changes only the rollback annotation.
SaveRollback ==
    /\ pc = "saveRollback"
    /\ LET new == [Server EXCEPT !.rollback = local.rollback]
       IN  \/ Write(new, "save", [new EXCEPT !.phase = "Failed", !.completedAt = TRUE,
                                             !.result = FailText])
           \/ Abandon

-----------------------------------------------------------------------------
(* Everything else.                                                        *)

Deliver ==          \* the informer delivers the next version to the cache
    /\ Len(versions) > 1
    /\ versions' = Tail(versions)
    /\ UNCHANGED <<pc, local, external>>

Older(cr) == [cr EXCEPT !.executedAt = IF @ \in 0..ExecTimeout THEN @ + 1 ELSE @]

Tick ==             \* time passes; it matters only while an execution is monitored
    /\ \E i \in 1..Len(versions) : versions[i].phase = "Executing"
    /\ versions' = [i \in 1..Len(versions) |-> Older(versions[i])]
    /\ local' = Older(local)
    /\ UNCHANGED <<pc, external>>

\* The process dies, or loses its leader lease, between two calls; the next one
\* starts from a fresh list of the API server.
Crash ==
    /\ Fault
    /\ pc # "idle"
    /\ Then("idle", Unset)
    /\ versions' = <<Server>>
    /\ UNCHANGED <<policy, ops, present, confirmed, retries>>

UserWrites(cr) == Server.live /\ Store(cr) /\ UNCHANGED <<pc, local, policy, ops, present, confirmed, faults>>

UserApprove ==
    /\ Server.phase = "Pending" /\ ~policy.auto
    /\ UserWrites([Server EXCEPT !.phase = "Approved"])
    /\ UNCHANGED retries

UserRetry ==
    /\ Server.phase = "Failed" /\ ~Server.retry
    /\ retries < MaxRetries /\ retries' = retries + 1
    /\ UserWrites([Server EXCEPT !.retry = TRUE])

UserDelete == UserWrites([Server EXCEPT !.live = FALSE]) /\ UNCHANGED retries

TargetAppears ==
    /\ \E t \in Targets \ present : present' = present \cup {t}
    /\ UNCHANGED <<policy, versions, pc, local, ops, confirmed, faults, retries>>

OperatorChanges(from, to) ==
    /\ \E id \in OpIds : ops[id] \in from /\ ops' = [ops EXCEPT ![id] = to]
    /\ UNCHANGED <<policy, versions, pc, local, present, confirmed, faults, retries>>

OperatorFinishes == \E to \in {"completed", "failed"} : OperatorChanges({"running"}, to)
OperatorForgets  == OperatorChanges({"running", "completed", "failed"}, "gone")   \* it restarted

-----------------------------------------------------------------------------
Reconcile ==
    \/ ReconcileNew \/ ReconcilePending \/ ReconcileApproved \/ ReconcileWaiting
    \/ ReconcileRetry \/ ExecTimedOut \/ ExecNoResult \/ ExecPoll

Call ==
    \/ Save \/ PatchDefaultMode \/ PatchModifiedSpec \/ ClearRetry
    \/ Begin \/ Start \/ StartTooEarly \/ SaveResult \/ ClearStarts \/ StartFailed
    \/ Backfill \/ BackfillSave \/ BackfillMark
    \/ Poll \/ PollError \/ ClearAfterPoll \/ CountMissing \/ CountError
    \/ Rollback \/ SaveRollback

User     == UserApprove \/ UserRetry \/ UserDelete
Operator == OperatorFinishes \/ OperatorForgets

Next == \/ Reconcile \/ Call \/ Deliver \/ Tick \/ Crash
        \/ User \/ Operator \/ TargetAppears

Spec == Init /\ [][Next]_vars

\* The workqueue keeps calling Reconcile (a requeue after every phase that is not
\* final, a watch event after every write), a reconcile in progress makes its
\* calls, the watch delivers and the clock runs. Users, targets and the operator
\* promise nothing.
FairSpec == Spec /\ WF_vars(Reconcile) /\ WF_vars(Call) /\ WF_vars(Deliver) /\ WF_vars(Tick)

-----------------------------------------------------------------------------
(* Properties. AppliedIsJustified holds however far the cache lags.        *)
(* ExecutingHasStart and FinishedHasCompletion hold with a coherent cache, *)
(* and with one a version behind in the first attempt. A retry and a new   *)
(* round of a Continuous policy take the times back, and so does, with a   *)
(* cache two versions behind, the save of a copy two statuses old: a stale *)
(* reconcile may then miss a time it takes for stored.                     *)

Ran(id) == ops[id] # "unused"

\* A policy is Applied, or consumed, only after an operator GET has reported one
\* of its resources complete or a target it waits for has appeared: a start alone
\* or a stale copy never completes it. (That the CR still names the target is not
\* promised: a status patch of a stale copy may wipe consumed and applied.)
Justified(cr) == cr.phase = "Applied" \/ cr.consumed => confirmed # {} \/ present # {}

AppliedIsJustified == \A i \in 1..Len(versions) : Justified(versions[i])

\* No user has asked for a retry, and nothing ever makes the policy Continuous.
FirstAttempt ==
    /\ retries = 0
    /\ policy.mode # "Continuous" /\ "Continuous" \notin AgentModes
    /\ policy.mode = "" => DefaultMode(policy.type) # "Continuous"

\* An Executing policy always has a start time. handleExecutingPolicy looks at
\* nothing else without one, so such a policy could neither finish nor time out.
ExecutingHasStart ==
    MaxLag = 0 \/ FirstAttempt
        => \A i \in 1..Len(versions) :
                versions[i].phase = "Executing" => versions[i].executedAt # NoTime

\* A finished policy has a completion time: the garbage collector of gc.go goes by
\* the creation time of one without it. (After a retry, a copy a version behind takes
\* it away if both attempts end within the same second.)
FinishedHasCompletion ==
    MaxLag = 0 \/ FirstAttempt
        => (Server.phase \in {"Applied", "Failed"} => Server.completedAt)

\* With a coherent cache: the resource whose id an Applied policy records is one
\* whose completion the operator reported, whatever failed or crashed in between.
AppliedResultConfirmed ==
    Server.phase = "Applied" /\ Server.applied = {} => Server.result \in confirmed

\* The policy never becomes Continuous, which would execute it again in each round.
OneShot ==
    policy.type = "scaling"
        => policy.mode \notin {"", "Continuous"} /\ "Continuous" \notin AgentModes

Live(o) == {id \in OpIds : o[id] \in {"running", "completed"}}

\* Without failed writes, lost replies or crashes an attempt creates at most one
\* resource: neither the start nor the backfill is repeated once one exists. Whatever
\* fails, each fault leaves at most one more that runs or has completed. (One that fails
\* at once is noted nowhere, and its backfill may be repeated after a fault.)
OneResourcePerAttempt ==
    OneShot => /\ faults = 0 => \A id \in OpIds : Ran(id) => id <= 1 + retries
               /\ Cardinality(Live(ops)) <= 1 + retries + faults

\* With a coherent cache a lost resource, or an operator that answers with errors, is
\* put up with for the limits' number of answers, however a policy gets back into
\* Executing: a failed write allows another, and so does a retry, which keeps the streaks.
StreaksAreBounded ==
    pc = "idle" /\ Server.live /\ Server.phase = "Executing"
        => /\ Server.missing < Max404 + faults + retries
           /\ Server.errors < MaxErr + faults + retries

\* With a coherent cache: a rollback that is recorded as succeeded has made up for the
\* resource of its attempt. What a failed policy leaves behind then is at most one
\* resource for each earlier attempt and for each fault: a start whose reply is lost
\* leaves one that no rollback knows of. (A Continuous policy leaves those of its
\* earlier rounds; the property says nothing of it.)
FailedLeavesNothing ==
    OneShot /\ Server.phase = "Failed" /\ Server.rollback = "succeeded"
        => Cardinality(Live(ops)) <= retries + faults

\* A policy does not stay new, approved or executing for ever, whatever the
\* operator answers.
PolicyMovesOn ==
    \A phase \in {"", "Approved", "Executing"} :
        Server.phase = phase ~> (Server.phase # phase \/ ~Server.live)

\* A retry requested for a failed policy takes it out of Failed once nothing fails any
\* more, whatever has failed before. (A status patch that fails after the annotation was
\* removed loses the retry: handleRetryFromFailure makes two patches.)
RetryServed ==
    Server.phase = "Failed" /\ Server.retry /\ faults = MaxFaults
        ~> (Server.phase # "Failed" \/ ~Server.live)

\* The life of the stored CR follows PolicyLifecycle when the cache is coherent.
\* A retry request outlives its annotation until the status patch that serves it.
ServingRetry == pc = "save" /\ Server.phase = "Failed" /\ local.phase = "Pending"

Lifecycle == INSTANCE PolicyLifecycle WITH
    Ids      <- OpIds,
    phase    <- IF Server.live THEN Server.phase ELSE "deleted",
    retry    <- Server.live /\ (Server.retry \/ ServingRetry),
    requests <- retries,
    consumed <- Server.consumed,
    started  <- {id \in OpIds : Ran(id)}

FollowsLifecycle == Lifecycle!Spec

\* The comment on ExecutionModeOnTargetCreated: such a policy is applied once
\* when a new target is created. Applied means the operator was asked to.
TargetGetsExecution ==
    Server.phase = "Applied" => \E id \in OpIds : Ran(id)

\* The log line of handleApprovedPolicy: an execution that could not be started,
\* with start failures left, is started again.
FailedStartIsRetried ==
    pc = "startFailed" /\ local.starts + 1 < MaxStart /\ Server.live
        ~> pc \in {"start", "backfill", "lateBackfill"} \/ ~Server.live
=============================================================================
