---------------------- MODULE PolicyReconciler_proofs ----------------------
(***************************************************************************)
(* Theorems about PolicyReconciler, for every set of policies, every limit *)
(* and bound. The first part holds however far the cache lags behind the   *)
(* API server, and says that every reconcile ends. The second is about a   *)
(* coherent cache (MaxLag = 0): order of a reconcile, the refinement of    *)
(* PolicyLifecycle, one resource per attempt, what a rollback leaves, how  *)
(* far the streaks grow and what faults cost. The third is about a cache   *)
(* at most one version behind (MaxLag <= 1): the times a phase implies.    *)
(***************************************************************************)
EXTENDS PolicyReconciler, FiniteSetTheorems, TLAPS

-----------------------------------------------------------------------------
(* 1. Any lag. Type correctness.                                           *)

\* A CR as it is created is a CR.
LEMMA NewCRType ==
    ASSUME NEW mode \in Modes
    PROVE  NewCR(mode) \in CR
<1>1. NoTime \in Ages /\ NoResult \in Results /\ "" \in Phases /\ "none" \in Rollbacks
  BY TimeAssumption DEF NoTime, Ages, Results, NoResult, Phases, Rollbacks
<1> QED
  BY <1>1 DEF NewCR, CR

\* The copy held between reconciles is a CR.
LEMMA UnsetType == Unset \in CR
BY NewCRType DEF Unset, Modes

\* The cached and the stored copy exist and are CRs.
LEMMA EndsType ==
    ASSUME versions \in Seq(CR), versions # <<>>
    PROVE  /\ Len(versions) \in Nat \ {0}
           /\ \A i \in 1..Len(versions) : versions[i] \in CR
           /\ Cache \in CR /\ Server \in CR
BY DEF Cache, Server

\* The fields of a CR have their types.
LEMMA FieldTypes ==
    ASSUME NEW cr \in CR
    PROVE  /\ cr.live \in BOOLEAN /\ cr.mode \in Modes /\ cr.phase \in Phases
           /\ cr.executedAt \in Ages /\ cr.completedAt \in BOOLEAN /\ cr.result \in Results
           /\ cr.consumed \in BOOLEAN /\ cr.applied \in SUBSET Targets
           /\ cr.starts \in Nat /\ cr.missing \in Nat /\ cr.errors \in Nat
           /\ cr.retry \in BOOLEAN /\ cr.rollback \in Rollbacks
BY DEF CR

\* A merge patch of a CR by a difference of CRs gives a CR.
LEMMA MergeType ==
    ASSUME Server \in CR, NEW base \in CR, NEW new \in CR
    PROVE  MergeStatus(base, new) \in CR
<1> DEFINE phase       == Put(base.phase, new.phase, Server.phase)
           executedAt  == Put(base.executedAt, new.executedAt, Server.executedAt)
           completedAt == Put(base.completedAt, new.completedAt, Server.completedAt)
           result      == Put(base.result, new.result, Server.result)
           consumed    == Put(base.consumed, new.consumed, Server.consumed)
           applied     == Put(base.applied, new.applied, Server.applied)
<1>1. /\ phase \in Phases /\ executedAt \in Ages /\ completedAt \in BOOLEAN
      /\ result \in Results /\ consumed \in BOOLEAN /\ applied \in SUBSET Targets
  BY FieldTypes DEF Put
<1>2. MergeStatus(base, new) =
        [Server EXCEPT !.phase = phase, !.executedAt = executedAt, !.completedAt = completedAt,
                       !.result = result, !.consumed = consumed, !.applied = applied]
  BY DEF MergeStatus
<1> HIDE DEF phase, executedAt, completedAt, result, consumed, applied
<1> DEFINE half == [Server EXCEPT !.phase = phase, !.executedAt = executedAt,
                                  !.completedAt = completedAt]
<1>3. half \in CR
  BY <1>1 DEF CR
<1>4. MergeStatus(base, new) =
        [half EXCEPT !.result = result, !.consumed = consumed, !.applied = applied]
  BY <1>2
<1> HIDE DEF half
<1> QED
  BY <1>1, <1>3, <1>4 DEF CR

\* Copies updated with the reply of a patch are CRs.
LEMMA ReplyTypes ==
    ASSUME NEW cr \in CR, NEW reply \in CR
    PROVE  WithStatus(cr, reply) \in CR /\ WithAnnotations(cr, reply) \in CR
BY DEF WithStatus, WithAnnotations, CR

\* Storing a CR keeps the history a non-empty sequence of CRs.
LEMMA StoreType ==
    ASSUME versions \in Seq(CR), versions # <<>>, NEW cr \in CR, Store(cr)
    PROVE  versions' \in Seq(CR) /\ versions' # <<>>
BY DEF Store

\* The next call and its copy have their types.
LEMMA ThenType ==
    ASSUME NEW next \in PCs, NEW copy \in CR, Then(next, copy)
    PROVE  pc' \in PCs /\ local' \in CR
BY UnsetType DEF Then

\* The fault counter stays within its bound.
LEMMA FaultType ==
    ASSUME faults \in 0..MaxFaults, Fault
    PROVE  faults' \in 0..MaxFaults
BY BoundAssumption DEF Fault

\* The three ways a step of the reconciler ends keep the types.
LEMMA WriteType ==
    ASSUME TypeOK, NEW cr \in CR, NEW next \in PCs, NEW copy \in CR, Write(cr, next, copy)
    PROVE  TypeOK'
BY StoreType, ThenType DEF Write, TypeOK, external

\* Nor does a failed write change a type.
LEMMA WriteFailsType ==
    ASSUME TypeOK, NEW next \in PCs, NEW copy \in CR, WriteFails(next, copy)
    PROVE  TypeOK'
BY ThenType, FaultType DEF WriteFails, TypeOK

\* A reconcile that gives up ends idle.
LEMMA AbandonType ==
    ASSUME TypeOK, Abandon
    PROVE  TypeOK'
BY WriteFailsType DEF Abandon, TypeOK, PCs

\* A reconcile that goes on has written nothing.
LEMMA ProceedType ==
    ASSUME TypeOK, NEW next \in PCs, NEW copy \in CR, Proceed(next, copy)
    PROVE  TypeOK'
BY ThenType DEF Proceed, TypeOK, external

\* The copies the handlers make of a CR.
LEMMA CopyTypes ==
    ASSUME NEW cr \in CR, NEW phase \in Phases
    PROVE  /\ InPhase(cr, phase) \in CR /\ Applied(cr) \in CR /\ Completed(cr) \in CR
           /\ \A r \in Results : [cr EXCEPT !.result = r] \in CR
           /\ \A r \in Rollbacks : [cr EXCEPT !.rollback = r] \in CR
           /\ \A m \in Modes : [cr EXCEPT !.mode = m] \in CR
           /\ \A m \in Modes : [cr EXCEPT !.mode = m, !.phase = phase] \in CR
<1>1. \A p \in Phases : InPhase(cr, p) \in CR
  BY DEF InPhase, CR
<1>2. Applied(cr) \in CR
  BY DEF Applied, CR, Phases
<1>3. [cr EXCEPT !.phase = "Approved", !.completedAt = FALSE] \in CR
  BY DEF CR, Phases
<1>4. [Applied(cr) EXCEPT !.consumed = TRUE] \in CR
  BY <1>2 DEF CR
<1>5. Completed(cr) \in CR
  BY <1>3, <1>4 DEF Completed
<1>6. /\ \A r \in Results : [cr EXCEPT !.result = r] \in CR
      /\ \A r \in Rollbacks : [cr EXCEPT !.rollback = r] \in CR
      /\ \A m \in Modes : [cr EXCEPT !.mode = m] \in CR
      /\ \A m \in Modes : [cr EXCEPT !.mode = m, !.phase = phase] \in CR
  BY DEF CR
<1> QED
  BY <1>1, <1>2, <1>5, <1>6

\* A fresh start time, and a value put into a field, have the field's type.
LEMMA StartTimeType ==
    ASSUME NEW cr \in CR
    PROVE  [cr EXCEPT !.phase = "Executing", !.executedAt = 0] \in CR
<1>1. 0 \in Ages /\ "Executing" \in Phases
  BY TimeAssumption DEF Ages, Phases
<1> QED
  BY <1>1 DEF CR

\* Every step that begins a reconcile keeps the types.
LEMMA ReconcileType ==
    ASSUME TypeOK, Reconcile
    PROVE  TypeOK'
<1>1. Cache \in CR /\ Server \in CR
  BY EndsType DEF TypeOK
<1> USE DEF PCs
<1>2. CASE ReconcileNew
  BY <1>1, <1>2, ProceedType, CopyTypes DEF ReconcileNew, Phases
<1>3. CASE ReconcilePending
  <2>1. \A mode \in AgentModes \cup {Cache.mode} : [Cache EXCEPT !.mode = mode] \in CR
    BY <1>1, CopyTypes, FieldTypes, AgentAssumption DEF Phases
  <2>2. InPhase(Cache, "Approved") \in CR /\ InPhase(Cache, "Rejected") \in CR
    BY <1>1, CopyTypes DEF Phases
  <2> QED
    BY <1>1, <1>3, <2>1, <2>2, ProceedType DEF ReconcilePending
<1>4. CASE ReconcileApproved
  <2>1. /\ InPhase(Cache, "Rejected") \in CR /\ InPhase(Cache, "WaitingForTarget") \in CR
        /\ Applied(Cache) \in CR
    BY <1>1, CopyTypes DEF Phases
  <2> QED
    BY <1>1, <1>4, <2>1, StartTimeType, ProceedType DEF ReconcileApproved, MovedToWaiting
<1>5. CASE ReconcileWaiting
  <2>1. Applied(Cache) \in CR
    BY <1>1, CopyTypes DEF Phases
  <2>2. ASSUME NEW t \in present
        PROVE  [Cache EXCEPT !.phase = "Approved", !.consumed = TRUE,
                             !.applied = @ \cup {t}] \in CR
    BY <1>1 DEF CR, Phases, TypeOK
  <2> QED
    BY <1>1, <1>5, <2>1, <2>2, ProceedType DEF ReconcileWaiting, NewTargets
<1>6. CASE ReconcileRetry
  BY <1>1, <1>6, ProceedType DEF ReconcileRetry
<1>7. CASE ExecTimedOut
  BY <1>1, <1>7, ProceedType DEF ExecTimedOut
<1>8. CASE ExecNoResult
  BY <1>1, <1>8, ProceedType DEF ExecNoResult
<1>9. CASE ExecPoll
  BY <1>1, <1>9, ProceedType DEF ExecPoll
<1> QED
  BY <1>2, <1>3, <1>4, <1>5, <1>6, <1>7, <1>8, <1>9 DEF Reconcile

\* Patching one field, or both poll counters, of the stored CR gives a CR.
LEMMA PatchTypes ==
    ASSUME TypeOK
    PROVE  /\ \A mode \in Modes : [Server EXCEPT !.mode = Put(Cache.mode, mode, @)] \in CR
           /\ \A r \in Results : [Server EXCEPT !.result = Put(Cache.result, r, @)] \in CR
           /\ \A n \in Nat : [Server EXCEPT !.starts = Put(Cache.starts, n, @)] \in CR
           /\ \A n \in Nat : [Server EXCEPT !.missing = Put(Cache.missing, n, @)] \in CR
           /\ \A n \in Nat : [Server EXCEPT !.errors = Put(Cache.errors, n, @)] \in CR
           /\ [Server EXCEPT !.missing = Put(Cache.missing, 0, @),
                             !.errors  = Put(Cache.errors, 0, @)] \in CR
<1>1. Cache \in CR /\ Server \in CR
  BY EndsType DEF TypeOK
<1> QED
  BY <1>1 DEF Put, CR

\* One POST keeps the types, whatever comes next.
LEMMA PostType ==
    ASSUME TypeOK, NEW ok \in PCs, NEW ko \in PCs, Post(ok, ko)
    PROVE  TypeOK'
<1>1. CASE UNCHANGED <<ops, faults>> /\ Then(ko, local)
  BY <1>1, ThenType DEF Post, TypeOK
<1>2. CASE ~(UNCHANGED <<ops, faults>> /\ Then(ko, local))
  <2>1. PICK id \in OpIds :
          /\ \/ /\ faults' = faults
                /\ \/ ops' = [ops EXCEPT ![id] = "running"]
                      /\ \E result \in {id, NoId} : Then(ok, [local EXCEPT !.result = result])
                   \/ ops' = [ops EXCEPT ![id] = "failed"] /\ IsSync /\ Then(ko, local)
             \/ /\ Fault
                /\ ops' = [ops EXCEPT ![id] = "running"]
                /\ Then(ko, local)
    BY <1>2 DEF Post
  <2>2. faults' \in 0..MaxFaults
    BY <2>1, FaultType DEF TypeOK
  <2>3. ops' \in [OpIds -> OpStates]
    BY <2>1 DEF TypeOK, OpStates
  <2>4. \A result \in {id, NoId} : [local EXCEPT !.result = result] \in CR
    BY DEF CR, TypeOK, Results, NoId
  <2>5. pc' \in PCs /\ local' \in CR
    BY <2>1, <2>4, ThenType DEF TypeOK
  <2> QED
    BY <2>2, <2>3, <2>5 DEF Post, TypeOK
<1> QED
  BY <1>1, <1>2

\* The patch of status.result keeps the types.
LEMMA PatchResultType ==
    ASSUME TypeOK, NEW next \in PCs, NEW failed \in PCs, PatchResult(next, failed)
    PROVE  TypeOK'
<1>1. local \in CR /\ local.result \in Results
  BY FieldTypes DEF TypeOK
<1>2. [Server EXCEPT !.result = Put(Cache.result, local.result, @)] \in CR
  BY <1>1, PatchTypes
<1> QED
  BY <1>1, <1>2, ReplyTypes, WriteType, WriteFailsType DEF PatchResult

\* The patch of the start-failure streak keeps the types.
LEMMA PatchStartsType ==
    ASSUME TypeOK, NEW n \in Nat, NEW next \in PCs, PatchStarts(n, next)
    PROVE  TypeOK'
<1>1. local \in CR /\ [Server EXCEPT !.starts = Put(Cache.starts, n, @)] \in CR
  BY PatchTypes DEF TypeOK
<1> QED
  BY <1>1, ReplyTypes, WriteType DEF PatchStarts

\* Clearing the poll counters keeps the types.
LEMMA ClearCountersType ==
    ASSUME TypeOK, NEW next \in PCs, NEW copy \in CR, ClearCounters(next, copy)
    PROVE  TypeOK'
<1> DEFINE new == [Server EXCEPT !.missing = Put(Cache.missing, 0, @),
                                 !.errors  = Put(Cache.errors, 0, @)]
<1>1. new \in CR
  BY PatchTypes
<1>2. \/ Proceed(next, copy) \/ Write(new, next, WithAnnotations(copy, new)) \/ Abandon
  BY DEF ClearCounters
<1> HIDE DEF new
<1> QED
  BY <1>1, <1>2, ReplyTypes, WriteType, AbandonType, ProceedType

\* Every call of a reconcile in progress keeps the types.
LEMMA CallType ==
    ASSUME TypeOK, Call
    PROVE  TypeOK'
<1>1. /\ Cache \in CR /\ Server \in CR /\ local \in CR
      /\ local.starts \in Nat /\ local.missing \in Nat /\ local.errors \in Nat
      /\ local.mode \in Modes /\ "Immediate" \in Modes /\ "Continuous" \in Modes
  BY EndsType, FieldTypes DEF TypeOK, Modes
<1> USE DEF PCs
<1>2. CASE Save
  BY <1>1, <1>2, MergeType, WriteType, AbandonType DEF Save
<1>3. CASE PatchDefaultMode
  <2> DEFINE new == [Server EXCEPT !.mode = Put(Cache.mode, DefaultMode(policy.type), @)]
  <2>1. new \in CR
    BY <1>1, PatchTypes DEF DefaultMode
  <2>2. [local EXCEPT !.mode = new.mode, !.phase = "Pending"] \in CR
    BY <1>1, <2>1, CopyTypes, FieldTypes DEF Phases
  <2>3. Write(new, "save", [local EXCEPT !.mode = new.mode, !.phase = "Pending"]) \/ Abandon
    BY <1>3 DEF PatchDefaultMode
  <2> QED
    BY <2>1, <2>2, <2>3, WriteType, AbandonType
<1>4. CASE PatchModifiedSpec
  <2> DEFINE new == [Server EXCEPT !.mode = Put(Cache.mode, local.mode, @)]
  <2>1. new \in CR
    BY <1>1, PatchTypes
  <2>2. [local EXCEPT !.mode = new.mode, !.phase = "Approved"] \in CR
    BY <1>1, <2>1, CopyTypes, FieldTypes DEF Phases
  <2>3. Write(new, "save", [local EXCEPT !.mode = new.mode, !.phase = "Approved"]) \/ Abandon
    BY <1>4 DEF PatchModifiedSpec
  <2> QED
    BY <2>1, <2>2, <2>3, WriteType, AbandonType
<1>5. CASE ClearRetry
  <2> DEFINE new  == [Server EXCEPT !.retry = FALSE,
                                    !.rollback = Put(local.rollback, "none", @)]
             copy == [new EXCEPT !.phase = "Pending", !.result = NoResult,
                                 !.executedAt = NoTime, !.completedAt = FALSE]
  <2>1. new \in CR
    BY <1>1 DEF CR, Put, Rollbacks
  <2>2. "Pending" \in Phases /\ NoResult \in Results /\ NoTime \in Ages
    BY TimeAssumption DEF Phases, NoResult, Results, NoTime, Ages
  <2> HIDE DEF new
  <2>3. copy \in CR
    BY <2>1, <2>2 DEF CR
  <2> USE DEF new
  <2>4. Write(new, "save", copy) \/ Abandon
    BY <1>5 DEF ClearRetry
  <2> HIDE DEF new, copy
  <2> QED
    BY <2>1, <2>3, <2>4, WriteType, AbandonType
<1>6. CASE Begin
  BY <1>1, <1>6, MergeType, ReplyTypes, WriteType, AbandonType DEF Begin
<1>7. CASE Start
  BY <1>7, PostType DEF Start
<1>8. CASE StartTooEarly
  BY <1>1, <1>8, CopyTypes, ProceedType DEF StartTooEarly, Phases
<1>9. CASE SaveResult
  BY <1>9, PatchResultType DEF SaveResult
<1>10. CASE ClearStarts
  BY <1>10, PatchStartsType, AbandonType DEF ClearStarts
<1>11. CASE StartFailed
  <2>1. local.starts + 1 \in Nat
    BY <1>1
  <2> QED
    BY <1>11, <2>1, PatchStartsType, AbandonType DEF StartFailed
<1>12. CASE Backfill
  BY <1>12, PostType DEF Backfill
<1>13. CASE BackfillSave
  BY <1>13, PatchResultType DEF BackfillSave
<1>14. CASE BackfillMark
  BY <1>14, PatchStartsType, AbandonType DEF BackfillMark
<1>15. CASE Poll
  BY <1>15 DEF Poll, TypeOK
<1>16. CASE PollError
  BY <1>1, <1>16, ProceedType DEF PollError
<1>17. CASE ClearAfterPoll
  BY <1>1, <1>17, CopyTypes, ClearCountersType DEF ClearAfterPoll, Phases
<1>18. CASE CountMissing
  <2> DEFINE n   == local.missing + 1
             new == [Server EXCEPT !.missing = Put(Cache.missing, n, @)]
  <2>1. \/ Write(new, IF n < Max404 THEN "idle" ELSE "rollback", WithAnnotations(local, new))
        \/ Abandon
    BY <1>18 DEF CountMissing
  <2>2. n \in Nat
    BY <1>1
  <2> HIDE DEF n
  <2>3. new \in CR
    BY <2>2, PatchTypes
  <2> HIDE DEF new
  <2> QED
    BY <1>1, <2>1, <2>2, <2>3, ReplyTypes, WriteType, AbandonType
<1>19. CASE CountError
  <2> DEFINE n   == local.errors + 1
             new == [Server EXCEPT !.errors = Put(Cache.errors, n, @)]
  <2>1. \/ Write(new, IF n < MaxErr THEN "idle" ELSE "rollback", WithAnnotations(local, new))
        \/ Abandon
    BY <1>19 DEF CountError
  <2>2. n \in Nat
    BY <1>1
  <2> HIDE DEF n
  <2>3. new \in CR
    BY <2>2, PatchTypes
  <2> HIDE DEF new
  <2> QED
    BY <1>1, <2>1, <2>2, <2>3, ReplyTypes, WriteType, AbandonType
<1>20. CASE Rollback
  <2>1. PICK outcome \in Rollbacks :
          /\ \/ ops' = ops
             \/ local.result \in OpIds /\ ops' = [ops EXCEPT ![local.result] = "gone"]
          /\ Then("saveRollback", [local EXCEPT !.rollback = outcome])
    BY <1>20 DEF Rollback
  <2>2. [local EXCEPT !.rollback = outcome] \in CR
    BY <1>1, CopyTypes DEF Phases
  <2>3. ops' \in [OpIds -> OpStates]
    BY <2>1 DEF TypeOK, OpStates
  <2> QED
    BY <1>20, <2>1, <2>2, <2>3, ThenType DEF Rollback, TypeOK
<1>21. CASE SaveRollback
  <2> DEFINE new  == [Server EXCEPT !.rollback = local.rollback]
             copy == [new EXCEPT !.phase = "Failed", !.completedAt = TRUE, !.result = FailText]
  <2>1. new \in CR
    BY <1>1, FieldTypes, CopyTypes DEF Phases
  <2>2. "Failed" \in Phases /\ FailText \in Results
    BY DEF Phases, FailText, Results
  <2> HIDE DEF new
  <2>3. copy \in CR
    BY <2>1, <2>2 DEF CR
  <2> USE DEF new
  <2>4. Write(new, "save", copy) \/ Abandon
    BY <1>21 DEF SaveRollback
  <2> HIDE DEF new, copy
  <2> QED
    BY <2>1, <2>3, <2>4, WriteType, AbandonType
<1> QED
  BY <1>2, <1>3, <1>4, <1>5, <1>6, <1>7, <1>8, <1>9, <1>10, <1>11, <1>12, <1>13, <1>14,
     <1>15, <1>16, <1>17, <1>18, <1>19, <1>20, <1>21 DEF Call

\* Every step of the environment keeps the types.
LEMMA EnvironmentType ==
    ASSUME TypeOK, Deliver \/ Tick \/ Crash \/ User \/ Operator \/ TargetAppears
    PROVE  TypeOK'
<1>1. /\ Cache \in CR /\ Server \in CR /\ Len(versions) \in Nat \ {0}
      /\ \A i \in 1..Len(versions) : versions[i] \in CR
  BY EndsType DEF TypeOK
<1>2. CASE Deliver
  <2>1. versions' \in Seq(CR) /\ Len(versions') = Len(versions) - 1 /\ Len(versions) > 1
    BY <1>2 DEF Deliver, TypeOK
  <2>2. versions' # <<>>
    BY <1>1, <2>1
  <2> QED
    BY <1>2, <2>1, <2>2 DEF Deliver, TypeOK, external
<1>3. CASE Tick
  <2>1. ASSUME NEW cr \in CR
        PROVE  Older(cr) \in CR
    BY TimeAssumption DEF Older, CR, Ages
  <2>2. versions' = [i \in 1..Len(versions) |-> Older(versions[i])]
    BY <1>3 DEF Tick
  <2>3. \A i \in 1..Len(versions) : Older(versions[i]) \in CR
    BY <1>1, <2>1
  <2>4. versions' \in Seq(CR) /\ Len(versions') = Len(versions)
    <3> HIDE DEF Older
    <3> QED
      BY <1>1, <2>2, <2>3 DEF Older
  <2>5. versions' # <<>>
    BY <1>1, <2>4
  <2> QED
    BY <1>3, <2>1, <2>4, <2>5 DEF Tick, TypeOK, external
<1>4. CASE Crash
  <2>1. pc' \in PCs /\ local' \in CR
    BY <1>4, UnsetType DEF Crash, Then, PCs
  <2>2. faults' \in 0..MaxFaults
    BY <1>4, FaultType DEF Crash, TypeOK
  <2> QED
    BY <1>1, <1>4, <2>1, <2>2 DEF Crash, TypeOK
<1>5. CASE User
  <2>1. \A cr \in CR : UserWrites(cr) => versions' \in Seq(CR) /\ versions' # <<>>
    BY StoreType DEF UserWrites, TypeOK
  <2>2. /\ [Server EXCEPT !.phase = "Approved"] \in CR
        /\ [Server EXCEPT !.retry = TRUE] \in CR
        /\ [Server EXCEPT !.live = FALSE] \in CR
    BY <1>1 DEF CR, Phases
  <2>3. PICK cr \in CR : UserWrites(cr)
    BY <1>5, <2>2 DEF User, UserApprove, UserRetry, UserDelete
  <2>4. retries' \in 0..MaxRetries
    BY <1>5, BoundAssumption DEF User, UserApprove, UserRetry, UserDelete, TypeOK
  <2> QED
    BY <2>1, <2>3, <2>4 DEF UserWrites, TypeOK
<1>6. CASE Operator
  <2>1. PICK to \in {"completed", "failed", "gone"} : \E from : OperatorChanges(from, to)
    BY <1>6 DEF Operator, OperatorFinishes, OperatorForgets
  <2> QED
    BY <2>1 DEF OperatorChanges, TypeOK, OpStates
<1>7. CASE TargetAppears
  BY <1>7 DEF TargetAppears, TypeOK
<1> QED
  BY <1>2, <1>3, <1>4, <1>5, <1>6, <1>7

\* Type correctness: no sequence of reconciles, faults and writes by others takes
\* a variable out of the set TypeOK gives it.
THEOREM TypeCorrect == Spec => []TypeOK
<1>1. Init => TypeOK
  <2> SUFFICES ASSUME Init PROVE TypeOK
    OBVIOUS
  <2>1. NewCR(policy.mode) \in CR
    BY NewCRType, PoliciesAssumption DEF Init, PolicySpec
  <2> QED
    BY <2>1, UnsetType, BoundAssumption DEF Init, TypeOK, PCs, OpStates
<1>2. TypeOK /\ [Next]_vars => TypeOK'
  <2> SUFFICES ASSUME TypeOK, [Next]_vars PROVE TypeOK'
    OBVIOUS
  <2>1. CASE UNCHANGED vars
    BY <2>1 DEF vars, TypeOK
  <2> QED
    BY <2>1, ReconcileType, CallType, EnvironmentType DEF Next
<1> QED
  BY <1>1, <1>2, PTL DEF Spec

-----------------------------------------------------------------------------
(* Applied is justified. The evidence for it, once there, stays; so the    *)
(* inductive invariant is that until there is evidence no copy of the CR,  *)
(* cached, stored or in memory, is Applied or consumed, and no reconcile   *)
(* is about to complete the policy.                                        *)

Evidence  == confirmed # {} \/ present # {}
Clean(cr) == cr.phase # "Applied" /\ ~cr.consumed
AllClean  == /\ \A i \in 1..Len(versions) : Clean(versions[i])
             /\ Clean(local)
             /\ pc # "clearDone"

JustifiedInv == Evidence \/ AllClean

\* No step takes evidence back: a confirmation and a target's appearance last.
LEMMA EvidenceStays ==
    ASSUME TypeOK, [Next]_vars, Evidence
    PROVE  Evidence'
<1>1. CASE UNCHANGED vars
  BY <1>1 DEF vars, Evidence
<1>2. CASE Reconcile
  BY <1>2 DEF Reconcile, ReconcileNew, ReconcilePending, ReconcileApproved, ReconcileWaiting,
     ReconcileRetry, ExecTimedOut, ExecNoResult, ExecPoll, Proceed, external, Evidence
<1>3. CASE Call
  <2>1. CASE Poll
    BY <2>1 DEF Poll, Evidence
  <2>2. CASE Call /\ ~Poll
    BY <2>2 DEF Call, Save, PatchDefaultMode, PatchModifiedSpec, ClearRetry, Begin, Start,
       StartTooEarly, SaveResult, ClearStarts, StartFailed, Backfill, BackfillSave, BackfillMark,
       PollError, ClearAfterPoll, CountMissing, CountError, Rollback, SaveRollback, Post,
       PatchResult, PatchStarts, ClearCounters, Write, WriteFails, Abandon, Proceed, external,
       Evidence
  <2> QED
    BY <1>3, <2>1, <2>2
<1>4. CASE Deliver \/ Tick \/ Crash \/ User \/ Operator \/ TargetAppears
  BY <1>4 DEF Deliver, Tick, Crash, User, UserApprove, UserRetry, UserDelete, UserWrites,
     Operator, OperatorFinishes, OperatorForgets, OperatorChanges, TargetAppears, external,
     Evidence
<1> QED
  BY <1>1, <1>2, <1>3, <1>4 DEF Next

\* A merge patch of a clean copy to a clean CR leaves it clean.
LEMMA MergeClean ==
    ASSUME Server \in CR, NEW base \in CR, NEW new \in CR, Clean(Server), Clean(new)
    PROVE  Clean(MergeStatus(base, new))
BY DEF MergeStatus, Put, Clean, CR

\* The cached, the stored and the absent copy are clean when all are.
LEMMA EndsClean ==
    ASSUME TypeOK, AllClean
    PROVE  Clean(Cache) /\ Clean(Server) /\ Clean(local) /\ Clean(Unset)
BY EndsType DEF TypeOK, AllClean, Cache, Server, Unset, NewCR, Clean

\* Storing a clean CR keeps the history clean.
LEMMA StoreClean ==
    ASSUME TypeOK, AllClean, NEW cr \in CR, Clean(cr), Store(cr)
    PROVE  \A i \in 1..Len(versions') : Clean(versions'[i])
<1>1. \A i \in 1..Len(versions) : Clean(versions[i])
  BY DEF AllClean
<1>2. versions \in Seq(CR) /\ versions # <<>> /\ Len(versions) \in Nat \ {0}
  BY EndsType DEF TypeOK
<1> HIDE DEF Clean
<1>3. CASE versions' = versions
  BY <1>1, <1>3
<1>4. CASE versions' = Append(versions, cr)
  BY <1>1, <1>2, <1>4
<1>5. CASE versions' = Append(Tail(versions), cr)
  <2>1. /\ Tail(versions) \in Seq(CR) /\ Len(Tail(versions)) = Len(versions) - 1
        /\ \A i \in 1..Len(Tail(versions)) : Tail(versions)[i] = versions[i + 1]
    BY <1>2
  <2>2. \A i \in 1..Len(Tail(versions)) : Clean(Tail(versions)[i])
    BY <1>1, <1>2, <2>1
  <2> DEFINE rest == Tail(versions)
  <2>3. /\ rest \in Seq(CR)
        /\ \A i \in 1..Len(rest) : Clean(rest[i])
        /\ versions' = Append(rest, cr)
    BY <1>5, <2>1, <2>2
  <2> HIDE DEF rest
  <2> QED
    BY <2>3
<1> QED
  BY <1>3, <1>4, <1>5 DEF Store

\* The ways a step of the reconciler ends keep every copy clean.
LEMMA WriteClean ==
    ASSUME TypeOK, AllClean, NEW cr \in CR, NEW next, NEW copy, Clean(cr), Clean(copy),
           next # "clearDone", Write(cr, next, copy)
    PROVE  AllClean'
<1>1. \A i \in 1..Len(versions') : Clean(versions'[i])
  BY StoreClean DEF Write
<1>2. pc' # "clearDone" /\ (local' = copy \/ local' = Unset)
  BY DEF Write, Then
<1> QED
  BY <1>1, <1>2, EndsClean DEF AllClean, Clean

\* A failed write keeps every copy clean.
LEMMA WriteFailsClean ==
    ASSUME TypeOK, AllClean, NEW next, NEW copy, Clean(copy), next # "clearDone",
           WriteFails(next, copy)
    PROVE  AllClean'
BY EndsClean DEF WriteFails, Then, AllClean, Clean

\* So does giving up.
LEMMA AbandonClean ==
    ASSUME TypeOK, AllClean, Abandon
    PROVE  AllClean'
BY EndsClean, WriteFailsClean DEF Abandon

\* So does going on with a clean copy, except to complete it.
LEMMA ProceedClean ==
    ASSUME TypeOK, AllClean, NEW next, NEW copy, Clean(copy), next # "clearDone",
           Proceed(next, copy)
    PROVE  AllClean'
BY EndsClean DEF Proceed, Then, AllClean, Clean

\* The copies the handlers make of a clean CR are clean, unless they complete it.
LEMMA CopyClean ==
    ASSUME NEW cr \in CR, Clean(cr), NEW phase \in Phases \ {"Applied"}
    PROVE  /\ Clean(InPhase(cr, phase))
           /\ \A m : Clean([cr EXCEPT !.mode = m, !.phase = phase])
           /\ \A t : Clean([cr EXCEPT !.phase = phase, !.executedAt = t])
BY DEF InPhase, Clean, CR

\* Nor do the fields other than phase and consumed matter.
LEMMA FieldClean ==
    ASSUME NEW cr \in CR, Clean(cr)
    PROVE  /\ \A r : Clean([cr EXCEPT !.result = r])
           /\ \A r : Clean([cr EXCEPT !.rollback = r])
           /\ \A m : Clean([cr EXCEPT !.mode = m])
           /\ \A n : Clean([cr EXCEPT !.starts = n])
           /\ \A n : Clean([cr EXCEPT !.missing = n])
           /\ \A n : Clean([cr EXCEPT !.errors = n])
           /\ \A m, n : Clean([cr EXCEPT !.missing = m, !.errors = n])
           /\ \A a, r : Clean([cr EXCEPT !.retry = a, !.rollback = r])
BY DEF Clean, CR

\* So are the copies updated with the reply of a patch that left the CR clean.
LEMMA ReplyClean ==
    ASSUME NEW cr \in CR, NEW reply \in CR, Clean(cr), Clean(reply)
    PROVE  Clean(WithStatus(cr, reply)) /\ Clean(WithAnnotations(cr, reply))
BY DEF WithStatus, WithAnnotations, Clean, CR

\* Without evidence, the first step of a reconcile completes nothing.
LEMMA ReconcileClean ==
    ASSUME TypeOK, AllClean, Reconcile, ~Evidence'
    PROVE  AllClean'
<1>1. Cache \in CR /\ Clean(Cache)
  BY EndsType, EndsClean DEF TypeOK
<1>2. ~Cache.consumed
  BY <1>1 DEF Clean
<1>3. CASE ReconcileNew
  BY <1>1, <1>3, CopyClean, ProceedClean DEF ReconcileNew, Phases
<1>4. CASE ReconcilePending
  <2>1. \A mode : Clean([Cache EXCEPT !.mode = mode])
    BY <1>1, FieldClean
  <2>2. Clean(InPhase(Cache, "Approved")) /\ Clean(InPhase(Cache, "Rejected"))
    BY <1>1, CopyClean DEF Phases
  <2> QED
    BY <1>1, <1>4, <2>1, <2>2, ProceedClean DEF ReconcilePending
<1>5. CASE ReconcileApproved
  <2>1. Clean(InPhase(Cache, "Rejected")) /\ Clean(InPhase(Cache, "WaitingForTarget"))
    BY <1>1, CopyClean DEF Phases
  <2>2. Clean([Cache EXCEPT !.phase = "Executing", !.executedAt = 0])
    BY <1>1, CopyClean DEF Phases
  <2> QED
    BY <1>2, <1>5, <2>1, <2>2, ProceedClean DEF ReconcileApproved, MovedToWaiting
<1>6. CASE ReconcileWaiting
  <2>1. present' = present /\ present = {}
    BY <1>6 DEF ReconcileWaiting, Proceed, external, Evidence
  <2>2. Proceed("rollback", Cache)
    BY <1>2, <1>6, <2>1 DEF ReconcileWaiting, NewTargets
  <2> QED
    BY <1>1, <2>2, ProceedClean
<1>7. CASE ReconcileRetry \/ ExecTimedOut \/ ExecNoResult \/ ExecPoll
  BY <1>1, <1>7, ProceedClean DEF ReconcileRetry, ExecTimedOut, ExecNoResult, ExecPoll
<1> QED
  BY <1>3, <1>4, <1>5, <1>6, <1>7 DEF Reconcile

\* A POST completes nothing.
LEMMA PostClean ==
    ASSUME TypeOK, AllClean, NEW ok, NEW ko, ok # "clearDone", ko # "clearDone", Post(ok, ko)
    PROVE  AllClean'
<1>1. \A result : Clean([local EXCEPT !.result = result])
  BY EndsClean, FieldClean DEF TypeOK
<1>2. versions' = versions /\ pc' # "clearDone"
  BY DEF Post, Then
<1>3. \/ local' = local \/ local' = Unset
      \/ \E result : local' = [local EXCEPT !.result = result]
  BY DEF Post, Then
<1> QED
  BY <1>1, <1>2, <1>3, EndsClean DEF AllClean, Clean

\* Nor does recording its id.
LEMMA PatchResultClean ==
    ASSUME TypeOK, AllClean, NEW next, NEW failed, next # "clearDone", failed # "clearDone",
           PatchResult(next, failed)
    PROVE  AllClean'
<1> DEFINE new == [Server EXCEPT !.result = Put(Cache.result, local.result, @)]
<1>1. local \in CR /\ Clean(local) /\ Server \in CR /\ Clean(Server) /\ local.result \in Results
  BY EndsType, EndsClean, FieldTypes DEF TypeOK
<1>2. new \in CR /\ Clean(new)
  BY <1>1, PatchTypes, FieldClean
<1>3. Write(new, next, WithStatus(local, new)) \/ WriteFails(failed, local)
  BY DEF PatchResult
<1> HIDE DEF new
<1> QED
  BY <1>1, <1>2, <1>3, ReplyClean, WriteClean, WriteFailsClean

\* Nor does counting start failures.
LEMMA PatchStartsClean ==
    ASSUME TypeOK, AllClean, NEW n \in Nat, NEW next, next # "clearDone", PatchStarts(n, next)
    PROVE  AllClean'
<1> DEFINE new == [Server EXCEPT !.starts = Put(Cache.starts, n, @)]
<1>1. local \in CR /\ Clean(local) /\ Server \in CR /\ Clean(Server)
  BY EndsType, EndsClean DEF TypeOK
<1>2. new \in CR /\ Clean(new)
  BY <1>1, PatchTypes, FieldClean
<1>3. Write(new, next, WithAnnotations(local, new))
  BY DEF PatchStarts
<1> HIDE DEF new
<1> QED
  BY <1>1, <1>2, <1>3, ReplyClean, WriteClean

\* Nor does clearing the poll counters, unless the call before confirmed.
LEMMA ClearCountersClean ==
    ASSUME TypeOK, AllClean, NEW next, NEW copy \in CR, Clean(copy), next # "clearDone",
           ClearCounters(next, copy)
    PROVE  AllClean'
<1> DEFINE new == [Server EXCEPT !.missing = Put(Cache.missing, 0, @),
                                 !.errors  = Put(Cache.errors, 0, @)]
<1>1. Server \in CR /\ Clean(Server)
  BY EndsType, EndsClean DEF TypeOK
<1>2. new \in CR /\ Clean(new)
  BY <1>1, PatchTypes, FieldClean
<1>3. \/ Proceed(next, copy) \/ Write(new, next, WithAnnotations(copy, new)) \/ Abandon
  BY DEF ClearCounters
<1> HIDE DEF new
<1> QED
  BY <1>1, <1>2, <1>3, ReplyClean, WriteClean, AbandonClean, ProceedClean

\* Without evidence, no call of a reconcile completes anything.
LEMMA CallClean ==
    ASSUME TypeOK, AllClean, Call, ~Evidence'
    PROVE  AllClean'
<1>1. /\ Cache \in CR /\ Server \in CR /\ local \in CR
      /\ local.starts \in Nat /\ local.missing \in Nat /\ local.errors \in Nat
      /\ local.mode \in Modes /\ "Immediate" \in Modes /\ "Continuous" \in Modes
  BY EndsType, FieldTypes DEF TypeOK, Modes
<1>2. Clean(Cache) /\ Clean(Server) /\ Clean(local) /\ pc # "clearDone"
  BY EndsClean DEF AllClean
<1>3. CASE Save
  BY <1>1, <1>2, <1>3, MergeType, MergeClean, WriteClean, AbandonClean DEF Save
<1>4. CASE PatchDefaultMode
  <2> DEFINE new == [Server EXCEPT !.mode = Put(Cache.mode, DefaultMode(policy.type), @)]
  <2>1. new \in CR /\ Clean(new)
    BY <1>1, <1>2, PatchTypes, FieldClean DEF DefaultMode
  <2>2. Clean([local EXCEPT !.mode = new.mode, !.phase = "Pending"])
    BY <1>1, <1>2, CopyClean DEF Phases
  <2>3. Write(new, "save", [local EXCEPT !.mode = new.mode, !.phase = "Pending"]) \/ Abandon
    BY <1>4 DEF PatchDefaultMode
  <2> QED
    BY <2>1, <2>2, <2>3, WriteClean, AbandonClean
<1>5. CASE PatchModifiedSpec
  <2> DEFINE new == [Server EXCEPT !.mode = Put(Cache.mode, local.mode, @)]
  <2>1. new \in CR /\ Clean(new)
    BY <1>1, <1>2, PatchTypes, FieldClean
  <2>2. Clean([local EXCEPT !.mode = new.mode, !.phase = "Approved"])
    BY <1>1, <1>2, CopyClean DEF Phases
  <2>3. Write(new, "save", [local EXCEPT !.mode = new.mode, !.phase = "Approved"]) \/ Abandon
    BY <1>5 DEF PatchModifiedSpec
  <2> QED
    BY <2>1, <2>2, <2>3, WriteClean, AbandonClean
<1>6. CASE ClearRetry
  <2> DEFINE new  == [Server EXCEPT !.retry = FALSE,
                                    !.rollback = Put(local.rollback, "none", @)]
             copy == [new EXCEPT !.phase = "Pending", !.result = NoResult,
                                 !.executedAt = NoTime, !.completedAt = FALSE]
  <2>1. new \in CR
    BY <1>1 DEF CR, Put, Rollbacks
  <2>2. Clean(new)
    BY <1>1, <1>2, FieldClean
  <2>3. Write(new, "save", copy) \/ Abandon
    BY <1>6 DEF ClearRetry
  <2> HIDE DEF new
  <2>4. Clean(copy)
    BY <2>1, <2>2 DEF Clean, CR
  <2> HIDE DEF copy
  <2> QED
    BY <2>1, <2>2, <2>3, <2>4, WriteClean, AbandonClean
<1>7. CASE Begin
  <2>1. MergeStatus(Cache, local) \in CR /\ Clean(MergeStatus(Cache, local))
    BY <1>1, <1>2, MergeType, MergeClean
  <2> QED
    BY <1>1, <1>2, <1>7, <2>1, ReplyClean, WriteClean, AbandonClean DEF Begin
<1>8. CASE Start
  BY <1>8, PostClean DEF Start
<1>9. CASE StartTooEarly
  BY <1>1, <1>2, <1>9, CopyClean, ProceedClean DEF StartTooEarly, Phases
<1>10. CASE SaveResult
  BY <1>10, PatchResultClean DEF SaveResult
<1>11. CASE ClearStarts
  BY <1>11, PatchStartsClean, AbandonClean DEF ClearStarts
<1>12. CASE StartFailed
  <2>1. local.starts + 1 \in Nat
    BY <1>1
  <2> QED
    BY <1>12, <2>1, PatchStartsClean, AbandonClean DEF StartFailed
<1>13. CASE Backfill
  BY <1>13, PostClean DEF Backfill
<1>14. CASE BackfillSave
  BY <1>14, PatchResultClean DEF BackfillSave
<1>15. CASE BackfillMark
  BY <1>15, PatchStartsClean, AbandonClean DEF BackfillMark
<1>16. CASE Poll
  <2>1. pc' # "clearDone"
    BY <1>16 DEF Poll, Evidence
  <2> QED
    BY <1>2, <1>16, <2>1 DEF Poll, AllClean, Clean
<1>17. CASE PollError
  BY <1>2, <1>17, ProceedClean DEF PollError
<1>18. CASE ClearAfterPoll
  BY <1>1, <1>2, <1>18, ClearCountersClean DEF ClearAfterPoll
<1>19. CASE CountMissing
  <2> DEFINE n   == local.missing + 1
             new == [Server EXCEPT !.missing = Put(Cache.missing, n, @)]
  <2>1. \/ Write(new, IF n < Max404 THEN "idle" ELSE "rollback", WithAnnotations(local, new))
        \/ Abandon
    BY <1>19 DEF CountMissing
  <2>2. n \in Nat
    BY <1>1
  <2> HIDE DEF n
  <2>3. new \in CR /\ Clean(new)
    BY <1>1, <1>2, <2>2, PatchTypes, FieldClean
  <2> HIDE DEF new
  <2> QED
    BY <1>1, <1>2, <2>1, <2>3, ReplyClean, WriteClean, AbandonClean
<1>20. CASE CountError
  <2> DEFINE n   == local.errors + 1
             new == [Server EXCEPT !.errors = Put(Cache.errors, n, @)]
  <2>1. \/ Write(new, IF n < MaxErr THEN "idle" ELSE "rollback", WithAnnotations(local, new))
        \/ Abandon
    BY <1>20 DEF CountError
  <2>2. n \in Nat
    BY <1>1
  <2> HIDE DEF n
  <2>3. new \in CR /\ Clean(new)
    BY <1>1, <1>2, <2>2, PatchTypes, FieldClean
  <2> HIDE DEF new
  <2> QED
    BY <1>1, <1>2, <2>1, <2>3, ReplyClean, WriteClean, AbandonClean
<1>21. CASE Rollback
  <2>1. \A outcome : Clean([local EXCEPT !.rollback = outcome])
    BY <1>1, <1>2, FieldClean
  <2>2. /\ versions' = versions /\ pc' = "saveRollback"
        /\ \E outcome : local' = [local EXCEPT !.rollback = outcome]
    BY <1>21 DEF Rollback, Then
  <2> QED
    BY <2>1, <2>2 DEF AllClean, Clean
<1>22. CASE SaveRollback
  <2> DEFINE new  == [Server EXCEPT !.rollback = local.rollback]
             copy == [new EXCEPT !.phase = "Failed", !.completedAt = TRUE, !.result = FailText]
  <2>1. new \in CR /\ Clean(new)
    BY <1>1, <1>2, FieldTypes, CopyTypes, FieldClean DEF Phases
  <2>2. Write(new, "save", copy) \/ Abandon
    BY <1>22 DEF SaveRollback
  <2> HIDE DEF new
  <2>3. Clean(copy)
    BY <2>1 DEF Clean, CR
  <2> HIDE DEF copy
  <2> QED
    BY <2>1, <2>2, <2>3, WriteClean, AbandonClean
<1> QED
  BY <1>3, <1>4, <1>5, <1>6, <1>7, <1>8, <1>9, <1>10, <1>11, <1>12, <1>13, <1>14, <1>15,
     <1>16, <1>17, <1>18, <1>19, <1>20, <1>21, <1>22 DEF Call

\* Nor does a step of the environment.
LEMMA EnvironmentClean ==
    ASSUME TypeOK, AllClean, Deliver \/ Tick \/ Crash \/ User \/ Operator \/ TargetAppears
    PROVE  AllClean'
<1>1. /\ Server \in CR /\ Clean(Server) /\ Clean(Unset) /\ local \in CR /\ Clean(local)
      /\ versions \in Seq(CR) /\ Len(versions) \in Nat \ {0}
      /\ \A i \in 1..Len(versions) : versions[i] \in CR /\ Clean(versions[i])
      /\ pc # "clearDone"
  BY EndsType, EndsClean DEF TypeOK, AllClean
<1>2. CASE Deliver
  <2> HIDE DEF Clean
  <2>1. /\ versions' = Tail(versions) /\ Len(versions) > 1
        /\ pc' = pc /\ local' = local
    BY <1>2 DEF Deliver
  <2>2. /\ Len(Tail(versions)) = Len(versions) - 1
        /\ \A i \in 1..Len(Tail(versions)) : Tail(versions)[i] = versions[i + 1]
    BY <1>1, <2>1
  <2>3. \A i \in 1..Len(versions') : Clean(versions'[i])
    BY <1>1, <2>1, <2>2
  <2> QED
    BY <1>1, <2>1, <2>3 DEF AllClean, Clean
<1>3. CASE Tick
  <2>1. \A cr \in CR : Clean(cr) => Clean(Older(cr))
    BY DEF Older, Clean, CR
  <2>2. /\ Len(versions') = Len(versions)
        /\ \A i \in 1..Len(versions) : versions'[i] = Older(versions[i])
        /\ local' = Older(local) /\ pc' = pc
    BY <1>1, <1>3 DEF Tick
  <2> HIDE DEF Clean, Older
  <2>3. /\ \A i \in 1..Len(versions') : Clean(versions'[i])
        /\ Clean(local')
    BY <1>1, <2>1, <2>2
  <2> QED
    BY <1>1, <2>2, <2>3 DEF AllClean, Clean
<1>4. CASE Crash
  <2>1. versions' = <<Server>> /\ pc' = "idle" /\ local' = Unset
    BY <1>4 DEF Crash, Then
  <2> QED
    BY <1>1, <2>1 DEF AllClean, Clean
<1>5. CASE User
  <2>1. /\ [Server EXCEPT !.phase = "Approved"] \in CR /\ Clean([Server EXCEPT !.phase = "Approved"])
        /\ [Server EXCEPT !.retry = TRUE] \in CR /\ Clean([Server EXCEPT !.retry = TRUE])
        /\ [Server EXCEPT !.live = FALSE] \in CR /\ Clean([Server EXCEPT !.live = FALSE])
    BY <1>1 DEF CR, Phases, Clean
  <2>2. PICK cr \in CR : Clean(cr) /\ UserWrites(cr)
    BY <1>5, <2>1 DEF User, UserApprove, UserRetry, UserDelete
  <2>3. \A i \in 1..Len(versions') : Clean(versions'[i])
    BY <2>2, StoreClean DEF UserWrites
  <2> QED
    BY <1>1, <2>2, <2>3 DEF UserWrites, AllClean, Clean
<1>6. CASE Operator \/ TargetAppears
  BY <1>1, <1>6 DEF Operator, OperatorFinishes, OperatorForgets, OperatorChanges, TargetAppears,
     AllClean, Clean
<1> QED
  BY <1>2, <1>3, <1>4, <1>5, <1>6

\* A policy is Applied, or consumed, only after an operator GET has reported one
\* of its resources complete or a target it waits for has appeared: whatever the
\* lag of the cache, the lost replies, the failed patches and the crashes.
THEOREM AppliedJustified == Spec => []AppliedIsJustified
<1>1. Init => JustifiedInv
  <2> SUFFICES ASSUME Init PROVE AllClean
    BY DEF JustifiedInv
  <2>1. Len(versions) = 1 /\ versions[1] = NewCR(policy.mode) /\ local = Unset /\ pc = "idle"
    BY DEF Init
  <2>2. \A mode : Clean(NewCR(mode))
    BY DEF Clean, NewCR
  <2>3. \A i \in 1..Len(versions) : versions[i] = NewCR(policy.mode)
    BY <2>1
  <2>4. (\A i \in 1..Len(versions) : Clean(versions[i])) /\ Clean(local)
    BY <2>1, <2>2, <2>3 DEF Unset
  <2> QED
    BY <2>1, <2>4 DEF AllClean
<1>2. TypeOK /\ JustifiedInv /\ [Next]_vars => JustifiedInv'
  <2> SUFFICES ASSUME TypeOK, JustifiedInv, [Next]_vars PROVE JustifiedInv'
    OBVIOUS
  <2>1. CASE Evidence
    BY <2>1, EvidenceStays DEF JustifiedInv
  <2>2. CASE Evidence'
    BY <2>2 DEF JustifiedInv
  <2>3. CASE ~Evidence /\ ~Evidence'
    <3>1. AllClean
      BY <2>3 DEF JustifiedInv
    <3>2. CASE UNCHANGED vars
      BY <3>1, <3>2 DEF vars, JustifiedInv, AllClean, Clean
    <3>3. CASE Next
      BY <2>3, <3>1, <3>3, ReconcileClean, CallClean, EnvironmentClean DEF Next, JustifiedInv
    <3> QED
      BY <3>2, <3>3
  <2> QED
    BY <2>1, <2>2, <2>3
<1>3. JustifiedInv => AppliedIsJustified
  BY DEF JustifiedInv, Evidence, AllClean, Clean, AppliedIsJustified, Justified
<1> QED
  BY <1>1, <1>2, <1>3, TypeCorrect, PTL DEF Spec

-----------------------------------------------------------------------------
(* A reconcile has no loop, whatever fails and however stale its copy is.  *)

\* The calls a reconcile may still make.
CallsLeft(c) ==
    CASE c = "idle" -> 0
      [] c \in {"save", "clearRunning", "clearStarts", "backfillMark"} -> 1
      [] c \in {"saveRollback", "clearDone", "defaultMode", "modifySpec", "clearRetry",
                "backfillSave"} -> 2
      [] c \in {"rollback", "backfill"} -> 3
      [] c \in {"startFailed", "clearFailed", "countMissing", "countError",
                "lateBackfillSave"} -> 4
      [] c \in {"poll", "saveResult", "lateBackfill"} -> 5
      [] c = "start" -> 6
      [] c = "begin" -> 7

\* Once a reconcile has begun, each of its calls brings it nearer to its end, and nothing
\* but a crash comes between: it makes no call twice, and seven at most.
ReconcilesEnd ==
    /\ [](CallsLeft(pc) \in 0..7)
    /\ [][pc' # pc /\ pc # "idle" => CallsLeft(pc') < CallsLeft(pc)]_vars

LEMMA CallsLeftTypes == \A c \in PCs : CallsLeft(c) \in 0..7 /\ (c # "idle" => CallsLeft(c) > 0)
BY DEF PCs, CallsLeft

\* A call of the start, of the failure or of the retry.
LEMMA StartGoesOn ==
    ASSUME \/ Save \/ PatchDefaultMode \/ PatchModifiedSpec \/ ClearRetry \/ Begin \/ Start
           \/ StartTooEarly \/ SaveResult \/ ClearStarts \/ StartFailed \/ Rollback \/ SaveRollback
    PROVE  CallsLeft(pc') < CallsLeft(pc)
<1>1. CASE Save \/ ClearStarts
  <2>1. pc \in {"save", "clearStarts"} /\ pc' = "idle"
    BY <1>1 DEF Save, ClearStarts, PatchStarts, Write, Abandon, WriteFails, Then
  <2> QED
    BY <2>1 DEF CallsLeft
<1>2. CASE PatchDefaultMode \/ PatchModifiedSpec \/ ClearRetry \/ SaveRollback
  <2>1. pc \in {"defaultMode", "modifySpec", "clearRetry", "saveRollback"} /\ pc' \in {"save", "idle"}
    BY <1>2 DEF PatchDefaultMode, PatchModifiedSpec, ClearRetry, SaveRollback, Write, Abandon,
                WriteFails, Then
  <2> QED
    BY <2>1 DEF CallsLeft
<1>3. CASE Begin
  <2>1. pc = "begin" /\ pc' \in {"start", "idle"}
    BY <1>3 DEF Begin, Write, Abandon, WriteFails, Then
  <2> QED
    BY <2>1 DEF CallsLeft
<1>4. CASE Start
  <2>1. pc = "start" /\ pc' \in {"saveResult", "startFailed"}
    BY <1>4 DEF Start, Post, Then
  <2> QED
    BY <2>1 DEF CallsLeft
<1>5. CASE StartTooEarly
  <2>1. pc = "start" /\ pc' = "save"
    BY <1>5 DEF StartTooEarly, Proceed, Then
  <2> QED
    BY <2>1 DEF CallsLeft
<1>6. CASE SaveResult
  <2>1. pc = "saveResult" /\ pc' \in {"clearStarts", "startFailed"}
    BY <1>6 DEF SaveResult, PatchResult, Write, WriteFails, Then
  <2> QED
    BY <2>1 DEF CallsLeft
<1>7. CASE StartFailed
  <2>1. pc = "startFailed" /\ pc' \in {"rollback", "idle"}
    BY <1>7 DEF StartFailed, PatchStarts, Write, Abandon, WriteFails, Then
  <2> QED
    BY <2>1 DEF CallsLeft
<1>8. CASE Rollback
  <2>1. pc = "rollback" /\ pc' = "saveRollback"
    BY <1>8 DEF Rollback, Then
  <2> QED
    BY <2>1 DEF CallsLeft
<1> QED
  BY <1>1, <1>2, <1>3, <1>4, <1>5, <1>6, <1>7, <1>8

\* A call of the backfill or of the verification.
LEMMA MonitoringGoesOn ==
    ASSUME \/ Backfill \/ BackfillSave \/ BackfillMark \/ Poll \/ PollError
           \/ ClearAfterPoll \/ CountMissing \/ CountError
    PROVE  CallsLeft(pc') < CallsLeft(pc)
<1>1. CASE Backfill
  <2>1. \/ pc = "backfill" /\ pc' \in {"backfillSave", "idle"}
        \/ pc = "lateBackfill" /\ pc' \in {"lateBackfillSave", "rollback"}
    BY <1>1 DEF Backfill, Post, Then
  <2> QED
    BY <2>1 DEF CallsLeft
<1>2. CASE BackfillSave
  <2>1. \/ pc = "backfillSave" /\ pc' \in {"backfillMark", "idle"}
        \/ pc = "lateBackfillSave" /\ pc' \in {"backfillMark", "rollback"}
    BY <1>2 DEF BackfillSave, PatchResult, Write, WriteFails, Then
  <2> QED
    BY <2>1 DEF CallsLeft
<1>3. CASE BackfillMark
  <2>1. pc = "backfillMark" /\ pc' = "idle"
    BY <1>3 DEF BackfillMark, PatchStarts, Write, Abandon, WriteFails, Then
  <2> QED
    BY <2>1 DEF CallsLeft
<1>4. CASE Poll \/ PollError
  <2>1. pc = "poll" /\ pc' \in {"countMissing", "clearFailed", "clearDone", "clearRunning", "countError"}
    BY <1>4 DEF Poll, PollError, Proceed, Then
  <2> QED
    BY <2>1 DEF CallsLeft
<1>5. CASE ClearAfterPoll
  <2>1. \/ pc = "clearDone" /\ pc' \in {"save", "idle"}
        \/ pc = "clearFailed" /\ pc' \in {"rollback", "idle"}
        \/ pc = "clearRunning" /\ pc' = "idle"
    BY <1>5 DEF ClearAfterPoll, ClearCounters, Proceed, Write, Abandon, WriteFails, Then
  <2> QED
    BY <2>1 DEF CallsLeft
<1>6. CASE CountMissing \/ CountError
  <2>1. pc \in {"countMissing", "countError"} /\ pc' \in {"rollback", "idle"}
    BY <1>6 DEF CountMissing, CountError, Write, Abandon, WriteFails, Then
  <2> QED
    BY <2>1 DEF CallsLeft
<1> QED
  BY <1>1, <1>2, <1>3, <1>4, <1>5, <1>6

\* A reconcile ends, whatever its calls return: the half of PolicyMovesOn and RetryServed
\* that needs no fairness.
THEOREM ReconcilesAreFinite == Spec => ReconcilesEnd
<1> DEFINE Nearer == pc' # pc /\ pc # "idle" => CallsLeft(pc') < CallsLeft(pc)
<1>1. TypeOK => CallsLeft(pc) \in 0..7
  BY CallsLeftTypes DEF TypeOK
<1>2. TypeOK /\ [Next]_vars => [Nearer]_vars
  <2> SUFFICES ASSUME TypeOK, Next, pc' # pc, pc # "idle"
               PROVE  CallsLeft(pc') < CallsLeft(pc)
    BY DEF vars
  <2>1. CASE Call
    BY <2>1, StartGoesOn, MonitoringGoesOn DEF Call
  <2>2. CASE Crash
    <3>1. pc' = "idle" /\ pc \in PCs
      BY <2>2 DEF Crash, Then, TypeOK
    <3> QED
      BY <3>1, CallsLeftTypes DEF CallsLeft
  <2>3. ~Reconcile
    BY DEF Reconcile, ReconcileNew, ReconcilePending, ReconcileApproved, ReconcileWaiting,
           ReconcileRetry, ExecTimedOut, ExecNoResult, ExecPoll, Monitoring, Reconciling
  <2>4. ~(Deliver \/ Tick \/ User \/ Operator \/ TargetAppears)
    BY DEF Deliver, Tick, User, UserApprove, UserRetry, UserDelete, UserWrites, Operator,
           OperatorFinishes, OperatorForgets, OperatorChanges, TargetAppears
  <2> QED
    BY <2>1, <2>2, <2>3, <2>4 DEF Next
<1> QED
  BY <1>1, <1>2, TypeCorrect, PTL DEF Spec, ReconcilesEnd

-----------------------------------------------------------------------------
(* 2. A coherent cache. InOrder says where a reconcile in progress stands: *)
(* which phase the stored CR p has before each call, and which changes of  *)
(* it the last patch, "save", may carry.                                   *)

Polling     == {"poll", "clearDone", "clearFailed", "clearRunning", "countMissing", "countError"}
Starting    == {"start", "saveResult", "clearStarts", "startFailed"}
Backfilling == {"backfill", "lateBackfill", "backfillSave", "lateBackfillSave", "backfillMark"}
Undoing     == {"rollback", "saveRollback"}
Executings  == Starting \cup Polling \cup Backfilling

\* The changes of phase and consumed that a status patch may make.
Changes(s, l, done) ==
    \/ /\ l.consumed = s.consumed
       /\ \/ s.phase = ""                 /\ l.phase = "Pending"
          \/ s.phase = "Pending"          /\ l.phase \in {"Pending", "Approved", "Rejected"}
          \/ s.phase = "Approved"         /\ l.phase \in {"WaitingForTarget", "Rejected"}
          \/ s.phase = "Approved"         /\ l.phase = "Applied" /\ s.consumed
          \/ s.phase = "WaitingForTarget" /\ l.phase = "Applied" /\ s.consumed
          \/ s.phase = "WaitingForTarget" /\ l.phase = "Failed"
          \/ s.phase = "Executing"        /\ l.phase \in {"WaitingForTarget", "Failed"}
          \/ s.phase = "Executing"        /\ l.phase = "Approved" /\ done # {}
          \/ s.phase = "Failed"           /\ l.phase = "Pending"
    \/ s.phase = "WaitingForTarget" /\ ~s.consumed /\ l.phase = "Approved" /\ l.consumed
    \/ s.phase = "Executing" /\ l.phase = "Applied" /\ l.consumed /\ done # {}

\* Stored CR s, in-memory copy l and next call c of the reconcile fit each other.
InOrder(c, s, l, done, auto) ==
    /\ c = "defaultMode" => s.phase = ""
    /\ c = "modifySpec"  => s.phase = "Pending"
    /\ c = "begin"       => s.phase = "Approved" /\ l.phase = "Executing"
    /\ c = "clearRetry"  => s.phase = "Failed" /\ s.retry
    /\ c \in Executings  => s.phase = "Executing"
    /\ c \in Undoing     => s.phase \in {"Executing", "WaitingForTarget"}
    /\ c = "save"        => Changes(s, l, done)
    /\ c = "clearDone"   => l.result \in done
    /\ c # "idle" /\ s.phase = "Pending" => auto
    /\ c \notin {"idle", "save"} => l.consumed = s.consumed /\ l.phase # "Applied"

\* What a copy of the CR says of its own past.
Truthful(cr, done, o) ==
    /\ cr.phase = "Executing" => cr.executedAt # NoTime
    /\ cr.phase \in {"Applied", "Failed"} => cr.completedAt
    /\ cr.consumed /\ cr.applied = {} => cr.phase = "Applied"
    /\ cr.phase = "Applied" /\ cr.applied = {} => cr.result \in done
    /\ cr.result \in OpIds => o[cr.result] # "unused"

CoherentInv ==
    /\ Len(versions) = 1
    /\ InOrder(pc, Server, local, confirmed, policy.auto)
    /\ Truthful(Server, confirmed, ops) /\ Truthful(local, confirmed, ops)
    /\ \A id \in confirmed : Ran(id)
-----------------------------------------------------------------------------
(* The copies of a coherent cache.                                         *)

Status(cr) == <<cr.phase, cr.executedAt, cr.completedAt, cr.result, cr.consumed, cr.applied>>

\* The cached copy is the stored one, and stays it after a write.
LEMMA OneVersion ==
    ASSUME MaxLag = 0, TypeOK, Len(versions) = 1
    PROVE  /\ Cache = Server /\ versions[1] = Server
           /\ \A cr \in CR : Store(cr) => Len(versions') = 1 /\ Server' = cr
<1>1. /\ Cache = Server /\ versions[1] = Server
      /\ versions \in Seq(CR) /\ versions # <<>>
  BY DEF Cache, Server, TypeOK
<1>2. ASSUME NEW cr \in CR, Store(cr)
      PROVE  Len(versions') = 1 /\ versions'[1] = cr
  <2>1. CASE cr = Server
    BY <1>1, <1>2, <2>1 DEF Store
  <2>2. CASE cr # Server
    <3>1. versions' = Append(Tail(versions), cr)
      BY <1>2, <2>2 DEF Store
    <3>2. Tail(versions) \in Seq(CR) /\ Len(Tail(versions)) = Len(versions) - 1
      BY <1>1
    <3> DEFINE rest == Tail(versions)
    <3>3. rest \in Seq(CR) /\ Len(rest) = 0 /\ versions' = Append(rest, cr)
      BY <3>1, <3>2
    <3> HIDE DEF rest
    <3> QED
      BY <1>2, <3>3
  <2> QED
    BY <2>1, <2>2
<1> QED
  BY <1>1, <1>2 DEF Server

\* A status patch of the stored copy carries the whole new status.
LEMMA MergeIsStatus ==
    ASSUME Cache = Server, Server \in CR, NEW new \in CR
    PROVE  MergeStatus(Cache, new) = WithStatus(Server, new)
<1>1. \A a, b : Put(a, b, a) = b
  BY DEF Put
<1> QED
  BY <1>1 DEF MergeStatus, WithStatus

\* A patch of one field changes that field of the stored copy.
LEMMA PutCoherent == \A a, b : Put(a, b, a) = b
BY DEF Put

\* The reply of a patch brings the stored status, or the stored annotations, into
\* the copy and leaves the rest of it alone.
LEMMA ReplyFields ==
    ASSUME NEW cr \in CR, NEW reply \in CR
    PROVE  /\ Status(WithStatus(cr, reply)) = Status(reply)
           /\ Status(WithAnnotations(cr, reply)) = Status(cr)
           /\ WithStatus(cr, reply).mode = cr.mode /\ WithAnnotations(cr, reply).mode = cr.mode
           /\ WithStatus(cr, reply).starts = cr.starts
           /\ WithStatus(cr, reply).retry = cr.retry
           /\ WithStatus(cr, reply).live = cr.live
           /\ WithStatus(cr, reply).rollback = cr.rollback
BY DEF WithStatus, WithAnnotations, Status, CR

\* Patches of mode and annotations leave the status and the other fields alone.
LEMMA PatchFields ==
    ASSUME NEW cr \in CR
    PROVE  /\ \A x : /\ Status([cr EXCEPT !.mode = x]) = Status(cr)
                     /\ Status([cr EXCEPT !.starts = x]) = Status(cr)
                     /\ Status([cr EXCEPT !.missing = x]) = Status(cr)
                     /\ Status([cr EXCEPT !.errors = x]) = Status(cr)
                     /\ Status([cr EXCEPT !.rollback = x]) = Status(cr)
                     /\ Status([cr EXCEPT !.retry = x]) = Status(cr)
                     /\ Status([cr EXCEPT !.live = x]) = Status(cr)
           /\ \A x, y : Status([cr EXCEPT !.missing = x, !.errors = y]) = Status(cr)
           /\ \A x, y : Status([cr EXCEPT !.retry = x, !.rollback = y]) = Status(cr)
BY DEF Status, CR

\* What is said of a copy's past rests on its status, and stays true while
\* resources and confirmations are added.
LEMMA TruthOfStatus ==
    ASSUME NEW a, NEW b, NEW done, NEW o, Status(a) = Status(b), Truthful(b, done, o)
    PROVE  Truthful(a, done, o)
BY DEF Status, Truthful

\* What a copy says of its past stays true as resources and confirmations are added.
LEMMA TruthGrows ==
    ASSUME NEW cr, NEW done, NEW o, NEW done2, NEW o2, Truthful(cr, done, o),
           done \subseteq done2, \A id \in OpIds : o[id] # "unused" => o2[id] # "unused"
    PROVE  Truthful(cr, done2, o2)
BY DEF Truthful

\* The copy held between reconciles says nothing of a past.
LEMMA UnsetTruth == \A done, o : Truthful(Unset, done, o)
BY DEF Truthful, Unset, NewCR, OpIds, NoResult

-----------------------------------------------------------------------------
(* The ways a step of the reconciler ends, with a coherent cache.          *)

\* An accepted patch.
LEMMA WriteOrder ==
    ASSUME MaxLag = 0, TypeOK, CoherentInv, NEW cr \in CR, NEW next, NEW copy,
           InOrder(next, cr, copy, confirmed, policy.auto), Truthful(cr, confirmed, ops),
           Truthful(copy, confirmed, ops), Write(cr, next, copy)
    PROVE  CoherentInv'
<1>1. Len(versions') = 1 /\ Server' = cr
  BY OneVersion DEF CoherentInv, Write
<1>2. confirmed' = confirmed /\ ops' = ops /\ policy' = policy /\ pc' = next
  BY DEF Write, Then, external
<1>3. CASE next # "idle"
  <2>1. local' = copy
    BY <1>3 DEF Write, Then
  <2> QED
    BY <1>1, <1>2, <2>1 DEF CoherentInv, Ran
<1>4. CASE next = "idle"
  <2>1. local' = Unset
    BY <1>4 DEF Write, Then
  <2>2. Truthful(Unset, confirmed, ops)
    BY UnsetTruth
  <2>3. InOrder("idle", cr, Unset, confirmed, policy.auto)
    BY DEF InOrder, Executings, Starting, Polling, Backfilling, Undoing
  <2> QED
    BY <1>1, <1>2, <1>4, <2>1, <2>2, <2>3 DEF CoherentInv, Ran
<1> QED
  BY <1>3, <1>4

\* A step that stores nothing.
LEMMA QuietOrder ==
    ASSUME TypeOK, CoherentInv, NEW next, NEW copy, Then(next, copy),
           versions' = versions, policy' = policy, confirmed' = confirmed, ops' = ops,
           InOrder(next, Server, copy, confirmed, policy.auto), Truthful(copy, confirmed, ops)
    PROVE  CoherentInv'
<1>1. Len(versions') = 1 /\ Server' = Server /\ pc' = next
  BY DEF CoherentInv, Server, Then
<1>2. CASE next # "idle"
  <2>1. local' = copy
    BY <1>2 DEF Then
  <2> QED
    BY <1>1, <2>1 DEF CoherentInv, Ran
<1>3. CASE next = "idle"
  <2>1. local' = Unset
    BY <1>3 DEF Then
  <2>2. Truthful(Unset, confirmed, ops)
    BY UnsetTruth
  <2>3. InOrder("idle", Server, Unset, confirmed, policy.auto)
    BY DEF InOrder, Executings, Starting, Polling, Backfilling, Undoing
  <2> QED
    BY <1>1, <1>3, <2>1, <2>2, <2>3 DEF CoherentInv, Ran
<1> QED
  BY <1>2, <1>3

\* A failed patch after which the reconcile goes on or gives up.
LEMMA WriteFailsOrder ==
    ASSUME TypeOK, CoherentInv, NEW next, NEW copy, WriteFails(next, copy),
           InOrder(next, Server, copy, confirmed, policy.auto), Truthful(copy, confirmed, ops)
    PROVE  CoherentInv'
BY QuietOrder DEF WriteFails

\* A step to the next call that stores nothing.
LEMMA ProceedOrder ==
    ASSUME TypeOK, CoherentInv, NEW next, NEW copy, Proceed(next, copy),
           InOrder(next, Server, copy, confirmed, policy.auto), Truthful(copy, confirmed, ops)
    PROVE  CoherentInv'
BY QuietOrder DEF Proceed, external

\* Giving up keeps the reconcile in order: it is over.
LEMMA AbandonOrder ==
    ASSUME TypeOK, CoherentInv, Abandon
    PROVE  CoherentInv'
<1>1. InOrder("idle", Server, local, confirmed, policy.auto)
  BY DEF InOrder, Executings, Starting, Polling, Backfilling, Undoing
<1> QED
  BY <1>1, WriteFailsOrder DEF Abandon, CoherentInv

\* The copies a reconcile starts from are the stored CR with another phase.
LEMMA BeginTruth ==
    ASSUME NEW cr \in CR, NEW done, NEW o, Truthful(cr, done, o), cr.phase # "Applied"
    PROVE  /\ \A phase \in {"Pending", "Approved", "Rejected", "WaitingForTarget"} :
                  /\ Truthful(InPhase(cr, phase), done, o)
                  /\ \A mode : Truthful([cr EXCEPT !.mode = mode, !.phase = phase], done, o)
           /\ cr.consumed => Truthful(Applied(cr), done, o)
           /\ cr.phase # "Executing"
                => Truthful([cr EXCEPT !.phase = "Executing", !.executedAt = 0], done, o)
           /\ \A t : Truthful([cr EXCEPT !.phase = "Approved", !.consumed = TRUE,
                                         !.applied = @ \cup {t}], done, o)
BY DEF Truthful, InPhase, Applied, NoTime, CR

\* The first step of a reconcile leaves it in order.
LEMMA ReconcileOrder ==
    ASSUME MaxLag = 0, TypeOK, CoherentInv, Reconcile
    PROVE  CoherentInv'
<1>1. Cache = Server /\ Server \in CR /\ Truthful(Server, confirmed, ops)
  BY OneVersion, EndsType DEF CoherentInv, TypeOK
<1> USE DEF Executings, Starting, Polling, Backfilling, Undoing
<1>2. CASE ReconcileNew
  <2>1. Server.phase = "" /\ Truthful(InPhase(Server, "Pending"), confirmed, ops)
    BY <1>1, <1>2, BeginTruth DEF ReconcileNew, Reconciling
  <2>2. Proceed("defaultMode", Server) \/ Proceed("save", InPhase(Server, "Pending"))
    BY <1>1, <1>2 DEF ReconcileNew
  <2>3. /\ InOrder("defaultMode", Server, Server, confirmed, policy.auto)
        /\ InOrder("save", Server, InPhase(Server, "Pending"), confirmed, policy.auto)
    BY <1>1, <2>1 DEF InOrder, Changes, InPhase, CR
  <2> QED
    BY <1>1, <2>1, <2>2, <2>3, ProceedOrder
<1>3. CASE ReconcilePending
  <2>1. Server.phase = "Pending" /\ policy.auto
    BY <1>1, <1>3 DEF ReconcilePending, Reconciling
  <2>2. PICK copy :
          /\ \/ copy \in {Server, InPhase(Server, "Approved"), InPhase(Server, "Rejected")}
                /\ Proceed("save", copy)
             \/ \E mode \in AgentModes \cup {Server.mode} :
                   copy = [Server EXCEPT !.mode = mode] /\ Proceed("modifySpec", copy)
    BY <1>1, <1>3 DEF ReconcilePending
  <2>3. CASE copy \in {Server, InPhase(Server, "Approved"), InPhase(Server, "Rejected")}
             /\ Proceed("save", copy)
    <3>1. Truthful(copy, confirmed, ops)
      <4>1. \A phase \in {"Approved", "Rejected"} : Truthful(InPhase(Server, phase), confirmed, ops)
        BY <1>1, <2>1, BeginTruth
      <4> QED
        BY <1>1, <2>3, <4>1
    <3>2. InOrder("save", Server, copy, confirmed, policy.auto)
      BY <1>1, <2>1, <2>3 DEF InOrder, Changes, InPhase, CR
    <3> QED
      BY <2>3, <3>1, <3>2, ProceedOrder
  <2>4. CASE \E mode \in AgentModes \cup {Server.mode} :
                copy = [Server EXCEPT !.mode = mode] /\ Proceed("modifySpec", copy)
    <3>1. Truthful(copy, confirmed, ops)
      <4>1. \A x : Status([Server EXCEPT !.mode = x]) = Status(Server)
        BY <1>1, PatchFields
      <4>2. Status(copy) = Status(Server)
        BY <2>4, <4>1
      <4> QED
        BY <1>1, <4>2, TruthOfStatus
    <3>2. InOrder("modifySpec", Server, copy, confirmed, policy.auto)
      BY <1>1, <2>1, <2>4 DEF InOrder, CR
    <3> QED
      BY <2>4, <3>1, <3>2, ProceedOrder
  <2> QED
    BY <2>2, <2>3, <2>4
<1>4. CASE ReconcileApproved
  <2>1. Server.phase = "Approved"
    BY <1>1, <1>4 DEF ReconcileApproved, Reconciling
  <2>2. \/ Proceed("save", InPhase(Server, "Rejected"))
        \/ ~Server.consumed /\ Proceed("save", InPhase(Server, "WaitingForTarget"))
        \/ Server.consumed /\ Proceed("save", Applied(Server))
        \/ Proceed("begin", [Server EXCEPT !.phase = "Executing", !.executedAt = 0])
    BY <1>1, <1>4 DEF ReconcileApproved, MovedToWaiting
  <2>3. /\ InOrder("save", Server, InPhase(Server, "Rejected"), confirmed, policy.auto)
        /\ InOrder("save", Server, InPhase(Server, "WaitingForTarget"), confirmed, policy.auto)
        /\ Server.consumed => InOrder("save", Server, Applied(Server), confirmed, policy.auto)
        /\ InOrder("begin", Server, [Server EXCEPT !.phase = "Executing", !.executedAt = 0],
                   confirmed, policy.auto)
    BY <1>1, <2>1 DEF InOrder, Changes, InPhase, Applied, CR
  <2>4. /\ Truthful(InPhase(Server, "Rejected"), confirmed, ops)
        /\ Truthful(InPhase(Server, "WaitingForTarget"), confirmed, ops)
        /\ Server.consumed => Truthful(Applied(Server), confirmed, ops)
        /\ Truthful([Server EXCEPT !.phase = "Executing", !.executedAt = 0], confirmed, ops)
    BY <1>1, <2>1, BeginTruth
  <2> QED
    BY <2>2, <2>3, <2>4, ProceedOrder
<1>5. CASE ReconcileWaiting
  <2>1. Server.phase = "WaitingForTarget"
    BY <1>1, <1>5 DEF ReconcileWaiting, Reconciling
  <2>2. CASE Proceed("rollback", Server)
    <3>1. InOrder("rollback", Server, Server, confirmed, policy.auto)
      BY <2>1 DEF InOrder
    <3> QED
      BY <1>1, <2>2, <3>1, ProceedOrder
  <2>3. CASE Server.consumed /\ Proceed("save", Applied(Server))
    <3>1. InOrder("save", Server, Applied(Server), confirmed, policy.auto)
      BY <1>1, <2>1, <2>3 DEF InOrder, Changes, Applied, CR
    <3> QED
      BY <1>1, <2>1, <2>3, <3>1, BeginTruth, ProceedOrder
  <2>4. CASE ~Server.consumed /\ \E t \in NewTargets(Server) :
                Proceed("save", [Server EXCEPT !.phase = "Approved", !.consumed = TRUE,
                                               !.applied = @ \cup {t}])
    <3>1. PICK t : Proceed("save", [Server EXCEPT !.phase = "Approved", !.consumed = TRUE,
                                                  !.applied = @ \cup {t}])
      BY <2>4
    <3>2. InOrder("save", Server, [Server EXCEPT !.phase = "Approved", !.consumed = TRUE,
                                                 !.applied = @ \cup {t}], confirmed, policy.auto)
      BY <1>1, <2>1, <2>4 DEF InOrder, Changes, CR
    <3> QED
      BY <1>1, <2>1, <3>1, <3>2, BeginTruth, ProceedOrder
  <2> QED
    BY <1>1, <1>5, <2>2, <2>3, <2>4 DEF ReconcileWaiting
<1>6. CASE ReconcileRetry
  <2>1. Server.phase = "Failed" /\ Server.retry /\ Proceed("clearRetry", Server)
    BY <1>1, <1>6 DEF ReconcileRetry, Reconciling
  <2>2. InOrder("clearRetry", Server, Server, confirmed, policy.auto)
    BY <2>1 DEF InOrder
  <2> QED
    BY <1>1, <2>1, <2>2, ProceedOrder
<1>7. CASE ExecTimedOut \/ ExecNoResult \/ ExecPoll
  <2>1. PICK next \in {"rollback", "backfill", "lateBackfill", "poll"} : Proceed(next, Server)
    BY <1>1, <1>7 DEF ExecTimedOut, ExecNoResult, ExecPoll
  <2>2. Server.phase = "Executing"
    BY <1>1, <1>7 DEF ExecTimedOut, ExecNoResult, ExecPoll, Monitoring, Reconciling
  <2>3. InOrder(next, Server, Server, confirmed, policy.auto)
    BY <2>1, <2>2 DEF InOrder
  <2> QED
    BY <1>1, <2>1, <2>3, ProceedOrder
<1> QED
  BY <1>2, <1>3, <1>4, <1>5, <1>6, <1>7 DEF Reconcile

\* Patching an annotation of an Executing policy.
LEMMA AnnotationOrder ==
    ASSUME MaxLag = 0, TypeOK, CoherentInv, pc \in Executings, NEW new \in CR,
           Status(new) = Status(Server), NEW next \in {"idle", "rollback"},
           Write(new, next, WithAnnotations(local, new))
    PROVE  CoherentInv'
<1>1. /\ Server \in CR /\ local \in CR
      /\ Truthful(Server, confirmed, ops) /\ Truthful(local, confirmed, ops)
  BY EndsType DEF CoherentInv, TypeOK
<1>2. Server.phase = "Executing" /\ local.consumed = Server.consumed /\ local.phase # "Applied"
  BY DEF CoherentInv, InOrder, Executings, Starting, Polling, Backfilling
<1>3. new.phase = "Executing" /\ new.consumed = Server.consumed
  BY <1>1, <1>2 DEF Status
<1>4. Status(WithAnnotations(local, new)) = Status(local)
  BY <1>1, ReplyFields
<1>5. /\ WithAnnotations(local, new).consumed = local.consumed
      /\ WithAnnotations(local, new).phase = local.phase
  BY <1>4 DEF Status
<1>6. InOrder(next, new, WithAnnotations(local, new), confirmed, policy.auto)
  BY <1>2, <1>3, <1>5 DEF InOrder, Executings, Starting, Polling, Backfilling, Undoing
<1>7. Truthful(new, confirmed, ops) /\ Truthful(WithAnnotations(local, new), confirmed, ops)
  BY <1>1, <1>4, TruthOfStatus
<1> QED
  BY <1>6, <1>7, WriteOrder

\* Clearing the poll counters, and what follows it.
LEMMA ClearCountersOrder ==
    ASSUME MaxLag = 0, TypeOK, CoherentInv, pc \in Polling,
           NEW next \in {"idle", "rollback", "save"}, NEW copy \in CR, ClearCounters(next, copy),
           Truthful(copy, confirmed, ops), next = "save" => Changes(Server, copy, confirmed),
           next = "rollback" => copy.consumed = Server.consumed /\ copy.phase # "Applied"
    PROVE  CoherentInv'
<1>1. /\ Server \in CR /\ Cache = Server /\ Truthful(Server, confirmed, ops)
      /\ Server.phase = "Executing"
  BY OneVersion, EndsType DEF CoherentInv, InOrder, TypeOK, Executings
<1>2. ASSUME NEW s \in CR, NEW l \in CR, Status(s) = Status(Server), Status(l) = Status(copy)
      PROVE  InOrder(next, s, l, confirmed, policy.auto)
  <2>1. /\ s.phase = "Executing" /\ s.consumed = Server.consumed
        /\ l.phase = copy.phase /\ l.consumed = copy.consumed
    BY <1>1, <1>2 DEF Status
  <2>2. next = "save" => Changes(s, l, confirmed)
    BY <1>1, <2>1 DEF Changes
  <2> QED
    BY <2>1, <2>2 DEF InOrder, Executings, Starting, Polling, Backfilling, Undoing
<1>3. CASE Proceed(next, copy)
  BY <1>1, <1>2, <1>3, ProceedOrder
<1>4. CASE \E new \in CR : Status(new) = Status(Server)
                           /\ Write(new, next, WithAnnotations(copy, new))
  <2>1. PICK new \in CR : Status(new) = Status(Server)
                          /\ Write(new, next, WithAnnotations(copy, new))
    BY <1>4
  <2>2. WithAnnotations(copy, new) \in CR /\ Status(WithAnnotations(copy, new)) = Status(copy)
    BY ReplyTypes, ReplyFields
  <2>3. Truthful(new, confirmed, ops) /\ Truthful(WithAnnotations(copy, new), confirmed, ops)
    BY <1>1, <2>1, <2>2, TruthOfStatus
  <2> QED
    BY <1>2, <2>1, <2>2, <2>3, WriteOrder
<1>5. \/ Proceed(next, copy) \/ Abandon
      \/ \E new \in CR : Status(new) = Status(Server) /\ Write(new, next, WithAnnotations(copy, new))
  <2> DEFINE new == [Server EXCEPT !.missing = Put(Cache.missing, 0, @),
                                   !.errors  = Put(Cache.errors, 0, @)]
  <2>1. new \in CR /\ Status(new) = Status(Server)
    <3>1. new \in CR
      BY PatchTypes
    <3>2. \A x, y : Status([Server EXCEPT !.missing = x, !.errors = y]) = Status(Server)
      BY <1>1, PatchFields
    <3> QED
      BY <3>1, <3>2
  <2>2. Proceed(next, copy) \/ Write(new, next, WithAnnotations(copy, new)) \/ Abandon
    BY DEF ClearCounters
  <2> HIDE DEF new
  <2> QED
    BY <2>1, <2>2
<1> QED
  BY <1>3, <1>4, <1>5, AbandonOrder

\* Recording the id of a resource.
LEMMA PatchResultOrder ==
    ASSUME MaxLag = 0, TypeOK, CoherentInv, pc \in Executings,
           NEW next \in {"clearStarts", "backfillMark"},
           NEW failed \in {"startFailed", "idle", "rollback"}, PatchResult(next, failed)
    PROVE  CoherentInv'
<1> DEFINE new == [Server EXCEPT !.result = Put(Cache.result, local.result, @)]
<1>1. /\ Server \in CR /\ local \in CR /\ Cache = Server /\ local.result \in Results
      /\ Truthful(Server, confirmed, ops) /\ Truthful(local, confirmed, ops)
  BY OneVersion, EndsType, FieldTypes DEF CoherentInv, TypeOK
<1>2. Server.phase = "Executing" /\ local.consumed = Server.consumed /\ local.phase # "Applied"
  BY DEF CoherentInv, InOrder, Executings, Starting, Polling, Backfilling
<1>3. new = [Server EXCEPT !.result = local.result] /\ new \in CR
  BY <1>1, PatchTypes, PutCoherent
<1>4. Write(new, next, WithStatus(local, new)) \/ WriteFails(failed, local)
  BY DEF PatchResult
<1> HIDE DEF new
<1>5. /\ new.phase = "Executing" /\ new.consumed = Server.consumed
      /\ new.applied = Server.applied /\ new.executedAt = Server.executedAt
      /\ new.result = local.result
  BY <1>1, <1>2, <1>3 DEF CR
<1>6. Truthful(new, confirmed, ops)
  BY <1>1, <1>2, <1>5 DEF Truthful
<1>7. Status(WithStatus(local, new)) = Status(new)
  BY <1>1, <1>3, ReplyFields
<1>8. InOrder(next, new, WithStatus(local, new), confirmed, policy.auto)
  <2>1. /\ WithStatus(local, new).phase = new.phase
        /\ WithStatus(local, new).consumed = new.consumed
    BY <1>7 DEF Status
  <2> QED
    BY <1>5, <2>1 DEF InOrder, Executings, Starting, Polling, Backfilling, Undoing
<1>9. InOrder(failed, Server, local, confirmed, policy.auto)
  BY <1>2 DEF InOrder, Executings, Starting, Polling, Backfilling, Undoing
<1> QED
  BY <1>1, <1>3, <1>4, <1>6, <1>7, <1>8, <1>9, TruthOfStatus, WriteOrder, WriteFailsOrder

\* What one POST may change: a resource appears, and its id may be noted.
LEMMA PostChanges ==
    ASSUME TypeOK, NEW ok, NEW ko, Post(ok, ko)
    PROVE  \/ ops' = ops /\ Then(ko, local) /\ faults' = faults
           \/ \E id \in OpIds :
                /\ NewOp(id) /\ Sendable
                /\ \E state \in {"running", "failed"} : ops' = [ops EXCEPT ![id] = state]
                /\ \/ Then(ko, local) /\ (faults' = faults \/ faults' = faults + 1)
                   \/ /\ \E result \in {id, NoId} : Then(ok, [local EXCEPT !.result = result])
                      /\ faults' = faults
<1>1. CASE UNCHANGED <<ops, faults>> /\ Then(ko, local)
  BY <1>1
<1>2. CASE ~(UNCHANGED <<ops, faults>> /\ Then(ko, local))
  <2>1. PICK id \in OpIds :
          /\ NewOp(id)
          /\ \/ /\ faults' = faults
                /\ \/ ops' = [ops EXCEPT ![id] = "running"]
                      /\ \E result \in {id, NoId} : Then(ok, [local EXCEPT !.result = result])
                   \/ ops' = [ops EXCEPT ![id] = "failed"] /\ IsSync /\ Then(ko, local)
             \/ /\ Fault
                /\ ops' = [ops EXCEPT ![id] = "running"]
                /\ Then(ko, local)
    BY <1>2 DEF Post
  <2>2. Sendable
    BY <1>2 DEF Post
  <2> QED
    BY <2>1, <2>2 DEF Fault
<1> QED
  BY <1>1, <1>2

\* A POST during Executing.
LEMMA PostOrder ==
    ASSUME TypeOK, CoherentInv, pc \in Executings,
           NEW ok \in {"saveResult", "backfillSave", "lateBackfillSave"},
           NEW ko \in {"startFailed", "idle", "rollback"}, Post(ok, ko)
    PROVE  CoherentInv'
<1>1. /\ local \in CR /\ Server.phase = "Executing"
      /\ local.consumed = Server.consumed /\ local.phase # "Applied"
      /\ Truthful(Server, confirmed, ops) /\ Truthful(local, confirmed, ops)
  BY DEF CoherentInv, InOrder, TypeOK, Executings, Starting, Polling, Backfilling
<1>2. versions' = versions /\ Server' = Server /\ confirmed' = confirmed /\ policy' = policy
  BY DEF Post, Server
<1>3. CASE ops' = ops /\ Then(ko, local)
  <2>1. InOrder(ko, Server, local, confirmed, policy.auto)
    BY <1>1 DEF InOrder, Executings, Starting, Polling, Backfilling, Undoing
  <2> QED
    BY <1>1, <1>2, <1>3, <2>1, QuietOrder
<1>4. CASE \E id \in OpIds :
                /\ NewOp(id)
                /\ \E state \in {"running", "failed"} : ops' = [ops EXCEPT ![id] = state]
                /\ \/ Then(ko, local)
                   \/ \E result \in {id, NoId} : Then(ok, [local EXCEPT !.result = result])
  <2>1. PICK id \in OpIds, state \in {"running", "failed"} :
                /\ ops' = [ops EXCEPT ![id] = state]
                /\ \/ Then(ko, local)
                   \/ \E result \in {id, NoId} : Then(ok, [local EXCEPT !.result = result])
    BY <1>4
  <2>2. ops'[id] # "unused" /\ \A j \in OpIds : ops[j] # "unused" => ops'[j] # "unused"
    BY <2>1 DEF TypeOK, OpStates
  <2>3. Truthful(Server, confirmed, ops') /\ Truthful(local, confirmed, ops')
    BY <1>1, <2>2, TruthGrows
  <2>4. \/ pc' = "idle" /\ local' = Unset
        \/ pc' = ko /\ local' = local
        \/ pc' = ok /\ \E result \in {id, NoId} : local' = [local EXCEPT !.result = result]
    BY <2>1 DEF Then
  <2>5. Truthful(local', confirmed, ops')
    <3>1. \A result \in {id, NoId} : Truthful([local EXCEPT !.result = result], confirmed, ops')
      BY <1>1, <2>2, <2>3 DEF Truthful, CR, NoId, OpIds
    <3> QED
      BY <2>3, <2>4, <3>1, UnsetTruth
  <2>6. InOrder(pc', Server, local', confirmed, policy.auto)
    <3>1. \A result : /\ [local EXCEPT !.result = result].phase = local.phase
                      /\ [local EXCEPT !.result = result].consumed = local.consumed
      BY <1>1 DEF CR
    <3>2. pc' = "idle" \/ (local'.phase = local.phase /\ local'.consumed = local.consumed)
      BY <2>4, <3>1
    <3>3. pc' \in {"idle", "startFailed", "rollback", "saveResult", "backfillSave", "lateBackfillSave"}
      BY <2>4
    <3> QED
      BY <1>1, <3>2, <3>3 DEF InOrder, Executings, Starting, Polling, Backfilling, Undoing
  <2> QED
    BY <1>2, <2>2, <2>3, <2>5, <2>6 DEF CoherentInv, Ran, TypeOK
<1>5. (ops' = ops /\ Then(ko, local))
      \/ \E id \in OpIds :
                /\ NewOp(id)
                /\ \E state \in {"running", "failed"} : ops' = [ops EXCEPT ![id] = state]
                /\ \/ Then(ko, local)
                   \/ \E result \in {id, NoId} : Then(ok, [local EXCEPT !.result = result])
  BY PostChanges
<1> QED
  BY <1>3, <1>4, <1>5

\* Completing a policy at the last call of a poll.
LEMMA CompletedOrder ==
    ASSUME NEW s \in CR, NEW l \in CR, NEW done, NEW o, Truthful(l, done, o),
           s.phase = "Executing", l.consumed = s.consumed, l.phase # "Applied", l.result \in done
    PROVE  Changes(s, Completed(l), done) /\ Truthful(Completed(l), done, o)
<1>1. CASE l.mode = "Continuous"
  BY <1>1 DEF Completed, Changes, Truthful, CR
<1>2. CASE l.mode # "Continuous"
  <2>1. Completed(l) = [l EXCEPT !.phase = "Applied", !.completedAt = TRUE, !.consumed = TRUE]
    BY <1>2 DEF Completed, Applied
  <2> QED
    BY <2>1 DEF Changes, Truthful, CR
<1> QED
  BY <1>1, <1>2

\* Every call of a reconcile leaves it in order.
LEMMA CallOrder ==
    ASSUME MaxLag = 0, TypeOK, CoherentInv, Call
    PROVE  CoherentInv'
<1>1. /\ Cache = Server /\ Server \in CR /\ local \in CR
      /\ local.starts \in Nat /\ local.missing \in Nat /\ local.errors \in Nat
      /\ Truthful(Server, confirmed, ops) /\ Truthful(local, confirmed, ops)
  BY OneVersion, EndsType, FieldTypes DEF CoherentInv, TypeOK
<1>2. InOrder(pc, Server, local, confirmed, policy.auto)
  BY DEF CoherentInv
<1>3. pc \notin {"idle", "save"} => local.consumed = Server.consumed /\ local.phase # "Applied"
  BY <1>2 DEF InOrder
<1>4. pc \in Executings => Server.phase = "Executing"
  BY <1>2 DEF InOrder
<1> USE DEF Executings, Starting, Polling, Backfilling, Undoing
<1>5. CASE Save
  <2>1. Write(WithStatus(Server, local), "idle", local) \/ Abandon
    BY <1>1, <1>5, MergeIsStatus DEF Save
  <2>2. WithStatus(Server, local) \in CR /\ Truthful(WithStatus(Server, local), confirmed, ops)
    BY <1>1, ReplyTypes, ReplyFields, TruthOfStatus
  <2>3. InOrder("idle", WithStatus(Server, local), local, confirmed, policy.auto)
    BY DEF InOrder
  <2> QED
    BY <1>1, <2>1, <2>2, <2>3, WriteOrder, AbandonOrder
<1>6. CASE PatchDefaultMode
  <2> DEFINE mode == DefaultMode(policy.type)
             new  == [Server EXCEPT !.mode = Put(Cache.mode, mode, @)]
             copy == [local EXCEPT !.mode = new.mode, !.phase = "Pending"]
  <2>1. Server.phase = "" /\ (Write(new, "save", copy) \/ Abandon)
    BY <1>2, <1>6 DEF PatchDefaultMode, InOrder
  <2>2. new \in CR /\ Status(new) = Status(Server)
    <3>1. mode \in Modes
      BY DEF DefaultMode, Modes
    <3>2. \A x : Status([Server EXCEPT !.mode = x]) = Status(Server)
      BY <1>1, PatchFields
    <3> QED
      BY <3>1, <3>2, PatchTypes
  <2>3. Truthful(copy, confirmed, ops)
    BY <1>1, <1>3, <1>6, BeginTruth DEF PatchDefaultMode
  <2> HIDE DEF new
  <2>4. copy.phase = "Pending" /\ copy.consumed = local.consumed
    BY <1>1 DEF CR
  <2> HIDE DEF copy
  <2>5. InOrder("save", new, copy, confirmed, policy.auto)
    BY <1>3, <1>6, <2>1, <2>2, <2>4 DEF InOrder, Changes, Status, PatchDefaultMode
  <2> QED
    BY <1>1, <2>1, <2>2, <2>3, <2>5, TruthOfStatus, WriteOrder, AbandonOrder
<1>7. CASE PatchModifiedSpec
  <2> DEFINE new  == [Server EXCEPT !.mode = Put(Cache.mode, local.mode, @)]
             copy == [local EXCEPT !.mode = new.mode, !.phase = "Approved"]
  <2>1. Server.phase = "Pending" /\ policy.auto /\ (Write(new, "save", copy) \/ Abandon)
    BY <1>2, <1>7 DEF PatchModifiedSpec, InOrder
  <2>2. new \in CR /\ Status(new) = Status(Server)
    <3>1. local.mode \in Modes
      BY <1>1, FieldTypes
    <3>2. \A x : Status([Server EXCEPT !.mode = x]) = Status(Server)
      BY <1>1, PatchFields
    <3> QED
      BY <3>1, <3>2, PatchTypes
  <2>3. Truthful(copy, confirmed, ops)
    BY <1>1, <1>3, <1>7, BeginTruth DEF PatchModifiedSpec
  <2> HIDE DEF new
  <2>4. copy.phase = "Approved" /\ copy.consumed = local.consumed
    BY <1>1 DEF CR
  <2> HIDE DEF copy
  <2>5. InOrder("save", new, copy, confirmed, policy.auto)
    BY <1>3, <1>7, <2>1, <2>2, <2>4 DEF InOrder, Changes, Status, PatchModifiedSpec
  <2> QED
    BY <1>1, <2>1, <2>2, <2>3, <2>5, TruthOfStatus, WriteOrder, AbandonOrder
<1>8. CASE ClearRetry
  <2> DEFINE new  == [Server EXCEPT !.retry = FALSE, !.rollback = Put(local.rollback, "none", @)]
             copy == [new EXCEPT !.phase = "Pending", !.result = NoResult,
                                 !.executedAt = NoTime, !.completedAt = FALSE]
  <2>1. Server.phase = "Failed" /\ (Write(new, "save", copy) \/ Abandon)
    BY <1>2, <1>8 DEF ClearRetry, InOrder
  <2>2. new \in CR
    BY <1>1 DEF CR, Put, Rollbacks
  <2>3. Status(new) = Status(Server)
    BY <1>1 DEF CR, Status
  <2> HIDE DEF new
  <2>4. /\ copy.phase = "Pending" /\ copy.result = NoResult
        /\ copy.consumed = Server.consumed /\ copy.applied = Server.applied
    BY <2>2, <2>3 DEF CR, Status
  <2> HIDE DEF copy
  <2>5. Truthful(copy, confirmed, ops)
    BY <1>1, <2>1, <2>4 DEF Truthful, NoResult, OpIds
  <2>6. InOrder("save", new, copy, confirmed, policy.auto)
    BY <2>1, <2>3, <2>4 DEF InOrder, Changes, Status
  <2> QED
    BY <1>1, <2>1, <2>2, <2>3, <2>5, <2>6, TruthOfStatus, WriteOrder, AbandonOrder
<1>9. CASE Begin
  <2> DEFINE new == WithStatus(Server, local)
  <2>1. Write(new, "start", WithStatus(local, new)) \/ Abandon
    BY <1>1, <1>9, MergeIsStatus DEF Begin
  <2>2. new \in CR /\ Status(new) = Status(local) /\ Status(WithStatus(local, new)) = Status(new)
    BY <1>1, ReplyTypes, ReplyFields
  <2> HIDE DEF new
  <2>3. local.phase = "Executing"
    BY <1>2, <1>9 DEF Begin, InOrder
  <2>4. InOrder("start", new, WithStatus(local, new), confirmed, policy.auto)
    BY <2>2, <2>3 DEF InOrder, Status
  <2>5. Truthful(new, confirmed, ops) /\ Truthful(WithStatus(local, new), confirmed, ops)
    BY <1>1, <2>2, TruthOfStatus
  <2> QED
    BY <2>1, <2>2, <2>4, <2>5, WriteOrder, AbandonOrder
<1>10. CASE Start
  BY <1>10, PostOrder DEF Start
<1>11. CASE StartTooEarly
  <2>1. Proceed("save", InPhase(local, "WaitingForTarget")) /\ pc = "start"
    BY <1>11 DEF StartTooEarly
  <2>2. InOrder("save", Server, InPhase(local, "WaitingForTarget"), confirmed, policy.auto)
    BY <1>1, <1>3, <1>4, <2>1 DEF InOrder, Changes, InPhase, CR
  <2> QED
    BY <1>1, <1>3, <2>1, <2>2, BeginTruth, ProceedOrder
<1>12. CASE SaveResult
  BY <1>12, PatchResultOrder DEF SaveResult
<1>13. CASE ClearStarts \/ StartFailed \/ BackfillMark
  <2>1. Abandon \/ \E n \in Nat, next \in {"idle", "rollback"} : PatchStarts(n, next)
    BY <1>1, <1>13 DEF ClearStarts, StartFailed, BackfillMark
  <2>2. pc \in Executings
    BY <1>13 DEF ClearStarts, StartFailed, BackfillMark
  <2>3. ASSUME NEW n \in Nat, NEW next \in {"idle", "rollback"}, PatchStarts(n, next)
        PROVE  CoherentInv'
    <3> DEFINE new == [Server EXCEPT !.starts = Put(Cache.starts, n, @)]
    <3>1. Write(new, next, WithAnnotations(local, new))
      BY <2>3 DEF PatchStarts
    <3>2. \A x : Status([Server EXCEPT !.starts = x]) = Status(Server)
      BY <1>1, PatchFields
    <3>3. new \in CR /\ Status(new) = Status(Server)
      BY <2>3, <3>2, PatchTypes
    <3> HIDE DEF new
    <3> QED
      BY <2>2, <2>3, <3>1, <3>3, AnnotationOrder
  <2> QED
    BY <2>1, <2>3, AbandonOrder
<1>14. CASE Backfill
  BY <1>14, PostOrder DEF Backfill
<1>15. CASE BackfillSave
  BY <1>15, PatchResultOrder DEF BackfillSave
<1>16. CASE Poll
  <2>1. /\ pc = "poll" /\ versions' = versions /\ local' = local /\ ops' = ops
        /\ policy' = policy /\ Server' = Server
    BY <1>16 DEF Poll, Server
  <2>2. pc' \in Polling /\ confirmed \subseteq confirmed'
    BY <1>16 DEF Poll
  <2>3. pc' = "clearDone" => local.result \in confirmed'
    BY <1>16 DEF Poll
  <2>4. \A id \in confirmed' : id \in confirmed \/ (id = local.result /\ id \in OpIds)
    BY <1>16 DEF Poll
  <2>5. Truthful(Server, confirmed', ops) /\ Truthful(local, confirmed', ops)
    BY <1>1, <2>2, TruthGrows
  <2>6. \A id \in confirmed' : ops[id] # "unused"
    BY <1>1, <2>4 DEF CoherentInv, Ran, Truthful
  <2>7. InOrder(pc', Server, local, confirmed', policy.auto)
    BY <1>3, <1>4, <2>1, <2>2, <2>3 DEF InOrder
  <2> QED
    BY <2>1, <2>5, <2>6, <2>7 DEF CoherentInv, Ran
<1>17. CASE PollError
  <2>1. Proceed("countError", local) /\ pc = "poll"
    BY <1>17 DEF PollError
  <2>2. InOrder("countError", Server, local, confirmed, policy.auto)
    BY <1>3, <1>4, <2>1 DEF InOrder
  <2> QED
    BY <1>1, <2>1, <2>2, ProceedOrder
<1>18. CASE ClearAfterPoll
  <2>1. CASE pc = "clearDone"
    <3>1. Changes(Server, Completed(local), confirmed) /\ Truthful(Completed(local), confirmed, ops)
      BY <1>1, <1>2, <1>3, <1>4, <2>1, CompletedOrder DEF InOrder
    <3>2. Completed(local) \in CR /\ ClearCounters("save", Completed(local))
      BY <1>1, <1>18, <2>1, CopyTypes DEF ClearAfterPoll, Phases
    <3> QED
      BY <2>1, <3>1, <3>2, ClearCountersOrder
  <2>2. CASE pc # "clearDone"
    <3>1. PICK next \in {"rollback", "idle"} : ClearCounters(next, local) /\ pc \in Polling
      BY <1>18, <2>2 DEF ClearAfterPoll
    <3> QED
      BY <1>1, <1>3, <3>1, ClearCountersOrder
  <2> QED
    BY <2>1, <2>2
<1>19. CASE CountMissing
  <2> DEFINE n   == local.missing + 1
             new == [Server EXCEPT !.missing = Put(Cache.missing, n, @)]
  <2>1. Abandon \/ \E next \in {"idle", "rollback"} : Write(new, next, WithAnnotations(local, new))
    BY <1>19 DEF CountMissing
  <2>2. n \in Nat /\ pc \in Executings
    BY <1>1, <1>19 DEF CountMissing
  <2> HIDE DEF n
  <2>3. \A x : Status([Server EXCEPT !.missing = x]) = Status(Server)
    BY <1>1, PatchFields
  <2>4. new \in CR /\ Status(new) = Status(Server)
    BY <2>2, <2>3, PatchTypes
  <2> HIDE DEF new
  <2> QED
    BY <2>1, <2>2, <2>4, AnnotationOrder, AbandonOrder
<1>20. CASE CountError
  <2> DEFINE n   == local.errors + 1
             new == [Server EXCEPT !.errors = Put(Cache.errors, n, @)]
  <2>1. Abandon \/ \E next \in {"idle", "rollback"} : Write(new, next, WithAnnotations(local, new))
    BY <1>20 DEF CountError
  <2>2. n \in Nat /\ pc \in Executings
    BY <1>1, <1>20 DEF CountError
  <2> HIDE DEF n
  <2>3. \A x : Status([Server EXCEPT !.errors = x]) = Status(Server)
    BY <1>1, PatchFields
  <2>4. new \in CR /\ Status(new) = Status(Server)
    BY <2>2, <2>3, PatchTypes
  <2> HIDE DEF new
  <2> QED
    BY <2>1, <2>2, <2>4, AnnotationOrder, AbandonOrder
<1>21. CASE Rollback
  <2>1. /\ pc = "rollback" /\ pc' = "saveRollback" /\ versions' = versions
        /\ confirmed' = confirmed /\ policy' = policy /\ Server' = Server
        /\ ops' = ops \/ \E id \in OpIds : ops' = [ops EXCEPT ![id] = "gone"]
        /\ \E outcome \in Rollbacks : local' = [local EXCEPT !.rollback = outcome]
    BY <1>21 DEF Rollback, Then, Server
  <2>2. Status(local') = Status(local)
    <3>1. \A x : Status([local EXCEPT !.rollback = x]) = Status(local)
      BY <1>1, PatchFields
    <3> QED
      BY <2>1, <3>1
  <2>3. \A id \in OpIds : ops[id] # "unused" => ops'[id] # "unused"
    BY <2>1 DEF TypeOK
  <2>4. Truthful(Server, confirmed, ops') /\ Truthful(local, confirmed, ops')
    BY <1>1, <2>3, TruthGrows
  <2>5. Truthful(local', confirmed, ops')
    BY <2>2, <2>4, TruthOfStatus
  <2>6. InOrder("saveRollback", Server, local', confirmed, policy.auto)
    BY <1>2, <1>3, <2>1, <2>2 DEF InOrder, Status
  <2> QED
    BY <2>1, <2>3, <2>4, <2>5, <2>6 DEF CoherentInv, Ran, TypeOK
<1>22. CASE SaveRollback
  <2> DEFINE new  == [Server EXCEPT !.rollback = local.rollback]
             copy == [new EXCEPT !.phase = "Failed", !.completedAt = TRUE, !.result = FailText]
  <2>1. Server.phase \in {"Executing", "WaitingForTarget"} /\ (Write(new, "save", copy) \/ Abandon)
    BY <1>2, <1>22 DEF SaveRollback, InOrder
  <2>2. new \in CR /\ Status(new) = Status(Server)
    BY <1>1, FieldTypes, CopyTypes, PatchFields DEF Phases
  <2> HIDE DEF new
  <2>3. /\ copy.phase = "Failed" /\ copy.completedAt = TRUE /\ copy.result = FailText
        /\ copy.consumed = Server.consumed /\ copy.applied = Server.applied
    BY <2>2 DEF CR, Status
  <2> HIDE DEF copy
  <2>4. Truthful(copy, confirmed, ops)
    BY <1>1, <2>1, <2>3 DEF Truthful, FailText, OpIds
  <2>5. InOrder("save", new, copy, confirmed, policy.auto)
    BY <2>1, <2>2, <2>3 DEF InOrder, Changes, Status
  <2> QED
    BY <1>1, <2>1, <2>2, <2>4, <2>5, TruthOfStatus, WriteOrder, AbandonOrder
<1> QED
  BY <1>5, <1>6, <1>7, <1>8, <1>9, <1>10, <1>11, <1>12, <1>13, <1>14, <1>15, <1>16, <1>17,
     <1>18, <1>19, <1>20, <1>21, <1>22 DEF Call

\* Time leaves all but the age of an execution as it is.
LEMMA OlderFields ==
    ASSUME NEW cr \in CR
    PROVE  /\ \A f \in {"live", "mode", "phase", "completedAt", "result", "consumed", "applied",
                        "starts", "missing", "errors", "retry", "rollback"} : Older(cr)[f] = cr[f]
           /\ cr.executedAt # NoTime => Older(cr).executedAt # NoTime
BY TimeAssumption DEF Older, NoTime, Ages, CR

\* With a coherent cache Tick ages the stored copy and the one in memory.
LEMMA TickCoherent ==
    ASSUME TypeOK, Len(versions) = 1, Tick
    PROVE  Len(versions') = 1 /\ Server' = Older(Server)
<1>1. versions' = [i \in 1..1 |-> Older(versions[i])]
  BY DEF Tick
<1> HIDE DEF Older
<1> QED
  BY <1>1 DEF Server

\* What others do keeps the reconcile in order.
LEMMA EnvironmentOrder ==
    ASSUME MaxLag = 0, TypeOK, CoherentInv,
           Deliver \/ Tick \/ Crash \/ User \/ Operator \/ TargetAppears
    PROVE  CoherentInv'
<1>1. /\ Server \in CR /\ local \in CR /\ Len(versions) = 1
      /\ Truthful(Server, confirmed, ops) /\ Truthful(local, confirmed, ops)
      /\ InOrder(pc, Server, local, confirmed, policy.auto)
  BY EndsType DEF CoherentInv, TypeOK
<1>2. CASE Deliver
  BY <1>1, <1>2 DEF Deliver
<1>3. CASE Tick
  <2>1. /\ Len(versions') = 1 /\ Server' = Older(Server) /\ local' = Older(local)
        /\ pc' = pc /\ confirmed' = confirmed /\ ops' = ops /\ policy' = policy
    BY <1>1, <1>3, TickCoherent DEF Tick, external
  <2>2. \A cr \in CR : /\ Older(cr).phase = cr.phase /\ Older(cr).consumed = cr.consumed
                       /\ Older(cr).result = cr.result /\ Older(cr).applied = cr.applied
                       /\ Older(cr).completedAt = cr.completedAt /\ Older(cr).retry = cr.retry
                       /\ cr.executedAt # NoTime => Older(cr).executedAt # NoTime
    BY OlderFields
  <2> HIDE DEF Older
  <2>3. Truthful(Older(Server), confirmed, ops) /\ Truthful(Older(local), confirmed, ops)
    BY <1>1, <2>2 DEF Truthful
  <2>4. InOrder(pc, Older(Server), Older(local), confirmed, policy.auto)
    BY <1>1, <2>2 DEF InOrder, Changes
  <2> QED
    BY <2>1, <2>3, <2>4 DEF CoherentInv, Ran
<1>4. CASE Crash
  <2>1. /\ Len(versions') = 1 /\ Server' = Server /\ local' = Unset /\ pc' = "idle"
        /\ confirmed' = confirmed /\ ops' = ops /\ policy' = policy
    BY <1>4 DEF Crash, Then, Server
  <2>2. InOrder("idle", Server, Unset, confirmed, policy.auto)
    BY DEF InOrder, Executings, Starting, Polling, Backfilling, Undoing
  <2> QED
    BY <1>1, <2>1, <2>2, UnsetTruth DEF CoherentInv, Ran
<1>5. CASE User
  <2>1. /\ pc' = pc /\ local' = local /\ confirmed' = confirmed /\ ops' = ops /\ policy' = policy
    BY <1>5 DEF User, UserApprove, UserRetry, UserDelete, UserWrites
  <2>2. CASE UserApprove
    <3>1. [Server EXCEPT !.phase = "Approved"] \in CR
      BY <1>1, CopyTypes DEF InPhase, Phases
    <3>2. Len(versions') = 1 /\ Server' = [Server EXCEPT !.phase = "Approved"]
      BY <1>1, <2>2, <3>1, OneVersion DEF UserApprove, UserWrites
    <3>3. Truthful(Server', confirmed, ops)
      BY <1>1, <2>2, <3>2 DEF Truthful, UserApprove, CR
    <3>4. pc = "idle"
      BY <1>1, <2>2 DEF InOrder, UserApprove
    <3>5. InOrder("idle", Server', local, confirmed, policy.auto)
      BY DEF InOrder, Executings, Starting, Polling, Backfilling, Undoing
    <3> QED
      BY <1>1, <2>1, <3>2, <3>3, <3>4, <3>5 DEF CoherentInv, Ran
  <2>3. CASE UserRetry \/ UserDelete
    <3>1. [Server EXCEPT !.retry = TRUE] \in CR /\ [Server EXCEPT !.live = FALSE] \in CR
      BY <1>1 DEF CR
    <3>2. PICK cr \in CR : /\ UserWrites(cr)
                           /\ \/ cr = [Server EXCEPT !.retry = TRUE]
                              \/ cr = [Server EXCEPT !.live = FALSE]
      BY <2>3, <3>1 DEF UserRetry, UserDelete
    <3>3. Len(versions') = 1 /\ Server' = cr
      BY <1>1, <3>2, OneVersion DEF UserWrites
    <3>4. Status(cr) = Status(Server) /\ (Server.retry => cr.retry)
      BY <1>1, <3>2 DEF Status, CR
    <3>5. InOrder(pc, cr, local, confirmed, policy.auto)
      BY <1>1, <3>4 DEF InOrder, Changes, Status
    <3>6. Truthful(cr, confirmed, ops)
      BY <1>1, <3>4, TruthOfStatus
    <3> QED
      BY <1>1, <2>1, <3>3, <3>5, <3>6 DEF CoherentInv, Ran
  <2> QED
    BY <1>5, <2>2, <2>3 DEF User
<1>6. CASE Operator
  <2>1. PICK to \in {"completed", "failed", "gone"}, id \in OpIds : ops' = [ops EXCEPT ![id] = to]
    BY <1>6 DEF Operator, OperatorFinishes, OperatorForgets, OperatorChanges
  <2>2. /\ versions' = versions /\ Server' = Server /\ local' = local /\ pc' = pc
        /\ confirmed' = confirmed /\ policy' = policy
    BY <1>6 DEF Operator, OperatorFinishes, OperatorForgets, OperatorChanges, Server
  <2>3. \A j \in OpIds : ops[j] # "unused" => ops'[j] # "unused"
    BY <2>1 DEF TypeOK
  <2>4. Truthful(Server, confirmed, ops') /\ Truthful(local, confirmed, ops')
    BY <1>1, <2>3, TruthGrows
  <2> QED
    BY <1>1, <2>2, <2>3, <2>4 DEF CoherentInv, Ran, TypeOK
<1>7. CASE TargetAppears
  <2>1. /\ versions' = versions /\ Server' = Server /\ local' = local /\ pc' = pc
        /\ confirmed' = confirmed /\ policy' = policy /\ ops' = ops
    BY <1>7 DEF TargetAppears, Server
  <2> QED
    BY <1>1, <2>1 DEF CoherentInv, Ran
<1> QED
  BY <1>2, <1>3, <1>4, <1>5, <1>6, <1>7

\* With a coherent cache a reconcile in progress is always in order.
THEOREM CoherentlyOrdered ==
    ASSUME MaxLag = 0
    PROVE  Spec => []CoherentInv
<1>1. Init => CoherentInv
  <2> SUFFICES ASSUME Init PROVE CoherentInv
    OBVIOUS
  <2>1. /\ Len(versions) = 1 /\ Server = NewCR(policy.mode) /\ local = Unset /\ pc = "idle"
        /\ confirmed = {}
    BY DEF Init, Server
  <2>2. \A mode : Truthful(NewCR(mode), confirmed, ops)
    BY DEF Truthful, NewCR, OpIds, NoResult
  <2>3. InOrder("idle", Server, local, confirmed, policy.auto)
    BY DEF InOrder, Executings, Starting, Polling, Backfilling, Undoing
  <2> QED
    BY <2>1, <2>2, <2>3 DEF CoherentInv, Unset
<1>2. TypeOK /\ CoherentInv /\ [Next]_vars => CoherentInv'
  <2> SUFFICES ASSUME TypeOK, CoherentInv, [Next]_vars PROVE CoherentInv'
    OBVIOUS
  <2>1. CASE UNCHANGED vars
    BY <2>1 DEF vars, CoherentInv, Server, Ran
  <2> QED
    BY <2>1, ReconcileOrder, CallOrder, EnvironmentOrder DEF Next
<1> QED
  BY <1>1, <1>2, TypeCorrect, PTL DEF Spec

\* The resource an Applied policy records is one the operator reported complete,
\* whatever failed or crashed in between.
THEOREM ResultIsConfirmed ==
    ASSUME MaxLag = 0
    PROVE  Spec => []AppliedResultConfirmed
<1>1. CoherentInv => AppliedResultConfirmed
  BY DEF CoherentInv, Truthful, AppliedResultConfirmed
<1> QED
  BY <1>1, CoherentlyOrdered, PTL

-----------------------------------------------------------------------------
(* The stored CR follows PolicyLifecycle. Most steps change nothing that   *)
(* the lifecycle sees; the others are taken one by one.                    *)

\* A step that leaves these parts of the stored CR alone is a stutter, or it gives up
\* the status patch of a retry and loses the request.
LEMMA SameLifecycle ==
    ASSUME Server'.live = Server.live, Server'.phase = Server.phase,
           Server'.consumed = Server.consumed, Server'.retry = Server.retry,
           retries' = retries, confirmed' = confirmed,
           \A id \in OpIds : ops'[id] # "unused" <=> ops[id] # "unused",
           pc' = "save" /\ Server'.phase = "Failed" => pc = "save" /\ local'.phase = local.phase,
           Server.retry \in BOOLEAN
    PROVE  [Lifecycle!Next]_(Lifecycle!vars)
<1>1. {id \in OpIds : ops'[id] # "unused"} = {id \in OpIds : ops[id] # "unused"}
  OBVIOUS
<1>2. ServingRetry' => ServingRetry
  BY DEF ServingRetry
<1>3. CASE ServingRetry' = ServingRetry \/ ~Server.live \/ Server.retry
  BY <1>1, <1>2, <1>3 DEF Lifecycle!vars, Ran
<1>4. CASE ServingRetry /\ ~ServingRetry' /\ Server.live /\ ~Server.retry
  BY <1>1, <1>4 DEF Lifecycle!Next, Lifecycle!Retry, Ran, ServingRetry
<1> QED
  BY <1>2, <1>3, <1>4 DEF ServingRetry

\* Steps that store nothing.
LEMMA QuietLifecycle ==
    ASSUME TypeOK, versions' = versions, retries' = retries, confirmed' = confirmed,
           \A id \in OpIds : ops'[id] # "unused" <=> ops[id] # "unused",
           pc' = "save" => Server.phase # "Failed"
    PROVE  [Lifecycle!Next]_(Lifecycle!vars)
<1>1. Server' = Server /\ Server \in CR
  BY EndsType DEF Server, TypeOK
<1>2. Server.retry \in BOOLEAN
  BY <1>1, FieldTypes
<1> HIDE DEF Server
<1> QED
  BY <1>1, <1>2, SameLifecycle

\* A step to the next call that stores nothing: a stutter of the life cycle, or a lost retry.
LEMMA ProceedLifecycle ==
    ASSUME TypeOK, NEW next, NEW copy, Proceed(next, copy),
           next = "save" => Server.phase # "Failed"
    PROVE  [Lifecycle!Next]_(Lifecycle!vars)
BY QuietLifecycle DEF Proceed, Then, external

\* So is a failed patch.
LEMMA WriteFailsLifecycle ==
    ASSUME TypeOK, NEW next, NEW copy, WriteFails(next, copy),
           next = "save" => Server.phase # "Failed"
    PROVE  [Lifecycle!Next]_(Lifecycle!vars)
BY QuietLifecycle DEF WriteFails, Then

\* So is giving up.
LEMMA AbandonLifecycle ==
    ASSUME TypeOK, Abandon
    PROVE  [Lifecycle!Next]_(Lifecycle!vars)
BY WriteFailsLifecycle DEF Abandon

\* Patches of mode, result and counters.
LEMMA WriteLifecycle ==
    ASSUME MaxLag = 0, TypeOK, CoherentInv, NEW cr \in CR, NEW next, NEW copy,
           Write(cr, next, copy), cr.live = Server.live, cr.phase = Server.phase,
           cr.consumed = Server.consumed, cr.retry = Server.retry,
           next = "save" => Server.phase # "Failed"
    PROVE  [Lifecycle!Next]_(Lifecycle!vars)
<1>1. Server' = cr /\ Server \in CR
  BY OneVersion, EndsType DEF CoherentInv, TypeOK, Write
<1>2. /\ Server.retry \in BOOLEAN /\ retries' = retries /\ confirmed' = confirmed /\ ops' = ops
      /\ pc' = next
  BY <1>1, FieldTypes DEF Write, Then, external
<1> HIDE DEF Server
<1> QED
  BY <1>1, <1>2, SameLifecycle

\* The status patch makes one of the changes that InOrder allows.
LEMMA SaveLifecycle ==
    ASSUME MaxLag = 0, TypeOK, CoherentInv, Save
    PROVE  [Lifecycle!Next]_(Lifecycle!vars)
<1>1. Cache = Server /\ Server \in CR /\ local \in CR /\ Server.retry \in BOOLEAN
  BY OneVersion, EndsType, FieldTypes DEF CoherentInv, TypeOK
<1> DEFINE new == WithStatus(Server, local)
<1>2. Abandon \/ Write(new, "idle", local)
  BY <1>1, MergeIsStatus DEF Save
<1>3. CASE Write(new, "idle", local)
  <2>1. new \in CR /\ Status(new) = Status(local) /\ new.retry = Server.retry /\ new.live = Server.live
    BY <1>1, ReplyTypes, ReplyFields
  <2> HIDE DEF new
  <2>2. Server' = new
    BY <1>3, <2>1, OneVersion DEF CoherentInv, Write
  <2>3. /\ Server.live /\ pc' = "idle" /\ retries' = retries /\ confirmed' = confirmed /\ ops' = ops
    BY <1>3 DEF Write, Then, external, Reachable
  <2>4. Changes(Server, local, confirmed) /\ pc = "save"
    BY DEF Save, CoherentInv, InOrder
  <2>5. /\ Server'.phase = local.phase /\ Server'.consumed = local.consumed
        /\ Server'.retry = Server.retry /\ Server'.live
    BY <2>1, <2>2, <2>3 DEF Status
  <2>6. {id \in OpIds : ops'[id] # "unused"} = {id \in OpIds : ops[id] # "unused"}
    BY <2>3
  <2>7. ~ServingRetry'
    BY <2>3 DEF ServingRetry
  <2>8. ServingRetry <=> Server.phase = "Failed"
    BY <2>4 DEF ServingRetry, Changes
  <2> HIDE DEF Server
  <2>9. CASE Server.phase = "Failed"
    BY <1>1, <2>3, <2>4, <2>5, <2>6, <2>7, <2>8, <2>9
       DEF Changes, Ran, Lifecycle!Next, Lifecycle!Retry
  <2>10. CASE Server.phase # "Failed" /\ local.consumed = Server.consumed
    BY <1>1, <2>3, <2>4, <2>5, <2>6, <2>7, <2>8, <2>10
       DEF Changes, Ran, Lifecycle!Next, Lifecycle!Register, Lifecycle!Decide, Lifecycle!Dispatch,
           Lifecycle!Unwait, Lifecycle!Postpone, Lifecycle!Finish, Lifecycle!Fail,
           Lifecycle!Moves, Lifecycle!Becomes, Lifecycle!vars
  <2>11. CASE Server.phase # "Failed" /\ local.consumed # Server.consumed
    BY <1>1, <2>3, <2>4, <2>5, <2>6, <2>7, <2>8, <2>11
       DEF Changes, Ran, Lifecycle!Next, Lifecycle!Match, Lifecycle!Finish, Lifecycle!Becomes
  <2> QED
    BY <2>9, <2>10, <2>11
<1> QED
  BY <1>2, <1>3, AbandonLifecycle

\* A POST gives the operator work, or changes nothing the lifecycle sees.
LEMMA PostLifecycle ==
    ASSUME TypeOK, CoherentInv, pc \in Executings, NEW ok, NEW ko, ok # "save", ko # "save",
           Post(ok, ko)
    PROVE  [Lifecycle!Next]_(Lifecycle!vars)
<1>1. /\ Server' = Server /\ Server.phase = "Executing" /\ versions' = versions
      /\ retries' = retries /\ confirmed' = confirmed /\ pc' # "save"
  BY DEF Post, Then, Server, CoherentInv, InOrder
<1>2. CASE ops' = ops
  BY <1>1, <1>2, QuietLifecycle
<1>3. CASE \E id \in OpIds : NewOp(id) /\ \E state \in {"running", "failed"} :
                                              ops' = [ops EXCEPT ![id] = state]
  <2>1. PICK id \in OpIds, state \in {"running", "failed"} :
            NewOp(id) /\ ops' = [ops EXCEPT ![id] = state]
    BY <1>3
  <2>2. {j \in OpIds : ops'[j] # "unused"} = {j \in OpIds : ops[j] # "unused"} \cup {id}
    BY <2>1 DEF TypeOK
  <2>3. id \in OpIds \ {j \in OpIds : ops[j] # "unused"}
    BY <2>1 DEF NewOp
  <2>4. ServingRetry' = ServingRetry
    BY <1>1 DEF ServingRetry
  <2> HIDE DEF Server
  <2> QED
    BY <1>1, <2>2, <2>3, <2>4 DEF Ran, Lifecycle!Next, Lifecycle!StartWork
<1> QED
  BY <1>2, <1>3, PostChanges

\* Beginning a reconcile is not yet a step of the lifecycle.
LEMMA ReconcileLifecycle ==
    ASSUME MaxLag = 0, TypeOK, CoherentInv, Reconcile
    PROVE  [Lifecycle!Next]_(Lifecycle!vars)
<1>1. Cache = Server
  BY OneVersion DEF CoherentInv
<1>2. CASE ReconcileRetry
  BY <1>2, ProceedLifecycle DEF ReconcileRetry
<1>3. CASE Reconcile /\ ~ReconcileRetry
  <2>1. Server.phase # "Failed"
    BY <1>1, <1>3 DEF Reconcile, ReconcileNew, ReconcilePending, ReconcileApproved,
       ReconcileWaiting, ExecTimedOut, ExecNoResult, ExecPoll, Monitoring, Reconciling
  <2>2. \E next, copy : Proceed(next, copy)
    BY <1>3 DEF Reconcile, ReconcileNew, ReconcilePending, ReconcileApproved,
       ReconcileWaiting, ExecTimedOut, ExecNoResult, ExecPoll
  <2> QED
    BY <2>1, <2>2, ProceedLifecycle
<1> QED
  BY <1>2, <1>3

\* The calls of a reconcile.
LEMMA CallLifecycle ==
    ASSUME MaxLag = 0, TypeOK, CoherentInv, Call
    PROVE  [Lifecycle!Next]_(Lifecycle!vars)
<1>1. /\ Cache = Server /\ Server \in CR /\ local \in CR /\ Server.retry \in BOOLEAN
      /\ local.starts \in Nat /\ local.missing \in Nat /\ local.errors \in Nat
      /\ local.mode \in Modes /\ local.result \in Results /\ local.rollback \in Rollbacks
  BY OneVersion, EndsType, FieldTypes DEF CoherentInv, TypeOK
<1>2. InOrder(pc, Server, local, confirmed, policy.auto)
  BY DEF CoherentInv
<1>3. pc \in Executings => Server.phase = "Executing"
  BY <1>2 DEF InOrder
<1> USE DEF Executings, Starting, Polling, Backfilling, Undoing
<1>4. ASSUME NEW cr \in CR, NEW next, NEW copy, Write(cr, next, copy), pc # "clearRetry",
             \/ \E x : \/ cr = [Server EXCEPT !.mode = x]
                       \/ cr = [Server EXCEPT !.result = x]
                       \/ cr = [Server EXCEPT !.starts = x]
                       \/ cr = [Server EXCEPT !.missing = x]
                       \/ cr = [Server EXCEPT !.errors = x]
                       \/ cr = [Server EXCEPT !.rollback = x]
             \/ \E x, y : cr = [Server EXCEPT !.missing = x, !.errors = y],
             next = "save" => Server.phase # "Failed"
      PROVE  [Lifecycle!Next]_(Lifecycle!vars)
  <2>1. /\ cr.live = Server.live /\ cr.phase = Server.phase
        /\ cr.consumed = Server.consumed /\ cr.retry = Server.retry
    BY <1>1, <1>4 DEF CR
  <2> QED
    BY <1>4, <2>1, WriteLifecycle
<1>5. CASE Save
  BY <1>5, SaveLifecycle
<1>6. CASE PatchDefaultMode
  <2> DEFINE mode == Put(Cache.mode, DefaultMode(policy.type), Server.mode)
             new  == [Server EXCEPT !.mode = mode]
             copy == [local EXCEPT !.mode = new.mode, !.phase = "Pending"]
  <2>1. Abandon \/ Write(new, "save", copy)
    BY <1>6 DEF PatchDefaultMode
  <2>2. new \in CR
    BY PatchTypes DEF DefaultMode, Modes
  <2>3. Server.phase # "Failed"
    BY <1>2, <1>6 DEF PatchDefaultMode, InOrder
  <2>4. pc # "clearRetry" /\ new = [Server EXCEPT !.mode = mode]
    BY <1>6 DEF PatchDefaultMode
  <2> HIDE DEF new, copy, mode
  <2> QED
    BY <1>4, <2>1, <2>2, <2>3, <2>4, AbandonLifecycle
<1>7. CASE PatchModifiedSpec
  <2> DEFINE mode == Put(Cache.mode, local.mode, Server.mode)
             new  == [Server EXCEPT !.mode = mode]
             copy == [local EXCEPT !.mode = new.mode, !.phase = "Approved"]
  <2>1. Abandon \/ Write(new, "save", copy)
    BY <1>7 DEF PatchModifiedSpec
  <2>2. new \in CR
    BY <1>1, PatchTypes
  <2>3. Server.phase # "Failed"
    BY <1>2, <1>7 DEF PatchModifiedSpec, InOrder
  <2>4. pc # "clearRetry" /\ new = [Server EXCEPT !.mode = mode]
    BY <1>7 DEF PatchModifiedSpec
  <2> HIDE DEF new, copy, mode
  <2> QED
    BY <1>4, <2>1, <2>2, <2>3, <2>4, AbandonLifecycle
<1>8. CASE ClearRetry
  <2> DEFINE new  == [Server EXCEPT !.retry = FALSE, !.rollback = Put(local.rollback, "none", @)]
             copy == [new EXCEPT !.phase = "Pending", !.result = NoResult,
                                 !.executedAt = NoTime, !.completedAt = FALSE]
  <2>1. /\ Server.phase = "Failed" /\ Server.retry /\ pc = "clearRetry"
        /\ Abandon \/ Write(new, "save", copy)
    BY <1>2, <1>8 DEF ClearRetry, InOrder
  <2>2. new \in CR
    BY <1>1 DEF CR, Put, Rollbacks
  <2>3. CASE Write(new, "save", copy)
    <3>1. new.live = Server.live /\ new.phase = "Failed" /\ new.consumed = Server.consumed
      BY <1>1, <2>1 DEF CR
    <3> HIDE DEF new
    <3>2. copy.phase = "Pending"
      BY <2>2 DEF CR
    <3> HIDE DEF copy
    <3>3. Server' = new /\ pc' = "save" /\ local' = copy
      BY <2>2, <2>3, OneVersion DEF CoherentInv, Write, Then
    <3>4. retries' = retries /\ confirmed' = confirmed /\ ops' = ops
      BY <2>3 DEF Write, external
    <3>5. ServingRetry' /\ ~ServingRetry
      BY <2>1, <3>1, <3>2, <3>3 DEF ServingRetry
    <3>6. {id \in OpIds : ops'[id] # "unused"} = {id \in OpIds : ops[id] # "unused"}
      BY <3>4
    <3> HIDE DEF Server
    <3> QED
      BY <2>1, <3>1, <3>3, <3>4, <3>5, <3>6 DEF Lifecycle!vars, Ran
  <2> QED
    BY <2>1, <2>3, AbandonLifecycle
<1>9. CASE Begin
  <2> DEFINE new == WithStatus(Server, local)
  <2>1. Abandon \/ Write(new, "start", WithStatus(local, new))
    BY <1>1, <1>9, MergeIsStatus DEF Begin
  <2>2. CASE Write(new, "start", WithStatus(local, new))
    <3>1. /\ new \in CR /\ Status(new) = Status(local)
          /\ new.retry = Server.retry /\ new.live = Server.live
      BY <1>1, ReplyTypes, ReplyFields
    <3> HIDE DEF new
    <3>2. Server' = new /\ pc' = "start" /\ Server.live
      BY <2>2, <3>1, OneVersion DEF CoherentInv, Write, Then, Reachable
    <3>3. retries' = retries /\ confirmed' = confirmed /\ ops' = ops
      BY <2>2 DEF Write, external
    <3>4. /\ Server.phase = "Approved" /\ Server'.phase = "Executing"
          /\ Server'.consumed = Server.consumed
      BY <1>2, <1>9, <3>1, <3>2 DEF Begin, InOrder, Status
    <3>5. ServingRetry' = ServingRetry
      BY <1>9, <3>2 DEF ServingRetry, Begin
    <3>6. {id \in OpIds : ops'[id] # "unused"} = {id \in OpIds : ops[id] # "unused"}
      BY <3>3
    <3> HIDE DEF Server
    <3> QED
      BY <3>1, <3>2, <3>3, <3>4, <3>5, <3>6
         DEF Ran, Lifecycle!Next, Lifecycle!Dispatch, Lifecycle!Moves, Lifecycle!Becomes
  <2> QED
    BY <2>1, <2>2, AbandonLifecycle
<1>10. CASE Start
  BY <1>10, PostLifecycle DEF Start
<1>11. CASE StartTooEarly
  <2>1. Proceed("save", InPhase(local, "WaitingForTarget")) /\ pc = "start"
    BY <1>11 DEF StartTooEarly
  <2> QED
    BY <1>3, <2>1, ProceedLifecycle
<1>12. CASE SaveResult \/ BackfillSave
  <2> DEFINE result == Put(Cache.result, local.result, Server.result)
             new    == [Server EXCEPT !.result = result]
  <2>1. pc # "clearRetry" /\ new = [Server EXCEPT !.result = result]
    BY <1>12 DEF SaveResult, BackfillSave
  <2>2. new \in CR
    BY <1>1, PatchTypes
  <2>3. \/ \E next, copy : next # "save" /\ Write(new, next, copy)
        \/ \E next, copy : next # "save" /\ WriteFails(next, copy)
    BY <1>12 DEF SaveResult, BackfillSave, PatchResult
  <2> HIDE DEF new, result
  <2> QED
    BY <1>4, <2>1, <2>2, <2>3, WriteFailsLifecycle
<1>13. CASE ClearStarts \/ StartFailed \/ BackfillMark
  <2>1. /\ Abandon \/ \E n \in Nat, next \in {"idle", "rollback"} : PatchStarts(n, next)
        /\ pc # "clearRetry"
    BY <1>1, <1>13 DEF ClearStarts, StartFailed, BackfillMark
  <2>2. ASSUME NEW n \in Nat, NEW next \in {"idle", "rollback"}, PatchStarts(n, next)
        PROVE  [Lifecycle!Next]_(Lifecycle!vars)
    <3> DEFINE starts == Put(Cache.starts, n, Server.starts)
               new    == [Server EXCEPT !.starts = starts]
    <3>1. Write(new, next, WithAnnotations(local, new)) /\ new = [Server EXCEPT !.starts = starts]
      BY <2>2 DEF PatchStarts
    <3>2. new \in CR
      BY <2>2, PatchTypes
    <3> HIDE DEF new, starts
    <3> QED
      BY <1>4, <2>1, <2>2, <3>1, <3>2
  <2> QED
    BY <2>1, <2>2, AbandonLifecycle
<1>14. CASE Backfill
  BY <1>14, PostLifecycle DEF Backfill
<1>15. CASE Poll
  <2>1. /\ pc = "poll" /\ versions' = versions /\ ops' = ops /\ retries' = retries /\ pc' # "save"
    BY <1>15 DEF Poll
  <2>2. CASE confirmed' = confirmed
    BY <2>1, <2>2, QuietLifecycle
  <2>3. CASE confirmed' # confirmed
    <3>1. confirmed' = confirmed \cup {local.result} /\ local.result \in OpIds
      BY <1>15, <2>3 DEF Poll
    <3>2. Server' = Server /\ Server.phase = "Executing" /\ ops[local.result] # "unused"
      BY <1>3, <2>1, <3>1 DEF Server, CoherentInv, Truthful
    <3>3. ServingRetry' = ServingRetry
      BY <2>1 DEF ServingRetry
    <3>4. {id \in OpIds : ops'[id] # "unused"} = {id \in OpIds : ops[id] # "unused"}
      BY <2>1
    <3> HIDE DEF Server
    <3> QED
      BY <2>1, <3>1, <3>2, <3>3, <3>4 DEF Ran, Lifecycle!Next, Lifecycle!Confirm
  <2> QED
    BY <2>2, <2>3
<1>16. CASE PollError
  BY <1>16, ProceedLifecycle DEF PollError
<1>17. CASE ClearAfterPoll
  <2> DEFINE missing == Put(Cache.missing, 0, Server.missing)
             errors  == Put(Cache.errors, 0, Server.errors)
             new     == [Server EXCEPT !.missing = missing, !.errors = errors]
  <2>1. /\ pc # "clearRetry" /\ Server.phase # "Failed"
        /\ new = [Server EXCEPT !.missing = missing, !.errors = errors]
    BY <1>3, <1>17 DEF ClearAfterPoll
  <2>2. new \in CR
    BY PatchTypes
  <2>3. Abandon \/ \E next, copy : Proceed(next, copy) \/ Write(new, next, copy)
    BY <1>17 DEF ClearAfterPoll, ClearCounters
  <2> HIDE DEF new, missing, errors
  <2> QED
    BY <1>4, <2>1, <2>2, <2>3, ProceedLifecycle, AbandonLifecycle
<1>18. CASE CountMissing
  <2> DEFINE n       == local.missing + 1
             missing == Put(Cache.missing, n, Server.missing)
             new     == [Server EXCEPT !.missing = missing]
  <2>1. Abandon \/ \E next \in {"idle", "rollback"} : Write(new, next, WithAnnotations(local, new))
    BY <1>18 DEF CountMissing
  <2>2. n \in Nat /\ pc # "clearRetry"
    BY <1>1, <1>18 DEF CountMissing
  <2> HIDE DEF n
  <2>3. new \in CR /\ new = [Server EXCEPT !.missing = missing]
    BY <2>2, PatchTypes
  <2> HIDE DEF new, missing
  <2> QED
    BY <1>4, <2>1, <2>2, <2>3, AbandonLifecycle
<1>19. CASE CountError
  <2> DEFINE n      == local.errors + 1
             errors == Put(Cache.errors, n, Server.errors)
             new    == [Server EXCEPT !.errors = errors]
  <2>1. Abandon \/ \E next \in {"idle", "rollback"} : Write(new, next, WithAnnotations(local, new))
    BY <1>19 DEF CountError
  <2>2. n \in Nat /\ pc # "clearRetry"
    BY <1>1, <1>19 DEF CountError
  <2> HIDE DEF n
  <2>3. new \in CR /\ new = [Server EXCEPT !.errors = errors]
    BY <2>2, PatchTypes
  <2> HIDE DEF new, errors
  <2> QED
    BY <1>4, <2>1, <2>2, <2>3, AbandonLifecycle
<1>20. CASE Rollback
  <2>1. /\ versions' = versions /\ retries' = retries /\ confirmed' = confirmed /\ pc' # "save"
        /\ ops' = ops \/ (local.result \in OpIds /\ ops' = [ops EXCEPT ![local.result] = "gone"])
    BY <1>20 DEF Rollback, Then
  <2>2. \A id \in OpIds : ops'[id] # "unused" <=> ops[id] # "unused"
    BY <2>1 DEF CoherentInv, Truthful, TypeOK
  <2> QED
    BY <2>1, <2>2, QuietLifecycle
<1>21. CASE SaveRollback
  <2> DEFINE new  == [Server EXCEPT !.rollback = local.rollback]
             copy == [new EXCEPT !.phase = "Failed", !.completedAt = TRUE, !.result = FailText]
  <2>1. /\ pc # "clearRetry" /\ Server.phase # "Failed" /\ (Abandon \/ Write(new, "save", copy))
        /\ new = [Server EXCEPT !.rollback = local.rollback]
    BY <1>2, <1>21 DEF SaveRollback, InOrder
  <2>2. new \in CR
    BY <1>1, CopyTypes DEF Phases
  <2> HIDE DEF new, copy
  <2> QED
    BY <1>4, <2>1, <2>2, AbandonLifecycle
<1> QED
  BY <1>5, <1>6, <1>7, <1>8, <1>9, <1>10, <1>11, <1>12, <1>13, <1>14, <1>15, <1>16, <1>17,
     <1>18, <1>19, <1>20, <1>21 DEF Call

\* What others do: users' requests are steps of the lifecycle, the rest is none.
LEMMA EnvironmentLifecycle ==
    ASSUME MaxLag = 0, TypeOK, CoherentInv,
           Deliver \/ Tick \/ Crash \/ User \/ Operator \/ TargetAppears
    PROVE  [Lifecycle!Next]_(Lifecycle!vars)
<1>1. Server \in CR /\ local \in CR /\ Len(versions) = 1 /\ Server.retry \in BOOLEAN
  BY EndsType, FieldTypes DEF CoherentInv, TypeOK
<1>2. CASE Deliver
  BY <1>1, <1>2 DEF Deliver
<1>3. CASE Tick
  <2>1. /\ Server' = Older(Server) /\ local' = Older(local) /\ pc' = pc
        /\ confirmed' = confirmed /\ ops' = ops /\ retries' = retries
    BY <1>1, <1>3, TickCoherent DEF Tick, external
  <2>2. \A cr \in CR : /\ Older(cr).phase = cr.phase /\ Older(cr).consumed = cr.consumed
                       /\ Older(cr).live = cr.live /\ Older(cr).retry = cr.retry
    BY OlderFields
  <2> HIDE DEF Older, Server
  <2> QED
    BY <1>1, <2>1, <2>2, SameLifecycle
<1>4. CASE Crash
  <2>1. /\ Server' = Server /\ pc' = "idle"
        /\ confirmed' = confirmed /\ ops' = ops /\ retries' = retries
    BY <1>4 DEF Crash, Then, Server
  <2> HIDE DEF Server
  <2> QED
    BY <1>1, <2>1, SameLifecycle
<1>5. CASE User
  <2>1. /\ pc' = pc /\ local' = local /\ confirmed' = confirmed /\ ops' = ops /\ Server.live
    BY <1>5 DEF User, UserApprove, UserRetry, UserDelete, UserWrites
  <2>2. {id \in OpIds : ops'[id] # "unused"} = {id \in OpIds : ops[id] # "unused"}
    BY <2>1
  <2>3. CASE UserApprove
    <3>1. [Server EXCEPT !.phase = "Approved"] \in CR
      BY <1>1, CopyTypes DEF InPhase, Phases
    <3>2. Server' = [Server EXCEPT !.phase = "Approved"] /\ Server.phase = "Pending"
      BY <1>1, <2>3, <3>1, OneVersion DEF UserApprove, UserWrites
    <3>3. /\ Server'.phase = "Approved" /\ Server'.live /\ Server'.consumed = Server.consumed
          /\ Server'.retry = Server.retry /\ retries' = retries
      BY <1>1, <2>1, <2>3, <3>2 DEF CR, UserApprove
    <3>4. ServingRetry' = ServingRetry
      BY <3>2, <3>3 DEF ServingRetry
    <3> HIDE DEF Server
    <3> QED
      BY <2>1, <2>2, <3>2, <3>3, <3>4
         DEF Ran, Lifecycle!Next, Lifecycle!Decide, Lifecycle!Moves, Lifecycle!Becomes
  <2>4. CASE UserRetry
    <3>1. [Server EXCEPT !.retry = TRUE] \in CR
      BY <1>1 DEF CR
    <3>2. Server' = [Server EXCEPT !.retry = TRUE] /\ Server.phase = "Failed" /\ retries' = retries + 1
      BY <1>1, <2>4, <3>1, OneVersion DEF UserRetry, UserWrites
    <3>3. /\ Server'.phase = "Failed" /\ Server'.live /\ Server'.consumed = Server.consumed
          /\ Server'.retry = TRUE
      BY <1>1, <2>1, <3>2 DEF CR
    <3> HIDE DEF Server
    <3> QED
      BY <2>1, <2>2, <3>2, <3>3 DEF Ran, Lifecycle!Next, Lifecycle!RequestRetry
  <2>5. CASE UserDelete
    <3>1. [Server EXCEPT !.live = FALSE] \in CR
      BY <1>1 DEF CR
    <3>2. Server' = [Server EXCEPT !.live = FALSE] /\ retries' = retries
      BY <1>1, <2>5, <3>1, OneVersion DEF UserDelete, UserWrites
    <3>3. ~Server'.live /\ Server'.consumed = Server.consumed
      BY <1>1, <3>2 DEF CR
    <3>4. Server.phase # "deleted"
      BY <1>1 DEF CR, Phases
    <3> HIDE DEF Server
    <3> QED
      BY <2>1, <2>2, <3>2, <3>3, <3>4 DEF Ran, Lifecycle!Next, Lifecycle!Delete
  <2> QED
    BY <1>5, <2>3, <2>4, <2>5 DEF User
<1>6. CASE Operator
  <2>1. PICK from \in SUBSET {"running", "completed", "failed"},
             to \in {"completed", "failed", "gone"} : OperatorChanges(from, to)
    BY <1>6 DEF Operator, OperatorFinishes, OperatorForgets
  <2>2. PICK id \in OpIds : ops[id] \in from /\ ops' = [ops EXCEPT ![id] = to]
    BY <2>1 DEF OperatorChanges
  <2>3. /\ Server' = Server /\ local' = local /\ pc' = pc
        /\ confirmed' = confirmed /\ retries' = retries
    BY <2>1 DEF OperatorChanges, Server
  <2>4. \A j \in OpIds : ops'[j] # "unused" <=> ops[j] # "unused"
    BY <2>1, <2>2 DEF TypeOK
  <2> HIDE DEF Server
  <2> QED
    BY <1>1, <2>3, <2>4, SameLifecycle
<1>7. CASE TargetAppears
  <2>1. /\ Server' = Server /\ local' = local /\ pc' = pc
        /\ confirmed' = confirmed /\ retries' = retries /\ ops' = ops
    BY <1>7 DEF TargetAppears, Server
  <2> HIDE DEF Server
  <2> QED
    BY <1>1, <2>1, SameLifecycle
<1> QED
  BY <1>2, <1>3, <1>4, <1>5, <1>6, <1>7

\* The controller implements PolicyLifecycle: the stored CR moves through its phases
\* in the lifecycle's order, the operator is given work only while the policy is
\* Executing, and Failed is left only for a retry somebody asked for.
THEOREM LifecycleFollowed ==
    ASSUME MaxLag = 0
    PROVE  Spec => FollowsLifecycle
<1>1. Init => Lifecycle!Init
  <2> SUFFICES ASSUME Init PROVE Lifecycle!Init
    OBVIOUS
  <2>1. /\ Server = NewCR(policy.mode) /\ pc = "idle" /\ confirmed = {} /\ retries = 0
        /\ \A id \in OpIds : ops[id] = "unused"
    BY DEF Init, Server
  <2>2. {id \in OpIds : ops[id] # "unused"} = {}
    BY <2>1
  <2>3. Server.live /\ Server.phase = "" /\ ~Server.retry /\ ~Server.consumed /\ ~ServingRetry
    BY <2>1 DEF NewCR, ServingRetry
  <2> HIDE DEF Server
  <2> QED
    BY <2>1, <2>2, <2>3 DEF Ran, Lifecycle!Init
<1>2. TypeOK /\ CoherentInv /\ [Next]_vars => [Lifecycle!Next]_(Lifecycle!vars)
  <2> SUFFICES ASSUME TypeOK, CoherentInv, [Next]_vars
               PROVE  [Lifecycle!Next]_(Lifecycle!vars)
    OBVIOUS
  <2>1. CASE UNCHANGED vars
    BY <2>1 DEF vars, Lifecycle!vars, Server, ServingRetry, Ran
  <2> QED
    BY <2>1, ReconcileLifecycle, CallLifecycle, EnvironmentLifecycle DEF Next
<1> QED
  BY <1>1, <1>2, TypeCorrect, CoherentlyOrdered, PTL DEF Spec, FollowsLifecycle, Lifecycle!Spec

-----------------------------------------------------------------------------
(* One resource per attempt. Requests for a retry and resources are        *)
(* counted against each other: of retries requests, Owed are not served    *)
(* yet, and the present attempt has created at most one resource, or none  *)
(* while it is Fresh. So no id is above retries plus Slack.                *)

Count(b) == IF b THEN 1 ELSE 0

Owed(c, s, l) == Count(s.retry) + Count(c = "save" /\ s.phase = "Failed" /\ l.phase = "Pending")

Fresh(c, s, l) == \/ s.phase \notin {"Executing", "Applied", "Failed"}
                  \/ c = "start"
                  \/ c = "save" /\ l.phase = "WaitingForTarget"

Slack(c, s, l) == Count(~Fresh(c, s, l)) - Owed(c, s, l)

\* Without faults an attempt that was started has noted its resource or its failure,
\* so no backfill starts it again, and the mode does not bring it back to Approved.
Attempted(c, s, l, type) ==
    /\ c \notin Backfilling
    /\ s.live /\ s.phase = "Executing" /\ c \in {"idle", "clearStarts"} \cup Polling
         => s.result # NoResult \/ s.starts >= 1
    /\ c = "saveResult"  => l.result # NoResult
    /\ c = "clearStarts" => s.result # NoResult
    /\ type = "scaling" => /\ c # "defaultMode" /\ (s.phase = "" => s.mode # "")
                           /\ s.mode # "Continuous" /\ l.mode # "Continuous"
    /\ type # "scaling" => /\ s.phase = "Executing" \/ c = "begin" => s.mode # "Continuous"
                           /\ c \in Executings \cup {"begin"} => l.mode # "Continuous"
    /\ c = "save" /\ s.phase = "Executing" => l.phase # "Approved"

AttemptInv ==
    /\ Owed(pc, Server, local) <= retries
    /\ faults = 0 /\ OneShot =>
         /\ Attempted(pc, Server, local, policy.type)
         /\ \A id \in OpIds : ops[id] # "unused" => id <= retries + Slack(pc, Server, local)

\* The counts are numbers.
LEMMA CountType ==
    ASSUME NEW c, NEW s \in CR, NEW l \in CR
    PROVE  /\ Owed(c, s, l) \in {0, 1, 2} /\ Slack(c, s, l) \in {-2, -1, 0, 1}
           /\ Fresh(c, s, l)  => Slack(c, s, l) = -Owed(c, s, l)
           /\ ~Fresh(c, s, l) => Slack(c, s, l) = 1 - Owed(c, s, l)
BY DEF Owed, Slack, Count

\* Nothing is owed for a reconcile, or created by it, when it is over.
LEMMA IdleCounts ==
    ASSUME NEW s, NEW l, NEW m
    PROVE  /\ Owed("idle", s, l) = Owed("idle", s, m)
           /\ Slack("idle", s, l) = Slack("idle", s, m)
           /\ \A type : Attempted("idle", s, l, type) => Attempted("idle", s, Unset, type)
<1>1. Owed("idle", s, l) = Owed("idle", s, m) /\ Fresh("idle", s, l) = Fresh("idle", s, m)
  BY DEF Owed, Fresh
<1>2. Unset.mode = ""
  BY DEF Unset, NewCR
<1> QED
  BY <1>1, <1>2 DEF Slack, Attempted, Executings, Starting, Polling, Backfilling

\* The two numbers depend on the phase and the retry request alone, but before a
\* start and a last patch.
LEMMA SameCounts ==
    ASSUME NEW c, NEW s, NEW l, NEW c2, NEW s2, NEW l2, s2.phase = s.phase, s2.retry = s.retry,
           (c2 = c /\ l2.phase = l.phase) \/ {c, c2} \cap {"start", "save"} = {}
    PROVE  /\ Owed(c2, s2, l2) = Owed(c, s, l)
           /\ Slack(c2, s2, l2) = Slack(c, s, l)
<1>1. Owed(c2, s2, l2) = Owed(c, s, l) /\ Fresh(c2, s2, l2) = Fresh(c, s, l)
  BY DEF Owed, Fresh
<1> QED
  BY <1>1 DEF Slack

\* A step that creates no resource.
LEMMA NoNewResource ==
    ASSUME TypeOK, TypeOK', AttemptInv, retries' = retries, policy' = policy,
           \A id \in OpIds : ops'[id] # "unused" => ops[id] # "unused",
           faults' = 0 => faults = 0,
           Owed(pc', Server', local') <= Owed(pc, Server, local),
           faults' = 0 /\ OneShot => /\ Slack(pc', Server', local') >= Slack(pc, Server, local)
                                     /\ Attempted(pc', Server', local', policy.type)
    PROVE  AttemptInv'
<1>1. /\ Server \in CR /\ local \in CR /\ Server' \in CR /\ local' \in CR /\ retries \in Nat
  BY EndsType, BoundAssumption DEF TypeOK, Server
<1>2. /\ Owed(pc, Server, local) \in Int /\ Slack(pc, Server, local) \in Int
      /\ Owed(pc', Server', local') \in Int /\ Slack(pc', Server', local') \in Int
  BY <1>1, CountType
<1>3. Owed(pc', Server', local') <= retries'
  BY <1>1, <1>2 DEF AttemptInv
<1>4. ASSUME faults' = 0, OneShot, NEW id \in OpIds, ops'[id] # "unused"
      PROVE  id <= retries' + Slack(pc', Server', local')
  <2>1. id <= retries + Slack(pc, Server, local)
    BY <1>4 DEF AttemptInv
  <2>2. id \in Int
    BY BoundAssumption DEF OpIds
  <2> QED
    BY <1>1, <1>2, <1>4, <2>1, <2>2
<1>5. OneShot' = OneShot
  BY DEF OneShot
<1> QED
  BY <1>3, <1>4, <1>5 DEF AttemptInv

\* The reconcile's next call and its copy, if it goes on.
LEMMA ThenCounts ==
    ASSUME NEW next, NEW copy, NEW s, NEW o, NEW n, Then(next, copy),
           Owed(next, s, copy) <= o,
           faults = 0 /\ OneShot => /\ Slack(next, s, copy) >= n
                                    /\ Attempted(next, s, copy, policy.type)
    PROVE  /\ Owed(pc', s, local') <= o
           /\ faults = 0 /\ OneShot => /\ Slack(pc', s, local') >= n
                                       /\ Attempted(pc', s, local', policy.type)
<1>1. CASE next # "idle"
  BY <1>1 DEF Then
<1>2. CASE next = "idle"
  <2>1. pc' = "idle" /\ local' = Unset
    BY <1>2 DEF Then
  <2> QED
    BY <1>2, <2>1, IdleCounts
<1> QED
  BY <1>1, <1>2

\* An accepted patch.
LEMMA WriteAttempt ==
    ASSUME MaxLag = 0, TypeOK, CoherentInv, AttemptInv, TypeOK',
           NEW cr \in CR, NEW next, NEW copy, Write(cr, next, copy),
           Owed(next, cr, copy) <= Owed(pc, Server, local),
           faults = 0 /\ OneShot => /\ Slack(next, cr, copy) >= Slack(pc, Server, local)
                                    /\ Attempted(next, cr, copy, policy.type)
    PROVE  AttemptInv'
<1>1. Server' = cr
  BY OneVersion DEF CoherentInv, Write
<1>2. /\ Then(next, copy) /\ policy' = policy /\ ops' = ops
      /\ retries' = retries /\ faults' = faults
  BY DEF Write, external
<1> QED
  BY <1>1, <1>2, ThenCounts, NoNewResource

\* A step that stores nothing.
LEMMA QuietAttempt ==
    ASSUME TypeOK, AttemptInv, TypeOK', NEW next, NEW copy, Then(next, copy),
           versions' = versions, policy' = policy, retries' = retries, faults' = faults,
           \A id \in OpIds : ops'[id] # "unused" => ops[id] # "unused",
           Owed(next, Server, copy) <= Owed(pc, Server, local),
           faults = 0 /\ OneShot => /\ Slack(next, Server, copy) >= Slack(pc, Server, local)
                                    /\ Attempted(next, Server, copy, policy.type)
    PROVE  AttemptInv'
<1>1. Server' = Server
  BY DEF Server
<1> QED
  BY <1>1, ThenCounts, NoNewResource

\* A step to the next call that stores nothing.
LEMMA ProceedAttempt ==
    ASSUME TypeOK, AttemptInv, TypeOK', NEW next, NEW copy, Proceed(next, copy),
           Owed(next, Server, copy) <= Owed(pc, Server, local),
           faults = 0 /\ OneShot => /\ Slack(next, Server, copy) >= Slack(pc, Server, local)
                                    /\ Attempted(next, Server, copy, policy.type)
    PROVE  AttemptInv'
BY QuietAttempt DEF Proceed, external

\* A failed patch: a fault, or the CR is gone.
LEMMA WriteFailsAttempt ==
    ASSUME TypeOK, AttemptInv, TypeOK', NEW next, NEW copy, WriteFails(next, copy),
           Owed(next, Server, copy) <= Owed(pc, Server, local),
           faults = 0 /\ OneShot /\ ~Server.live
                => /\ Slack(next, Server, copy) >= Slack(pc, Server, local)
                   /\ Attempted(next, Server, copy, policy.type)
    PROVE  AttemptInv'
<1>1. /\ Then(next, copy) /\ versions' = versions /\ policy' = policy
      /\ ops' = ops /\ retries' = retries
  BY DEF WriteFails
<1>2. CASE ~Server.live /\ faults' = faults
  BY <1>1, <1>2, QuietAttempt
<1>3. CASE Fault
  <2>1. faults' # 0
    BY <1>3 DEF Fault, TypeOK
  <2>2. Server' = Server /\ Owed(pc', Server, local') <= Owed(pc, Server, local)
    <3>1. CASE next # "idle"
      BY <1>1, <3>1 DEF Then, Server
    <3>2. CASE next = "idle"
      <4>1. pc' = "idle" /\ local' = Unset /\ Server' = Server
        BY <1>1, <3>2 DEF Then, Server
      <4> QED
        BY <3>2, <4>1, IdleCounts
    <3> QED
      BY <3>1, <3>2
  <2> QED
    BY <1>1, <2>1, <2>2, NoNewResource
<1> QED
  BY <1>2, <1>3 DEF WriteFails, Reachable

\* Giving up.
LEMMA AbandonAttempt ==
    ASSUME TypeOK, AttemptInv, TypeOK', CoherentInv, Abandon
    PROVE  AttemptInv'
<1>1. Server \in CR /\ local \in CR
  BY EndsType DEF TypeOK
<1>2. Owed("idle", Server, local) <= Owed(pc, Server, local)
  BY DEF Owed, Count
<1>3. Fresh("idle", Server, local) => Fresh(pc, Server, local)
  BY DEF Fresh
<1>4. Slack("idle", Server, local) >= Slack(pc, Server, local)
  BY <1>1, <1>2, <1>3, CountType
<1>5. faults = 0 /\ OneShot /\ ~Server.live => Attempted("idle", Server, local, policy.type)
  <2>1. SUFFICES ASSUME faults = 0, OneShot, ~Server.live,
                        Attempted(pc, Server, local, policy.type)
                 PROVE  Attempted("idle", Server, local, policy.type)
    BY DEF AttemptInv
  <2> QED
    BY <2>1 DEF Attempted, Executings, Starting, Polling, Backfilling
<1> QED
  BY <1>2, <1>4, <1>5, WriteFailsAttempt DEF Abandon

\* Beginning a reconcile.
LEMMA ReconcileAttempt ==
    ASSUME MaxLag = 0, TypeOK, CoherentInv, AttemptInv, TypeOK', Reconcile
    PROVE  AttemptInv'
<1>1. Cache = Server /\ Server \in CR /\ local \in CR
  BY OneVersion, EndsType DEF CoherentInv, TypeOK
<1>2. pc = "idle"
  BY DEF Reconcile, ReconcileNew, ReconcilePending, ReconcileApproved, ReconcileWaiting,
     ReconcileRetry, ExecTimedOut, ExecNoResult, ExecPoll, Monitoring, Reconciling
<1>3. faults = 0 /\ OneShot => Attempted("idle", Server, local, policy.type)
  BY <1>2 DEF AttemptInv
<1>4. ASSUME NEW next, NEW copy, Proceed(next, copy), next \notin {"start", "save"},
             faults = 0 /\ OneShot => Attempted(next, Server, copy, policy.type)
      PROVE  AttemptInv'
  <2>1. /\ Owed(next, Server, copy) = Owed(pc, Server, local)
        /\ Slack(next, Server, copy) = Slack(pc, Server, local)
    BY <1>2, <1>4, SameCounts
  <2>2. Owed(pc, Server, local) \in Int /\ Slack(pc, Server, local) \in Int
    BY <1>1, CountType
  <2> QED
    BY <1>4, <2>1, <2>2, ProceedAttempt
<1>5. ASSUME NEW copy, Proceed("save", copy), copy.mode = Server.mode,
             Server.phase \in {"", "Pending", "Approved", "WaitingForTarget"}
      PROVE  AttemptInv'
  <2>1. Owed("save", Server, copy) = Owed(pc, Server, local)
    BY <1>2, <1>5 DEF Owed
  <2>2. Fresh("save", Server, copy) = Fresh(pc, Server, local)
    BY <1>5 DEF Fresh
  <2>3. Slack("save", Server, copy) = Slack(pc, Server, local)
    BY <2>1, <2>2 DEF Slack
  <2>4. Owed(pc, Server, local) \in Int /\ Slack(pc, Server, local) \in Int
    BY <1>1, CountType
  <2>5. faults = 0 /\ OneShot => Attempted("save", Server, copy, policy.type)
    BY <1>3, <1>5 DEF Attempted, Executings, Starting, Polling, Backfilling
  <2>6. /\ Owed("save", Server, copy) <= Owed(pc, Server, local)
        /\ Slack("save", Server, copy) >= Slack(pc, Server, local)
    BY <2>1, <2>3, <2>4
  <2> QED
    BY <1>5, <2>5, <2>6, ProceedAttempt
<1>6. /\ \A phase : InPhase(Server, phase).mode = Server.mode
      /\ Applied(Server).mode = Server.mode
      /\ [Server EXCEPT !.phase = "Executing", !.executedAt = 0].mode = Server.mode
      /\ \A t : [Server EXCEPT !.phase = "Approved", !.consumed = TRUE,
                               !.applied = @ \cup {t}].mode = Server.mode
      /\ \A mode : [Server EXCEPT !.mode = mode].mode = mode
  BY <1>1 DEF InPhase, Applied, CR
<1>7. CASE ReconcileNew
  <2>1. CASE Server.mode = "" /\ Proceed("defaultMode", Server)
    <3>1. faults = 0 /\ OneShot => Attempted("defaultMode", Server, Server, policy.type)
      BY <1>1, <1>3, <1>7, <2>1 DEF Attempted, ReconcileNew, Reconciling, Executings, Starting,
         Polling, Backfilling
    <3> QED
      BY <1>4, <2>1, <3>1
  <2>2. CASE Proceed("save", InPhase(Server, "Pending"))
    BY <1>1, <1>5, <1>6, <1>7, <2>2 DEF ReconcileNew, Reconciling
  <2> QED
    BY <1>1, <1>7, <2>1, <2>2 DEF ReconcileNew
<1>8. CASE ReconcilePending
  <2>1. Server.phase = "Pending"
    BY <1>1, <1>8 DEF ReconcilePending, Reconciling
  <2>2. CASE \E mode \in AgentModes \cup {Server.mode} :
                 Proceed("modifySpec", [Server EXCEPT !.mode = mode])
    <3>1. PICK mode \in AgentModes \cup {Server.mode} :
                 Proceed("modifySpec", [Server EXCEPT !.mode = mode])
      BY <2>2
    <3>2. faults = 0 /\ OneShot
            => Attempted("modifySpec", Server, [Server EXCEPT !.mode = mode], policy.type)
      BY <1>3, <1>6, <2>1, <3>1 DEF Attempted, OneShot, Executings, Starting, Polling, Backfilling
    <3> QED
      BY <1>4, <3>1, <3>2
  <2>3. CASE \E copy \in {Server, InPhase(Server, "Approved"), InPhase(Server, "Rejected")} :
                 Proceed("save", copy)
    BY <1>5, <1>6, <2>1, <2>3
  <2> QED
    BY <1>1, <1>8, <2>2, <2>3 DEF ReconcilePending
<1>9. CASE ReconcileApproved
  <2>1. Server.phase = "Approved"
    BY <1>1, <1>9 DEF ReconcileApproved, Reconciling
  <2> DEFINE copy == [Server EXCEPT !.phase = "Executing", !.executedAt = 0]
  <2>2. CASE Compatible(Server) /\ Proceed("begin", copy)
    <3>1. copy.mode = Server.mode /\ (Server.mode = "Continuous" => policy.type = "scaling")
      BY <1>6, <2>2 DEF Compatible
    <3> HIDE DEF copy
    <3>2. faults = 0 /\ OneShot => Attempted("begin", Server, copy, policy.type)
      BY <1>3, <2>1, <3>1 DEF Attempted, Executings, Starting, Polling, Backfilling
    <3> QED
      BY <1>4, <2>2, <3>2
  <2>3. CASE \E new \in {InPhase(Server, "Rejected"), InPhase(Server, "WaitingForTarget"),
                         Applied(Server)} : Proceed("save", new)
    BY <1>5, <1>6, <2>1, <2>3
  <2> QED
    BY <1>1, <1>9, <2>2, <2>3 DEF ReconcileApproved, MovedToWaiting
<1>10. CASE ReconcileWaiting
  <2>1. Server.phase = "WaitingForTarget"
    BY <1>1, <1>10 DEF ReconcileWaiting, Reconciling
  <2>2. CASE Proceed("rollback", Server)
    <3>1. faults = 0 /\ OneShot => Attempted("rollback", Server, Server, policy.type)
      BY <1>3, <2>1 DEF Attempted, Executings, Starting, Polling, Backfilling
    <3> QED
      BY <1>4, <2>2, <3>1
  <2>3. CASE Proceed("save", Applied(Server))
    BY <1>5, <1>6, <2>1, <2>3
  <2>4. CASE \E t : Proceed("save", [Server EXCEPT !.phase = "Approved", !.consumed = TRUE,
                                                   !.applied = @ \cup {t}])
    BY <1>5, <1>6, <2>1, <2>4
  <2> QED
    BY <1>1, <1>10, <2>2, <2>3, <2>4 DEF ReconcileWaiting
<1>11. CASE ReconcileRetry
  <2>1. Server.phase = "Failed" /\ Proceed("clearRetry", Server)
    BY <1>1, <1>11 DEF ReconcileRetry, Reconciling
  <2>2. faults = 0 /\ OneShot => Attempted("clearRetry", Server, Server, policy.type)
    BY <1>3, <2>1 DEF Attempted, Executings, Starting, Polling, Backfilling
  <2> QED
    BY <1>4, <2>1, <2>2
<1>12. CASE ExecTimedOut \/ ExecNoResult \/ ExecPoll
  <2>1. /\ Server.phase = "Executing" /\ Server.live /\ Server.starts \in Nat
        /\ \E next \in {"rollback", "backfill", "lateBackfill", "poll"} :
              /\ Proceed(next, Server)
              /\ next \in {"backfill", "lateBackfill"}
                    => Server.result = NoResult /\ Server.starts < 1
    BY <1>1, <1>12, FieldTypes
       DEF ExecTimedOut, ExecNoResult, ExecPoll, Monitoring, Reconciling, MayBackfill
  <2>2. PICK next \in {"rollback", "backfill", "lateBackfill", "poll"} :
              /\ Proceed(next, Server)
              /\ next \in {"backfill", "lateBackfill"}
                    => Server.result = NoResult /\ Server.starts < 1
    BY <2>1
  <2>3. faults = 0 /\ OneShot => Attempted(next, Server, Server, policy.type)
    BY <1>3, <2>1, <2>2 DEF Attempted, Executings, Starting, Polling, Backfilling
  <2> QED
    BY <1>4, <2>2, <2>3
<1> QED
  BY <1>7, <1>8, <1>9, <1>10, <1>11, <1>12 DEF Reconcile

\* Patches between two calls other than a start and a last patch.
LEMMA PatchAttempt ==
    ASSUME MaxLag = 0, TypeOK, CoherentInv, AttemptInv, TypeOK',
           NEW cr \in CR, NEW next, NEW copy, Write(cr, next, copy),
           cr.phase = Server.phase, cr.retry = Server.retry,
           {pc, next} \cap {"start", "save"} = {},
           faults = 0 /\ OneShot => Attempted(next, cr, copy, policy.type)
    PROVE  AttemptInv'
<1>1. Server \in CR /\ local \in CR
  BY EndsType DEF TypeOK
<1>2. /\ Owed(next, cr, copy) = Owed(pc, Server, local)
      /\ Slack(next, cr, copy) = Slack(pc, Server, local)
  BY SameCounts
<1>3. Owed(pc, Server, local) \in Int /\ Slack(pc, Server, local) \in Int
  BY <1>1, CountType
<1>4. /\ Owed(next, cr, copy) <= Owed(pc, Server, local)
      /\ Slack(next, cr, copy) >= Slack(pc, Server, local)
  BY <1>2, <1>3
<1> QED
  BY <1>4, WriteAttempt

\* Patching an annotation or the result, after which the reconcile is over or undoes
\* what it did.
LEMMA CounterAttempt ==
    ASSUME MaxLag = 0, TypeOK, CoherentInv, AttemptInv, TypeOK', pc \in Executings, pc # "start",
           NEW new \in CR, NEW next \in {"idle", "rollback"}, NEW copy \in CR,
           Write(new, next, copy),
           new.phase = Server.phase, new.retry = Server.retry, new.mode = Server.mode,
           copy.mode = local.mode,
           faults = 0 /\ OneShot /\ next = "idle" /\ pc \notin Backfilling
                => new.result # NoResult \/ new.starts >= 1
    PROVE  AttemptInv'
<1>1. faults = 0 /\ OneShot => Attempted(pc, Server, local, policy.type)
  BY DEF AttemptInv
<1>2. faults = 0 /\ OneShot => Attempted(next, new, copy, policy.type)
  BY <1>1 DEF Attempted, Executings, Starting, Polling, Backfilling
<1>3. {pc, next} \cap {"start", "save"} = {}
  BY DEF Executings, Starting, Polling, Backfilling
<1> QED
  BY <1>2, <1>3, PatchAttempt

\* A reconcile's last patch.
LEMMA SaveAttempt ==
    ASSUME MaxLag = 0, TypeOK, CoherentInv, AttemptInv, TypeOK', Save
    PROVE  AttemptInv'
<1>1. Cache = Server /\ Server \in CR /\ local \in CR
  BY OneVersion, EndsType DEF CoherentInv, TypeOK
<1> DEFINE new == WithStatus(Server, local)
<1>2. Abandon \/ Write(new, "idle", local)
  BY <1>1, MergeIsStatus DEF Save
<1>3. /\ new \in CR /\ Status(new) = Status(local) /\ new.retry = Server.retry
      /\ new.mode = Server.mode
  BY <1>1, ReplyTypes, ReplyFields
<1>4. pc = "save" /\ Changes(Server, local, confirmed)
  BY DEF Save, CoherentInv, InOrder
<1> HIDE DEF new
<1>5. new.phase = local.phase /\ new.phase \notin {"", "Executing"}
  BY <1>3, <1>4 DEF Status, Changes
<1>6. /\ Server.phase = "Failed"  => Owed("idle", new, local) = Owed(pc, Server, local) - 1
      /\ Server.phase # "Failed" => Owed("idle", new, local) = Owed(pc, Server, local)
  <2>1. Server.phase = "Failed" => local.phase = "Pending"
    BY <1>4 DEF Changes
  <2> QED
    BY <1>3, <1>4, <2>1 DEF Owed, Count
<1>7. /\ Owed("idle", new, local) \in {0, 1, 2} /\ Owed(pc, Server, local) \in {0, 1, 2}
      /\ Fresh("idle", new, local)  => Slack("idle", new, local) = -Owed("idle", new, local)
      /\ ~Fresh("idle", new, local) => Slack("idle", new, local) = 1 - Owed("idle", new, local)
      /\ Fresh(pc, Server, local)   => Slack(pc, Server, local) = -Owed(pc, Server, local)
      /\ ~Fresh(pc, Server, local)  => Slack(pc, Server, local) = 1 - Owed(pc, Server, local)
  BY <1>1, <1>3, CountType
<1>8. Owed("idle", new, local) <= Owed(pc, Server, local)
  BY <1>6, <1>7
<1>9. ASSUME faults = 0, OneShot
      PROVE  Slack("idle", new, local) >= Slack(pc, Server, local)
  <2>1. Attempted(pc, Server, local, policy.type)
    BY <1>9 DEF AttemptInv
  <2>2. CASE Server.phase = "Failed"
    <3>1. ~Fresh(pc, Server, local)
      BY <1>4, <2>2 DEF Fresh, Changes
    <3> QED
      BY <1>6, <1>7, <2>2, <3>1
  <2>3. CASE Server.phase # "Failed"
    <3>1. Fresh("idle", new, local) => Fresh(pc, Server, local)
      BY <1>4, <1>5, <2>1, <2>3 DEF Fresh, Changes, Attempted
    <3> QED
      BY <1>6, <1>7, <2>3, <3>1
  <2> QED
    BY <2>2, <2>3
<1>10. faults = 0 /\ OneShot => Attempted("idle", new, local, policy.type)
  <2>1. faults = 0 /\ OneShot => Attempted(pc, Server, local, policy.type)
    BY DEF AttemptInv
  <2> QED
    BY <1>3, <1>5, <2>1 DEF Attempted, Executings, Starting, Polling, Backfilling
<1> QED
  BY <1>2, <1>3, <1>8, <1>9, <1>10, WriteAttempt, AbandonAttempt

\* A start: without faults the attempt is fresh, and its resource is its first.
LEMMA StartAttempt ==
    ASSUME TypeOK, CoherentInv, AttemptInv, TypeOK', Start
    PROVE  AttemptInv'
<1>1. /\ Server \in CR /\ local \in CR /\ Server' = Server /\ pc = "start"
      /\ Server.phase = "Executing" /\ retries \in Nat /\ retries' = retries /\ policy' = policy
  <2>1. Server \in CR /\ local \in CR /\ retries \in Nat
    BY EndsType, BoundAssumption DEF TypeOK
  <2>2. /\ versions' = versions /\ pc = "start" /\ retries' = retries /\ policy' = policy
    BY DEF Start, Post
  <2>3. Server' = Server
    BY <2>2 DEF Server
  <2>4. Server.phase = "Executing"
    BY <2>2 DEF CoherentInv, InOrder, Executings, Starting
  <2> QED
    BY <2>1, <2>2, <2>3, <2>4
<1>2. /\ pc' \in {"saveResult", "startFailed"}
      /\ pc' = "startFailed" => local' = local
      /\ pc' = "saveResult"  => \E r \in OpIds \cup {NoId} : local' = [local EXCEPT !.result = r]
  BY DEF Start, Post, Then
<1>3. local' \in CR /\ local'.mode = local.mode /\ (pc' = "saveResult" => local'.result # NoResult)
  <2>1. local' \in CR
    BY DEF TypeOK
  <2>2. \A r \in OpIds \cup {NoId} : /\ [local EXCEPT !.result = r].mode = local.mode
                                    /\ [local EXCEPT !.result = r].result # NoResult
    BY <1>1 DEF CR, NoResult, NoId, OpIds
  <2> QED
    BY <1>2, <2>1, <2>2
<1>4. /\ Owed(pc', Server, local') = Owed(pc, Server, local)
      /\ Owed(pc, Server, local) \in {0, 1, 2}
      /\ Slack(pc, Server, local) = -Owed(pc, Server, local)
      /\ Slack(pc', Server, local') = 1 - Owed(pc, Server, local)
  <2>1. Owed(pc', Server, local') = Owed(pc, Server, local)
    BY <1>1, <1>2 DEF Owed
  <2>2. Fresh(pc, Server, local) /\ ~Fresh(pc', Server, local')
    BY <1>1, <1>2 DEF Fresh
  <2> QED
    BY <1>1, <1>3, <2>1, <2>2, CountType
<1>5. OneShot' = OneShot /\ (faults' = 0 => faults = 0)
  <2>1. OneShot' = OneShot
    BY <1>1 DEF OneShot
  <2>2. faults' = faults \/ faults' = faults + 1
    BY PostChanges DEF Start
  <2>3. faults \in Nat
    BY BoundAssumption DEF TypeOK
  <2> QED
    BY <2>1, <2>2, <2>3
<1>6. ASSUME faults = 0, OneShot
      PROVE  Attempted(pc', Server, local', policy.type)
  <2>1. Attempted(pc, Server, local, policy.type)
    BY <1>6 DEF AttemptInv
  <2> QED
    BY <1>1, <1>2, <1>3, <2>1 DEF Attempted, Executings, Starting, Polling, Backfilling
<1>7. ASSUME faults = 0, OneShot, NEW id \in OpIds, ops'[id] # "unused"
      PROVE  id <= retries + 1 - Owed(pc, Server, local)
  <2>1. \A j \in OpIds : ops[j] # "unused" => j <= retries - Owed(pc, Server, local)
    <3>1. \A j \in OpIds : ops[j] # "unused" => j <= retries + Slack(pc, Server, local)
      BY <1>7 DEF AttemptInv
    <3> QED
      BY <1>1, <1>4, <3>1
  <2>2. Owed(pc, Server, local) <= retries
    BY DEF AttemptInv
  <2>3. id \in 1..MaxOps /\ MaxOps \in Nat
    BY BoundAssumption DEF OpIds
  <2>4. CASE ops[id] # "unused"
    BY <1>1, <1>4, <2>1, <2>3, <2>4
  <2>5. CASE ops[id] = "unused"
    <3>1. NewOp(id)
      <4>1. PICK new \in OpIds : NewOp(new) /\ \E state : ops' = [ops EXCEPT ![new] = state]
        BY <1>7, <2>5, PostChanges DEF Start
      <4> QED
        BY <1>7, <2>5, <4>1 DEF TypeOK
    <3>2. id = 1 \/ ops[id - 1] # "unused"
      BY <2>3, <3>1 DEF NewOp
    <3>3. id = 1 \/ id - 1 <= retries - Owed(pc, Server, local)
      BY <2>1, <2>3, <3>2 DEF OpIds
    <3> QED
      BY <1>1, <1>4, <2>2, <2>3, <3>3
  <2> QED
    BY <2>4, <2>5
<1>8. Owed(pc', Server', local') <= retries'
  BY <1>1, <1>4 DEF AttemptInv
<1>9. ASSUME faults' = 0, OneShot, NEW id \in OpIds, ops'[id] # "unused"
      PROVE  id <= retries' + Slack(pc', Server', local')
  <2>1. id <= retries + 1 - Owed(pc, Server, local) /\ id \in Int
    BY <1>5, <1>7, <1>9, BoundAssumption DEF OpIds
  <2> QED
    BY <1>1, <1>4, <2>1
<1> QED
  BY <1>1, <1>5, <1>6, <1>8, <1>9 DEF AttemptInv

\* A step that leaves the stored CR's phase, request and mode alone and creates nothing.
LEMMA StayAttempt ==
    ASSUME TypeOK, AttemptInv, TypeOK', Server' = Server, policy' = policy,
           retries' = retries, faults' = faults, {pc, pc'} \cap {"start", "save"} = {},
           \A id \in OpIds : ops'[id] # "unused" => ops[id] # "unused",
           faults = 0 /\ OneShot => Attempted(pc', Server, local', policy.type)
    PROVE  AttemptInv'
<1>1. Server \in CR /\ local \in CR
  BY EndsType DEF TypeOK
<1>2. /\ Owed(pc', Server, local') = Owed(pc, Server, local)
      /\ Slack(pc', Server, local') = Slack(pc, Server, local)
  BY SameCounts
<1>3. Owed(pc, Server, local) \in Int /\ Slack(pc, Server, local) \in Int
  BY <1>1, CountType
<1>4. /\ Owed(pc', Server, local') <= Owed(pc, Server, local)
      /\ Slack(pc', Server, local') >= Slack(pc, Server, local)
  BY <1>2, <1>3
<1> HIDE DEF Server
<1> QED
  BY <1>4, NoNewResource

\* A failed patch of an execution.
LEMMA FailedPatchAttempt ==
    ASSUME TypeOK, CoherentInv, AttemptInv, TypeOK', pc \in Executings, pc # "start",
           NEW next \in {"startFailed", "idle", "rollback"}, WriteFails(next, local)
    PROVE  AttemptInv'
<1>1. Server \in CR /\ local \in CR
  BY EndsType DEF TypeOK
<1>2. {pc, next} \cap {"start", "save"} = {}
  BY DEF Executings, Starting, Polling, Backfilling
<1>3. /\ Owed(next, Server, local) = Owed(pc, Server, local)
      /\ Slack(next, Server, local) = Slack(pc, Server, local)
  BY <1>2, SameCounts
<1>4. Owed(pc, Server, local) \in Int /\ Slack(pc, Server, local) \in Int
  BY <1>1, CountType
<1>5. /\ Owed(next, Server, local) <= Owed(pc, Server, local)
      /\ Slack(next, Server, local) >= Slack(pc, Server, local)
  BY <1>3, <1>4
<1>6. ASSUME faults = 0, OneShot, ~Server.live
      PROVE  Attempted(next, Server, local, policy.type)
  <2>1. Attempted(pc, Server, local, policy.type)
    BY <1>6 DEF AttemptInv
  <2> QED
    BY <1>6, <2>1 DEF Attempted, Executings, Starting, Polling, Backfilling
<1> QED
  BY <1>5, <1>6, WriteFailsAttempt

\* The backfill is never reached without faults.
LEMMA BackfillAttempt ==
    ASSUME MaxLag = 0, TypeOK, CoherentInv, AttemptInv, TypeOK', Backfill \/ BackfillSave
    PROVE  AttemptInv'
<1>1. Server \in CR /\ local \in CR /\ retries \in Nat /\ faults \in Nat
  BY EndsType, BoundAssumption DEF TypeOK
<1>2. pc \in Backfilling /\ pc # "start" /\ pc # "save" /\ pc \in Executings
  BY DEF Backfill, BackfillSave, Backfilling, Executings
<1>3. ~(faults = 0 /\ OneShot)
  BY <1>2 DEF AttemptInv, Attempted
<1>4. CASE Backfill
  <2>1. /\ versions' = versions /\ policy' = policy /\ retries' = retries
        /\ faults' = faults \/ faults' = faults + 1
        /\ pc' \in {"backfillSave", "lateBackfillSave", "idle", "rollback"}
    BY <1>4, PostChanges DEF Backfill, Post, Then
  <2>2. Server' = Server /\ OneShot' = OneShot /\ ~(faults' = 0 /\ OneShot')
    <3>1. Server' = Server
      BY <2>1 DEF Server
    <3>2. OneShot' = OneShot
      BY <2>1 DEF OneShot
    <3>3. faults' = 0 => faults = 0
      BY <1>1, <2>1
    <3> QED
      BY <1>3, <3>1, <3>2, <3>3
  <2>3. Owed(pc', Server, local') = Owed(pc, Server, local)
    BY <1>2, <2>1 DEF Owed
  <2> QED
    BY <2>1, <2>2, <2>3 DEF AttemptInv
<1>5. CASE BackfillSave
  <2> DEFINE new == [Server EXCEPT !.result = Put(Cache.result, local.result, @)]
  <2>1. \/ Write(new, "backfillMark", WithStatus(local, new))
        \/ \E next \in {"idle", "rollback"} : WriteFails(next, local)
    BY <1>5 DEF BackfillSave, PatchResult
  <2>2. new \in CR /\ new.phase = Server.phase /\ new.retry = Server.retry
    <3>1. local.result \in Results
      BY <1>1, FieldTypes
    <3> QED
      BY <1>1, <3>1, PatchTypes DEF CR
  <2> HIDE DEF new
  <2> QED
    BY <1>2, <1>3, <2>1, <2>2, PatchAttempt, FailedPatchAttempt
<1> QED
  BY <1>4, <1>5

\* Every call of a reconcile.
LEMMA CallAttempt ==
    ASSUME MaxLag = 0, TypeOK, CoherentInv, AttemptInv, TypeOK', Call
    PROVE  AttemptInv'
<1>1. /\ Cache = Server /\ Server \in CR /\ local \in CR
      /\ local.starts \in Nat /\ local.missing \in Nat /\ local.errors \in Nat
      /\ local.mode \in Modes /\ local.result \in Results /\ local.rollback \in Rollbacks
  BY OneVersion, EndsType, FieldTypes DEF CoherentInv, TypeOK
<1>2. InOrder(pc, Server, local, confirmed, policy.auto)
  BY DEF CoherentInv
<1>3. pc \in Executings => Server.phase = "Executing"
  BY <1>2 DEF InOrder
<1>4. faults = 0 /\ OneShot => Attempted(pc, Server, local, policy.type)
  BY DEF AttemptInv
<1>5. /\ Owed(pc, Server, local) \in Int /\ Slack(pc, Server, local) \in Int
  BY <1>1, CountType
<1>6. ASSUME NEW s \in CR, NEW copy \in CR, s.phase = Server.phase, s.retry = Server.retry,
             Server.phase # "Failed", pc # "save", copy.phase # "WaitingForTarget",
             pc # "start"
      PROVE  /\ Owed("save", s, copy) <= Owed(pc, Server, local)
             /\ Slack("save", s, copy) >= Slack(pc, Server, local)
  <2>1. Owed("save", s, copy) = Owed(pc, Server, local)
    BY <1>6 DEF Owed
  <2>2. Fresh("save", s, copy) = Fresh(pc, Server, local)
    BY <1>6 DEF Fresh
  <2>3. Slack("save", s, copy) = Slack(pc, Server, local)
    BY <2>1, <2>2 DEF Slack
  <2> QED
    BY <1>5, <2>1, <2>3
<1> USE DEF Executings, Starting, Polling, Backfilling, Undoing
<1>7. CASE Save
  BY <1>7, SaveAttempt
<1>8. CASE PatchDefaultMode
  <2> DEFINE new  == [Server EXCEPT !.mode = Put(Cache.mode, DefaultMode(policy.type), @)]
             copy == [local EXCEPT !.mode = new.mode, !.phase = "Pending"]
  <2>1. pc = "defaultMode" /\ Server.phase = "" /\ (Abandon \/ Write(new, "save", copy))
    BY <1>2, <1>8 DEF PatchDefaultMode, InOrder
  <2>2. new \in CR /\ new.phase = Server.phase /\ new.retry = Server.retry
    <3>1. DefaultMode(policy.type) \in Modes
      BY DEF DefaultMode, Modes
    <3>2. new = [Server EXCEPT !.mode = DefaultMode(policy.type)]
      BY <1>1, PutCoherent
    <3> QED
      BY <1>1, <3>1, <3>2 DEF CR
  <2> HIDE DEF new
  <2>3. copy \in CR /\ copy.phase = "Pending"
    <3>1. new.mode \in Modes
      BY <2>2, FieldTypes
    <3> QED
      BY <1>1, <3>1 DEF CR, Phases
  <2> HIDE DEF copy
  <2>4. faults = 0 /\ OneShot => Attempted("save", new, copy, policy.type)
    BY <1>4, <2>1, <2>2 DEF Attempted
  <2> QED
    BY <1>6, <2>1, <2>2, <2>3, <2>4, WriteAttempt, AbandonAttempt
<1>9. CASE PatchModifiedSpec
  <2> DEFINE new  == [Server EXCEPT !.mode = Put(Cache.mode, local.mode, @)]
             copy == [local EXCEPT !.mode = new.mode, !.phase = "Approved"]
  <2>1. pc = "modifySpec" /\ Server.phase = "Pending" /\ (Abandon \/ Write(new, "save", copy))
    BY <1>2, <1>9 DEF PatchModifiedSpec, InOrder
  <2>2. /\ new \in CR /\ new.phase = Server.phase /\ new.retry = Server.retry
        /\ new.mode = local.mode
    <3>1. new = [Server EXCEPT !.mode = local.mode]
      BY <1>1, PutCoherent
    <3> QED
      BY <1>1, <3>1 DEF CR
  <2> HIDE DEF new
  <2>3. copy \in CR /\ copy.phase = "Approved" /\ copy.mode = local.mode
    BY <1>1, <2>2 DEF CR, Phases
  <2> HIDE DEF copy
  <2>4. faults = 0 /\ OneShot => Attempted("save", new, copy, policy.type)
    BY <1>4, <2>1, <2>2, <2>3 DEF Attempted
  <2> QED
    BY <1>6, <2>1, <2>2, <2>3, <2>4, WriteAttempt, AbandonAttempt
<1>10. CASE ClearRetry
  <2> DEFINE new  == [Server EXCEPT !.retry = FALSE, !.rollback = Put(local.rollback, "none", @)]
             copy == [new EXCEPT !.phase = "Pending", !.result = NoResult,
                                 !.executedAt = NoTime, !.completedAt = FALSE]
  <2>1. /\ pc = "clearRetry" /\ Server.phase = "Failed" /\ Server.retry
        /\ Abandon \/ Write(new, "save", copy)
    BY <1>2, <1>10 DEF ClearRetry, InOrder
  <2>2. new \in CR /\ new.phase = "Failed" /\ new.retry = FALSE /\ new.mode = Server.mode
    <3>1. new \in CR
      BY <1>1 DEF CR, Put, Rollbacks
    <3> QED
      BY <1>1, <2>1, <3>1 DEF CR
  <2> HIDE DEF new
  <2>3. copy.phase = "Pending" /\ copy.mode = Server.mode
    BY <2>2 DEF CR
  <2> HIDE DEF copy
  <2>4. faults = 0 /\ OneShot => Attempted("save", new, copy, policy.type)
    BY <1>4, <2>1, <2>2, <2>3 DEF Attempted
  <2>5. Owed("save", new, copy) = Owed(pc, Server, local)
    BY <2>1, <2>2, <2>3 DEF Owed, Count
  <2>6. Fresh("save", new, copy) = Fresh(pc, Server, local)
    BY <2>1, <2>2, <2>3 DEF Fresh
  <2>7. /\ Owed("save", new, copy) <= Owed(pc, Server, local)
        /\ Slack("save", new, copy) >= Slack(pc, Server, local)
    BY <1>5, <2>5, <2>6 DEF Slack
  <2> QED
    BY <2>1, <2>2, <2>4, <2>7, WriteAttempt, AbandonAttempt
<1>11. CASE Begin
  <2> DEFINE new  == WithStatus(Server, local)
             copy == WithStatus(local, new)
  <2>1. /\ pc = "begin" /\ Server.phase = "Approved" /\ local.phase = "Executing"
        /\ Abandon \/ Write(new, "start", copy)
    BY <1>1, <1>2, <1>11, MergeIsStatus DEF Begin, InOrder
  <2>2. /\ new \in CR /\ Status(new) = Status(local)
        /\ new.retry = Server.retry /\ new.mode = Server.mode
    BY <1>1, ReplyTypes, ReplyFields
  <2> HIDE DEF new
  <2>3. copy.mode = local.mode /\ new.phase = "Executing"
    BY <1>1, <2>1, <2>2, ReplyFields DEF Status
  <2> HIDE DEF copy
  <2>4. faults = 0 /\ OneShot => Attempted("start", new, copy, policy.type)
    BY <1>4, <2>1, <2>2, <2>3 DEF Attempted
  <2>5. Owed("start", new, copy) = Owed(pc, Server, local)
    BY <2>1, <2>2, <2>3 DEF Owed
  <2>6. Fresh("start", new, copy) = Fresh(pc, Server, local)
    BY <2>1, <2>2, <2>3 DEF Fresh
  <2>7. /\ Owed("start", new, copy) <= Owed(pc, Server, local)
        /\ Slack("start", new, copy) >= Slack(pc, Server, local)
    BY <1>5, <2>5, <2>6 DEF Slack
  <2> QED
    BY <2>1, <2>2, <2>4, <2>7, WriteAttempt, AbandonAttempt
<1>12. CASE Start
  BY <1>12, StartAttempt
<1>13. CASE StartTooEarly
  <2> DEFINE copy == InPhase(local, "WaitingForTarget")
  <2>1. pc = "start" /\ Proceed("save", copy) /\ Server.phase = "Executing"
    BY <1>3, <1>13 DEF StartTooEarly
  <2>2. copy.phase = "WaitingForTarget" /\ copy.mode = local.mode
    BY <1>1 DEF InPhase, CR
  <2> HIDE DEF copy
  <2>3. Owed("save", Server, copy) = Owed(pc, Server, local)
    BY <2>1, <2>2 DEF Owed
  <2>4. Fresh("save", Server, copy) = Fresh(pc, Server, local)
    BY <2>1, <2>2 DEF Fresh
  <2>5. /\ Owed("save", Server, copy) <= Owed(pc, Server, local)
        /\ Slack("save", Server, copy) >= Slack(pc, Server, local)
    BY <1>5, <2>3, <2>4 DEF Slack
  <2>6. faults = 0 /\ OneShot => Attempted("save", Server, copy, policy.type)
    BY <1>4, <2>1, <2>2 DEF Attempted
  <2> QED
    BY <2>1, <2>5, <2>6, ProceedAttempt
<1>14. CASE SaveResult
  <2> DEFINE new  == [Server EXCEPT !.result = Put(Cache.result, local.result, @)]
             copy == WithStatus(local, new)
  <2>1. pc = "saveResult" /\ (WriteFails("startFailed", local) \/ Write(new, "clearStarts", copy))
    BY <1>14 DEF SaveResult, PatchResult
  <2>2. /\ new \in CR /\ new.phase = Server.phase /\ new.retry = Server.retry
        /\ new.mode = Server.mode /\ new.result = local.result
    <3>1. new = [Server EXCEPT !.result = local.result]
      BY <1>1, PutCoherent
    <3> QED
      BY <1>1, <3>1 DEF CR
  <2> HIDE DEF new
  <2>3. copy.mode = local.mode
    BY <1>1, <2>2, ReplyFields
  <2> HIDE DEF copy
  <2>4. faults = 0 /\ OneShot => Attempted("clearStarts", new, copy, policy.type)
    BY <1>4, <2>1, <2>2, <2>3 DEF Attempted
  <2> QED
    BY <2>1, <2>2, <2>4, PatchAttempt, FailedPatchAttempt
<1>15. CASE ClearStarts \/ StartFailed \/ BackfillMark
  <2>1. PICK n \in Nat, next \in {"idle", "rollback"} :
          /\ PatchStarts(n, next) \/ Abandon
          /\ pc = "startFailed" => n >= 1
    BY <1>1, <1>15 DEF ClearStarts, StartFailed, BackfillMark
  <2> DEFINE new  == [Server EXCEPT !.starts = Put(Cache.starts, n, @)]
             copy == WithAnnotations(local, new)
  <2>2. Abandon \/ Write(new, next, copy)
    BY <2>1 DEF PatchStarts
  <2>3. /\ new \in CR /\ new.phase = Server.phase /\ new.retry = Server.retry
        /\ new.mode = Server.mode /\ new.result = Server.result /\ new.starts = n
    <3>1. new = [Server EXCEPT !.starts = n]
      BY <1>1, PutCoherent
    <3> QED
      BY <1>1, <3>1 DEF CR
  <2> HIDE DEF new
  <2>4. copy \in CR /\ copy.mode = local.mode
    BY <1>1, <2>3, ReplyTypes, ReplyFields
  <2> HIDE DEF copy
  <2>5. pc \in {"clearStarts", "startFailed", "backfillMark"}
    BY <1>15 DEF ClearStarts, StartFailed, BackfillMark
  <2>6. faults = 0 /\ OneShot /\ next = "idle" /\ pc \notin Backfilling
           => new.result # NoResult \/ new.starts >= 1
    BY <1>4, <2>1, <2>3, <2>5 DEF Attempted
  <2> QED
    BY <2>2, <2>3, <2>4, <2>5, <2>6, CounterAttempt, AbandonAttempt
<1>16. CASE Backfill \/ BackfillSave
  BY <1>16, BackfillAttempt
<1>17. CASE Poll
  <2>1. /\ pc = "poll" /\ versions' = versions /\ ops' = ops /\ local' = local
        /\ policy' = policy /\ retries' = retries /\ faults' = faults /\ pc' \in Polling
    BY <1>17 DEF Poll
  <2>2. faults = 0 /\ OneShot => Attempted(pc', Server, local', policy.type)
    BY <1>4, <2>1 DEF Attempted
  <2>3. Server' = Server
    BY <2>1 DEF Server
  <2> QED
    BY <2>1, <2>2, <2>3, StayAttempt
<1>18. CASE PollError
  <2>1. /\ pc = "poll" /\ versions' = versions /\ ops' = ops /\ local' = local
        /\ policy' = policy /\ retries' = retries /\ faults' = faults /\ pc' = "countError"
    BY <1>18 DEF PollError, Proceed, Then, external
  <2>2. faults = 0 /\ OneShot => Attempted(pc', Server, local', policy.type)
    BY <1>4, <2>1 DEF Attempted
  <2>3. Server' = Server
    BY <2>1 DEF Server
  <2> QED
    BY <2>1, <2>2, <2>3, StayAttempt
<1>19. CASE ClearAfterPoll
  <2>1. PICK next \in {"save", "rollback", "idle"}, copy \in CR :
          /\ ClearCounters(next, copy)
          /\ next = "save" => pc = "clearDone" /\ copy = Completed(local)
          /\ next # "save" => copy = local
    BY <1>1, <1>19, CopyTypes DEF ClearAfterPoll, Phases
  <2>2. pc \in Polling /\ Server.phase = "Executing"
    BY <1>3, <1>19 DEF ClearAfterPoll
  <2>3. /\ copy.mode = local.mode
        /\ next = "save" => copy.phase # "WaitingForTarget"
        /\ next = "save" /\ local.mode # "Continuous" => copy.phase = "Applied"
    BY <1>1, <2>1 DEF Completed, Applied, CR
  <2>4. ASSUME NEW s \in CR, NEW l \in CR, s.phase = Server.phase, s.retry = Server.retry,
               s.mode = Server.mode, s.result = Server.result, s.starts = Server.starts,
               s.live = Server.live, l.mode = copy.mode, l.phase = copy.phase
        PROVE  /\ faults = 0 /\ OneShot => Attempted(next, s, l, policy.type)
               /\ Owed(next, s, l) <= Owed(pc, Server, local)
               /\ Slack(next, s, l) >= Slack(pc, Server, local)
    <3>1. faults = 0 /\ OneShot => Attempted(next, s, l, policy.type)
      BY <1>4, <2>1, <2>2, <2>3, <2>4 DEF Attempted
    <3>2. CASE next = "save"
      BY <1>6, <2>2, <2>3, <2>4, <3>1, <3>2
    <3>3. CASE next # "save"
      <4>1. {pc, next} \cap {"start", "save"} = {}
        BY <2>2, <3>3
      <4>2. Owed(next, s, l) = Owed(pc, Server, local) /\ Slack(next, s, l) = Slack(pc, Server, local)
        BY <2>4, <4>1, SameCounts
      <4> QED
        BY <1>5, <3>1, <4>2
    <3> QED
      BY <3>2, <3>3
  <2> DEFINE new == [Server EXCEPT !.missing = Put(Cache.missing, 0, @),
                                   !.errors  = Put(Cache.errors, 0, @)]
  <2>5. /\ new \in CR /\ new.phase = Server.phase /\ new.retry = Server.retry
        /\ new.mode = Server.mode /\ new.result = Server.result /\ new.starts = Server.starts
        /\ new.live = Server.live
    BY <1>1, PatchTypes DEF CR
  <2>6. Proceed(next, copy) \/ Write(new, next, WithAnnotations(copy, new)) \/ Abandon
    BY <2>1 DEF ClearCounters
  <2> HIDE DEF new
  <2>7. CASE Proceed(next, copy)
    BY <1>1, <2>1, <2>4, <2>7, ProceedAttempt
  <2>8. CASE Write(new, next, WithAnnotations(copy, new))
    <3>1. /\ WithAnnotations(copy, new) \in CR /\ WithAnnotations(copy, new).mode = copy.mode
          /\ WithAnnotations(copy, new).phase = copy.phase
      BY <2>1, <2>5, ReplyTypes, ReplyFields DEF Status
    <3> QED
      BY <2>4, <2>5, <2>8, <3>1, WriteAttempt
  <2> QED
    BY <2>6, <2>7, <2>8, AbandonAttempt
<1>20. CASE CountMissing \/ CountError
  <2>1. Server.phase = "Executing" /\ pc \in {"countMissing", "countError"}
    BY <1>3, <1>20 DEF CountMissing, CountError
  <2>2. ASSUME NEW new \in CR, NEW next \in {"idle", "rollback"},
               Write(new, next, WithAnnotations(local, new)),
               new.phase = Server.phase, new.retry = Server.retry, new.mode = Server.mode,
               new.result = Server.result, new.starts = Server.starts
        PROVE  AttemptInv'
    <3>1. WithAnnotations(local, new) \in CR /\ WithAnnotations(local, new).mode = local.mode
      BY <1>1, <2>2, ReplyTypes, ReplyFields
    <3>2. Server.live
      BY <2>2 DEF Write, Reachable
    <3>3. faults = 0 /\ OneShot => new.result # NoResult \/ new.starts >= 1
      BY <1>4, <2>1, <2>2, <3>2 DEF Attempted
    <3> QED
      BY <2>1, <2>2, <3>1, <3>3, CounterAttempt
  <2>3. CASE CountMissing
    <3> DEFINE n   == local.missing + 1
               new == [Server EXCEPT !.missing = Put(Cache.missing, n, @)]
    <3>1. Abandon \/ \E next \in {"idle", "rollback"} : Write(new, next, WithAnnotations(local, new))
      BY <2>3 DEF CountMissing
    <3>2. new \in CR
      <4>1. n \in Nat
        BY <1>1
      <4> HIDE DEF n
      <4> QED
        BY <4>1, PatchTypes
    <3>3. /\ new.phase = Server.phase /\ new.retry = Server.retry /\ new.mode = Server.mode
          /\ new.result = Server.result /\ new.starts = Server.starts
      BY <1>1 DEF CR
    <3> HIDE DEF new
    <3> QED
      BY <2>2, <3>1, <3>2, <3>3, AbandonAttempt
  <2>4. CASE CountError
    <3> DEFINE n   == local.errors + 1
               new == [Server EXCEPT !.errors = Put(Cache.errors, n, @)]
    <3>1. Abandon \/ \E next \in {"idle", "rollback"} : Write(new, next, WithAnnotations(local, new))
      BY <2>4 DEF CountError
    <3>2. new \in CR
      <4>1. n \in Nat
        BY <1>1
      <4> HIDE DEF n
      <4> QED
        BY <4>1, PatchTypes
    <3>3. /\ new.phase = Server.phase /\ new.retry = Server.retry /\ new.mode = Server.mode
          /\ new.result = Server.result /\ new.starts = Server.starts
      BY <1>1 DEF CR
    <3> HIDE DEF new
    <3> QED
      BY <2>2, <3>1, <3>2, <3>3, AbandonAttempt
  <2> QED
    BY <1>20, <2>3, <2>4
<1>21. CASE Rollback
  <2>1. /\ pc = "rollback" /\ pc' = "saveRollback" /\ versions' = versions
        /\ policy' = policy /\ retries' = retries /\ faults' = faults
        /\ ops' = ops \/ (local.result \in OpIds /\ ops' = [ops EXCEPT ![local.result] = "gone"])
        /\ \E outcome \in Rollbacks : local' = [local EXCEPT !.rollback = outcome]
    BY <1>21 DEF Rollback, Then
  <2>2. \A id \in OpIds : ops'[id] # "unused" => ops[id] # "unused"
    BY <2>1 DEF CoherentInv, Truthful, TypeOK
  <2>3. local'.mode = local.mode /\ Server' = Server
    BY <1>1, <2>1 DEF CR, Server
  <2>4. faults = 0 /\ OneShot => Attempted(pc', Server, local', policy.type)
    BY <1>4, <2>1, <2>3 DEF Attempted
  <2> QED
    BY <2>1, <2>2, <2>3, <2>4, StayAttempt
<1>22. CASE SaveRollback
  <2> DEFINE new  == [Server EXCEPT !.rollback = local.rollback]
             copy == [new EXCEPT !.phase = "Failed", !.completedAt = TRUE, !.result = FailText]
  <2>1. /\ pc = "saveRollback" /\ Server.phase # "Failed"
        /\ Abandon \/ Write(new, "save", copy)
    BY <1>2, <1>22 DEF SaveRollback, InOrder
  <2>2. /\ new \in CR /\ new.phase = Server.phase /\ new.retry = Server.retry
        /\ new.mode = Server.mode
    BY <1>1 DEF CR
  <2> HIDE DEF new
  <2>3. copy \in CR /\ copy.phase = "Failed" /\ copy.mode = Server.mode
    BY <2>2 DEF CR, Phases, Results, FailText
  <2> HIDE DEF copy
  <2>4. faults = 0 /\ OneShot => Attempted("save", new, copy, policy.type)
    BY <1>4, <2>1, <2>2, <2>3 DEF Attempted
  <2> QED
    BY <1>6, <2>1, <2>2, <2>3, <2>4, WriteAttempt, AbandonAttempt
<1> QED
  BY <1>7, <1>8, <1>9, <1>10, <1>11, <1>12, <1>13, <1>14, <1>15, <1>16, <1>17, <1>18, <1>19,
     <1>20, <1>21, <1>22 DEF Call

\* Time, crashes, users, targets and the operator.
LEMMA EnvironmentAttempt ==
    ASSUME MaxLag = 0, TypeOK, CoherentInv, AttemptInv, TypeOK',
           Deliver \/ Tick \/ Crash \/ User \/ Operator \/ TargetAppears
    PROVE  AttemptInv'
<1>1. /\ Server \in CR /\ local \in CR /\ Len(versions) = 1 /\ retries \in Nat /\ faults \in Nat
      /\ InOrder(pc, Server, local, confirmed, policy.auto)
  BY EndsType, BoundAssumption DEF CoherentInv, TypeOK
<1>2. /\ Owed(pc, Server, local) \in Int /\ Slack(pc, Server, local) \in Int
  BY <1>1, CountType
<1>3. faults = 0 /\ OneShot => Attempted(pc, Server, local, policy.type)
  BY DEF AttemptInv
<1>4. ASSUME pc' = pc, policy' = policy, retries' = retries, faults' = faults,
             Server'.phase = Server.phase, Server'.retry = Server.retry,
             Server'.mode = Server.mode, Server'.result = Server.result,
             Server'.starts = Server.starts, Server'.live => Server.live,
             local'.phase = local.phase, local'.mode = local.mode, local'.result = local.result,
             \A id \in OpIds : ops'[id] # "unused" => ops[id] # "unused"
      PROVE  AttemptInv'
  <2>1. /\ Owed(pc', Server', local') = Owed(pc, Server, local)
        /\ Slack(pc', Server', local') = Slack(pc, Server, local)
    BY <1>4, SameCounts
  <2>2. /\ Owed(pc', Server', local') <= Owed(pc, Server, local)
        /\ Slack(pc', Server', local') >= Slack(pc, Server, local)
    BY <1>2, <2>1
  <2> HIDE DEF Server
  <2>3. faults' = 0 /\ OneShot => Attempted(pc', Server', local', policy.type)
    BY <1>3, <1>4 DEF Attempted
  <2> QED
    BY <1>4, <2>2, <2>3, NoNewResource
<1>5. CASE Deliver
  BY <1>1, <1>5 DEF Deliver
<1>6. CASE Tick
  <2>1. /\ Server' = Older(Server) /\ local' = Older(local) /\ pc' = pc /\ policy' = policy
        /\ retries' = retries /\ faults' = faults /\ ops' = ops
    BY <1>1, <1>6, TickCoherent DEF Tick, external
  <2>2. \A cr \in CR : /\ Older(cr).phase = cr.phase /\ Older(cr).retry = cr.retry
                       /\ Older(cr).mode = cr.mode /\ Older(cr).result = cr.result
                       /\ Older(cr).starts = cr.starts /\ Older(cr).live = cr.live
    BY OlderFields
  <2> HIDE DEF Older
  <2> QED
    BY <1>1, <1>4, <2>1, <2>2
<1>7. CASE Crash
  <2>1. /\ Server' = Server /\ pc' = "idle" /\ local' = Unset /\ policy' = policy
        /\ retries' = retries /\ ops' = ops /\ faults' # 0
    BY <1>1, <1>7 DEF Crash, Then, Fault, Server
  <2>2. Owed("idle", Server, local) <= Owed(pc, Server, local)
    BY DEF Owed, Count
  <2>3. Owed(pc', Server', local') <= Owed(pc, Server, local)
    BY <2>1, <2>2, IdleCounts
  <2> QED
    BY <2>1, <2>3, NoNewResource
<1>8. CASE UserApprove
  <2>1. [Server EXCEPT !.phase = "Approved"] \in CR
    BY <1>1, CopyTypes DEF InPhase, Phases
  <2>2. Server' = [Server EXCEPT !.phase = "Approved"]
    BY <1>1, <1>8, <2>1, OneVersion DEF UserApprove, UserWrites
  <2>3. /\ pc = "idle" /\ Server.phase = "Pending" /\ pc' = pc /\ local' = local
        /\ policy' = policy /\ retries' = retries /\ faults' = faults /\ ops' = ops
    BY <1>1, <1>8 DEF InOrder, UserApprove, UserWrites
  <2>4. /\ Server'.phase = "Approved" /\ Server'.retry = Server.retry
        /\ Server'.mode = Server.mode
    BY <1>1, <2>2 DEF CR
  <2> HIDE DEF Server
  <2>5. Owed(pc', Server', local') = Owed(pc, Server, local)
    BY <2>3, <2>4 DEF Owed
  <2>6. Fresh(pc', Server', local') = Fresh(pc, Server, local)
    BY <2>3, <2>4 DEF Fresh
  <2>7. Slack(pc', Server', local') = Slack(pc, Server, local)
    BY <2>5, <2>6 DEF Slack
  <2>8. faults' = 0 /\ OneShot => Attempted(pc', Server', local', policy.type)
    BY <1>3, <2>3, <2>4 DEF Attempted, Executings, Starting, Polling, Backfilling
  <2>9. /\ Owed(pc', Server', local') <= Owed(pc, Server, local)
        /\ Slack(pc', Server', local') >= Slack(pc, Server, local)
    BY <1>2, <2>5, <2>7
  <2> QED
    BY <2>3, <2>8, <2>9, NoNewResource
<1>9. CASE UserRetry
  <2>1. [Server EXCEPT !.retry = TRUE] \in CR
    BY <1>1 DEF CR
  <2>2. Server' = [Server EXCEPT !.retry = TRUE]
    BY <1>1, <1>9, <2>1, OneVersion DEF UserRetry, UserWrites
  <2>3. /\ ~Server.retry /\ pc' = pc /\ local' = local /\ policy' = policy
        /\ retries' = retries + 1 /\ faults' = faults /\ ops' = ops
    BY <1>9 DEF UserRetry, UserWrites
  <2>4. /\ Server'.phase = Server.phase /\ Server'.retry /\ Server'.mode = Server.mode
        /\ Server'.result = Server.result /\ Server'.starts = Server.starts
        /\ Server'.live = Server.live
    BY <1>1, <2>2 DEF CR
  <2> HIDE DEF Server
  <2>5. Owed(pc', Server', local') = Owed(pc, Server, local) + 1
    BY <2>3, <2>4 DEF Owed, Count
  <2>6. Fresh(pc', Server', local') = Fresh(pc, Server, local)
    BY <2>3, <2>4 DEF Fresh
  <2>7. Slack(pc', Server', local') = Slack(pc, Server, local) - 1
    BY <1>2, <2>5, <2>6 DEF Slack, Count
  <2>8. faults = 0 /\ OneShot => Attempted(pc', Server', local', policy.type)
    BY <1>3, <2>3, <2>4 DEF Attempted
  <2>9. retries' + Slack(pc', Server', local') = retries + Slack(pc, Server, local)
    BY <1>1, <1>2, <2>3, <2>7
  <2>10. Owed(pc', Server', local') <= retries'
    BY <1>1, <1>2, <2>3, <2>5 DEF AttemptInv
  <2>11. OneShot' = OneShot
    BY <2>3 DEF OneShot
  <2> QED
    BY <2>3, <2>8, <2>9, <2>10, <2>11 DEF AttemptInv
<1>10. CASE UserDelete
  <2>1. [Server EXCEPT !.live = FALSE] \in CR
    BY <1>1 DEF CR
  <2>2. Server' = [Server EXCEPT !.live = FALSE]
    BY <1>1, <1>10, <2>1, OneVersion DEF UserDelete, UserWrites
  <2>3. /\ pc' = pc /\ local' = local /\ policy' = policy
        /\ retries' = retries /\ faults' = faults /\ ops' = ops
    BY <1>10 DEF UserDelete, UserWrites
  <2>4. /\ Server'.phase = Server.phase /\ Server'.retry = Server.retry
        /\ Server'.mode = Server.mode /\ Server'.result = Server.result
        /\ Server'.starts = Server.starts /\ Server'.live = FALSE
    BY <1>1, <2>2 DEF CR
  <2> HIDE DEF Server
  <2> QED
    BY <1>4, <2>3, <2>4
<1>11. CASE Operator \/ TargetAppears
  <2>1. /\ pc' = pc /\ local' = local /\ policy' = policy /\ retries' = retries
        /\ faults' = faults /\ Server' = Server
        /\ ops' = ops \/ \E id \in OpIds, to \in OpStates : ops[id] # "unused" /\ ops' = [ops EXCEPT ![id] = to]
    BY <1>11 DEF Operator, OperatorFinishes, OperatorForgets, OperatorChanges, TargetAppears, Server, OpStates
  <2>2. \A id \in OpIds : ops'[id] # "unused" => ops[id] # "unused"
    BY <2>1 DEF TypeOK
  <2> HIDE DEF Server
  <2> QED
    BY <1>4, <2>1, <2>2
<1> QED
  BY <1>5, <1>6, <1>7, <1>8, <1>9, <1>10, <1>11 DEF User

\* The counts hold in every reachable state.
THEOREM AttemptsCounted ==
    ASSUME MaxLag = 0
    PROVE  Spec => []AttemptInv
<1>1. Init => AttemptInv
  <2> SUFFICES ASSUME Init PROVE AttemptInv
    OBVIOUS
  <2>1. /\ Server = NewCR(policy.mode) /\ local = Unset /\ pc = "idle" /\ retries = 0
        /\ \A id \in OpIds : ops[id] = "unused"
    BY DEF Init, Server
  <2>2. /\ Server.phase = "" /\ Server.retry = FALSE /\ Server.mode = policy.mode
        /\ local.mode = ""
    BY <2>1 DEF NewCR, Unset
  <2> HIDE DEF Server
  <2>3. Owed(pc, Server, local) = 0
    <3>1. ~Server.retry /\ ~(pc = "save" /\ Server.phase = "Failed" /\ local.phase = "Pending")
      BY <2>1, <2>2
    <3> QED
      BY <3>1 DEF Owed, Count
  <2>4. OneShot => Attempted(pc, Server, local, policy.type)
    BY <2>1, <2>2 DEF Attempted, OneShot, Executings, Starting, Polling, Backfilling
  <2> QED
    BY <2>1, <2>3, <2>4 DEF AttemptInv
<1>2. TypeOK /\ TypeOK' /\ CoherentInv /\ AttemptInv /\ [Next]_vars => AttemptInv'
  <2> SUFFICES ASSUME TypeOK, TypeOK', CoherentInv, AttemptInv, [Next]_vars PROVE AttemptInv'
    OBVIOUS
  <2>1. CASE UNCHANGED vars
    BY <2>1 DEF vars, AttemptInv, Server, OneShot
  <2> QED
    BY <2>1, ReconcileAttempt, CallAttempt, EnvironmentAttempt DEF Next
<1> QED
  BY <1>1, <1>2, TypeCorrect, CoherentlyOrdered, PTL DEF Spec

\* A call leaves the policy's spec and the requests alone, and fails at most once.
LEMMA CallFaults ==
    ASSUME Call
    PROVE  /\ policy' = policy /\ retries' = retries
           /\ faults' = faults \/ faults' = faults + 1
<1>1. \A cr, next, copy : Write(cr, next, copy)
        => policy' = policy /\ retries' = retries /\ faults' = faults
  BY DEF Write, external
<1>2. \A next, copy : WriteFails(next, copy)
        => /\ policy' = policy /\ retries' = retries
           /\ faults' = faults \/ faults' = faults + 1
  BY DEF WriteFails, Fault
<1>3. \A next, copy : Proceed(next, copy)
        => policy' = policy /\ retries' = retries /\ faults' = faults
  BY DEF Proceed, external
<1>4. \A ok, ko : Post(ok, ko)
        => /\ policy' = policy /\ retries' = retries
           /\ faults' = faults \/ faults' = faults + 1
  BY DEF Post, Fault
<1> HIDE DEF Server, Cache
<1> QED
  BY <1>1, <1>2, <1>3, <1>4
     DEF Call, Save, PatchDefaultMode, PatchModifiedSpec, ClearRetry, Begin, Start,
     StartTooEarly, SaveResult, ClearStarts, StartFailed, Backfill, BackfillSave, BackfillMark,
     Poll, PollError, ClearAfterPoll, CountMissing, CountError, Rollback, SaveRollback,
     Abandon, PatchResult, PatchStarts, ClearCounters

-----------------------------------------------------------------------------
(* The streaks. Each failed write, and each request for a retry that has   *)
(* been served, lets the monitored streaks grow by one beyond their limit. *)
(* A streak that has reached it leaves only calls that fail the policy:    *)
(* the reconcile is Eager to go on otherwise, and then the streaks are     *)
(* below.                                                                  *)

Eager(c, s, l) == s.phase # "Failed" /\ c \notin Undoing /\ ~(c = "save" /\ l.phase = "Failed")

Spent == faults + retries - Owed(pc, Server, local)

Borne(c, s, l, n) ==
    s.live => /\ s.missing <= Max404 + n /\ s.errors <= MaxErr + n
              /\ Eager(c, s, l) => s.missing < Max404 + n /\ s.errors < MaxErr + n

SameStreaks(a, b) == a.missing = b.missing /\ a.errors = b.errors

StreakInv ==
    /\ pc # "idle" => SameStreaks(local, Server)
    /\ Borne(pc, Server, local, Spent)

\* The numbers the streaks are compared with.
LEMMA StreakTypes ==
    ASSUME TypeOK, AttemptInv
    PROVE  /\ Server \in CR /\ local \in CR /\ Server.missing \in Nat /\ Server.errors \in Nat
           /\ Owed(pc, Server, local) \in 0..2 /\ faults \in Nat /\ retries \in Nat
           /\ Spent \in Nat /\ Max404 \in Nat \ {0} /\ MaxErr \in Nat \ {0}
<1>1. Server \in CR /\ local \in CR /\ faults \in Nat /\ retries \in Nat
  BY EndsType, BoundAssumption DEF TypeOK
<1>2. Server.missing \in Nat /\ Server.errors \in Nat
  BY <1>1, FieldTypes
<1>3. Owed(pc, Server, local) \in 0..2
  BY <1>1, CountType
<1>4. Owed(pc, Server, local) <= retries
  BY DEF AttemptInv
<1>5. Spent \in Nat
  BY <1>1, <1>3, <1>4 DEF Spent
<1> QED
  BY <1>1, <1>2, <1>3, <1>5, LimitAssumption

\* A step that lets neither streak grow, after which the reconcile is eager only if
\* it was, or if more is spent.
LEMMA NoLongerStreak ==
    ASSUME TypeOK, AttemptInv, StreakInv, TypeOK', AttemptInv',
           pc' # "idle" => SameStreaks(local', Server'),
           Server'.live => /\ Server.live /\ Spent' >= Spent
                           /\ Server'.missing <= Server.missing
                           /\ Server'.errors <= Server.errors
                           /\ \/ Eager(pc', Server', local') => Eager(pc, Server, local)
                              \/ Spent' > Spent
    PROVE  StreakInv'
<1>1. SUFFICES ASSUME Server'.live
               PROVE  Borne(pc', Server', local', Spent')
  BY DEF StreakInv, Borne
<1>2. /\ Server.missing <= Max404 + Spent /\ Server.errors <= MaxErr + Spent
      /\ Eager(pc, Server, local)
            => Server.missing < Max404 + Spent /\ Server.errors < MaxErr + Spent
  BY <1>1 DEF StreakInv, Borne
<1>3. /\ Server.missing \in Nat /\ Server.errors \in Nat /\ Spent \in Nat
      /\ Server'.missing \in Nat /\ Server'.errors \in Nat /\ Spent' \in Nat
      /\ Max404 \in Nat /\ MaxErr \in Nat
  <2>1. Server' \in CR
    BY EndsType DEF TypeOK, Server
  <2>2. Server'.missing \in Nat /\ Server'.errors \in Nat
    BY <2>1, FieldTypes
  <2>3. Owed(pc, Server, local)' \in 0..2 /\ faults' \in Nat /\ retries' \in Nat
    <3>1. local' \in CR /\ faults' \in Nat /\ retries' \in Nat
      BY BoundAssumption DEF TypeOK
    <3> QED
      BY <2>1, <3>1, CountType
  <2>4. Spent' \in Nat
    <3>1. Owed(pc, Server, local)' <= retries'
      BY DEF AttemptInv
    <3> QED
      BY <2>3, <3>1 DEF Spent
  <2> QED
    BY <2>2, <2>4, StreakTypes
<1>4. Server'.missing <= Max404 + Spent' /\ Server'.errors <= MaxErr + Spent'
  BY <1>1, <1>2, <1>3
<1>5. ASSUME Eager(pc', Server', local')
      PROVE  Server'.missing < Max404 + Spent' /\ Server'.errors < MaxErr + Spent'
  <2>1. CASE Spent' > Spent
    BY <1>1, <1>2, <1>3, <2>1
  <2>2. CASE Eager(pc, Server, local)
    BY <1>1, <1>2, <1>3, <2>2
  <2> QED
    BY <1>1, <1>5, <2>1, <2>2
<1> QED
  BY <1>4, <1>5 DEF Borne

\* What is owed, and whether the reconcile is eager, when its next call and its copy
\* are known.
LEMMA ThenStreak ==
    ASSUME NEW next, NEW copy, NEW s, Then(next, copy), next # "idle" => SameStreaks(copy, s)
    PROVE  /\ Owed(pc', s, local') = Owed(next, s, copy)
           /\ Eager(pc', s, local') <=> Eager(next, s, copy)
           /\ pc' # "idle" => SameStreaks(local', s)
<1>1. CASE next # "idle"
  BY <1>1 DEF Then
<1>2. CASE next = "idle"
  <2>1. pc' = "idle" /\ local' = Unset
    BY <1>2 DEF Then
  <2>2. Owed("idle", s, Unset) = Owed("idle", s, copy)
    BY DEF Owed
  <2> QED
    BY <1>2, <2>1, <2>2 DEF Eager
<1> QED
  BY <1>1, <1>2

\* Nothing more is owed when the request stays and no retry is being saved.
LEMMA OwedNoMore ==
    ASSUME TypeOK, NEW next, NEW cr, NEW copy, cr.retry = Server.retry,
           next # "save" \/ cr.phase # "Failed"
    PROVE  Owed(next, cr, copy) <= Owed(pc, Server, local)
<1>1. Owed(next, cr, copy) = Count(Server.retry) + 0
  BY DEF Owed, Count
<1>2. /\ Count(Server.retry) \in {0, 1}
      /\ Count(pc = "save" /\ Server.phase = "Failed" /\ local.phase = "Pending") \in {0, 1}
  BY DEF Count
<1> QED
  BY <1>1, <1>2 DEF Owed

\* An accepted patch that lets neither streak grow.
LEMMA WriteStreak ==
    ASSUME MaxLag = 0, TypeOK, CoherentInv, AttemptInv, StreakInv, TypeOK', AttemptInv',
           NEW cr \in CR, NEW next, NEW copy, Write(cr, next, copy),
           cr.missing <= Server.missing, cr.errors <= Server.errors,
           next # "idle" => SameStreaks(copy, cr),
           Owed(next, cr, copy) <= Owed(pc, Server, local),
           \/ Eager(next, cr, copy) => Eager(pc, Server, local)
           \/ Owed(next, cr, copy) < Owed(pc, Server, local)
    PROVE  StreakInv'
<1>1. Server' = cr
  BY OneVersion DEF CoherentInv, Write
<1>2. Then(next, copy) /\ retries' = retries /\ faults' = faults /\ Server.live
  BY DEF Write, external, Reachable
<1>3. /\ Owed(pc', cr, local') = Owed(next, cr, copy)
      /\ Eager(pc', cr, local') <=> Eager(next, cr, copy)
      /\ pc' # "idle" => SameStreaks(local', cr)
  BY <1>2, ThenStreak
<1>4. Spent' = faults + retries - Owed(next, cr, copy)
  BY <1>1, <1>2, <1>3 DEF Spent
<1>5. Owed(next, cr, copy) \in Int
  <2>1. local' \in CR
    BY DEF TypeOK
  <2> QED
    BY <1>3, <2>1, CountType
<1>6. /\ Spent' >= Spent
      /\ Owed(next, cr, copy) < Owed(pc, Server, local) => Spent' > Spent
  <2>1. Owed(pc, Server, local) \in 0..2 /\ faults \in Nat /\ retries \in Nat
    BY StreakTypes
  <2> QED
    BY <1>4, <1>5, <2>1 DEF Spent
<1> QED
  BY <1>1, <1>2, <1>3, <1>6, NoLongerStreak

\* A patch of a policy that is not Failed, between calls that undo nothing.
LEMMA PatchStreak ==
    ASSUME MaxLag = 0, TypeOK, CoherentInv, AttemptInv, StreakInv, TypeOK', AttemptInv',
           NEW cr \in CR, NEW next, NEW copy, Write(cr, next, copy),
           cr.missing <= Server.missing, cr.errors <= Server.errors, cr.retry = Server.retry,
           next # "idle" => SameStreaks(copy, cr), next # "save" \/ cr.phase # "Failed",
           Server.phase # "Failed", pc # "save", pc \notin Undoing
    PROVE  StreakInv'
<1>1. Owed(next, cr, copy) <= Owed(pc, Server, local)
  BY OwedNoMore
<1>2. Eager(pc, Server, local)
  BY DEF Eager
<1> QED
  BY <1>1, <1>2, WriteStreak

\* A failed patch: more is spent, or the CR is gone.
LEMMA WriteFailsStreak ==
    ASSUME TypeOK, AttemptInv, StreakInv, TypeOK', AttemptInv',
           NEW next, WriteFails(next, local), next # "save", pc # "idle"
    PROVE  StreakInv'
<1>1. Then(next, local) /\ versions' = versions /\ retries' = retries
  BY DEF WriteFails
<1>2. Server' = Server
  BY <1>1 DEF Server
<1>3. SameStreaks(local, Server)
  BY DEF StreakInv
<1>4. /\ Owed(pc', Server, local') = Owed(next, Server, local)
      /\ pc' # "idle" => SameStreaks(local', Server)
  BY <1>1, <1>3, ThenStreak
<1>5. Owed(next, Server, local) <= Owed(pc, Server, local)
  BY OwedNoMore
<1>6. CASE ~Server.live
  BY <1>2, <1>4, <1>6, NoLongerStreak
<1>7. CASE Fault
  <2>1. Spent' = faults + 1 + retries - Owed(next, Server, local)
    BY <1>1, <1>2, <1>4, <1>7 DEF Spent, Fault
  <2>2. Owed(pc, Server, local) \in 0..2 /\ faults \in Nat /\ retries \in Nat
    BY StreakTypes
  <2>3. Owed(next, Server, local) \in Int
    <3>1. Server \in CR /\ local \in CR
      BY StreakTypes
    <3> QED
      BY <3>1, CountType
  <2>4. Spent' > Spent /\ Spent' >= Spent
    BY <1>5, <2>1, <2>2, <2>3 DEF Spent
  <2>5. Server.missing \in Nat /\ Server.errors \in Nat
    BY StreakTypes
  <2>6. Server'.live => Server.live /\ Server'.missing <= Server.missing /\ Server'.errors <= Server.errors
    BY <1>2, <2>5
  <2> QED
    BY <1>2, <1>4, <2>4, <2>6, NoLongerStreak
<1> QED
  BY <1>6, <1>7 DEF WriteFails, Reachable

\* A step that stores nothing, of a policy that is not Failed.
LEMMA QuietStreak ==
    ASSUME TypeOK, AttemptInv, StreakInv, TypeOK', AttemptInv',
           NEW next, NEW copy, Then(next, copy), versions' = versions, retries' = retries,
           faults' = faults \/ faults' = faults + 1,
           next # "idle" => SameStreaks(copy, Server),
           Owed(next, Server, copy) <= Owed(pc, Server, local),
           Eager(next, Server, copy) => Eager(pc, Server, local)
    PROVE  StreakInv'
<1>1. Server' = Server
  BY DEF Server
<1>2. /\ Owed(pc', Server, local') = Owed(next, Server, copy)
      /\ Eager(pc', Server, local') <=> Eager(next, Server, copy)
      /\ pc' # "idle" => SameStreaks(local', Server)
  BY ThenStreak
<1>3. Spent' = faults' + retries - Owed(next, Server, copy)
  BY <1>1, <1>2 DEF Spent
<1>4. /\ Owed(pc, Server, local) \in 0..2 /\ faults \in Nat /\ retries \in Nat
      /\ Server.missing \in Nat /\ Server.errors \in Nat
  BY StreakTypes
<1>5. Owed(next, Server, copy) \in Int
  <2>1. Server \in CR /\ local' \in CR
    BY StreakTypes DEF TypeOK
  <2> QED
    BY <1>2, <2>1, CountType
<1>6. Spent' >= Spent
  BY <1>3, <1>4, <1>5 DEF Spent
<1>7. Server'.missing <= Server.missing /\ Server'.errors <= Server.errors
  BY <1>1, <1>4
<1> QED
  BY <1>1, <1>2, <1>6, <1>7, NoLongerStreak

\* The streaks of the copies that a reconcile works with.
LEMMA CopyStreaks ==
    ASSUME NEW cr \in CR, NEW reply \in CR
    PROVE  /\ SameStreaks(WithStatus(cr, reply), cr) /\ SameStreaks(WithAnnotations(cr, reply), reply)
           /\ SameStreaks(Applied(cr), cr) /\ SameStreaks(Completed(cr), cr)
           /\ \A x : /\ SameStreaks(InPhase(cr, x), cr)
                     /\ SameStreaks([cr EXCEPT !.mode = x], cr)
                     /\ SameStreaks([cr EXCEPT !.starts = x], cr)
                     /\ SameStreaks([cr EXCEPT !.result = x], cr)
                     /\ SameStreaks([cr EXCEPT !.rollback = x], cr)
           /\ \A x, y : /\ SameStreaks([cr EXCEPT !.retry = x, !.rollback = y], cr)
                        /\ SameStreaks([cr EXCEPT !.mode = x, !.phase = y], cr)
                        /\ SameStreaks([cr EXCEPT !.phase = x, !.executedAt = y], cr)
<1>1. \A x, y, z : SameStreaks([cr EXCEPT !.phase = x, !.completedAt = y], cr)
  BY DEF SameStreaks, CR
<1>2. SameStreaks(Applied(cr), cr)
  BY <1>1 DEF Applied
<1>3. SameStreaks([Applied(cr) EXCEPT !.consumed = TRUE], cr)
  BY DEF Applied, SameStreaks, CR
<1> QED
  BY <1>1, <1>2, <1>3
     DEF WithStatus, WithAnnotations, Completed, InPhase, SameStreaks, CR

\* The first step of a reconcile copies the stored CR and stores nothing.
LEMMA ReconcileStreak ==
    ASSUME MaxLag = 0, TypeOK, CoherentInv, AttemptInv, StreakInv, TypeOK', AttemptInv', Reconcile
    PROVE  StreakInv'
<1>1. Cache = Server /\ Server \in CR /\ local \in CR
  BY OneVersion, EndsType DEF CoherentInv, TypeOK
<1>2. pc = "idle"
  BY DEF Reconcile, ReconcileNew, ReconcilePending, ReconcileApproved, ReconcileWaiting,
     ReconcileRetry, ExecTimedOut, ExecNoResult, ExecPoll, Monitoring, Reconciling
<1>3. \E next : \E copy : /\ Proceed(next, copy) /\ SameStreaks(copy, Server)
                          /\ next # "save" \/ Server.phase # "Failed"
  <2>1. /\ \A x : /\ SameStreaks(InPhase(Server, x), Server)
                  /\ SameStreaks([Server EXCEPT !.mode = x], Server)
        /\ \A x, y : SameStreaks([Server EXCEPT !.phase = x, !.executedAt = y], Server)
        /\ SameStreaks(Applied(Server), Server)
    BY <1>1, CopyStreaks
  <2>2. SameStreaks(Server, Server)
    BY DEF SameStreaks
  <2>3. \A x, y, z : SameStreaks([Server EXCEPT !.phase = x, !.consumed = y, !.applied = z], Server)
    BY <1>1 DEF SameStreaks, CR
  <2>4. CASE ReconcileNew
    BY <1>1, <2>1, <2>2, <2>4 DEF ReconcileNew, Reconciling
  <2>5. CASE ReconcilePending
    BY <1>1, <2>1, <2>2, <2>5 DEF ReconcilePending, Reconciling
  <2>6. CASE ReconcileApproved
    BY <1>1, <2>1, <2>2, <2>6 DEF ReconcileApproved, Reconciling, MovedToWaiting
  <2>7. CASE ReconcileWaiting
    BY <1>1, <2>1, <2>2, <2>3, <2>7 DEF ReconcileWaiting, Reconciling
  <2>8. CASE ReconcileRetry \/ ExecTimedOut \/ ExecNoResult \/ ExecPoll
    BY <1>1, <2>2, <2>8 DEF ReconcileRetry, ExecTimedOut, ExecNoResult, ExecPoll
  <2> QED
    BY <2>4, <2>5, <2>6, <2>7, <2>8 DEF Reconcile
<1>4. PICK next, copy : /\ Proceed(next, copy) /\ SameStreaks(copy, Server)
                        /\ next # "save" \/ Server.phase # "Failed"
  BY <1>3
<1>5. Owed(next, Server, copy) <= Owed(pc, Server, local)
  BY <1>4, OwedNoMore
<1>6. Eager(next, Server, copy) => Eager(pc, Server, local)
  BY <1>2 DEF Eager, Undoing
<1>7. /\ Then(next, copy) /\ versions' = versions /\ retries' = retries /\ faults' = faults
  BY <1>4 DEF Proceed, external
<1> QED
  BY <1>4, <1>5, <1>6, <1>7, QuietStreak

\* A reconcile's last patch: serving a retry spends the request, and no other leaves
\* the policy Failed but for the failure being saved.
LEMMA SaveStreak ==
    ASSUME MaxLag = 0, TypeOK, CoherentInv, AttemptInv, StreakInv, TypeOK', AttemptInv', Save
    PROVE  StreakInv'
<1>1. Cache = Server /\ Server \in CR /\ local \in CR /\ pc = "save"
  BY OneVersion, EndsType DEF CoherentInv, TypeOK, Save
<1> DEFINE new == WithStatus(Server, local)
<1>2. Abandon \/ Write(new, "idle", local)
  BY <1>1, MergeIsStatus DEF Save
<1>3. /\ new \in CR /\ Status(new) = Status(local) /\ new.retry = Server.retry
      /\ SameStreaks(new, Server)
  BY <1>1, ReplyTypes, ReplyFields, CopyStreaks
<1> HIDE DEF new
<1>4. CASE Abandon
  BY <1>1, <1>4, WriteFailsStreak DEF Abandon
<1>5. CASE Write(new, "idle", local)
  <2>1. new.phase = local.phase /\ (Server.phase = "Failed" => local.phase = "Pending")
    BY <1>1, <1>3 DEF Status, CoherentInv, InOrder, Changes
  <2>2. Owed("idle", new, local) = Count(Server.retry)
    BY <1>3 DEF Owed, Count
  <2>3. /\ Server.phase = "Failed"  => Owed(pc, Server, local) = Count(Server.retry) + 1
        /\ Server.phase # "Failed" => Owed(pc, Server, local) = Count(Server.retry)
    BY <1>1, <2>1 DEF Owed, Count
  <2>4. Count(Server.retry) \in {0, 1}
    BY DEF Count
  <2>5. Owed("idle", new, local) <= Owed(pc, Server, local)
    BY <2>2, <2>3, <2>4
  <2>6. \/ Eager("idle", new, local) => Eager(pc, Server, local)
        \/ Owed("idle", new, local) < Owed(pc, Server, local)
    <3>1. CASE Server.phase = "Failed"
      BY <2>2, <2>3, <2>4, <3>1
    <3>2. CASE Server.phase # "Failed"
      BY <1>1, <2>1, <3>2 DEF Eager, Undoing
    <3> QED
      BY <3>1, <3>2
  <2>7. new.missing <= Server.missing /\ new.errors <= Server.errors
    BY <1>3, StreakTypes DEF SameStreaks
  <2> QED
    BY <1>3, <1>5, <2>5, <2>6, <2>7, WriteStreak
<1> QED
  BY <1>2, <1>4, <1>5

\* One more missing resource or error: at the limit the policy is failed.
LEMMA CountStreak ==
    ASSUME MaxLag = 0, TypeOK, CoherentInv, AttemptInv, StreakInv, TypeOK', AttemptInv',
           CountMissing \/ CountError
    PROVE  StreakInv'
<1>1. /\ Server \in CR /\ local \in CR /\ Cache = Server
      /\ local.missing = Server.missing /\ local.errors = Server.errors
      /\ Server.phase = "Executing" /\ pc \in {"countMissing", "countError"}
  BY OneVersion, EndsType
     DEF CoherentInv, InOrder, Executings, Polling, TypeOK, CountMissing, CountError, StreakInv,
     SameStreaks
<1>2. /\ Server.missing \in Nat /\ Server.errors \in Nat /\ Spent \in Nat
      /\ Max404 \in Nat /\ MaxErr \in Nat
  BY StreakTypes
<1> DEFINE n    == Server.missing + 1
           m    == Server.errors + 1
           new1 == [Server EXCEPT !.missing = n]
           new2 == [Server EXCEPT !.errors = m]
<1>3. /\ new1 \in CR /\ new1.missing = n /\ new1.errors = Server.errors
      /\ new2 \in CR /\ new2.missing = Server.missing /\ new2.errors = m
      /\ new1.phase = "Executing" /\ new1.retry = Server.retry
      /\ new2.phase = "Executing" /\ new2.retry = Server.retry
  <2>1. n \in Nat /\ m \in Nat
    BY <1>2
  <2> HIDE DEF n, m
  <2> QED
    BY <1>1, <2>1 DEF CR
<1>4. \/ Abandon
      \/ Write(new1, IF n < Max404 THEN "idle" ELSE "rollback", WithAnnotations(local, new1))
      \/ Write(new2, IF m < MaxErr THEN "idle" ELSE "rollback", WithAnnotations(local, new2))
  <2>1. CASE CountMissing
    BY <1>1, <2>1, PutCoherent DEF CountMissing
  <2>2. CASE CountError
    BY <1>1, <2>2, PutCoherent DEF CountError
  <2> QED
    BY <2>1, <2>2
<1> HIDE DEF new1, new2
<1>5. ASSUME NEW new \in CR, new.phase = "Executing", new.retry = Server.retry,
             NEW next \in {"idle", "rollback"}, Write(new, next, WithAnnotations(local, new)),
             new.missing <= n, new.errors <= m,
             \/ new.missing = Server.missing /\ (next = "idle" => new.errors < MaxErr)
             \/ new.errors = Server.errors /\ (next = "idle" => new.missing < Max404)
      PROVE  StreakInv'
  <2>1. /\ Server' = new /\ pc' = next /\ Server.live /\ faults' = faults /\ retries' = retries
        /\ Then(next, WithAnnotations(local, new))
    BY <1>5, OneVersion DEF CoherentInv, Write, Then, external, Reachable
  <2>2. SameStreaks(WithAnnotations(local, new), new)
    BY <1>1, <1>5, CopyStreaks
  <2>3. /\ Owed(pc', new, local') = Count(Server.retry)
        /\ pc' # "idle" => SameStreaks(local', new)
    <3>1. Owed(next, new, WithAnnotations(local, new)) = Count(Server.retry)
      BY <1>5 DEF Owed, Count
    <3> QED
      BY <2>1, <2>2, <3>1, ThenStreak
  <2>4. Owed(pc, Server, local) = Count(Server.retry)
    BY <1>1 DEF Owed, Count
  <2>5. Spent' = Spent
    BY <2>1, <2>3, <2>4 DEF Spent
  <2>6. Server.missing < Max404 + Spent /\ Server.errors < MaxErr + Spent
    BY <1>1, <2>1 DEF StreakInv, Borne, Eager, Undoing
  <2>7. new.missing \in Nat /\ new.errors \in Nat
    BY <1>5, FieldTypes
  <2>8. new.missing <= Max404 + Spent /\ new.errors <= MaxErr + Spent
    BY <1>2, <1>5, <2>6, <2>7
  <2>9. next = "idle" => new.missing < Max404 + Spent /\ new.errors < MaxErr + Spent
    BY <1>2, <1>5, <2>6, <2>7
  <2>10. Eager(pc', new, local') => next = "idle"
    BY <1>5, <2>1 DEF Eager, Undoing
  <2> QED
    BY <2>1, <2>3, <2>5, <2>8, <2>9, <2>10 DEF StreakInv, Borne
<1>6. n \in Nat /\ m \in Nat /\ Server.missing <= n /\ Server.errors <= m /\ n <= n /\ m <= m
  BY <1>2
<1>7. CASE Abandon
  BY <1>1, <1>7, WriteFailsStreak DEF Abandon
<1>8. CASE Write(new1, IF n < Max404 THEN "idle" ELSE "rollback", WithAnnotations(local, new1))
  BY <1>3, <1>5, <1>6, <1>8
<1>9. CASE Write(new2, IF m < MaxErr THEN "idle" ELSE "rollback", WithAnnotations(local, new2))
  BY <1>3, <1>5, <1>6, <1>9
<1> QED
  BY <1>4, <1>7, <1>8, <1>9

\* Clearing the counters, and what follows it.
LEMMA ClearStreak ==
    ASSUME MaxLag = 0, TypeOK, CoherentInv, AttemptInv, StreakInv, TypeOK', AttemptInv',
           ClearAfterPoll
    PROVE  StreakInv'
<1>1. /\ Server \in CR /\ local \in CR /\ Server.phase = "Executing" /\ SameStreaks(local, Server)
      /\ pc \in {"clearDone", "clearFailed", "clearRunning"} /\ Cache = Server
  BY OneVersion, EndsType
     DEF CoherentInv, InOrder, Executings, Polling, TypeOK, ClearAfterPoll, StreakInv
<1>2. PICK next \in {"save", "rollback", "idle"}, copy \in {local, Completed(local)} :
        ClearCounters(next, copy)
  BY DEF ClearAfterPoll
<1>3. copy \in CR /\ SameStreaks(copy, Server)
  <2>1. Completed(local) \in CR /\ SameStreaks(Completed(local), local)
    <3>1. "Applied" \in Phases
      BY DEF Phases
    <3> QED
      BY <1>1, <3>1, CopyTypes, CopyStreaks
  <2> QED
    BY <1>1, <1>2, <2>1 DEF SameStreaks
<1> DEFINE new == [Server EXCEPT !.missing = 0, !.errors = 0]
<1>4. Abandon \/ Proceed(next, copy) \/ Write(new, next, WithAnnotations(copy, new))
  BY <1>1, <1>2, PutCoherent DEF ClearCounters
<1>5. /\ new \in CR /\ new.missing = 0 /\ new.errors = 0
      /\ new.phase = "Executing" /\ new.retry = Server.retry
  BY <1>1 DEF CR
<1> HIDE DEF new
<1>6. CASE Abandon
  BY <1>1, <1>6, WriteFailsStreak DEF Abandon
<1>7. CASE Proceed(next, copy)
  <2>1. Owed(next, Server, copy) <= Owed(pc, Server, local)
    BY <1>1, OwedNoMore
  <2>2. Eager(pc, Server, local)
    BY <1>1 DEF Eager, Undoing
  <2> QED
    BY <1>3, <1>7, <2>1, <2>2, QuietStreak DEF Proceed, external
<1>8. CASE Write(new, next, WithAnnotations(copy, new))
  <2>1. SameStreaks(WithAnnotations(copy, new), new)
    BY <1>3, <1>5, CopyStreaks
  <2>2. new.missing <= Server.missing /\ new.errors <= Server.errors
    BY <1>5, StreakTypes
  <2> QED
    BY <1>1, <1>5, <1>8, <2>1, <2>2, PatchStreak DEF Undoing
<1> QED
  BY <1>4, <1>6, <1>7, <1>8

\* Every call of a reconcile keeps the streaks in bounds.
LEMMA CallStreak ==
    ASSUME MaxLag = 0, TypeOK, CoherentInv, AttemptInv, StreakInv, TypeOK', AttemptInv', Call
    PROVE  StreakInv'
<1>1. /\ Cache = Server /\ Server \in CR /\ local \in CR
      /\ InOrder(pc, Server, local, confirmed, policy.auto)
      /\ Server.missing <= Server.missing /\ Server.errors <= Server.errors
  BY OneVersion, EndsType, StreakTypes DEF CoherentInv, TypeOK
<1>2. pc # "idle"
  BY DEF Call, Save, PatchDefaultMode, PatchModifiedSpec, ClearRetry, Begin, Start,
     StartTooEarly, SaveResult, ClearStarts, StartFailed, Backfill, BackfillSave, BackfillMark,
     Poll, PollError, ClearAfterPoll, CountMissing, CountError, Rollback, SaveRollback
<1>3. SameStreaks(local, Server)
  BY <1>2 DEF StreakInv
<1>4. Abandon => StreakInv'
  BY <1>2, WriteFailsStreak DEF Abandon
<1>5. ASSUME NEW cr \in CR, NEW next, NEW copy, Write(cr, next, copy), SameStreaks(cr, Server),
             cr.retry = Server.retry, next # "idle" => SameStreaks(copy, cr),
             next # "save" \/ cr.phase # "Failed",
             Server.phase # "Failed", pc # "save", pc \notin Undoing
      PROVE  StreakInv'
  BY <1>1, <1>5, PatchStreak DEF SameStreaks
<1>6. ASSUME NEW next, NEW copy, Then(next, copy), versions' = versions, retries' = retries,
             faults' = faults \/ faults' = faults + 1, SameStreaks(copy, local),
             next # "save", pc \notin {"save", "rollback", "saveRollback"}
      PROVE  StreakInv'
  <2>1. Owed(next, Server, copy) <= Owed(pc, Server, local)
    BY <1>6, OwedNoMore
  <2>2. Eager(next, Server, copy) => Eager(pc, Server, local)
    BY <1>6 DEF Eager, Undoing
  <2>3. SameStreaks(copy, Server)
    BY <1>3, <1>6 DEF SameStreaks
  <2> QED
    BY <1>6, <2>1, <2>2, <2>3, QuietStreak
<1>7. CASE PatchDefaultMode \/ PatchModifiedSpec
  <2>1. PICK x \in Modes, phase \in {"Pending", "Approved"} :
          \/ Abandon
          \/ Write([Server EXCEPT !.mode = x], "save", [local EXCEPT !.mode = x, !.phase = phase])
    <3>1. AgentModes \subseteq Modes /\ DefaultMode(policy.type) \in Modes /\ local.mode \in Modes
      BY <1>1, AgentAssumption DEF DefaultMode, Modes, CR
    <3>2. \A x \in Modes : [Server EXCEPT !.mode = x].mode = x
      BY <1>1 DEF CR
    <3> QED
      BY <1>1, <1>7, <3>1, <3>2, PutCoherent DEF PatchDefaultMode, PatchModifiedSpec
  <2> DEFINE new  == [Server EXCEPT !.mode = x]
             copy == [local EXCEPT !.mode = x, !.phase = phase]
  <2>2. new \in CR /\ new.phase = Server.phase /\ new.retry = Server.retry
    BY <1>1 DEF CR
  <2>3. SameStreaks(new, Server) /\ SameStreaks(copy, local)
    BY <1>1, CopyStreaks
  <2>4. SameStreaks(copy, new)
    BY <1>3, <2>3 DEF SameStreaks
  <2>5. pc \in {"defaultMode", "modifySpec"} /\ Server.phase # "Failed"
    BY <1>1, <1>7 DEF PatchDefaultMode, PatchModifiedSpec, InOrder
  <2> HIDE DEF new, copy
  <2>6. Abandon \/ Write(new, "save", copy)
    BY <2>1 DEF new, copy
  <2> QED
    BY <1>4, <1>5, <2>2, <2>3, <2>4, <2>5, <2>6 DEF Undoing
<1>8. CASE ClearRetry
  <2> DEFINE new  == [Server EXCEPT !.retry = FALSE, !.rollback = Put(local.rollback, "none", @)]
             copy == [new EXCEPT !.phase = "Pending", !.result = NoResult,
                                 !.executedAt = NoTime, !.completedAt = FALSE]
  <2>1. Abandon \/ Write(new, "save", copy)
    BY <1>8 DEF ClearRetry
  <2>2. new \in CR /\ SameStreaks(new, Server) /\ ~new.retry /\ new.phase = Server.phase
    <3>1. Put(local.rollback, "none", Server.rollback) \in Rollbacks
      BY <1>1 DEF Put, CR, Rollbacks
    <3> HIDE DEF Server
    <3> QED
      BY <1>1, <3>1, CopyStreaks DEF CR
  <2> HIDE DEF new
  <2>3. SameStreaks(copy, new) /\ copy.phase = "Pending"
    BY <2>2 DEF SameStreaks, CR
  <2> HIDE DEF copy
  <2>4. pc = "clearRetry" /\ Server.phase = "Failed" /\ Server.retry
    BY <1>1, <1>8 DEF ClearRetry, InOrder
  <2>5. Owed("save", new, copy) = 1 /\ Owed(pc, Server, local) = 1
    BY <2>2, <2>3, <2>4 DEF Owed, Count
  <2>6. ~Eager("save", new, copy)
    BY <2>2, <2>4 DEF Eager
  <2>7. new.missing <= Server.missing /\ new.errors <= Server.errors
    BY <1>1, <2>2 DEF SameStreaks
  <2>8. Owed("save", new, copy) <= Owed(pc, Server, local)
    BY <2>5
  <2> QED
    BY <1>4, <2>1, <2>2, <2>3, <2>6, <2>7, <2>8, WriteStreak
<1>9. CASE Begin
  <2> DEFINE new == WithStatus(Server, local)
  <2>1. Abandon \/ Write(new, "start", WithStatus(local, new))
    BY <1>1, <1>9, MergeIsStatus DEF Begin
  <2>2. new \in CR /\ SameStreaks(new, Server) /\ new.retry = Server.retry
    BY <1>1, ReplyTypes, ReplyFields, CopyStreaks
  <2> HIDE DEF new
  <2>3. SameStreaks(WithStatus(local, new), new)
    <3>1. SameStreaks(WithStatus(local, new), local)
      BY <1>1, <2>2, CopyStreaks
    <3> QED
      BY <1>3, <2>2, <3>1 DEF SameStreaks
  <2>4. pc = "begin" /\ Server.phase = "Approved"
    BY <1>1, <1>9 DEF Begin, InOrder
  <2> QED
    BY <1>4, <1>5, <2>1, <2>2, <2>3, <2>4 DEF Undoing
<1>10. CASE Start \/ Backfill
  <2>1. PICK ok \in {"saveResult", "backfillSave", "lateBackfillSave"},
             ko \in {"startFailed", "idle", "rollback"} : Post(ok, ko)
    BY <1>10 DEF Start, Backfill
  <2>2. pc \in {"start", "backfill", "lateBackfill"}
    BY <1>10 DEF Start, Backfill
  <2>3. PICK copy : SameStreaks(copy, local) /\ (Then(ok, copy) \/ Then(ko, copy))
    <3>1. \A x : SameStreaks([local EXCEPT !.result = x], local) /\ SameStreaks(local, local)
      BY <1>1, CopyStreaks DEF SameStreaks
    <3> QED
      BY <2>1, <3>1 DEF Post
  <2>4. /\ versions' = versions /\ retries' = retries
        /\ faults' = faults \/ faults' = faults + 1
    BY <2>1 DEF Post, Fault
  <2> QED
    BY <1>6, <2>2, <2>3, <2>4
<1>11. CASE StartTooEarly
  <2>1. /\ pc = "start" /\ Server.phase = "Executing" /\ Then("save", InPhase(local, "WaitingForTarget"))
        /\ versions' = versions /\ retries' = retries /\ faults' = faults
    BY <1>1, <1>11 DEF StartTooEarly, Proceed, external, InOrder, Executings, Starting
  <2>2. SameStreaks(InPhase(local, "WaitingForTarget"), Server)
    <3>1. SameStreaks(InPhase(local, "WaitingForTarget"), local)
      BY <1>1, CopyStreaks
    <3> QED
      BY <1>3, <3>1 DEF SameStreaks
  <2>3. Owed("save", Server, InPhase(local, "WaitingForTarget")) <= Owed(pc, Server, local)
    BY <2>1, OwedNoMore
  <2>4. Eager(pc, Server, local)
    BY <2>1 DEF Eager, Undoing
  <2> QED
    BY <2>1, <2>2, <2>3, <2>4, QuietStreak
<1>12. CASE SaveResult \/ BackfillSave
  <2> DEFINE new == [Server EXCEPT !.result = Put(Cache.result, local.result, @)]
  <2>1. PICK next \in {"clearStarts", "backfillMark"}, failed \in {"startFailed", "idle", "rollback"} :
          Write(new, next, WithStatus(local, new)) \/ WriteFails(failed, local)
    BY <1>12 DEF SaveResult, BackfillSave, PatchResult
  <2>2. pc \in {"saveResult", "backfillSave", "lateBackfillSave"} /\ Server.phase = "Executing"
    BY <1>1, <1>12 DEF SaveResult, BackfillSave, InOrder, Executings, Starting, Backfilling
  <2>3. new \in CR /\ SameStreaks(new, Server) /\ new.retry = Server.retry
    <3>1. new = [Server EXCEPT !.result = local.result] /\ local.result \in Results
      BY <1>1, PutCoherent, FieldTypes
    <3> HIDE DEF new
    <3> QED
      BY <1>1, <3>1, CopyStreaks DEF CR
  <2> HIDE DEF new
  <2>4. SameStreaks(WithStatus(local, new), new)
    <3>1. SameStreaks(WithStatus(local, new), local)
      BY <1>1, <2>3, CopyStreaks
    <3> QED
      BY <1>3, <2>3, <3>1 DEF SameStreaks
  <2> QED
    BY <1>2, <1>5, <2>1, <2>2, <2>3, <2>4, WriteFailsStreak DEF Undoing
<1>13. CASE ClearStarts \/ StartFailed \/ BackfillMark
  <2>1. PICK n \in Nat, next \in {"idle", "rollback"} : PatchStarts(n, next) \/ Abandon
    BY <1>1, <1>13, FieldTypes DEF ClearStarts, StartFailed, BackfillMark
  <2> DEFINE new == [Server EXCEPT !.starts = n]
  <2>2. Abandon \/ Write(new, next, WithAnnotations(local, new))
    BY <1>1, <2>1, PutCoherent DEF PatchStarts
  <2>3. /\ pc \in {"clearStarts", "startFailed", "backfillMark"} /\ Server.phase = "Executing"
    BY <1>1, <1>13 DEF ClearStarts, StartFailed, BackfillMark, InOrder, Executings, Starting,
       Backfilling
  <2>4. new \in CR /\ SameStreaks(new, Server) /\ new.retry = Server.retry
    BY <1>1, CopyStreaks DEF CR
  <2> HIDE DEF new
  <2>5. SameStreaks(WithAnnotations(local, new), new)
    BY <1>1, <2>4, CopyStreaks
  <2> QED
    BY <1>4, <1>5, <2>2, <2>3, <2>4, <2>5 DEF Undoing
<1>14. CASE Poll \/ PollError
  <2>1. \E next : /\ Then(next, local) /\ next # "save" /\ pc = "poll" /\ versions' = versions
                  /\ retries' = retries /\ faults' = faults
    <3>1. CASE Poll
      <4>1. PICK next \in {"countMissing", "clearFailed", "clearDone", "clearRunning"} : pc' = next
        BY <3>1 DEF Poll
      <4>2. Then(next, local)
        BY <3>1, <4>1 DEF Poll, Then
      <4> QED
        BY <3>1, <4>2 DEF Poll
    <3>2. CASE PollError
      BY <3>2 DEF PollError, Proceed, external
    <3> QED
      BY <1>14, <3>1, <3>2
  <2>2. SameStreaks(local, local)
    BY DEF SameStreaks
  <2> QED
    BY <1>6, <2>1, <2>2
<1>15. CASE Rollback
  <2>1. PICK outcome \in Rollbacks : Then("saveRollback", [local EXCEPT !.rollback = outcome])
    BY <1>15 DEF Rollback
  <2>2. SameStreaks([local EXCEPT !.rollback = outcome], Server)
    <3>1. SameStreaks([local EXCEPT !.rollback = outcome], local)
      BY <1>1, CopyStreaks
    <3> QED
      BY <1>3, <3>1 DEF SameStreaks
  <2>3. Owed("saveRollback", Server, [local EXCEPT !.rollback = outcome]) <= Owed(pc, Server, local)
    BY OwedNoMore
  <2>4. ~Eager("saveRollback", Server, [local EXCEPT !.rollback = outcome])
    BY DEF Eager, Undoing
  <2>5. versions' = versions /\ retries' = retries /\ faults' = faults
    BY <1>15 DEF Rollback
  <2> QED
    BY <2>1, <2>2, <2>3, <2>4, <2>5, QuietStreak
<1>16. CASE SaveRollback
  <2> DEFINE new  == [Server EXCEPT !.rollback = local.rollback]
             copy == [new EXCEPT !.phase = "Failed", !.completedAt = TRUE, !.result = FailText]
  <2>1. Abandon \/ Write(new, "save", copy)
    BY <1>16 DEF SaveRollback
  <2>2. new \in CR /\ SameStreaks(new, Server) /\ new.phase = Server.phase /\ new.retry = Server.retry
    <3>1. local.rollback \in Rollbacks
      BY <1>1, FieldTypes
    <3> QED
      BY <1>1, <3>1, CopyStreaks DEF CR
  <2> HIDE DEF new
  <2>3. SameStreaks(copy, new) /\ copy.phase = "Failed"
    BY <2>2 DEF SameStreaks, CR
  <2> HIDE DEF copy
  <2>4. Server.phase # "Failed"
    BY <1>1, <1>16 DEF SaveRollback, InOrder, Undoing
  <2>5. Owed("save", new, copy) <= Owed(pc, Server, local)
    BY <2>2, <2>4, OwedNoMore
  <2>6. ~Eager("save", new, copy)
    BY <2>3 DEF Eager
  <2>7. new.missing <= Server.missing /\ new.errors <= Server.errors
    BY <1>1, <2>2 DEF SameStreaks
  <2> QED
    BY <1>4, <2>1, <2>2, <2>3, <2>5, <2>6, <2>7, WriteStreak
<1> QED
  BY <1>7, <1>8, <1>9, <1>10, <1>11, <1>12, <1>13, <1>14, <1>15, <1>16,
     SaveStreak, ClearStreak, CountStreak DEF Call

\* What others do keeps the streaks in bounds: a request for a retry is owed until it
\* is served, and a crash is a fault.
LEMMA EnvironmentStreak ==
    ASSUME MaxLag = 0, TypeOK, CoherentInv, AttemptInv, StreakInv, TypeOK', AttemptInv',
           Deliver \/ Tick \/ Crash \/ User \/ Operator \/ TargetAppears
    PROVE  StreakInv'
<1>1. /\ Server \in CR /\ local \in CR /\ Len(versions) = 1 /\ faults \in Nat /\ retries \in Nat
      /\ Server.missing \in Nat /\ Server.errors \in Nat /\ Owed(pc, Server, local) \in 0..2
      /\ Server.missing <= Server.missing /\ Server.errors <= Server.errors
  BY StreakTypes DEF CoherentInv
<1>2. ASSUME pc' = pc, faults' = faults, SameStreaks(local', local), SameStreaks(Server', Server),
             Server'.live => /\ Server.live
                             /\ local'.phase = local.phase
                             /\ retries' - Owed(pc', Server', local')
                                    = retries - Owed(pc, Server, local)
                             /\ Server'.phase # "Failed" => Server.phase # "Failed"
      PROVE  StreakInv'
  <2>1. pc' # "idle" => SameStreaks(local', Server')
    BY <1>2 DEF StreakInv, SameStreaks
  <2>2. Server'.missing <= Server.missing /\ Server'.errors <= Server.errors
    BY <1>1, <1>2 DEF SameStreaks
  <2>3. Server'.live => Spent' >= Spent
    <3>1. Server' \in CR /\ local' \in CR /\ retries' \in Nat
      BY EndsType, BoundAssumption DEF TypeOK, Server
    <3>2. Owed(pc', Server', local') \in 0..2
      BY <3>1, CountType
    <3> QED
      BY <1>1, <1>2, <3>1, <3>2 DEF Spent
  <2>4. Server'.live /\ Eager(pc', Server', local') => Eager(pc, Server, local)
    BY <1>2 DEF Eager
  <2> QED
    BY <1>2, <2>1, <2>2, <2>3, <2>4, NoLongerStreak
<1>3. ASSUME pc' = pc, faults' = faults, retries' = retries, local' = local, Server' = Server
      PROVE  StreakInv'
  <2>1. SameStreaks(local', local) /\ SameStreaks(Server', Server)
    BY <1>3 DEF SameStreaks
  <2> QED
    BY <1>2, <1>3, <2>1
<1>4. CASE Deliver
  BY <1>1, <1>4 DEF Deliver
<1>5. CASE Tick
  <2>1. /\ Server' = Older(Server) /\ local' = Older(local) /\ pc' = pc
        /\ faults' = faults /\ retries' = retries
    BY <1>1, <1>5, TickCoherent DEF Tick, external
  <2>2. \A cr \in CR : /\ Older(cr).live = cr.live /\ Older(cr).phase = cr.phase
                       /\ Older(cr).missing = cr.missing /\ Older(cr).errors = cr.errors
                       /\ Older(cr).retry = cr.retry
    BY DEF Older, CR
  <2>3. /\ Server'.live = Server.live /\ Server'.phase = Server.phase /\ Server'.retry = Server.retry
        /\ local'.phase = local.phase
        /\ SameStreaks(local', local) /\ SameStreaks(Server', Server)
    BY <1>1, <2>1, <2>2 DEF SameStreaks
  <2>4. Owed(pc', Server', local') = Owed(pc, Server, local)
    BY <2>1, <2>3 DEF Owed
  <2> QED
    BY <1>2, <2>1, <2>3, <2>4
<1>6. CASE Crash
  <2>1. /\ Server' = Server /\ pc' = "idle" /\ local' = Unset
        /\ faults' = faults + 1 /\ retries' = retries
    BY <1>6 DEF Crash, Fault, Then, Server
  <2>2. Owed("idle", Server, Unset) <= Owed(pc, Server, local)
    BY OwedNoMore
  <2>3. Owed("idle", Server, Unset) \in 0..2
    <3>1. local' \in CR
      BY DEF TypeOK
    <3> QED
      BY <1>1, <2>1, <3>1, CountType
  <2>4. Spent' > Spent /\ Spent' >= Spent
    BY <1>1, <2>1, <2>2, <2>3 DEF Spent
  <2> HIDE DEF Server
  <2>5. /\ pc' # "idle" => SameStreaks(local', Server')
        /\ Server'.live => Server.live
        /\ Server'.missing <= Server.missing /\ Server'.errors <= Server.errors
    BY <1>1, <2>1
  <2> QED
    BY <2>4, <2>5, NoLongerStreak
<1>7. ASSUME NEW cr \in CR, UserWrites(cr)
      PROVE  Server' = cr /\ Server.live /\ pc' = pc /\ local' = local /\ faults' = faults
  BY <1>1, <1>7, OneVersion DEF UserWrites
<1>8. SameStreaks(local, local)
  BY DEF SameStreaks
<1>9. CASE UserApprove
  <2> DEFINE cr == [Server EXCEPT !.phase = "Approved"]
  <2>1. /\ cr \in CR /\ SameStreaks(cr, Server) /\ cr.phase = "Approved" /\ cr.retry = Server.retry
    BY <1>1 DEF CR, Phases, SameStreaks
  <2> HIDE DEF cr
  <2>2. Server.phase = "Pending" /\ UserWrites(cr) /\ retries' = retries
    BY <1>9 DEF UserApprove, cr
  <2>3. Owed(pc, cr, local) = Owed(pc, Server, local)
    BY <2>1, <2>2 DEF Owed
  <2> QED
    BY <1>2, <1>7, <1>8, <2>1, <2>2, <2>3
<1>10. CASE UserRetry
  <2> DEFINE cr == [Server EXCEPT !.retry = TRUE]
  <2>1. /\ cr \in CR /\ SameStreaks(cr, Server) /\ cr.phase = Server.phase /\ cr.retry
    BY <1>1 DEF CR, SameStreaks
  <2> HIDE DEF cr
  <2>2. Server.phase = "Failed" /\ ~Server.retry /\ UserWrites(cr) /\ retries' = retries + 1
    BY <1>10 DEF UserRetry, cr
  <2>3. Owed(pc, cr, local) = Owed(pc, Server, local) + 1
    BY <2>1, <2>2 DEF Owed, Count
  <2>4. /\ Server' = cr /\ Server.live /\ pc' = pc /\ local' = local /\ faults' = faults
    BY <1>7, <2>1, <2>2
  <2>5. retries' - Owed(pc', Server', local') = retries - Owed(pc, Server, local)
    BY <1>1, <2>2, <2>3, <2>4
  <2> QED
    BY <1>2, <1>8, <2>1, <2>2, <2>4, <2>5
<1>11. CASE UserDelete
  <2> DEFINE cr == [Server EXCEPT !.live = FALSE]
  <2>1. cr \in CR /\ SameStreaks(cr, Server) /\ ~cr.live
    BY <1>1 DEF CR, SameStreaks
  <2> HIDE DEF cr
  <2>2. UserWrites(cr) /\ retries' = retries
    BY <1>11 DEF UserDelete, cr
  <2> QED
    BY <1>2, <1>7, <1>8, <2>1, <2>2
<1>12. CASE Operator \/ TargetAppears
  <2>1. /\ pc' = pc /\ local' = local /\ faults' = faults /\ retries' = retries /\ Server' = Server
    BY <1>12 DEF Operator, OperatorFinishes, OperatorForgets, OperatorChanges, TargetAppears, Server
  <2> QED
    BY <1>3, <2>1
<1> QED
  BY <1>4, <1>5, <1>6, <1>9, <1>10, <1>11, <1>12 DEF User

\* The streaks grow beyond their limits by no more than the failed writes and the
\* retries that were served, in every reachable state.
THEOREM StreaksCounted ==
    ASSUME MaxLag = 0
    PROVE  Spec => []StreakInv
<1>1. TypeOK /\ AttemptInv /\ Init => StreakInv
  <2> SUFFICES ASSUME TypeOK, AttemptInv, Init PROVE StreakInv
    OBVIOUS
  <2>1. Server.missing = 0 /\ Server.errors = 0 /\ pc = "idle"
    BY DEF Init, Server, NewCR
  <2>2. Spent \in Nat /\ Max404 \in Nat \ {0} /\ MaxErr \in Nat \ {0}
    BY StreakTypes
  <2> HIDE DEF Server
  <2> QED
    BY <2>1, <2>2 DEF StreakInv, Borne
<1>2. TypeOK /\ TypeOK' /\ CoherentInv /\ AttemptInv /\ AttemptInv' /\ StreakInv /\ [Next]_vars
        => StreakInv'
  <2> SUFFICES ASSUME TypeOK, TypeOK', CoherentInv, AttemptInv, AttemptInv', StreakInv, [Next]_vars
               PROVE  StreakInv'
    OBVIOUS
  <2>1. CASE UNCHANGED vars
    BY <2>1 DEF vars, StreakInv, Server, Spent
  <2> QED
    BY <2>1, ReconcileStreak, CallStreak, EnvironmentStreak DEF Next
<1> QED
  BY <1>1, <1>2, TypeCorrect, CoherentlyOrdered, AttemptsCounted, PTL DEF Spec

\* A lost resource, or an operator that answers with errors, is not put up with for ever.
THEOREM StreaksStop ==
    ASSUME MaxLag = 0
    PROVE  Spec => []StreaksAreBounded
<1>1. TypeOK /\ AttemptInv /\ StreakInv => StreaksAreBounded
  <2> SUFFICES ASSUME TypeOK, AttemptInv, StreakInv,
                      pc = "idle", Server.live, Server.phase = "Executing"
               PROVE  /\ Server.missing < Max404 + faults + retries
                      /\ Server.errors < MaxErr + faults + retries
    BY DEF StreaksAreBounded
  <2>1. Server.missing < Max404 + Spent /\ Server.errors < MaxErr + Spent
    BY DEF StreakInv, Borne, Eager, Undoing
  <2>2. /\ Server.missing \in Nat /\ Server.errors \in Nat /\ faults \in Nat /\ retries \in Nat
        /\ Owed(pc, Server, local) \in 0..2 /\ Max404 \in Nat /\ MaxErr \in Nat
    BY StreakTypes
  <2> HIDE DEF Server
  <2> QED
    BY <2>1, <2>2 DEF Spent
<1> QED
  BY <1>1, TypeCorrect, AttemptsCounted, StreaksCounted, PTL

-----------------------------------------------------------------------------
(* Resources with faults. Of the resources that run or have completed, at  *)
(* most one is there for each attempt and each fault. An attempt is Open   *)
(* while it may still create one without a further fault: before its start *)
(* and while its backfill is due. So resources are counted against retries *)
(* and faults together, less what is Owed, and one more for an attempt     *)
(* that is not Open. A resource that fails at once is not counted: its     *)
(* backfill may be repeated, as nothing notes it.                          *)

Open(c, s, l) ==
    \/ Fresh(c, s, l)
    \/ c \in {"backfill", "lateBackfill"}
    \/ c = "idle" /\ s.live /\ s.phase = "Executing" /\ s.result = NoResult /\ s.starts = 0

Room(c, s, l) == Count(~Open(c, s, l)) - Owed(c, s, l)

\* Whatever has failed, a resource is noted before its attempt is monitored, and the mode
\* does not bring the attempt back to Approved.
Noted(c, s, l, type) ==
    /\ c \in Polling \cup {"clearStarts", "backfillMark"} => s.result # NoResult
    /\ c \in {"saveResult", "backfillSave", "lateBackfillSave"} => l.result # NoResult
    /\ type = "scaling" => /\ c # "defaultMode" /\ (s.phase = "" => s.mode # "")
                           /\ s.mode # "Continuous" /\ l.mode # "Continuous"
    /\ type # "scaling" => /\ s.phase = "Executing" \/ c = "begin" => s.mode # "Continuous"
                           /\ c \in Executings \cup {"begin"} => l.mode # "Continuous"
    /\ c = "save" /\ s.phase = "Executing" => l.phase # "Approved"

OnceInv ==
    OneShot => /\ Noted(pc, Server, local, policy.type)
               /\ Cardinality(Live(ops)) <= retries + faults + Room(pc, Server, local)

\* The numbers that are compared.
LEMMA RoomType ==
    ASSUME NEW c, NEW s, NEW l
    PROVE  /\ Owed(c, s, l) \in 0..2 /\ Room(c, s, l) \in Int
           /\ Open(c, s, l)  => Room(c, s, l) = -Owed(c, s, l)
           /\ ~Open(c, s, l) => Room(c, s, l) = 1 - Owed(c, s, l)
<1>1. Owed(c, s, l) \in 0..2
  <2>1. /\ Count(s.retry) \in {0, 1}
        /\ Count(c = "save" /\ s.phase = "Failed" /\ l.phase = "Pending") \in {0, 1}
    BY DEF Count
  <2> QED
    BY <2>1 DEF Owed
<1>2. /\ Open(c, s, l)  => Room(c, s, l) = 0 - Owed(c, s, l)
      /\ ~Open(c, s, l) => Room(c, s, l) = 1 - Owed(c, s, l)
  BY DEF Room, Count
<1> QED
  BY <1>1, <1>2

LEMMA LiveFinite == \A o : IsFiniteSet(Live(o)) /\ Cardinality(Live(o)) \in Nat
<1>1. IsFiniteSet(OpIds)
  BY FS_Interval, BoundAssumption DEF OpIds
<1>2. \A o : Live(o) \in SUBSET OpIds
  BY DEF Live
<1>3. \A o : IsFiniteSet(Live(o))
  BY <1>1, <1>2, FS_Subset
<1> QED
  BY <1>3, FS_CardinalityType

LEMMA LiveType ==
    ASSUME TypeOK
    PROVE  /\ IsFiniteSet(Live(ops)) /\ Cardinality(Live(ops)) \in Nat
           /\ retries \in Nat /\ faults \in Nat
BY LiveFinite, BoundAssumption DEF TypeOK

\* Without a new resource there are no more of them, and one step creates one.
LEMMA NoMoreLive ==
    ASSUME TypeOK, NEW o, \A id \in OpIds : o[id] \in {"running", "completed"}
                                => ops[id] \in {"running", "completed"}
    PROVE  Cardinality(Live(o)) <= Cardinality(Live(ops))
<1>1. Live(o) \in SUBSET Live(ops)
  BY DEF Live
<1> QED
  BY <1>1, LiveType, FS_Subset

LEMMA OneMoreLive ==
    ASSUME TypeOK, NEW id \in OpIds, NEW state
    PROVE  Cardinality(Live([ops EXCEPT ![id] = state])) <= Cardinality(Live(ops)) + 1
<1>1. Live([ops EXCEPT ![id] = state]) \in SUBSET (Live(ops) \cup {id})
  BY DEF Live, TypeOK
<1>2. /\ IsFiniteSet(Live(ops) \cup {id}) /\ Cardinality(Live(ops)) \in Nat
      /\ Cardinality(Live(ops) \cup {id}) <= Cardinality(Live(ops)) + 1
  BY LiveType, FS_AddElement
<1>3. Cardinality(Live(ops) \cup {id}) \in Nat
  BY <1>2, FS_CardinalityType
<1>4. /\ Cardinality(Live([ops EXCEPT ![id] = state])) <= Cardinality(Live(ops) \cup {id})
      /\ IsFiniteSet(Live([ops EXCEPT ![id] = state]))
  BY <1>1, <1>2, FS_Subset
<1>5. Cardinality(Live([ops EXCEPT ![id] = state])) \in Nat
  BY <1>4, FS_CardinalityType
<1> QED
  BY <1>2, <1>3, <1>4, <1>5

\* A step that makes as much room as it takes.
LEMMA OnceStep ==
    ASSUME TypeOK, TypeOK', OnceInv, policy' = policy, NEW d \in {0, 1},
           Cardinality(Live(ops')) <= Cardinality(Live(ops)) + d,
           OneShot => Noted(pc', Server', local', policy.type),
           OneShot => retries' + faults' + Room(pc', Server', local')
                        >= retries + faults + Room(pc, Server, local) + d
    PROVE  OnceInv'
<1>1. SUFFICES ASSUME OneShot
               PROVE  Cardinality(Live(ops')) <= retries' + faults' + Room(pc', Server', local')
  <2>1. OneShot' = OneShot
    BY DEF OneShot
  <2> QED
    BY <2>1 DEF OnceInv
<1>2. Cardinality(Live(ops)) <= retries + faults + Room(pc, Server, local)
  BY <1>1 DEF OnceInv
<1>3. /\ Cardinality(Live(ops)) \in Nat /\ retries \in Nat /\ faults \in Nat
      /\ Cardinality(Live(ops')) \in Nat /\ retries' \in Nat /\ faults' \in Nat
  BY LiveFinite, BoundAssumption DEF TypeOK
<1>4. Room(pc, Server, local) \in Int /\ Room(pc', Server', local') \in Int
  BY RoomType
<1> QED
  BY <1>1, <1>2, <1>3, <1>4

\* What leaves the room as it is, or takes no more than a fault makes.
LEMMA RoomKeeps ==
    ASSUME NEW c, NEW s, NEW l, NEW c2, NEW s2, NEW l2, Owed(c2, s2, l2) <= Owed(c, s, l)
    PROVE  /\ (Open(c2, s2, l2) => Open(c, s, l)) \/ Owed(c2, s2, l2) < Owed(c, s, l)
                => Room(c2, s2, l2) >= Room(c, s, l)
           /\ Room(c2, s2, l2) + 1 >= Room(c, s, l)
           /\ Open(c, s, l) /\ ~Open(c2, s2, l2) => Room(c2, s2, l2) >= Room(c, s, l) + 1
BY RoomType

\* The room, and what is noted, when the reconcile's next call and its copy are known.
LEMMA OnceThen ==
    ASSUME NEW next, NEW copy, NEW s, Then(next, copy)
    PROVE  /\ Owed(pc', s, local') = Owed(next, s, copy)
           /\ Open(pc', s, local') <=> Open(next, s, copy)
           /\ \A type : Noted(next, s, copy, type) => Noted(pc', s, local', type)
<1>1. CASE next # "idle"
  BY <1>1 DEF Then
<1>2. CASE next = "idle"
  <2>1. pc' = "idle" /\ local' = Unset /\ Unset.mode = ""
    BY <1>2 DEF Then, Unset, NewCR
  <2>2. Owed("idle", s, Unset) = Owed("idle", s, copy)
    BY DEF Owed
  <2>3. Open("idle", s, Unset) <=> Open("idle", s, copy)
    BY DEF Open, Fresh
  <2>4. \A type : Noted("idle", s, copy, type) => Noted("idle", s, Unset, type)
    BY <2>1 DEF Noted, Executings, Starting, Polling, Backfilling
  <2> QED
    BY <1>2, <2>1, <2>2, <2>3, <2>4
<1> QED
  BY <1>1, <1>2

\* An accepted patch.
LEMMA WriteOnce ==
    ASSUME MaxLag = 0, TypeOK, CoherentInv, OnceInv, TypeOK',
           NEW cr \in CR, NEW next, NEW copy, Write(cr, next, copy),
           Owed(next, cr, copy) <= Owed(pc, Server, local),
           \/ Open(next, cr, copy) => Open(pc, Server, local)
           \/ Owed(next, cr, copy) < Owed(pc, Server, local),
           OneShot => Noted(next, cr, copy, policy.type)
    PROVE  OnceInv'
<1>1. Server' = cr
  BY OneVersion DEF CoherentInv, Write
<1>2. /\ Then(next, copy) /\ policy' = policy /\ ops' = ops
      /\ retries' = retries /\ faults' = faults
  BY DEF Write, external
<1>3. /\ Owed(pc', cr, local') = Owed(next, cr, copy)
      /\ Open(pc', cr, local') <=> Open(next, cr, copy)
      /\ OneShot => Noted(pc', cr, local', policy.type)
  BY <1>2, OnceThen
<1>4. Room(pc', cr, local') >= Room(pc, Server, local)
  BY <1>3, RoomKeeps
<1>5. /\ retries + faults + Room(pc', cr, local') >= retries + faults + Room(pc, Server, local) + 0
      /\ Cardinality(Live(ops)) <= Cardinality(Live(ops)) + 0
  BY <1>4, LiveType, RoomType
<1> QED
  BY <1>1, <1>2, <1>3, <1>5, OnceStep

\* A step that stores nothing and creates nothing.
LEMMA QuietOnce ==
    ASSUME TypeOK, OnceInv, TypeOK', NEW next, NEW copy, Then(next, copy),
           versions' = versions, policy' = policy, retries' = retries, faults' = faults,
           \A id \in OpIds : ops'[id] \in {"running", "completed"}
                                => ops[id] \in {"running", "completed"},
           Owed(next, Server, copy) <= Owed(pc, Server, local),
           Open(next, Server, copy) => Open(pc, Server, local),
           OneShot => Noted(next, Server, copy, policy.type)
    PROVE  OnceInv'
<1>1. Server' = Server
  BY DEF Server
<1>2. /\ Owed(pc', Server, local') = Owed(next, Server, copy)
      /\ Open(pc', Server, local') <=> Open(next, Server, copy)
      /\ OneShot => Noted(pc', Server, local', policy.type)
  BY OnceThen
<1>3. Room(pc', Server, local') >= Room(pc, Server, local)
  BY <1>2, RoomKeeps
<1>4. Cardinality(Live(ops')) <= Cardinality(Live(ops))
  BY NoMoreLive
<1>5. Cardinality(Live(ops')) <= Cardinality(Live(ops)) + 0
  BY <1>4, LiveType
<1>6. retries + faults + Room(pc', Server, local') >= retries + faults + Room(pc, Server, local) + 0
  BY <1>3, LiveType, RoomType
<1> QED
  BY <1>1, <1>2, <1>5, <1>6, OnceStep

\* A failed patch of a policy that is Executing, or the end of the reconcile.
LEMMA WriteFailsOnce ==
    ASSUME TypeOK, OnceInv, TypeOK', NEW next, WriteFails(next, local),
           \/ next = "idle"
           \/ next \in {"startFailed", "rollback"} /\ Server.phase = "Executing" /\ pc \in Executings
    PROVE  OnceInv'
<1>1. /\ Then(next, local) /\ versions' = versions /\ policy' = policy
      /\ ops' = ops /\ retries' = retries
  BY DEF WriteFails
<1>2. Owed(next, Server, local) <= Owed(pc, Server, local)
  BY OwedNoMore
<1>3. OneShot => Noted(next, Server, local, policy.type)
  <2>1. SUFFICES ASSUME Noted(pc, Server, local, policy.type)
                 PROVE  Noted(next, Server, local, policy.type)
    BY DEF OnceInv
  <2> QED
    BY <2>1 DEF Noted, Executings, Starting, Polling, Backfilling
<1>4. CASE ~Server.live /\ faults' = faults
  <2>1. Open(next, Server, local) => Open(pc, Server, local)
    BY <1>4 DEF Open, Fresh
  <2> QED
    BY <1>1, <1>2, <1>3, <1>4, <2>1, QuietOnce
<1>5. CASE Fault
  <2>1. Server' = Server /\ faults' = faults + 1
    BY <1>1, <1>5 DEF Server, Fault
  <2>2. /\ Owed(pc', Server, local') = Owed(next, Server, local)
        /\ OneShot => Noted(pc', Server, local', policy.type)
    BY <1>1, <1>3, OnceThen
  <2>3. Room(pc', Server, local') + 1 >= Room(pc, Server, local)
    BY <1>2, <2>2, RoomKeeps
  <2>4. retries + (faults + 1) + Room(pc', Server, local')
            >= retries + faults + Room(pc, Server, local) + 0
    BY <2>3, LiveType, RoomType
  <2>5. Cardinality(Live(ops)) <= Cardinality(Live(ops)) + 0
    BY LiveType
  <2> QED
    BY <1>1, <2>1, <2>2, <2>4, <2>5, OnceStep
<1> QED
  BY <1>4, <1>5 DEF WriteFails, Reachable

\* One POST of an attempt that is open: an accepted one closes it, a lost reply is a fault.
LEMMA PostOnce ==
    ASSUME TypeOK, OnceInv, TypeOK', NEW ok \in {"saveResult", "backfillSave", "lateBackfillSave"},
           NEW ko \in {"startFailed", "idle", "rollback"}, Post(ok, ko),
           pc \in {"start", "backfill", "lateBackfill"}, Server.phase = "Executing"
    PROVE  OnceInv'
<1>1. Server' = Server /\ policy' = policy /\ retries' = retries
  BY DEF Post, Server
<1>2. Open(pc, Server, local)
  BY DEF Open, Fresh
<1>3. ASSUME NEW d \in {0, 1}, Cardinality(Live(ops')) <= Cardinality(Live(ops)) + d,
             NEW next, NEW copy, Then(next, copy), next # "save",
             OneShot => Noted(next, Server, copy, policy.type),
             \/ faults' = faults /\ (d = 0 \/ ~Open(next, Server, copy))
             \/ faults' = faults + 1
      PROVE  OnceInv'
  <2>1. Owed(next, Server, copy) <= Owed(pc, Server, local)
    BY <1>3, OwedNoMore
  <2>2. /\ Owed(pc', Server, local') = Owed(next, Server, copy)
        /\ Open(pc', Server, local') <=> Open(next, Server, copy)
        /\ OneShot => Noted(pc', Server, local', policy.type)
    BY <1>3, OnceThen
  <2>3. /\ Room(pc, Server, local) = -Owed(pc, Server, local)
        /\ Room(pc', Server, local') >= -Owed(next, Server, copy)
        /\ ~Open(next, Server, copy) => Room(pc', Server, local') = 1 - Owed(next, Server, copy)
    BY <1>2, <2>2, RoomType
  <2>4. Room(pc', Server, local') >= Room(pc, Server, local) + (d - (faults' - faults))
    <3>1. /\ Owed(pc, Server, local) \in Int /\ Owed(next, Server, copy) \in Int
          /\ Room(pc', Server, local') \in Int /\ faults \in Int
      BY RoomType, LiveType
    <3> QED
      BY <1>3, <2>1, <2>3, <3>1
  <2>5. retries + faults' + Room(pc', Server, local')
            >= retries + faults + Room(pc, Server, local) + d
    <3>1. /\ Room(pc, Server, local) \in Int /\ Room(pc', Server, local') \in Int
          /\ faults \in Int /\ faults' \in Int /\ retries \in Int
      BY RoomType, LiveType, BoundAssumption DEF TypeOK
    <3> QED
      BY <1>3, <2>4, <3>1
  <2> QED
    BY <1>1, <1>3, <2>2, <2>5, OnceStep
<1>4. ASSUME OneShot
      PROVE  /\ Noted(ko, Server, local, policy.type)
             /\ \A r : r # NoResult => Noted(ok, Server, [local EXCEPT !.result = r], policy.type)
  <2>1. Noted(pc, Server, local, policy.type) /\ local \in CR
    BY <1>4 DEF OnceInv, TypeOK
  <2>2. \A r : /\ [local EXCEPT !.result = r].result = r
               /\ [local EXCEPT !.result = r].mode = local.mode
    BY <2>1 DEF CR
  <2> QED
    BY <2>1, <2>2 DEF Noted, Executings, Starting, Polling, Backfilling
<1>5. CASE UNCHANGED <<ops, faults>> /\ Then(ko, local)
  <2>1. Cardinality(Live(ops')) <= Cardinality(Live(ops)) + 0
    BY <1>5, LiveType
  <2> QED
    BY <1>3, <1>4, <1>5, <2>1
<1>6. CASE ~(UNCHANGED <<ops, faults>> /\ Then(ko, local))
  <2>1. PICK id \in OpIds :
          \/ /\ faults' = faults
             /\ \/ ops' = [ops EXCEPT ![id] = "running"]
                   /\ \E result \in {id, NoId} : Then(ok, [local EXCEPT !.result = result])
                \/ ops' = [ops EXCEPT ![id] = "failed"] /\ IsSync /\ Then(ko, local)
          \/ /\ Fault
             /\ ops' = [ops EXCEPT ![id] = "running"]
             /\ Then(ko, local)
    BY <1>6 DEF Post
  <2>2. \A state : Cardinality(Live([ops EXCEPT ![id] = state])) <= Cardinality(Live(ops)) + 1
    BY OneMoreLive
  <2>3. ASSUME faults' = faults, ops' = [ops EXCEPT ![id] = "running"],
               NEW result \in {id, NoId}, Then(ok, [local EXCEPT !.result = result])
        PROVE  OnceInv'
    <3>1. result # NoResult
      BY <2>3, BoundAssumption DEF OpIds, NoId, NoResult
    <3>2. ~Open(ok, Server, [local EXCEPT !.result = result])
      BY DEF Open, Fresh
    <3> QED
      BY <1>3, <1>4, <2>2, <2>3, <3>1, <3>2
  <2>4. CASE faults' = faults /\ ops' = [ops EXCEPT ![id] = "failed"] /\ Then(ko, local)
    <3>1. \A j \in OpIds : ops'[j] \in {"running", "completed"} => ops[j] \in {"running", "completed"}
      BY <2>4 DEF TypeOK
    <3>2. Cardinality(Live(ops')) <= Cardinality(Live(ops))
      BY <3>1, NoMoreLive
    <3>3. Cardinality(Live(ops')) <= Cardinality(Live(ops)) + 0
      BY <3>2, LiveType
    <3> QED
      BY <1>3, <1>4, <2>4, <3>3
  <2>5. CASE Fault /\ ops' = [ops EXCEPT ![id] = "running"] /\ Then(ko, local)
    BY <1>3, <1>4, <2>2, <2>5 DEF Fault
  <2> QED
    BY <2>1, <2>3, <2>4, <2>5
<1> QED
  BY <1>5, <1>6

\* A reconcile's last patch leaves the attempt as open as it was, or serves a retry.
LEMMA SaveOnce ==
    ASSUME MaxLag = 0, TypeOK, CoherentInv, OnceInv, TypeOK', OneShot, Save
    PROVE  OnceInv'
<1>1. Cache = Server /\ Server \in CR /\ local \in CR /\ pc = "save"
  BY OneVersion, EndsType DEF CoherentInv, TypeOK, Save
<1> DEFINE new == WithStatus(Server, local)
<1>2. Abandon \/ Write(new, "idle", local)
  BY <1>1, MergeIsStatus DEF Save
<1>3. /\ new \in CR /\ Status(new) = Status(local) /\ new.retry = Server.retry
      /\ new.mode = Server.mode
  BY <1>1, ReplyTypes, ReplyFields
<1> HIDE DEF new
<1>4. CASE Abandon
  BY <1>4, WriteFailsOnce DEF Abandon
<1>5. CASE Write(new, "idle", local)
  <2>1. /\ Noted(pc, Server, local, policy.type)
        /\ Changes(Server, local, confirmed) /\ new.phase = local.phase
    BY <1>1, <1>3 DEF OnceInv, CoherentInv, InOrder, Status
  <2>2. new.phase \notin {"", "Executing"}
    BY <2>1 DEF Changes
  <2>3. Noted("idle", new, local, policy.type)
    BY <1>3, <2>1, <2>2 DEF Noted, Executings, Starting, Polling, Backfilling
  <2>4. /\ Owed("idle", new, local) = Count(Server.retry) /\ Count(Server.retry) \in {0, 1}
        /\ Server.phase = "Failed"  => Owed(pc, Server, local) = Count(Server.retry) + 1
        /\ Server.phase # "Failed" => Owed(pc, Server, local) = Count(Server.retry)
    <3>1. Count(Server.retry) \in {0, 1}
      BY DEF Count
    <3>2. Owed("idle", new, local) = Count(Server.retry)
      BY <1>3 DEF Owed, Count
    <3>3. Server.phase = "Failed" => local.phase = "Pending"
      BY <2>1 DEF Changes
    <3>4. /\ Server.phase = "Failed"  => Owed(pc, Server, local) = Count(Server.retry) + 1
          /\ Server.phase # "Failed" => Owed(pc, Server, local) = Count(Server.retry)
      BY <1>1, <3>3 DEF Owed, Count
    <3> QED
      BY <3>1, <3>2, <3>4
  <2>5. Server.phase # "Failed" /\ Open("idle", new, local) => Open(pc, Server, local)
    <3>1. SUFFICES ASSUME Server.phase # "Failed",
                          new.phase \notin {"", "Executing", "Applied", "Failed"}
                   PROVE  Fresh(pc, Server, local)
      BY <2>2 DEF Open, Fresh
    <3>2. local.phase \notin {"Executing", "Applied", "Failed"}
      BY <2>1, <3>1
    <3>3. Server.phase = "Executing" => local.phase = "WaitingForTarget"
      BY <1>1, <2>1, <3>2 DEF Changes, Noted
    <3>4. Server.phase # "Applied"
      BY <2>1 DEF Changes
    <3> QED
      BY <1>1, <3>1, <3>3, <3>4 DEF Fresh
  <2>6. Owed("idle", new, local) <= Owed(pc, Server, local)
    BY <2>4
  <2>7. \/ Open("idle", new, local) => Open(pc, Server, local)
        \/ Owed("idle", new, local) < Owed(pc, Server, local)
    BY <2>4, <2>5
  <2> QED
    BY <1>3, <1>5, <2>3, <2>6, <2>7, WriteOnce
<1> QED
  BY <1>2, <1>4, <1>5

\* What follows a poll: the result is noted, so the attempt is not open again.
LEMMA PolledOnce ==
    ASSUME MaxLag = 0, TypeOK, CoherentInv, OnceInv, TypeOK', OneShot,
           ClearAfterPoll \/ CountMissing \/ CountError
    PROVE  OnceInv'
<1>1. /\ Cache = Server /\ Server \in CR /\ local \in CR /\ Server.phase = "Executing"
      /\ pc \in {"clearDone", "clearFailed", "clearRunning", "countMissing", "countError"}
  BY OneVersion, EndsType
     DEF CoherentInv, InOrder, Executings, Polling, TypeOK, ClearAfterPoll, CountMissing, CountError
<1>2. /\ Noted(pc, Server, local, policy.type) /\ Server.result # NoResult
      /\ local.mode # "Continuous" /\ Server.mode # "Continuous"
  <2>1. Noted(pc, Server, local, policy.type)
    BY DEF OnceInv
  <2> QED
    BY <1>1, <2>1 DEF Noted, Executings, Polling
<1>3. ASSUME NEW next \in {"save", "rollback", "idle"}, NEW copy, NEW new \in CR,
             Abandon \/ Proceed(next, copy) \/ Write(new, next, WithAnnotations(copy, new)),
             copy \in CR, copy.mode = local.mode,
             next = "save" => copy.phase \notin {"Approved", "WaitingForTarget"},
             new.phase = "Executing", new.retry = Server.retry, new.mode = Server.mode,
             new.result = Server.result
      PROVE  OnceInv'
  <2>1. CASE Abandon
    BY <2>1, WriteFailsOnce DEF Abandon
  <2>2. ASSUME NEW s, s.phase = "Executing", s.result # NoResult, s.mode = Server.mode,
               NEW l, l.mode = local.mode,
               next = "save" => l.phase \notin {"Approved", "WaitingForTarget"}
        PROVE  ~Open(next, s, l) /\ Noted(next, s, l, policy.type)
    <3>1. ~Open(next, s, l)
      BY <1>3, <2>2 DEF Open, Fresh
    <3>2. Noted(next, s, l, policy.type)
      BY <1>2, <1>3, <2>2 DEF Noted, Executings, Starting, Polling, Backfilling
    <3> QED
      BY <3>1, <3>2
  <2>3. CASE Proceed(next, copy)
    <3>1. Owed(next, Server, copy) <= Owed(pc, Server, local)
      BY <1>1, OwedNoMore
    <3>2. ~Open(next, Server, copy) /\ Noted(next, Server, copy, policy.type)
      BY <1>1, <1>2, <1>3, <2>2
    <3> QED
      BY <2>3, <3>1, <3>2, QuietOnce DEF Proceed, external
  <2>4. CASE Write(new, next, WithAnnotations(copy, new))
    <3>1. Status(WithAnnotations(copy, new)) = Status(copy) /\ WithAnnotations(copy, new).mode = copy.mode
      BY <1>3, ReplyFields
    <3>2. WithAnnotations(copy, new).phase = copy.phase
      BY <3>1 DEF Status
    <3>3. Owed(next, new, WithAnnotations(copy, new)) <= Owed(pc, Server, local)
      BY <1>3, OwedNoMore
    <3>4. /\ ~Open(next, new, WithAnnotations(copy, new))
          /\ Noted(next, new, WithAnnotations(copy, new), policy.type)
      BY <1>2, <1>3, <2>2, <3>1, <3>2
    <3> QED
      BY <1>3, <2>4, <3>3, <3>4, WriteOnce
  <2> QED
    BY <1>3, <2>1, <2>3, <2>4
<1>4. CASE ClearAfterPoll
  <2>1. PICK next \in {"save", "rollback", "idle"}, copy \in {local, Completed(local)} :
          ClearCounters(next, copy) /\ (next = "save" => copy = Completed(local))
    BY <1>4 DEF ClearAfterPoll
  <2> DEFINE new == [Server EXCEPT !.missing = 0, !.errors = 0]
  <2>2. Abandon \/ Proceed(next, copy) \/ Write(new, next, WithAnnotations(copy, new))
    BY <1>1, <2>1, PutCoherent DEF ClearCounters
  <2>3. /\ new \in CR /\ new.phase = "Executing" /\ new.retry = Server.retry
        /\ new.mode = Server.mode /\ new.result = Server.result
    BY <1>1 DEF CR
  <2> HIDE DEF new
  <2>4. /\ Completed(local) \in CR /\ Completed(local).mode = local.mode
        /\ Completed(local).phase = "Applied"
    <3>1. Completed(local) = [Applied(local) EXCEPT !.consumed = TRUE]
      BY <1>2 DEF Completed
    <3>2. Completed(local) \in CR
      BY <1>1, CopyTypes DEF Phases
    <3> QED
      BY <1>1, <3>1, <3>2 DEF Applied, CR
  <2> QED
    BY <1>1, <1>3, <2>1, <2>2, <2>3, <2>4
<1>5. ASSUME NEW new \in {[Server EXCEPT !.missing = local.missing + 1],
                          [Server EXCEPT !.errors = local.errors + 1]},
             NEW next \in {"idle", "rollback"},
             Abandon \/ Write(new, next, WithAnnotations(local, new))
      PROVE  OnceInv'
  <2>1. local.missing + 1 \in Nat /\ local.errors + 1 \in Nat
    BY <1>1, FieldTypes
  <2>2. /\ new \in CR /\ new.phase = "Executing" /\ new.retry = Server.retry
        /\ new.mode = Server.mode /\ new.result = Server.result
    BY <1>1, <1>5, <2>1 DEF CR
  <2> QED
    BY <1>1, <1>3, <1>5, <2>2
<1>6. CASE CountMissing
  BY <1>1, <1>5, <1>6, PutCoherent DEF CountMissing
<1>7. CASE CountError
  BY <1>1, <1>5, <1>7, PutCoherent DEF CountError
<1> QED
  BY <1>4, <1>6, <1>7

\* Every call of a reconcile makes as much room as it takes.
LEMMA CallOnce ==
    ASSUME MaxLag = 0, TypeOK, CoherentInv, OnceInv, TypeOK', OneShot, Call
    PROVE  OnceInv'
<1>1. /\ Cache = Server /\ Server \in CR /\ local \in CR
      /\ InOrder(pc, Server, local, confirmed, policy.auto)
      /\ Noted(pc, Server, local, policy.type)
  BY OneVersion, EndsType DEF CoherentInv, TypeOK, OnceInv
<1>2. Abandon => OnceInv'
  BY WriteFailsOnce DEF Abandon
<1>3. ASSUME NEW cr \in CR, NEW next, NEW copy, Write(cr, next, copy), cr.retry = Server.retry,
             next # "save" \/ cr.phase # "Failed",
             Open(next, cr, copy) => Open(pc, Server, local), Noted(next, cr, copy, policy.type)
      PROVE  OnceInv'
  BY <1>3, OwedNoMore, WriteOnce
<1>4. ASSUME NEW next, NEW copy, Then(next, copy), versions' = versions, policy' = policy,
             retries' = retries, faults' = faults,
             \A id \in OpIds : ops'[id] \in {"running", "completed"}
                                  => ops[id] \in {"running", "completed"},
             next # "save" \/ Server.phase # "Failed",
             Open(next, Server, copy) => Open(pc, Server, local),
             Noted(next, Server, copy, policy.type)
      PROVE  OnceInv'
  BY <1>4, OwedNoMore, QuietOnce
<1>5. CASE PatchDefaultMode \/ PatchModifiedSpec
  <2>1. PICK x \in Modes, phase \in {"Pending", "Approved"} :
          /\ \/ Abandon
             \/ Write([Server EXCEPT !.mode = x], "save", [local EXCEPT !.mode = x, !.phase = phase])
          /\ pc = "modifySpec" => x = local.mode
    <3>1. /\ AgentModes \subseteq Modes /\ DefaultMode(policy.type) \in Modes
          /\ local.mode \in Modes
      BY <1>1, AgentAssumption DEF DefaultMode, Modes, CR
    <3>2. \A y \in Modes : [Server EXCEPT !.mode = y].mode = y
      BY <1>1 DEF CR
    <3>3. CASE PatchDefaultMode
      BY <1>1, <3>1, <3>2, <3>3, PutCoherent DEF PatchDefaultMode
    <3>4. CASE PatchModifiedSpec
      BY <1>1, <3>1, <3>2, <3>4, PutCoherent DEF PatchModifiedSpec
    <3> QED
      BY <1>5, <3>3, <3>4
  <2> DEFINE new  == [Server EXCEPT !.mode = x]
             copy == [local EXCEPT !.mode = x, !.phase = phase]
  <2>2. new \in CR /\ new.phase = Server.phase /\ new.retry = Server.retry /\ new.mode = x
    BY <1>1 DEF CR
  <2>3. copy.mode = x
    BY <1>1 DEF CR
  <2>4. \/ pc = "defaultMode" /\ Server.phase = ""
        \/ pc = "modifySpec" /\ Server.phase = "Pending"
    BY <1>1, <1>5 DEF PatchDefaultMode, PatchModifiedSpec, InOrder
  <2> HIDE DEF new, copy
  <2>5. Abandon \/ Write(new, "save", copy)
    BY <2>1 DEF new, copy
  <2>6. Open(pc, Server, local)
    BY <2>4 DEF Open, Fresh
  <2>7. Noted("save", new, copy, policy.type)
    BY <1>1, <2>1, <2>2, <2>3, <2>4 DEF Noted, Executings, Starting, Polling, Backfilling
  <2> QED
    BY <1>2, <1>3, <2>2, <2>4, <2>5, <2>6, <2>7
<1>6. CASE ClearRetry
  <2> DEFINE new  == [Server EXCEPT !.retry = FALSE, !.rollback = Put(local.rollback, "none", @)]
             copy == [new EXCEPT !.phase = "Pending", !.result = NoResult,
                                 !.executedAt = NoTime, !.completedAt = FALSE]
  <2>1. Abandon \/ Write(new, "save", copy)
    BY <1>6 DEF ClearRetry
  <2>2. new \in CR /\ ~new.retry /\ new.phase = Server.phase /\ new.mode = Server.mode
    <3>1. Put(local.rollback, "none", Server.rollback) \in Rollbacks
      BY <1>1 DEF Put, CR, Rollbacks
    <3> HIDE DEF Server
    <3> QED
      BY <1>1, <3>1 DEF CR
  <2> HIDE DEF new
  <2>3. copy.phase = "Pending" /\ copy.mode = Server.mode
    BY <2>2 DEF CR
  <2> HIDE DEF copy
  <2>4. pc = "clearRetry" /\ Server.phase = "Failed" /\ Server.retry
    BY <1>1, <1>6 DEF ClearRetry, InOrder
  <2>5. Owed("save", new, copy) = 1 /\ Owed(pc, Server, local) = 1
    BY <2>2, <2>3, <2>4 DEF Owed, Count
  <2>6. ~Open("save", new, copy)
    BY <2>2, <2>3, <2>4 DEF Open, Fresh
  <2>7. Noted("save", new, copy, policy.type)
    BY <1>1, <2>2, <2>3, <2>4 DEF Noted, Executings, Starting, Polling, Backfilling
  <2>8. Owed("save", new, copy) <= Owed(pc, Server, local)
    BY <2>5
  <2> QED
    BY <1>2, <2>1, <2>2, <2>6, <2>7, <2>8, WriteOnce
<1>7. CASE Begin
  <2> DEFINE new == WithStatus(Server, local)
  <2>1. Abandon \/ Write(new, "start", WithStatus(local, new))
    BY <1>1, <1>7, MergeIsStatus DEF Begin
  <2>2. new \in CR /\ new.retry = Server.retry /\ new.mode = Server.mode
    BY <1>1, ReplyTypes, ReplyFields
  <2> HIDE DEF new
  <2>3. WithStatus(local, new).mode = local.mode
    BY <1>1, <2>2, ReplyFields
  <2>4. pc = "begin" /\ Server.phase = "Approved" /\ local.phase = "Executing"
    BY <1>1, <1>7 DEF Begin, InOrder
  <2>5. Open(pc, Server, local)
    BY <2>4 DEF Open, Fresh
  <2>6. new.phase = "Executing"
    <3>1. Status(new) = Status(local)
      BY <1>1, ReplyFields DEF new
    <3> QED
      BY <2>4, <3>1 DEF Status
  <2>7. Noted("start", new, WithStatus(local, new), policy.type)
    BY <1>1, <2>2, <2>3, <2>4, <2>6 DEF Noted, Executings, Starting, Polling, Backfilling
  <2> QED
    BY <1>2, <1>3, <2>1, <2>2, <2>5, <2>7
<1>8. CASE Start \/ Backfill
  <2>1. PICK ok \in {"saveResult", "backfillSave", "lateBackfillSave"},
             ko \in {"startFailed", "idle", "rollback"} : Post(ok, ko)
    BY <1>8 DEF Start, Backfill
  <2>2. pc \in {"start", "backfill", "lateBackfill"} /\ Server.phase = "Executing"
    BY <1>1, <1>8 DEF Start, Backfill, InOrder, Executings, Starting, Backfilling
  <2> QED
    BY <2>1, <2>2, PostOnce
<1>9. CASE StartTooEarly
  <2>1. /\ pc = "start" /\ Server.phase = "Executing"
        /\ Proceed("save", InPhase(local, "WaitingForTarget"))
    BY <1>1, <1>9 DEF StartTooEarly, InOrder, Executings, Starting
  <2>2. /\ InPhase(local, "WaitingForTarget").mode = local.mode
        /\ InPhase(local, "WaitingForTarget").phase = "WaitingForTarget"
    BY <1>1 DEF InPhase, CR
  <2>3. Open(pc, Server, local)
    BY <2>1 DEF Open, Fresh
  <2>4. Noted("save", Server, InPhase(local, "WaitingForTarget"), policy.type)
    BY <1>1, <2>1, <2>2 DEF Noted, Executings, Starting, Polling, Backfilling
  <2> QED
    BY <1>4, <2>1, <2>3, <2>4 DEF Proceed, external
<1>10. CASE SaveResult \/ BackfillSave
  <2> DEFINE new == [Server EXCEPT !.result = Put(Cache.result, local.result, @)]
  <2>1. PICK next \in {"clearStarts", "backfillMark"}, failed \in {"startFailed", "idle", "rollback"} :
          Write(new, next, WithStatus(local, new)) \/ WriteFails(failed, local)
    BY <1>10 DEF SaveResult, BackfillSave, PatchResult
  <2>2. pc \in {"saveResult", "backfillSave", "lateBackfillSave"} /\ Server.phase = "Executing"
    BY <1>1, <1>10 DEF SaveResult, BackfillSave, InOrder, Executings, Starting, Backfilling
  <2>3. /\ new \in CR /\ new.retry = Server.retry /\ new.phase = Server.phase
        /\ new.mode = Server.mode /\ new.result = local.result
    <3>1. new = [Server EXCEPT !.result = local.result] /\ local.result \in Results
      BY <1>1, PutCoherent, FieldTypes
    <3> HIDE DEF new
    <3> QED
      BY <1>1, <3>1 DEF CR
  <2> HIDE DEF new
  <2>4. WithStatus(local, new).mode = local.mode
    BY <1>1, <2>3, ReplyFields
  <2>5. ~Open(next, new, WithStatus(local, new))
    BY <2>2, <2>3 DEF Open, Fresh
  <2>6. Noted(next, new, WithStatus(local, new), policy.type)
    BY <1>1, <2>2, <2>3, <2>4 DEF Noted, Executings, Starting, Polling, Backfilling
  <2>7. pc \in Executings
    BY <2>2 DEF Executings, Starting, Backfilling
  <2> QED
    BY <1>3, <2>1, <2>2, <2>3, <2>5, <2>6, <2>7, WriteFailsOnce
<1>11. CASE ClearStarts \/ StartFailed \/ BackfillMark
  <2>1. PICK n \in Nat, next \in {"idle", "rollback"} :
          (PatchStarts(n, next) \/ Abandon) /\ (pc = "startFailed" => n # 0)
    BY <1>1, <1>11, FieldTypes DEF ClearStarts, StartFailed, BackfillMark
  <2> DEFINE new == [Server EXCEPT !.starts = n]
  <2>2. Abandon \/ Write(new, next, WithAnnotations(local, new))
    BY <1>1, <2>1, PutCoherent DEF PatchStarts
  <2>3. pc \in {"clearStarts", "startFailed", "backfillMark"} /\ Server.phase = "Executing"
    BY <1>1, <1>11 DEF ClearStarts, StartFailed, BackfillMark, InOrder, Executings, Starting,
       Backfilling
  <2>4. /\ new \in CR /\ new.retry = Server.retry /\ new.phase = "Executing"
        /\ new.mode = Server.mode /\ new.result = Server.result /\ new.starts = n
    BY <1>1, <2>3 DEF CR
  <2> HIDE DEF new
  <2>5. WithAnnotations(local, new).mode = local.mode
    BY <1>1, <2>4, ReplyFields
  <2>6. ~Open(next, new, WithAnnotations(local, new))
    BY <1>1, <2>1, <2>3, <2>4 DEF Open, Fresh, Noted
  <2>7. Noted(next, new, WithAnnotations(local, new), policy.type)
    BY <1>1, <2>3, <2>4, <2>5 DEF Noted, Executings, Starting, Polling, Backfilling
  <2> QED
    BY <1>2, <1>3, <2>2, <2>4, <2>6, <2>7
<1>12. CASE Poll \/ PollError
  <2>1. \E next \in Polling :
          /\ Then(next, local) /\ pc = "poll" /\ versions' = versions
          /\ policy' = policy /\ ops' = ops /\ retries' = retries /\ faults' = faults
    <3>1. CASE Poll
      <4>1. PICK next \in {"countMissing", "clearFailed", "clearDone", "clearRunning"} : pc' = next
        BY <3>1 DEF Poll
      <4>2. Then(next, local) /\ next \in Polling
        BY <3>1, <4>1 DEF Poll, Then, Polling
      <4> QED
        BY <3>1, <4>2 DEF Poll
    <3>2. CASE PollError
      BY <3>2 DEF PollError, Proceed, external, Polling
    <3> QED
      BY <1>12, <3>1, <3>2
  <2>2. PICK next \in Polling :
          /\ Then(next, local) /\ pc = "poll" /\ versions' = versions
          /\ policy' = policy /\ ops' = ops /\ retries' = retries /\ faults' = faults
    BY <2>1
  <2>3. ~Open(next, Server, local) /\ next # "save"
    BY <1>1, <2>2 DEF Open, Fresh, InOrder, Executings, Polling
  <2>4. Noted(next, Server, local, policy.type)
    BY <1>1, <2>2 DEF Noted, Executings, Starting, Polling, Backfilling
  <2> QED
    BY <1>4, <2>2, <2>3, <2>4
<1>13. CASE Rollback
  <2>1. PICK outcome \in Rollbacks : Then("saveRollback", [local EXCEPT !.rollback = outcome])
    BY <1>13 DEF Rollback
  <2> DEFINE copy == [local EXCEPT !.rollback = outcome]
  <2>2. copy.mode = local.mode
    BY <1>1 DEF CR
  <2>3. /\ pc = "rollback" /\ versions' = versions /\ policy' = policy
        /\ retries' = retries /\ faults' = faults
        /\ ops' = ops \/ \E id \in OpIds : ops' = [ops EXCEPT ![id] = "gone"]
    BY <1>13 DEF Rollback
  <2>4. \A id \in OpIds : ops'[id] \in {"running", "completed"} => ops[id] \in {"running", "completed"}
    BY <2>3 DEF TypeOK
  <2> HIDE DEF copy
  <2>5. Open("saveRollback", Server, copy) => Open(pc, Server, local)
    BY <2>3 DEF Open, Fresh
  <2>6. Noted("saveRollback", Server, copy, policy.type)
    BY <1>1, <2>2, <2>3 DEF Noted, Executings, Starting, Polling, Backfilling
  <2>7. Then("saveRollback", copy)
    BY <2>1 DEF copy
  <2> QED
    BY <1>4, <2>3, <2>4, <2>5, <2>6, <2>7
<1>14. CASE SaveRollback
  <2> DEFINE new  == [Server EXCEPT !.rollback = local.rollback]
             copy == [new EXCEPT !.phase = "Failed", !.completedAt = TRUE, !.result = FailText]
  <2>1. Abandon \/ Write(new, "save", copy)
    BY <1>14 DEF SaveRollback
  <2>2. /\ new \in CR /\ new.phase = Server.phase /\ new.retry = Server.retry
        /\ new.mode = Server.mode
    <3>1. local.rollback \in Rollbacks
      BY <1>1, FieldTypes
    <3> QED
      BY <1>1, <3>1 DEF CR
  <2> HIDE DEF new
  <2>3. copy.phase = "Failed" /\ copy.mode = Server.mode
    BY <2>2 DEF CR
  <2> HIDE DEF copy
  <2>4. pc = "saveRollback" /\ Server.phase \in {"Executing", "WaitingForTarget"}
    BY <1>1, <1>14 DEF SaveRollback, InOrder, Undoing
  <2>5. Open("save", new, copy) => Open(pc, Server, local)
    BY <2>2, <2>3 DEF Open, Fresh
  <2>6. Noted("save", new, copy, policy.type)
    BY <1>1, <2>2, <2>3, <2>4 DEF Noted, Executings, Starting, Polling, Backfilling
  <2> QED
    BY <1>2, <1>3, <2>1, <2>2, <2>4, <2>5, <2>6
<1> QED
  BY <1>5, <1>6, <1>7, <1>8, <1>9, <1>10, <1>11, <1>12, <1>13, <1>14, SaveOnce, PolledOnce DEF Call

\* Beginning a reconcile opens nothing: a backfill is due only for an attempt that has
\* noted neither a resource nor a failed start.
LEMMA ReconcileOnce ==
    ASSUME MaxLag = 0, TypeOK, CoherentInv, OnceInv, TypeOK', OneShot, Reconcile
    PROVE  OnceInv'
<1>1. Cache = Server /\ Server \in CR /\ local \in CR
  BY OneVersion, EndsType DEF CoherentInv, TypeOK
<1>2. pc = "idle" /\ Server.live
  BY <1>1 DEF Reconcile, ReconcileNew, ReconcilePending, ReconcileApproved, ReconcileWaiting,
     ReconcileRetry, ExecTimedOut, ExecNoResult, ExecPoll, Monitoring, Reconciling
<1>3. Noted("idle", Server, local, policy.type)
  BY <1>2 DEF OnceInv
<1>4. ASSUME NEW next, NEW copy, Proceed(next, copy), next \notin {"start", "save"},
             next \in {"backfill", "lateBackfill"}
                => Server.phase = "Executing" /\ Server.result = NoResult /\ Server.starts = 0,
             next # "idle", Noted(next, Server, copy, policy.type)
      PROVE  OnceInv'
  <2>1. Owed(next, Server, copy) <= Owed(pc, Server, local)
    BY <1>4, OwedNoMore
  <2>2. Open(next, Server, copy) => Open(pc, Server, local)
    BY <1>2, <1>4 DEF Open, Fresh
  <2> QED
    BY <1>4, <2>1, <2>2, QuietOnce DEF Proceed, external
<1>5. ASSUME NEW copy, Proceed("save", copy), copy.mode = Server.mode,
             Server.phase \in {"", "Pending", "Approved", "WaitingForTarget"}
      PROVE  OnceInv'
  <2>1. Owed("save", Server, copy) <= Owed(pc, Server, local)
    BY <1>5, OwedNoMore
  <2>2. Open(pc, Server, local)
    BY <1>5 DEF Open, Fresh
  <2>3. Noted("save", Server, copy, policy.type)
    BY <1>3, <1>5 DEF Noted, Executings, Starting, Polling, Backfilling
  <2> QED
    BY <1>5, <2>1, <2>2, <2>3, QuietOnce DEF Proceed, external
<1>6. /\ \A phase : InPhase(Server, phase).mode = Server.mode
      /\ Applied(Server).mode = Server.mode
      /\ [Server EXCEPT !.phase = "Executing", !.executedAt = 0].mode = Server.mode
      /\ \A t : [Server EXCEPT !.phase = "Approved", !.consumed = TRUE,
                               !.applied = @ \cup {t}].mode = Server.mode
      /\ \A mode : [Server EXCEPT !.mode = mode].mode = mode
  BY <1>1 DEF InPhase, Applied, CR
<1>7. CASE ReconcileNew
  <2>1. CASE Server.mode = "" /\ Proceed("defaultMode", Server)
    <3>1. Noted("defaultMode", Server, Server, policy.type)
      BY <1>1, <1>3, <1>7, <2>1 DEF Noted, ReconcileNew, Reconciling, Executings, Starting,
         Polling, Backfilling
    <3> QED
      BY <1>4, <2>1, <3>1
  <2>2. CASE Proceed("save", InPhase(Server, "Pending"))
    BY <1>1, <1>5, <1>6, <1>7, <2>2 DEF ReconcileNew, Reconciling
  <2> QED
    BY <1>1, <1>7, <2>1, <2>2 DEF ReconcileNew
<1>8. CASE ReconcilePending
  <2>1. Server.phase = "Pending"
    BY <1>1, <1>8 DEF ReconcilePending, Reconciling
  <2>2. CASE \E mode \in AgentModes \cup {Server.mode} :
                 Proceed("modifySpec", [Server EXCEPT !.mode = mode])
    <3>1. PICK mode \in AgentModes \cup {Server.mode} :
                 Proceed("modifySpec", [Server EXCEPT !.mode = mode])
      BY <2>2
    <3>2. Noted("modifySpec", Server, [Server EXCEPT !.mode = mode], policy.type)
      BY <1>3, <1>6, <2>1, <3>1 DEF Noted, OneShot, Executings, Starting, Polling, Backfilling
    <3> QED
      BY <1>4, <3>1, <3>2
  <2>3. CASE \E copy \in {Server, InPhase(Server, "Approved"), InPhase(Server, "Rejected")} :
                 Proceed("save", copy)
    BY <1>5, <1>6, <2>1, <2>3
  <2> QED
    BY <1>1, <1>8, <2>2, <2>3 DEF ReconcilePending
<1>9. CASE ReconcileApproved
  <2>1. Server.phase = "Approved"
    BY <1>1, <1>9 DEF ReconcileApproved, Reconciling
  <2> DEFINE copy == [Server EXCEPT !.phase = "Executing", !.executedAt = 0]
  <2>2. CASE Compatible(Server) /\ Proceed("begin", copy)
    <3>1. copy.mode = Server.mode /\ (Server.mode = "Continuous" => policy.type = "scaling")
      BY <1>6, <2>2 DEF Compatible
    <3> HIDE DEF copy
    <3>2. Noted("begin", Server, copy, policy.type)
      BY <1>3, <2>1, <3>1 DEF Noted, Executings, Starting, Polling, Backfilling
    <3> QED
      BY <1>4, <2>2, <3>2
  <2>3. CASE \E new \in {InPhase(Server, "Rejected"), InPhase(Server, "WaitingForTarget"),
                         Applied(Server)} : Proceed("save", new)
    BY <1>5, <1>6, <2>1, <2>3
  <2> QED
    BY <1>1, <1>9, <2>2, <2>3 DEF ReconcileApproved, MovedToWaiting
<1>10. CASE ReconcileWaiting
  <2>1. Server.phase = "WaitingForTarget"
    BY <1>1, <1>10 DEF ReconcileWaiting, Reconciling
  <2>2. CASE Proceed("rollback", Server)
    <3>1. Noted("rollback", Server, Server, policy.type)
      BY <1>3, <2>1 DEF Noted, Executings, Starting, Polling, Backfilling
    <3> QED
      BY <1>4, <2>2, <3>1
  <2>3. CASE Proceed("save", Applied(Server))
    BY <1>5, <1>6, <2>1, <2>3
  <2>4. CASE \E t : Proceed("save", [Server EXCEPT !.phase = "Approved", !.consumed = TRUE,
                                                   !.applied = @ \cup {t}])
    BY <1>5, <1>6, <2>1, <2>4
  <2> QED
    BY <1>1, <1>10, <2>2, <2>3, <2>4 DEF ReconcileWaiting
<1>11. CASE ReconcileRetry
  <2>1. Server.phase = "Failed" /\ Proceed("clearRetry", Server)
    BY <1>1, <1>11 DEF ReconcileRetry, Reconciling
  <2>2. Noted("clearRetry", Server, Server, policy.type)
    BY <1>3, <2>1 DEF Noted, Executings, Starting, Polling, Backfilling
  <2> QED
    BY <1>4, <2>1, <2>2
<1>12. CASE ExecTimedOut \/ ExecNoResult \/ ExecPoll
  <2>1. /\ Server.phase = "Executing" /\ Server.starts \in Nat
        /\ \E next \in {"rollback", "backfill", "lateBackfill", "poll"} :
              /\ Proceed(next, Server)
              /\ next \in {"backfill", "lateBackfill"}
                    => Server.result = NoResult /\ Server.starts < 1
              /\ next = "poll" => Server.result # NoResult
    BY <1>1, <1>12, FieldTypes
       DEF ExecTimedOut, ExecNoResult, ExecPoll, Monitoring, Reconciling, MayBackfill
  <2>2. PICK next \in {"rollback", "backfill", "lateBackfill", "poll"} :
              /\ Proceed(next, Server)
              /\ next \in {"backfill", "lateBackfill"}
                    => Server.result = NoResult /\ Server.starts < 1
              /\ next = "poll" => Server.result # NoResult
    BY <2>1
  <2>3. Noted(next, Server, Server, policy.type)
    BY <1>3, <2>1, <2>2 DEF Noted, Executings, Starting, Polling, Backfilling
  <2> QED
    BY <1>4, <2>1, <2>2, <2>3
<1> QED
  BY <1>7, <1>8, <1>9, <1>10, <1>11, <1>12 DEF Reconcile

\* What others do opens no attempt, but for a retry: a request for it makes room for one
\* that is owed. A crash is a fault.
LEMMA EnvironmentOnce ==
    ASSUME MaxLag = 0, TypeOK, CoherentInv, OnceInv, TypeOK', OneShot,
           Deliver \/ Tick \/ Crash \/ User \/ Operator \/ TargetAppears
    PROVE  OnceInv'
<1>1. /\ Server \in CR /\ local \in CR /\ Len(versions) = 1 /\ retries \in Nat /\ faults \in Nat
      /\ Noted(pc, Server, local, policy.type)
  BY EndsType, LiveType DEF CoherentInv, TypeOK, OnceInv
<1>2. ASSUME policy' = policy, retries' = retries, faults' = faults \/ faults' = faults + 1,
             \A id \in OpIds : ops'[id] \in {"running", "completed"}
                                  => ops[id] \in {"running", "completed"},
             Owed(pc', Server', local') <= Owed(pc, Server, local),
             \/ Open(pc', Server', local') => Open(pc, Server, local)
             \/ faults' = faults + 1,
             Noted(pc', Server', local', policy.type)
      PROVE  OnceInv'
  <2>1. /\ faults' = faults => Room(pc', Server', local') >= Room(pc, Server, local)
        /\ Room(pc', Server', local') + 1 >= Room(pc, Server, local)
    <3>1. Room(pc', Server', local') + 1 >= Room(pc, Server, local)
      BY <1>2, RoomKeeps
    <3>2. faults' = faults => (Open(pc', Server', local') => Open(pc, Server, local))
      BY <1>1, <1>2
    <3> QED
      BY <1>2, <3>1, <3>2, RoomKeeps
  <2>2. Room(pc', Server', local') \in Int /\ Room(pc, Server, local) \in Int
    BY RoomType
  <2>3. retries' + faults' + Room(pc', Server', local')
            >= retries + faults + Room(pc, Server, local) + 0
    BY <1>1, <1>2, <2>1, <2>2
  <2>4. Cardinality(Live(ops')) <= Cardinality(Live(ops))
    BY <1>2, NoMoreLive
  <2>5. Cardinality(Live(ops')) <= Cardinality(Live(ops)) + 0
    BY <2>4, LiveType
  <2> QED
    BY <1>2, <2>3, <2>5, OnceStep
<1>3. ASSUME pc' = pc, policy' = policy, retries' = retries, faults' = faults,
             Server'.phase = Server.phase, Server'.retry = Server.retry,
             Server'.mode = Server.mode, Server'.result = Server.result,
             Server'.starts = Server.starts, Server'.live => Server.live,
             local'.phase = local.phase, local'.mode = local.mode, local'.result = local.result,
             \A id \in OpIds : ops'[id] \in {"running", "completed"}
                                  => ops[id] \in {"running", "completed"}
      PROVE  OnceInv'
  <2>1. Owed(pc', Server', local') <= Owed(pc, Server, local)
    <3>1. Owed(pc', Server', local') = Owed(pc, Server, local)
      BY <1>3 DEF Owed
    <3> QED
      BY <3>1, RoomType
  <2> HIDE DEF Server
  <2>2. Open(pc', Server', local') => Open(pc, Server, local)
    BY <1>3 DEF Open, Fresh
  <2>3. Noted(pc', Server', local', policy.type)
    BY <1>1, <1>3 DEF Noted
  <2> QED
    BY <1>2, <1>3, <2>1, <2>2, <2>3
<1>4. CASE Deliver
  BY <1>1, <1>4 DEF Deliver
<1>5. CASE Tick
  <2>1. /\ Server' = Older(Server) /\ local' = Older(local) /\ pc' = pc /\ policy' = policy
        /\ retries' = retries /\ faults' = faults /\ ops' = ops
    BY <1>1, <1>5, TickCoherent DEF Tick, external
  <2>2. \A cr \in CR : /\ Older(cr).phase = cr.phase /\ Older(cr).retry = cr.retry
                       /\ Older(cr).mode = cr.mode /\ Older(cr).result = cr.result
                       /\ Older(cr).starts = cr.starts /\ Older(cr).live = cr.live
    BY OlderFields
  <2> HIDE DEF Older
  <2> QED
    BY <1>1, <1>3, <2>1, <2>2
<1>6. CASE Crash
  <2>1. /\ Server' = Server /\ Then("idle", Unset) /\ policy' = policy
        /\ retries' = retries /\ ops' = ops /\ faults' = faults + 1
    BY <1>1, <1>6 DEF Crash, Fault, Server
  <2> HIDE DEF Server
  <2>2. Unset.mode = ""
    BY DEF Unset, NewCR
  <2>3. Noted("idle", Server, Unset, policy.type)
    BY <1>1, <2>2 DEF Noted, Executings, Starting, Polling, Backfilling
  <2>4. Owed("idle", Server, Unset) <= Owed(pc, Server, local)
    BY OwedNoMore
  <2>5. /\ Owed(pc', Server', local') <= Owed(pc, Server, local)
        /\ Noted(pc', Server', local', policy.type)
    BY <2>1, <2>3, <2>4, OnceThen
  <2> QED
    BY <1>2, <2>1, <2>5
<1>7. ASSUME NEW cr \in CR, UserWrites(cr)
      PROVE  /\ Server' = cr /\ pc' = pc /\ local' = local /\ policy' = policy
             /\ faults' = faults /\ ops' = ops
  BY <1>1, <1>7, OneVersion DEF UserWrites
<1>8. CASE UserApprove
  <2> DEFINE cr == [Server EXCEPT !.phase = "Approved"]
  <2>1. cr \in CR /\ cr.phase = "Approved" /\ cr.retry = Server.retry /\ cr.mode = Server.mode
    BY <1>1 DEF CR, Phases
  <2> HIDE DEF cr
  <2>2. /\ Server.phase = "Pending" /\ UserWrites(cr) /\ retries' = retries
    BY <1>8 DEF UserApprove, cr
  <2>3. pc # "begin" /\ pc \notin Executings /\ (pc # "idle" => policy.auto) /\ ~policy.auto
    BY <1>8, <2>2 DEF CoherentInv, InOrder, UserApprove
  <2>4. Owed(pc, cr, local) = Owed(pc, Server, local)
    BY <2>1, <2>2 DEF Owed
  <2>5. Open(pc, Server, local)
    BY <2>2 DEF Open, Fresh
  <2>6. Noted(pc, cr, local, policy.type)
    BY <1>1, <2>1, <2>3 DEF Noted, Executings, Starting, Polling, Backfilling
  <2>7. Owed(pc, cr, local) <= Owed(pc, Server, local)
    BY <2>4, RoomType
  <2> QED
    BY <1>2, <1>7, <2>1, <2>2, <2>5, <2>6, <2>7
<1>9. CASE UserRetry
  <2> DEFINE cr == [Server EXCEPT !.retry = TRUE]
  <2>1. /\ cr \in CR /\ cr.phase = Server.phase /\ cr.retry /\ cr.mode = Server.mode
        /\ cr.result = Server.result /\ cr.starts = Server.starts /\ cr.live = Server.live
    BY <1>1 DEF CR
  <2> HIDE DEF cr
  <2>2. ~Server.retry /\ UserWrites(cr) /\ retries' = retries + 1
    BY <1>9 DEF UserRetry, cr
  <2>3. Owed(pc, cr, local) = Owed(pc, Server, local) + 1
    BY <2>1, <2>2 DEF Owed, Count
  <2>4. Open(pc, cr, local) <=> Open(pc, Server, local)
    BY <2>1 DEF Open, Fresh
  <2>5. Room(pc, cr, local) = Room(pc, Server, local) - 1
    BY <2>3, <2>4, RoomType
  <2>6. Noted(pc, cr, local, policy.type)
    BY <1>1, <2>1 DEF Noted
  <2>7. /\ Server' = cr /\ pc' = pc /\ local' = local /\ policy' = policy
        /\ faults' = faults /\ ops' = ops
    BY <1>7, <2>1, <2>2
  <2>8. (retries + 1) + faults + Room(pc, cr, local)
            >= retries + faults + Room(pc, Server, local) + 0
    BY <1>1, <2>5, RoomType
  <2>9. Cardinality(Live(ops)) <= Cardinality(Live(ops)) + 0
    BY LiveType
  <2> QED
    BY <2>2, <2>6, <2>7, <2>8, <2>9, OnceStep
<1>10. CASE UserDelete
  <2> DEFINE cr == [Server EXCEPT !.live = FALSE]
  <2>1. /\ cr \in CR /\ cr.phase = Server.phase /\ cr.retry = Server.retry
        /\ cr.mode = Server.mode /\ cr.result = Server.result /\ cr.starts = Server.starts
        /\ ~cr.live
    BY <1>1 DEF CR
  <2> HIDE DEF cr
  <2>2. UserWrites(cr) /\ retries' = retries
    BY <1>10 DEF UserDelete, cr
  <2>3. /\ Server' = cr /\ pc' = pc /\ local' = local /\ policy' = policy
        /\ faults' = faults /\ ops' = ops
    BY <1>7, <2>1, <2>2
  <2> HIDE DEF Server
  <2> QED
    BY <1>3, <2>1, <2>2, <2>3
<1>11. CASE Operator \/ TargetAppears
  <2>1. /\ pc' = pc /\ local' = local /\ policy' = policy /\ retries' = retries
        /\ faults' = faults /\ Server' = Server
        /\ \/ ops' = ops
           \/ \E id \in OpIds : ops[id] = "running" /\ ops' = [ops EXCEPT ![id] = "completed"]
           \/ \E id \in OpIds, to \in {"failed", "gone"} : ops' = [ops EXCEPT ![id] = to]
    BY <1>11 DEF Operator, OperatorFinishes, OperatorForgets, OperatorChanges, TargetAppears, Server
  <2>2. \A id \in OpIds : ops'[id] \in {"running", "completed"} => ops[id] \in {"running", "completed"}
    BY <2>1 DEF TypeOK
  <2> HIDE DEF Server
  <2> QED
    BY <1>3, <2>1, <2>2
<1> QED
  BY <1>4, <1>5, <1>6, <1>8, <1>9, <1>10, <1>11 DEF User

\* The immutable part of the spec stays.
LEMMA PolicyStays ==
    ASSUME Next
    PROVE  policy' = policy
<1>1. Reconcile => policy' = policy
  BY DEF Reconcile, ReconcileNew, ReconcilePending, ReconcileApproved, ReconcileWaiting,
     ReconcileRetry, ExecTimedOut, ExecNoResult, ExecPoll, Proceed, external
<1>2. \/ Save \/ PatchDefaultMode \/ PatchModifiedSpec \/ ClearRetry \/ Begin
      \/ StartTooEarly \/ SaveResult \/ ClearStarts \/ StartFailed
      => policy' = policy
  BY DEF Save, PatchDefaultMode, PatchModifiedSpec, ClearRetry, Begin, StartTooEarly,
     SaveResult, ClearStarts, StartFailed, PatchResult, PatchStarts, Proceed, Write,
     Abandon, WriteFails, external
<1>3. Start \/ Backfill \/ BackfillSave \/ BackfillMark \/ Poll \/ PollError
      => policy' = policy
  BY DEF Start, Backfill, Post, BackfillSave, BackfillMark, Poll, PollError, PatchResult,
     PatchStarts, Proceed, Write, Abandon, WriteFails, external
<1>4. ClearAfterPoll \/ CountMissing \/ CountError \/ Rollback \/ SaveRollback
      => policy' = policy
  BY DEF ClearAfterPoll, ClearCounters, CountMissing, CountError, Rollback, SaveRollback,
     Proceed, Write, Abandon, WriteFails, external
<1>5. Deliver \/ Tick \/ Crash \/ User \/ Operator \/ TargetAppears => policy' = policy
  BY DEF Deliver, Tick, Crash, User, UserApprove, UserRetry, UserDelete, UserWrites,
     Operator, OperatorFinishes, OperatorForgets, OperatorChanges, TargetAppears, external
<1> QED
  BY <1>1, <1>2, <1>3, <1>4, <1>5 DEF Next, Call

\* Resources are counted against attempts and faults in every reachable state.
THEOREM ResourcesCounted ==
    ASSUME MaxLag = 0
    PROVE  Spec => []OnceInv
<1>1. TypeOK /\ Init => OnceInv
  <2> SUFFICES ASSUME TypeOK, Init, OneShot
               PROVE  /\ Noted(pc, Server, local, policy.type)
                      /\ Cardinality(Live(ops)) <= retries + faults + Room(pc, Server, local)
    BY DEF OnceInv
  <2>1. /\ Server = NewCR(policy.mode) /\ local = Unset /\ pc = "idle"
        /\ retries = 0 /\ faults = 0 /\ \A id \in OpIds : ops[id] = "unused"
    BY DEF Init, Server
  <2>2. /\ Server.phase = "" /\ Server.retry = FALSE /\ Server.mode = policy.mode
        /\ local.mode = ""
    BY <2>1 DEF NewCR, Unset
  <2> HIDE DEF Server
  <2>3. Noted(pc, Server, local, policy.type)
    BY <2>1, <2>2 DEF Noted, OneShot, Executings, Starting, Polling, Backfilling
  <2>4. Live(ops) = {}
    BY <2>1 DEF Live
  <2>5. Cardinality(Live(ops)) = 0
    BY <2>4, FS_EmptySet
  <2>6. Room(pc, Server, local) = 0
    <3>1. Open(pc, Server, local)
      BY <2>2 DEF Open, Fresh
    <3>2. Owed(pc, Server, local) = 0
      <4>1. ~Server.retry /\ ~(pc = "save" /\ Server.phase = "Failed" /\ local.phase = "Pending")
        BY <2>1, <2>2
      <4> QED
        BY <4>1 DEF Owed, Count
    <3> QED
      BY <3>1, <3>2, RoomType
  <2> QED
    BY <2>1, <2>3, <2>5, <2>6
<1>2. TypeOK /\ TypeOK' /\ CoherentInv /\ OnceInv /\ [Next]_vars => OnceInv'
  <2> SUFFICES ASSUME TypeOK, TypeOK', CoherentInv, OnceInv, [Next]_vars PROVE OnceInv'
    OBVIOUS
  <2>1. CASE UNCHANGED vars
    BY <2>1 DEF vars, OnceInv, Server, OneShot, Live
  <2>2. CASE OneShot /\ Next
    BY <2>2, ReconcileOnce, CallOnce, EnvironmentOnce DEF Next
  <2>3. CASE ~OneShot /\ Next
    BY <2>3, PolicyStays DEF OnceInv, OneShot
  <2> QED
    BY <2>1, <2>2, <2>3
<1> QED
  BY <1>1, <1>2, TypeCorrect, CoherentlyOrdered, PTL DEF Spec

\* Without faults an attempt creates at most one resource, and each fault leaves at most
\* one more running or completed.
THEOREM OneResourceEach ==
    ASSUME MaxLag = 0
    PROVE  Spec => []OneResourcePerAttempt
<1>1. TypeOK /\ AttemptInv /\ OnceInv => OneResourcePerAttempt
  <2> SUFFICES ASSUME TypeOK, AttemptInv, OnceInv, OneShot
               PROVE  /\ \A id \in OpIds : faults = 0 /\ Ran(id) => id <= 1 + retries
                      /\ Cardinality(Live(ops)) <= 1 + retries + faults
    BY DEF OneResourcePerAttempt
  <2>1. ASSUME NEW id \in OpIds, faults = 0, Ran(id)
        PROVE  id <= 1 + retries
    <3>1. Server \in CR /\ local \in CR /\ retries \in Nat /\ id \in Int
      BY EndsType, BoundAssumption DEF TypeOK, OpIds
    <3>2. Slack(pc, Server, local) \in {-2, -1, 0, 1}
      BY <3>1, CountType
    <3>3. id <= retries + Slack(pc, Server, local)
      BY <2>1 DEF AttemptInv, Ran
    <3> QED
      BY <3>1, <3>2, <3>3
  <2>2. Cardinality(Live(ops)) <= 1 + retries + faults
    <3>1. Cardinality(Live(ops)) <= retries + faults + Room(pc, Server, local)
      BY DEF OnceInv
    <3>2. Room(pc, Server, local) <= 1 /\ Room(pc, Server, local) \in Int
      BY RoomType
    <3> QED
      BY <3>1, <3>2, LiveType
  <2> QED
    BY <2>1, <2>2
<1> QED
  BY <1>1, TypeCorrect, AttemptsCounted, ResourcesCounted, PTL

-----------------------------------------------------------------------------
(* What a rollback leaves. An attempt that has ended may have left one     *)
(* resource, besides those that the earlier attempts and the faults        *)
(* account for. As long as the CR, or the copy of the reconcile in         *)
(* progress, names a resource, that is the one: without it the others are  *)
(* few enough. So when it is deleted, those that are left are few enough.  *)

Recording == {"saveResult", "backfillSave", "lateBackfillSave"}

\* The copy in memory, or the CR, names resource r; a result that is being recorded
\* replaces the one stored.
Names(c, s, l, r) == /\ s.live /\ r \in OpIds
                     /\ \/ r = l.result
                        \/ r = s.result /\ c \notin Recording

\* A rollback is recorded, or about to be recorded, as succeeded.
Undone(c, s, l) == \/ s.phase = "Failed" /\ s.rollback = "succeeded"
                   \/ s.live /\ c = "saveRollback" /\ l.rollback = "succeeded"
                   \/ s.live /\ c = "save" /\ l.phase = "Failed" /\ s.rollback = "succeeded"

Claimed(c, s, l, r) == Names(c, s, l, r) \/ (Undone(c, s, l) /\ r = NoResult)

Others(o, r) == Live(o) \ {r}

LeftInv ==
    OneShot => \A r \in Results : Claimed(pc, Server, local, r)
                    => Cardinality(Others(ops, r)) <= retries + faults - Owed(pc, Server, local)

\* The others are finitely many, and no more than all of them.
LEMMA OthersType ==
    \A o, r : /\ IsFiniteSet(Others(o, r)) /\ Cardinality(Others(o, r)) \in Nat
              /\ Cardinality(Others(o, r)) <= Cardinality(Live(o))
<1>1. \A o, r : Others(o, r) \in SUBSET Live(o)
  BY DEF Others
<1>2. \A o, r : IsFiniteSet(Others(o, r)) /\ Cardinality(Others(o, r)) <= Cardinality(Live(o))
  BY <1>1, LiveFinite, FS_Subset
<1> QED
  BY <1>2, FS_CardinalityType

LEMMA FewerOthers ==
    ASSUME NEW o, NEW r, NEW o2, NEW r2, Others(o2, r2) \subseteq Others(o, r)
    PROVE  Cardinality(Others(o2, r2)) <= Cardinality(Others(o, r))
<1>1. Others(o2, r2) \in SUBSET Others(o, r)
  OBVIOUS
<1> QED
  BY <1>1, OthersType, FS_Subset

\* The numbers of an attempt, whether it is open or not.
LEMMA OpenCounts ==
    ASSUME TypeOK, OnceInv, OneShot
    PROVE  /\ Cardinality(Live(ops)) <= retries + (faults + 1) - Owed(pc, Server, local)
           /\ Open(pc, Server, local)
                => Cardinality(Live(ops)) <= retries + faults - Owed(pc, Server, local)
<1>1. Cardinality(Live(ops)) <= retries + faults + Room(pc, Server, local)
  BY DEF OnceInv
<1>2. /\ Cardinality(Live(ops)) \in Nat /\ retries \in Nat /\ faults \in Nat
      /\ Owed(pc, Server, local) \in 0..2 /\ Room(pc, Server, local) \in Int
  BY LiveType, RoomType
<1>3. /\ Open(pc, Server, local) => Room(pc, Server, local) = -Owed(pc, Server, local)
      /\ Room(pc, Server, local) <= 1 - Owed(pc, Server, local)
  BY <1>2, RoomType
<1> QED
  BY <1>1, <1>2, <1>3

\* A step that creates nothing and names no new resource, closes an attempt that was
\* open, or is a fault.
LEMMA LeftStep ==
    ASSUME TypeOK, TypeOK', OnceInv, LeftInv, policy' = policy,
           retries' - Owed(pc', Server', local') >= retries - Owed(pc, Server, local),
           faults' = faults \/ faults' = faults + 1,
           \A id \in OpIds : ops'[id] \in {"running", "completed"}
                                => ops[id] \in {"running", "completed"},
           OneShot => \A r \in Results : Claimed(pc', Server', local', r) =>
               \/ Open(pc, Server, local)
               \/ faults' = faults + 1
               \/ \E q \in Results : /\ Claimed(pc, Server, local, q)
                                     /\ Others(ops', r) \subseteq Others(ops, q)
    PROVE  LeftInv'
<1>1. SUFFICES ASSUME OneShot, NEW r \in Results, Claimed(pc', Server', local', r)
               PROVE  Cardinality(Others(ops', r))
                        <= retries' + faults' - Owed(pc', Server', local')
  <2>1. OneShot' = OneShot
    BY DEF OneShot
  <2> QED
    BY <2>1 DEF LeftInv
<1>2. /\ Owed(pc, Server, local) \in Int /\ Owed(pc', Server', local') \in Int
      /\ retries \in Int /\ retries' \in Int /\ faults \in Int /\ faults' \in Int
      /\ Cardinality(Live(ops)) \in Nat /\ Cardinality(Live(ops')) \in Nat
      /\ Cardinality(Others(ops', r)) \in Nat
  BY RoomType, LiveFinite, OthersType, BoundAssumption DEF TypeOK
<1>3. retries + faults - Owed(pc, Server, local) <= retries' + faults' - Owed(pc', Server', local')
  BY <1>2
<1>4. Cardinality(Others(ops', r)) <= Cardinality(Live(ops))
  <2>1. Cardinality(Live(ops')) <= Cardinality(Live(ops))
    BY NoMoreLive
  <2>2. Cardinality(Others(ops', r)) <= Cardinality(Live(ops'))
    BY OthersType
  <2> QED
    BY <1>2, <2>1, <2>2
<1>5. CASE Open(pc, Server, local)
  BY <1>1, <1>2, <1>3, <1>4, <1>5, OpenCounts
<1>6. CASE faults' = faults + 1
  <2>1. Cardinality(Live(ops)) <= retries + (faults + 1) - Owed(pc, Server, local)
    BY <1>1, OpenCounts
  <2>2. retries + (faults + 1) - Owed(pc, Server, local)
            <= retries' + faults' - Owed(pc', Server', local')
    BY <1>2, <1>6
  <2> QED
    BY <1>2, <1>4, <2>1, <2>2
<1>7. ASSUME NEW q \in Results, Claimed(pc, Server, local, q),
             Others(ops', r) \subseteq Others(ops, q)
      PROVE  Cardinality(Others(ops', r)) <= retries' + faults' - Owed(pc', Server', local')
  <2>1. Cardinality(Others(ops, q)) <= retries + faults - Owed(pc, Server, local)
    BY <1>1, <1>7 DEF LeftInv
  <2>2. Cardinality(Others(ops', r)) <= Cardinality(Others(ops, q))
    BY <1>7, FewerOthers
  <2>3. Cardinality(Others(ops, q)) \in Nat
    BY OthersType
  <2> QED
    BY <1>2, <1>3, <2>1, <2>2, <2>3
<1> QED
  BY <1>1, <1>5, <1>6, <1>7

\* What is claimed when the reconcile's next call and its copy are known.
LEMMA ClaimsThen ==
    ASSUME NEW next, NEW copy, NEW s, Then(next, copy)
    PROVE  /\ Owed(pc', s, local') = Owed(next, s, copy)
           /\ \A r : Claimed(pc', s, local', r) => Claimed(next, s, copy, r)
<1>1. Owed(pc', s, local') = Owed(next, s, copy)
  BY OnceThen
<1>2. CASE next # "idle"
  BY <1>1, <1>2 DEF Then
<1>3. CASE next = "idle"
  <2>1. pc' = "idle" /\ local' = Unset /\ Unset.result \notin OpIds
    <3>1. Unset.result = 0 /\ 0 \notin OpIds
      BY BoundAssumption DEF Unset, NewCR, NoResult, OpIds
    <3> QED
      BY <1>3, <3>1 DEF Then
  <2>2. \A r : Claimed("idle", s, Unset, r) => Claimed("idle", s, copy, r)
    BY <2>1 DEF Claimed, Names, Undone
  <2> QED
    BY <1>1, <1>3, <2>1, <2>2
<1> QED
  BY <1>2, <1>3

\* An accepted patch.
LEMMA WriteLeft ==
    ASSUME MaxLag = 0, TypeOK, CoherentInv, OnceInv, LeftInv, TypeOK',
           NEW cr \in CR, NEW next, NEW copy, Write(cr, next, copy),
           Owed(next, cr, copy) <= Owed(pc, Server, local),
           \A r \in Results : Claimed(next, cr, copy, r)
                => Claimed(pc, Server, local, r) \/ Open(pc, Server, local)
    PROVE  LeftInv'
<1>1. Server' = cr
  BY OneVersion DEF CoherentInv, Write
<1>2. /\ Then(next, copy) /\ policy' = policy /\ ops' = ops
      /\ retries' = retries /\ faults' = faults
  BY DEF Write, external
<1>3. /\ Owed(pc', cr, local') = Owed(next, cr, copy)
      /\ \A r : Claimed(pc', cr, local', r) => Claimed(next, cr, copy, r)
  BY <1>2, ClaimsThen
<1>4. retries - Owed(pc', cr, local') >= retries - Owed(pc, Server, local)
  BY <1>3, LiveType, RoomType
<1> HIDE DEF Server, Owed, Claimed, Open, Others
<1> QED
  BY <1>1, <1>2, <1>3, <1>4, LeftStep

\* A step that stores nothing and creates nothing.
LEMMA QuietLeft ==
    ASSUME TypeOK, OnceInv, LeftInv, TypeOK', NEW next, NEW copy, Then(next, copy),
           versions' = versions, policy' = policy, retries' = retries, faults' = faults,
           \A id \in OpIds : ops'[id] \in {"running", "completed"}
                                => ops[id] \in {"running", "completed"},
           Owed(next, Server, copy) <= Owed(pc, Server, local),
           \A r \in Results : Claimed(next, Server, copy, r) =>
               \/ Open(pc, Server, local)
               \/ \E q \in Results : /\ Claimed(pc, Server, local, q)
                                     /\ Others(ops', r) \subseteq Others(ops, q)
    PROVE  LeftInv'
<1>1. Server' = Server
  BY DEF Server
<1>2. /\ Owed(pc', Server, local') = Owed(next, Server, copy)
      /\ \A r : Claimed(pc', Server, local', r) => Claimed(next, Server, copy, r)
  BY ClaimsThen
<1>3. retries - Owed(pc', Server, local') >= retries - Owed(pc, Server, local)
  BY <1>2, LiveType, RoomType
<1> HIDE DEF Server, Owed, Claimed, Open, Others
<1> QED
  BY <1>1, <1>2, <1>3, LeftStep

\* A failed patch is a fault, or leaves a CR that is gone.
LEMMA WriteFailsLeft ==
    ASSUME TypeOK, OnceInv, LeftInv, TypeOK', NEW next, WriteFails(next, local), next # "save"
    PROVE  LeftInv'
<1>1. /\ Then(next, local) /\ versions' = versions /\ policy' = policy
      /\ ops' = ops /\ retries' = retries
  BY DEF WriteFails
<1>2. Owed(next, Server, local) <= Owed(pc, Server, local)
  BY OwedNoMore
<1>3. CASE ~Server.live /\ faults' = faults
  <2>1. \A r : Claimed(next, Server, local, r) => Claimed(pc, Server, local, r)
    BY <1>3 DEF Claimed, Names, Undone
  <2>2. \A r : Others(ops', r) \subseteq Others(ops, r)
    BY <1>1
  <2> QED
    BY <1>1, <1>2, <1>3, <2>1, <2>2, QuietLeft
<1>4. CASE Fault
  <2>1. Server' = Server /\ faults' = faults + 1
    BY <1>1, <1>4 DEF Server, Fault
  <2>2. Owed(pc', Server, local') = Owed(next, Server, local)
    BY <1>1, ClaimsThen
  <2>3. retries - Owed(pc', Server, local') >= retries - Owed(pc, Server, local)
    BY <1>2, <2>2, LiveType, RoomType
  <2> QED
    BY <1>1, <2>1, <2>3, LeftStep
<1> QED
  BY <1>3, <1>4 DEF WriteFails, Reachable

\* One POST: the resource of an accepted one is named by the copy in memory, a lost
\* reply is a fault.
LEMMA PostLeft ==
    ASSUME TypeOK, OnceInv, LeftInv, TypeOK', OneShot, NEW ok \in Recording,
           NEW ko \in {"startFailed", "idle", "rollback"}, Post(ok, ko),
           pc \in {"start", "backfill", "lateBackfill"}, Server.phase = "Executing"
    PROVE  LeftInv'
<1>1. Server' = Server /\ policy' = policy /\ retries' = retries /\ OneShot' = OneShot
  BY DEF Post, Server, OneShot
<1>2. Open(pc, Server, local)
  BY DEF Open, Fresh
<1>3. ASSUME NEW next \in {ok, ko}, NEW copy
      PROVE  Owed(next, Server, copy) <= Owed(pc, Server, local)
  BY OwedNoMore DEF Recording
<1>4. /\ Cardinality(Live(ops)) \in Nat /\ retries \in Nat /\ faults \in Nat
      /\ \A c, l : Owed(c, Server, l) \in 0..2
      /\ Cardinality(Live(ops)) <= retries + faults - Owed(pc, Server, local)
  BY <1>2, LiveType, RoomType, OpenCounts
<1>5. ASSUME faults' = faults, Then(ko, local),
             \A id \in OpIds : ops'[id] \in {"running", "completed"}
                                  => ops[id] \in {"running", "completed"}
      PROVE  LeftInv'
  BY <1>1, <1>2, <1>3, <1>5, QuietLeft DEF Post
<1>6. CASE UNCHANGED <<ops, faults>> /\ Then(ko, local)
  BY <1>5, <1>6
<1>7. CASE ~(UNCHANGED <<ops, faults>> /\ Then(ko, local))
  <2>1. PICK id \in OpIds :
          \/ /\ faults' = faults
             /\ \/ ops' = [ops EXCEPT ![id] = "running"]
                   /\ \E result \in {id, NoId} : Then(ok, [local EXCEPT !.result = result])
                \/ ops' = [ops EXCEPT ![id] = "failed"] /\ IsSync /\ Then(ko, local)
          \/ /\ Fault
             /\ ops' = [ops EXCEPT ![id] = "running"]
             /\ Then(ko, local)
    BY <1>7 DEF Post
  <2>2. ASSUME faults' = faults, ops' = [ops EXCEPT ![id] = "running"],
               NEW result \in {id, NoId}, Then(ok, [local EXCEPT !.result = result])
        PROVE  LeftInv'
    <3> DEFINE copy == [local EXCEPT !.result = result]
    <3>1. copy.result = result
      BY DEF TypeOK, CR
    <3> HIDE DEF copy
    <3>2. /\ Owed(pc', Server, local') = Owed(ok, Server, copy)
          /\ \A r : Claimed(pc', Server, local', r) => Claimed(ok, Server, copy, r)
      BY <2>2, ClaimsThen DEF copy
    <3>3. \A r : Claimed(ok, Server, copy, r) => r = id
      <4>1. NoId \notin OpIds
        BY DEF OpIds, NoId
      <4>2. ~Undone(ok, Server, copy)
        BY DEF Undone, Recording
      <4> QED
        BY <2>2, <3>1, <4>1, <4>2 DEF Claimed, Names
    <3>4. Cardinality(Others(ops', id)) <= Cardinality(Live(ops))
      <4>1. Others(ops', id) \in SUBSET Live(ops)
        BY <2>2 DEF Others, Live, TypeOK
      <4> QED
        BY <4>1, LiveType, FS_Subset
    <3>5. Owed(ok, Server, copy) <= Owed(pc, Server, local)
      BY <1>3
    <3>6. Cardinality(Others(ops', id)) <= retries + faults - Owed(pc', Server, local')
      <4>1. Cardinality(Others(ops', id)) \in Nat
        BY OthersType
      <4> QED
        BY <1>4, <3>2, <3>4, <3>5, <4>1
    <3> QED
      BY <1>1, <2>2, <3>2, <3>3, <3>6 DEF LeftInv
  <2>3. CASE faults' = faults /\ ops' = [ops EXCEPT ![id] = "failed"] /\ Then(ko, local)
    <3>1. \A j \in OpIds : ops'[j] \in {"running", "completed"} => ops[j] \in {"running", "completed"}
      BY <2>3 DEF TypeOK
    <3> QED
      BY <1>5, <2>3, <3>1
  <2>4. CASE Fault /\ ops' = [ops EXCEPT ![id] = "running"] /\ Then(ko, local)
    <3>1. faults' = faults + 1 /\ Owed(pc', Server, local') <= Owed(pc, Server, local)
      BY <1>3, <2>4, ClaimsThen DEF Fault
    <3>2. Cardinality(Live(ops')) <= Cardinality(Live(ops)) + 1 /\ Cardinality(Live(ops')) \in Nat
      BY <2>4, OneMoreLive, LiveFinite
    <3>3. ASSUME NEW r
          PROVE  Cardinality(Others(ops', r)) <= retries + (faults + 1) - Owed(pc', Server, local')
      <4>1. /\ Cardinality(Others(ops', r)) <= Cardinality(Live(ops'))
            /\ Cardinality(Others(ops', r)) \in Nat
        BY OthersType
      <4> QED
        BY <1>4, <3>1, <3>2, <4>1
    <3> QED
      BY <1>1, <3>1, <3>3 DEF LeftInv
  <2> QED
    BY <2>1, <2>2, <2>3, <2>4
<1> QED
  BY <1>6, <1>7

\* A reconcile's last patch ends an attempt as the record of its rollback says, or serves
\* a retry.
LEMMA SaveLeft ==
    ASSUME MaxLag = 0, TypeOK, CoherentInv, OnceInv, LeftInv, TypeOK', Save
    PROVE  LeftInv'
<1>1. Cache = Server /\ Server \in CR /\ local \in CR /\ pc = "save"
  BY OneVersion, EndsType DEF CoherentInv, TypeOK, Save
<1> DEFINE new == WithStatus(Server, local)
<1>2. Abandon \/ Write(new, "idle", local)
  BY <1>1, MergeIsStatus DEF Save
<1>3. /\ new \in CR /\ Status(new) = Status(local) /\ new.retry = Server.retry
      /\ new.rollback = Server.rollback /\ new.live = Server.live
  BY <1>1, ReplyTypes, ReplyFields
<1>4. new.phase = local.phase /\ new.result = local.result
  BY <1>3 DEF Status
<1> HIDE DEF new
<1>5. CASE Abandon
  BY <1>5, WriteFailsLeft DEF Abandon
<1>6. CASE Write(new, "idle", local)
  <2>1. Owed("idle", new, local) <= Owed(pc, Server, local)
    <3>1. Owed("idle", new, local) = Count(Server.retry) /\ Count(Server.retry) \in {0, 1}
      BY <1>3 DEF Owed, Count
    <3> QED
      BY <3>1 DEF Owed, Count
  <2>2. Server.live
    BY <1>6 DEF Write, Reachable
  <2>3. \A r : Claimed("idle", new, local, r) => Claimed(pc, Server, local, r)
    BY <1>1, <1>3, <1>4, <2>2 DEF Claimed, Names, Undone
  <2> QED
    BY <1>3, <1>6, <2>1, <2>3, WriteLeft
<1> QED
  BY <1>2, <1>5, <1>6

\* What follows a poll names the same resource.
LEMMA PolledLeft ==
    ASSUME MaxLag = 0, TypeOK, CoherentInv, OnceInv, LeftInv, TypeOK',
           ClearAfterPoll \/ CountMissing \/ CountError
    PROVE  LeftInv'
<1>1. /\ Cache = Server /\ Server \in CR /\ local \in CR /\ Server.phase = "Executing"
      /\ pc \in {"clearDone", "clearFailed", "clearRunning", "countMissing", "countError"}
  BY OneVersion, EndsType
     DEF CoherentInv, InOrder, Executings, Polling, TypeOK, ClearAfterPoll, CountMissing, CountError
<1>2. ASSUME NEW next \in {"save", "rollback", "idle"}, NEW copy, NEW new \in CR,
             Abandon \/ Proceed(next, copy) \/ Write(new, next, WithAnnotations(copy, new)),
             copy \in CR, copy.result = local.result, next = "save" => copy.phase # "Failed",
             new.phase = "Executing", new.retry = Server.retry, new.live = Server.live,
             new.result = Server.result
      PROVE  LeftInv'
  <2>1. CASE Abandon
    BY <2>1, WriteFailsLeft DEF Abandon
  <2>2. ASSUME NEW s, s.phase = "Executing", s.result = Server.result, s.live = Server.live,
               NEW l, l.result = local.result, next = "save" => l.phase # "Failed"
        PROVE  \A r : Claimed(next, s, l, r) => Claimed(pc, Server, local, r)
    BY <1>1, <1>2, <2>2 DEF Claimed, Names, Undone, Recording
  <2>3. CASE Proceed(next, copy)
    <3>1. Owed(next, Server, copy) <= Owed(pc, Server, local)
      BY <1>1, OwedNoMore
    <3>2. \A r : Claimed(next, Server, copy, r) => Claimed(pc, Server, local, r)
      BY <1>1, <1>2, <2>2
    <3>3. \A r : ops' = ops => Others(ops', r) \subseteq Others(ops, r)
      OBVIOUS
    <3> QED
      BY <2>3, <3>1, <3>2, <3>3, QuietLeft DEF Proceed, external
  <2>4. CASE Write(new, next, WithAnnotations(copy, new))
    <3>1. Status(WithAnnotations(copy, new)) = Status(copy)
      BY <1>2, ReplyFields
    <3>2. /\ WithAnnotations(copy, new).phase = copy.phase
          /\ WithAnnotations(copy, new).result = copy.result
      BY <3>1 DEF Status
    <3>3. Owed(next, new, WithAnnotations(copy, new)) <= Owed(pc, Server, local)
      BY <1>2, OwedNoMore
    <3>4. \A r : Claimed(next, new, WithAnnotations(copy, new), r) => Claimed(pc, Server, local, r)
      BY <1>2, <2>2, <3>2
    <3> QED
      BY <1>2, <2>4, <3>3, <3>4, WriteLeft
  <2> QED
    BY <1>2, <2>1, <2>3, <2>4
<1>3. CASE ClearAfterPoll
  <2>1. PICK next \in {"save", "rollback", "idle"}, copy \in {local, Completed(local)} :
          ClearCounters(next, copy) /\ (next = "save" => copy = Completed(local))
    BY <1>3 DEF ClearAfterPoll
  <2> DEFINE new == [Server EXCEPT !.missing = 0, !.errors = 0]
  <2>2. Abandon \/ Proceed(next, copy) \/ Write(new, next, WithAnnotations(copy, new))
    BY <1>1, <2>1, PutCoherent DEF ClearCounters
  <2>3. /\ new \in CR /\ new.phase = "Executing" /\ new.retry = Server.retry
        /\ new.live = Server.live /\ new.result = Server.result
    BY <1>1 DEF CR
  <2> HIDE DEF new
  <2>4. /\ Completed(local) \in CR /\ Completed(local).result = local.result
        /\ Completed(local).phase # "Failed"
    <3>1. \A cr \in CR : /\ [cr EXCEPT !.phase = "Approved", !.completedAt = FALSE] \in CR
                         /\ [Applied(cr) EXCEPT !.consumed = TRUE] \in CR
      BY DEF CR, Applied, Phases
    <3>2. Completed(local) \in CR
      BY <1>1, <3>1 DEF Completed
    <3>3. Completed(local).result = local.result /\ Completed(local).phase # "Failed"
      BY <1>1 DEF Completed, Applied, CR
    <3> QED
      BY <3>2, <3>3
  <2> QED
    BY <1>1, <1>2, <2>1, <2>2, <2>3, <2>4
<1>4. ASSUME NEW new \in {[Server EXCEPT !.missing = local.missing + 1],
                          [Server EXCEPT !.errors = local.errors + 1]},
             NEW next \in {"idle", "rollback"},
             Abandon \/ Write(new, next, WithAnnotations(local, new))
      PROVE  LeftInv'
  <2>1. local.missing + 1 \in Nat /\ local.errors + 1 \in Nat
    BY <1>1, FieldTypes
  <2>2. /\ new \in CR /\ new.phase = "Executing" /\ new.retry = Server.retry
        /\ new.live = Server.live /\ new.result = Server.result
    BY <1>1, <1>4, <2>1 DEF CR
  <2> QED
    BY <1>1, <1>2, <1>4, <2>2
<1>5. CASE CountMissing
  BY <1>1, <1>4, <1>5, PutCoherent DEF CountMissing
<1>6. CASE CountError
  BY <1>1, <1>4, <1>6, PutCoherent DEF CountError
<1> QED
  BY <1>3, <1>5, <1>6

\* The DELETE takes the resource that the copy names.
LEMMA RollbackLeft ==
    ASSUME MaxLag = 0, TypeOK, CoherentInv, OnceInv, LeftInv, TypeOK', Rollback
    PROVE  LeftInv'
<1>1. /\ local \in CR /\ pc = "rollback" /\ Server.phase \in {"Executing", "WaitingForTarget"}
      /\ local.result \in Results
  BY FieldTypes DEF CoherentInv, InOrder, Undoing, TypeOK, Rollback
<1>2. PICK outcome \in Rollbacks \ {"none"} :
        /\ outcome = "succeeded" => local.result \in OpIds
        /\ \/ outcome # "succeeded" /\ ops' = ops
           \/ local.result \in OpIds /\ ops' = [ops EXCEPT ![local.result] = "gone"]
        /\ Then("saveRollback", [local EXCEPT !.rollback = outcome])
  BY DEF Rollback
<1> DEFINE copy == [local EXCEPT !.rollback = outcome]
<1>3. copy.result = local.result /\ copy.rollback = outcome
  BY <1>1 DEF CR
<1>4. Then("saveRollback", copy)
  BY <1>2
<1> HIDE DEF copy
<1>5. \A id \in OpIds : ops'[id] \in {"running", "completed"} => ops[id] \in {"running", "completed"}
  BY <1>2 DEF TypeOK
<1>6. Owed("saveRollback", Server, copy) <= Owed(pc, Server, local)
  BY OwedNoMore
<1>7. ASSUME NEW r \in Results, Claimed("saveRollback", Server, copy, r)
      PROVE  \E q \in Results : /\ Claimed(pc, Server, local, q)
                                /\ Others(ops', r) \subseteq Others(ops, q)
  <2>1. CASE Names("saveRollback", Server, copy, r)
    <3>1. Claimed(pc, Server, local, r)
      BY <1>1, <1>3, <2>1 DEF Claimed, Names, Recording
    <3>2. Others(ops', r) \subseteq Others(ops, r)
      BY <1>5 DEF Others, Live
    <3> QED
      BY <3>1, <3>2
  <2>2. CASE Undone("saveRollback", Server, copy)
    <3>1. /\ Server.live /\ local.result \in OpIds
          /\ ops' = [ops EXCEPT ![local.result] = "gone"]
      BY <1>1, <1>2, <1>3, <2>2 DEF Undone
    <3>2. Claimed(pc, Server, local, local.result)
      BY <3>1 DEF Claimed, Names
    <3>3. Others(ops', r) \subseteq Others(ops, local.result)
      BY <3>1 DEF Others, Live, TypeOK
    <3> QED
      BY <1>1, <3>2, <3>3
  <2> QED
    BY <1>7, <2>1, <2>2 DEF Claimed
<1> QED
  BY <1>4, <1>5, <1>6, <1>7, QuietLeft DEF Rollback

\* No call of a reconcile leaves more behind than it may.
LEMMA CallLeft ==
    ASSUME MaxLag = 0, TypeOK, CoherentInv, OnceInv, LeftInv, TypeOK', OneShot, Call
    PROVE  LeftInv'
<1>1. /\ Cache = Server /\ Server \in CR /\ local \in CR
      /\ InOrder(pc, Server, local, confirmed, policy.auto)
  BY OneVersion, EndsType DEF CoherentInv, TypeOK
<1>2. Abandon => LeftInv'
  BY WriteFailsLeft DEF Abandon
<1>3. ASSUME NEW cr \in CR, NEW next, NEW copy, Write(cr, next, copy), cr.retry = Server.retry,
             next # "save" \/ cr.phase # "Failed",
             \A r \in Results : Claimed(next, cr, copy, r)
                => Claimed(pc, Server, local, r) \/ Open(pc, Server, local)
      PROVE  LeftInv'
  BY <1>3, OwedNoMore, WriteLeft
<1>4. ASSUME NEW next, NEW copy, Then(next, copy), versions' = versions, policy' = policy,
             retries' = retries, faults' = faults, ops' = ops,
             next # "save" \/ Server.phase # "Failed",
             \A r \in Results : Claimed(next, Server, copy, r)
                => Claimed(pc, Server, local, r) \/ Open(pc, Server, local)
      PROVE  LeftInv'
  <2>1. \A r : Others(ops', r) \subseteq Others(ops, r)
    BY <1>4
  <2>2. Owed(next, Server, copy) <= Owed(pc, Server, local)
    BY <1>4, OwedNoMore
  <2> HIDE DEF Others, Claimed, Open, Owed, Server
  <2> QED
    BY <1>4, <2>1, <2>2, QuietLeft
<1>5. CASE PatchDefaultMode \/ PatchModifiedSpec
  <2>1. PICK x \in Modes : \E copy :
          Write([Server EXCEPT !.mode = x], "save", copy) \/ Abandon
    <3>1. CASE PatchDefaultMode
      <4> DEFINE m == Put(Cache.mode, DefaultMode(policy.type), Server.mode)
                 copied == [local EXCEPT !.mode = m, !.phase = "Pending"]
      <4>1. m \in Modes
        <5>1. Server.mode \in Modes
          BY <1>1 DEF CR
        <5>2. DefaultMode(policy.type) \in Modes
          BY DEF DefaultMode, Modes
        <5> QED
          BY <5>1, <5>2 DEF Put
      <4>2. Write([Server EXCEPT !.mode = m], "save", copied) \/ Abandon
        BY <3>1 DEF PatchDefaultMode
      <4> HIDE DEF m, copied
      <4> QED
        BY <4>1, <4>2
    <3>2. CASE PatchModifiedSpec
      <4> DEFINE m == Put(Cache.mode, local.mode, Server.mode)
                 copied == [local EXCEPT !.mode = m, !.phase = "Approved"]
      <4>1. m \in Modes
        BY <1>1 DEF Put, CR
      <4>2. Write([Server EXCEPT !.mode = m], "save", copied) \/ Abandon
        BY <3>2 DEF PatchModifiedSpec
      <4> HIDE DEF m, copied
      <4> QED
        BY <4>1, <4>2
    <3> QED
      BY <1>5, <3>1, <3>2
  <2> DEFINE new == [Server EXCEPT !.mode = x]
  <2>2. new \in CR /\ new.phase = Server.phase /\ new.retry = Server.retry
    BY <1>1 DEF CR
  <2> HIDE DEF new
  <2>3. Abandon \/ \E copy : Write(new, "save", copy)
    BY <2>1 DEF new
  <2>4. Server.phase \in {"", "Pending"}
    BY <1>1, <1>5 DEF PatchDefaultMode, PatchModifiedSpec, InOrder
  <2>5. Open(pc, Server, local)
    BY <2>4 DEF Open, Fresh
  <2> QED
    BY <1>2, <1>3, <2>2, <2>3, <2>4, <2>5
<1>6. CASE ClearRetry
  <2> DEFINE new  == [Server EXCEPT !.retry = FALSE, !.rollback = Put(local.rollback, "none", @)]
             copy == [new EXCEPT !.phase = "Pending", !.result = NoResult,
                                 !.executedAt = NoTime, !.completedAt = FALSE]
  <2>1. Abandon \/ Write(new, "save", copy)
    BY <1>6 DEF ClearRetry
  <2>2. /\ new \in CR /\ ~new.retry /\ new.phase = Server.phase /\ new.result = Server.result
        /\ new.live = Server.live /\ new.rollback \in {Server.rollback, "none"}
    <3>1. /\ Put(local.rollback, "none", Server.rollback) \in {Server.rollback, "none"}
          /\ Put(local.rollback, "none", Server.rollback) \in Rollbacks
      BY <1>1 DEF Put, CR, Rollbacks
    <3> HIDE DEF Server
    <3> QED
      BY <1>1, <3>1 DEF CR
  <2> HIDE DEF new
  <2>3. copy.phase = "Pending" /\ copy.result = NoResult
    BY <2>2 DEF CR
  <2> HIDE DEF copy
  <2>4. pc = "clearRetry" /\ Server.phase = "Failed" /\ Server.retry
    BY <1>1, <1>6 DEF ClearRetry, InOrder
  <2>5. Owed("save", new, copy) <= Owed(pc, Server, local)
    <3>1. Owed("save", new, copy) = 1 /\ Owed(pc, Server, local) = 1
      BY <2>2, <2>3, <2>4 DEF Owed, Count
    <3> QED
      BY <3>1
  <2>6. \A r : Claimed("save", new, copy, r) => Claimed(pc, Server, local, r)
    <3>1. NoResult \notin OpIds
      BY DEF NoResult, OpIds
    <3> QED
      BY <2>2, <2>3, <2>4, <3>1 DEF Claimed, Names, Undone, Recording
  <2> QED
    BY <1>2, <2>1, <2>2, <2>5, <2>6, WriteLeft
<1>7. CASE Begin
  <2> DEFINE new == WithStatus(Server, local)
  <2>1. Abandon \/ Write(new, "start", WithStatus(local, new))
    BY <1>1, <1>7, MergeIsStatus DEF Begin
  <2>2. new \in CR /\ new.retry = Server.retry
    BY <1>1, ReplyTypes, ReplyFields
  <2> HIDE DEF new
  <2>3. Server.phase = "Approved"
    BY <1>1, <1>7 DEF Begin, InOrder
  <2>4. Open(pc, Server, local)
    BY <2>3 DEF Open, Fresh
  <2> QED
    BY <1>2, <1>3, <2>1, <2>2, <2>4
<1>8. CASE Start \/ Backfill
  <2>1. PICK ok \in Recording, ko \in {"startFailed", "idle", "rollback"} : Post(ok, ko)
    BY <1>8 DEF Start, Backfill, Recording
  <2>2. pc \in {"start", "backfill", "lateBackfill"} /\ Server.phase = "Executing"
    BY <1>1, <1>8 DEF Start, Backfill, InOrder, Executings, Starting, Backfilling
  <2> QED
    BY <2>1, <2>2, PostLeft
<1>9. CASE StartTooEarly
  <2>1. /\ pc = "start" /\ Server.phase = "Executing"
        /\ Proceed("save", InPhase(local, "WaitingForTarget"))
    BY <1>1, <1>9 DEF StartTooEarly, InOrder, Executings, Starting
  <2>2. Open(pc, Server, local)
    BY <2>1 DEF Open, Fresh
  <2> QED
    BY <1>4, <2>1, <2>2 DEF Proceed, external
<1>10. CASE SaveResult \/ BackfillSave
  <2> DEFINE new == [Server EXCEPT !.result = Put(Cache.result, local.result, @)]
  <2>1. PICK next \in {"clearStarts", "backfillMark"}, failed \in {"startFailed", "idle", "rollback"} :
          Write(new, next, WithStatus(local, new)) \/ WriteFails(failed, local)
    BY <1>10 DEF SaveResult, BackfillSave, PatchResult
  <2>2. Server.phase = "Executing"
    BY <1>1, <1>10 DEF SaveResult, BackfillSave, InOrder, Executings, Starting, Backfilling
  <2>3. /\ new \in CR /\ new.retry = Server.retry /\ new.phase = Server.phase
        /\ new.live = Server.live /\ new.result = local.result
    <3>1. new = [Server EXCEPT !.result = local.result] /\ local.result \in Results
      BY <1>1, PutCoherent, FieldTypes
    <3> HIDE DEF new
    <3> QED
      BY <1>1, <3>1 DEF CR
  <2> HIDE DEF new
  <2>4. WithStatus(local, new).result = local.result
    <3>1. Status(WithStatus(local, new)) = Status(new)
      BY <1>1, <2>3, ReplyFields
    <3> QED
      BY <2>3, <3>1 DEF Status
  <2>5. \A r : Claimed(next, new, WithStatus(local, new), r) => Claimed(pc, Server, local, r)
    BY <2>2, <2>3, <2>4 DEF Claimed, Names, Undone
  <2>6. WriteFails(failed, local) => LeftInv'
    BY WriteFailsLeft
  <2> QED
    BY <1>3, <2>1, <2>3, <2>5, <2>6
<1>11. CASE ClearStarts \/ StartFailed \/ BackfillMark
  <2>1. PICK n \in Nat, next \in {"idle", "rollback"} : PatchStarts(n, next) \/ Abandon
    BY <1>1, <1>11, FieldTypes DEF ClearStarts, StartFailed, BackfillMark
  <2> DEFINE new == [Server EXCEPT !.starts = n]
  <2>2. Abandon \/ Write(new, next, WithAnnotations(local, new))
    BY <1>1, <2>1, PutCoherent DEF PatchStarts
  <2>3. pc \in {"clearStarts", "startFailed", "backfillMark"} /\ Server.phase = "Executing"
    BY <1>1, <1>11 DEF ClearStarts, StartFailed, BackfillMark, InOrder, Executings, Starting,
       Backfilling
  <2>4. /\ new \in CR /\ new.retry = Server.retry /\ new.phase = "Executing"
        /\ new.live = Server.live /\ new.result = Server.result
    BY <1>1, <2>3 DEF CR
  <2> HIDE DEF new
  <2>5. WithAnnotations(local, new).result = local.result
    <3>1. Status(WithAnnotations(local, new)) = Status(local)
      BY <1>1, <2>4, ReplyFields
    <3> QED
      BY <3>1 DEF Status
  <2>6. \A r : Claimed(next, new, WithAnnotations(local, new), r) => Claimed(pc, Server, local, r)
    BY <2>3, <2>4, <2>5 DEF Claimed, Names, Undone, Recording
  <2> QED
    BY <1>2, <1>3, <2>2, <2>4, <2>6
<1>12. CASE Poll \/ PollError
  <2>1. \E next \in Polling :
          /\ Then(next, local) /\ pc = "poll" /\ versions' = versions
          /\ policy' = policy /\ ops' = ops /\ retries' = retries /\ faults' = faults
    <3>1. CASE Poll
      <4>1. PICK next \in {"countMissing", "clearFailed", "clearDone", "clearRunning"} : pc' = next
        BY <3>1 DEF Poll
      <4>2. Then(next, local) /\ next \in Polling
        BY <3>1, <4>1 DEF Poll, Then, Polling
      <4> QED
        BY <3>1, <4>2 DEF Poll
    <3>2. CASE PollError
      BY <3>2 DEF PollError, Proceed, external, Polling
    <3> QED
      BY <1>12, <3>1, <3>2
  <2>2. PICK next \in Polling :
          /\ Then(next, local) /\ pc = "poll" /\ versions' = versions
          /\ policy' = policy /\ ops' = ops /\ retries' = retries /\ faults' = faults
    BY <2>1
  <2>3. \A r : Claimed(next, Server, local, r) => Claimed(pc, Server, local, r)
    BY <2>2 DEF Claimed, Names, Undone, Recording, Polling
  <2>4. next # "save"
    BY <2>2 DEF Polling
  <2> QED
    BY <1>4, <2>2, <2>3, <2>4
<1>13. CASE SaveRollback
  <2> DEFINE new  == [Server EXCEPT !.rollback = local.rollback]
             copy == [new EXCEPT !.phase = "Failed", !.completedAt = TRUE, !.result = FailText]
  <2>1. Abandon \/ Write(new, "save", copy)
    BY <1>13 DEF SaveRollback
  <2>2. /\ new \in CR /\ new.phase = Server.phase /\ new.retry = Server.retry
        /\ new.live = Server.live /\ new.result = Server.result /\ new.rollback = local.rollback
    <3>1. local.rollback \in Rollbacks
      BY <1>1, FieldTypes
    <3> QED
      BY <1>1, <3>1 DEF CR
  <2> HIDE DEF new
  <2>3. copy.result \notin OpIds
    BY <2>2 DEF CR, FailText, OpIds
  <2> HIDE DEF copy
  <2>4. pc = "saveRollback" /\ Server.phase \in {"Executing", "WaitingForTarget"}
    BY <1>1, <1>13 DEF SaveRollback, InOrder, Undoing
  <2>5. \A r : Claimed("save", new, copy, r) => Claimed(pc, Server, local, r)
    BY <2>2, <2>3, <2>4 DEF Claimed, Names, Undone, Recording
  <2> QED
    BY <1>2, <1>3, <2>1, <2>2, <2>4, <2>5
<1> QED
  BY <1>5, <1>6, <1>7, <1>8, <1>9, <1>10, <1>11, <1>12, <1>13, SaveLeft, PolledLeft, RollbackLeft
     DEF Call

\* A reconcile begins with a copy that names what the CR names.
LEMMA ReconcileLeft ==
    ASSUME MaxLag = 0, TypeOK, CoherentInv, OnceInv, LeftInv, TypeOK', Reconcile
    PROVE  LeftInv'
<1>1. Cache = Server /\ Server \in CR
  BY OneVersion, EndsType DEF CoherentInv, TypeOK
<1>2. pc = "idle" /\ Server.live
  BY <1>1 DEF Reconcile, ReconcileNew, ReconcilePending, ReconcileApproved, ReconcileWaiting,
     ReconcileRetry, ExecTimedOut, ExecNoResult, ExecPoll, Monitoring, Reconciling
<1>3. ASSUME NEW next, NEW copy, Proceed(next, copy), copy.result = Server.result,
             next # "saveRollback",
             next = "save" => copy.phase # "Failed" /\ Server.phase # "Failed"
      PROVE  LeftInv'
  <2>1. Owed(next, Server, copy) <= Owed(pc, Server, local)
    BY <1>3, OwedNoMore
  <2>2. \A r : Claimed(next, Server, copy, r) => Claimed(pc, Server, local, r)
    BY <1>2, <1>3 DEF Claimed, Names, Undone, Recording
  <2>3. ops' = ops => \A r : Others(ops', r) \subseteq Others(ops, r)
    OBVIOUS
  <2> QED
    BY <1>3, <2>1, <2>2, <2>3, QuietLeft DEF Proceed, external
<1>4. /\ \A phase : /\ InPhase(Server, phase).phase = phase
                    /\ InPhase(Server, phase).result = Server.result
      /\ Applied(Server).phase = "Applied" /\ Applied(Server).result = Server.result
      /\ [Server EXCEPT !.phase = "Executing", !.executedAt = 0].result = Server.result
      /\ \A t : LET cr == [Server EXCEPT !.phase = "Approved", !.consumed = TRUE,
                                         !.applied = @ \cup {t}]
                IN  cr.phase = "Approved" /\ cr.result = Server.result
      /\ \A mode : [Server EXCEPT !.mode = mode].result = Server.result
  BY <1>1 DEF InPhase, Applied, CR
<1>5. CASE ReconcileNew
  BY <1>1, <1>3, <1>4, <1>5 DEF ReconcileNew, Reconciling
<1>6. CASE ReconcilePending
  BY <1>1, <1>3, <1>4, <1>6 DEF ReconcilePending, Reconciling
<1>7. CASE ReconcileApproved
  BY <1>1, <1>3, <1>4, <1>7 DEF ReconcileApproved, Reconciling, MovedToWaiting
<1>8. CASE ReconcileWaiting
  BY <1>1, <1>3, <1>4, <1>8 DEF ReconcileWaiting, Reconciling
<1>9. CASE ReconcileRetry
  BY <1>1, <1>3, <1>9 DEF ReconcileRetry
<1>10. CASE ExecTimedOut \/ ExecNoResult \/ ExecPoll
  BY <1>1, <1>3, <1>10 DEF ExecTimedOut, ExecNoResult, ExecPoll
<1> QED
  BY <1>5, <1>6, <1>7, <1>8, <1>9, <1>10 DEF Reconcile

\* What others do names no resource. A request for a retry makes room for the attempt
\* that is owed, a crash is a fault.
LEMMA EnvironmentLeft ==
    ASSUME MaxLag = 0, TypeOK, CoherentInv, OnceInv, LeftInv, TypeOK',
           Deliver \/ Tick \/ Crash \/ User \/ Operator \/ TargetAppears
    PROVE  LeftInv'
<1>1. /\ Server \in CR /\ local \in CR /\ Len(versions) = 1 /\ retries \in Nat /\ faults \in Nat
  BY EndsType, LiveType DEF CoherentInv, TypeOK
<1>2. ASSUME pc' = pc, policy' = policy, faults' = faults,
             retries' - Owed(pc', Server', local') >= retries - Owed(pc, Server, local),
             Server'.phase = Server.phase, Server'.rollback = Server.rollback,
             Server'.result = Server.result, Server'.live => Server.live,
             local'.phase = local.phase, local'.rollback = local.rollback,
             local'.result = local.result,
             \A id \in OpIds : ops'[id] \in {"running", "completed"}
                                  => ops[id] \in {"running", "completed"}
      PROVE  LeftInv'
  <2> HIDE DEF Server
  <2>1. \A r : Claimed(pc', Server', local', r) => Claimed(pc, Server, local, r)
    BY <1>2 DEF Claimed, Names, Undone
  <2>2. \A r : Others(ops', r) \subseteq Others(ops, r)
    BY <1>2 DEF Others, Live
  <2> QED
    BY <1>2, <2>1, <2>2, LeftStep
<1>3. ASSUME retries' = retries, pc' = pc, Server'.phase = Server.phase,
             Server'.retry = Server.retry, local'.phase = local.phase
      PROVE  retries' - Owed(pc', Server', local') >= retries - Owed(pc, Server, local)
  <2>1. Owed(pc', Server', local') = Owed(pc, Server, local)
    BY <1>3 DEF Owed
  <2> QED
    BY <1>1, <1>3, <2>1, RoomType
<1>4. CASE Deliver
  BY <1>1, <1>4 DEF Deliver
<1>5. CASE Tick
  <2>1. /\ Server' = Older(Server) /\ local' = Older(local) /\ pc' = pc /\ policy' = policy
        /\ retries' = retries /\ faults' = faults /\ ops' = ops
    BY <1>1, <1>5, TickCoherent DEF Tick, external
  <2>2. \A cr \in CR : /\ Older(cr).phase = cr.phase /\ Older(cr).retry = cr.retry
                       /\ Older(cr).result = cr.result /\ Older(cr).rollback = cr.rollback
                       /\ Older(cr).live = cr.live
    BY OlderFields
  <2> HIDE DEF Older
  <2> QED
    BY <1>1, <1>2, <1>3, <2>1, <2>2
<1>6. CASE Crash
  <2>1. /\ Server' = Server /\ Then("idle", Unset) /\ policy' = policy
        /\ retries' = retries /\ ops' = ops /\ faults' = faults + 1
    BY <1>1, <1>6 DEF Crash, Fault, Server
  <2> HIDE DEF Server
  <2>2. Owed("idle", Server, Unset) <= Owed(pc, Server, local)
    BY OwedNoMore
  <2>3. Owed(pc', Server, local') = Owed("idle", Server, Unset)
    BY <2>1, ClaimsThen
  <2>4. retries - Owed(pc', Server, local') >= retries - Owed(pc, Server, local)
    BY <1>1, <2>2, <2>3, RoomType
  <2> QED
    BY <2>1, <2>4, LeftStep
<1>7. ASSUME NEW cr \in CR, UserWrites(cr)
      PROVE  /\ Server' = cr /\ pc' = pc /\ local' = local /\ policy' = policy
             /\ faults' = faults /\ ops' = ops
  BY <1>1, <1>7, OneVersion DEF UserWrites
<1>8. CASE UserApprove
  <2> DEFINE cr == [Server EXCEPT !.phase = "Approved"]
  <2>1. cr \in CR /\ cr.phase = "Approved" /\ cr.retry = Server.retry
    BY <1>1 DEF CR, Phases
  <2> HIDE DEF cr
  <2>2. /\ Server.phase = "Pending" /\ UserWrites(cr) /\ retries' = retries
    BY <1>8 DEF UserApprove, cr
  <2>3. retries' - Owed(pc, cr, local) >= retries - Owed(pc, Server, local)
    <3>1. Owed(pc, cr, local) = Owed(pc, Server, local)
      BY <2>1, <2>2 DEF Owed
    <3> QED
      BY <1>1, <2>2, <3>1, RoomType
  <2>4. Open(pc, Server, local)
    BY <2>2 DEF Open, Fresh
  <2>5. /\ Server' = cr /\ pc' = pc /\ local' = local /\ policy' = policy
        /\ faults' = faults /\ ops' = ops
    BY <1>7, <2>1, <2>2
  <2> HIDE DEF Server
  <2> QED
    BY <2>3, <2>4, <2>5, LeftStep
<1>9. CASE UserRetry
  <2> DEFINE cr == [Server EXCEPT !.retry = TRUE]
  <2>1. /\ cr \in CR /\ cr.phase = Server.phase /\ cr.retry /\ cr.rollback = Server.rollback
        /\ cr.result = Server.result /\ cr.live = Server.live
    BY <1>1 DEF CR
  <2> HIDE DEF cr
  <2>2. ~Server.retry /\ UserWrites(cr) /\ retries' = retries + 1
    BY <1>9 DEF UserRetry, cr
  <2>3. Owed(pc, cr, local) = Owed(pc, Server, local) + 1
    BY <2>1, <2>2 DEF Owed, Count
  <2>4. retries' - Owed(pc, cr, local) >= retries - Owed(pc, Server, local)
    BY <1>1, <2>2, <2>3, RoomType
  <2>5. /\ Server' = cr /\ pc' = pc /\ local' = local /\ policy' = policy
        /\ faults' = faults /\ ops' = ops
    BY <1>7, <2>1, <2>2
  <2> HIDE DEF Server
  <2> QED
    BY <1>2, <2>1, <2>4, <2>5
<1>10. CASE UserDelete
  <2> DEFINE cr == [Server EXCEPT !.live = FALSE]
  <2>1. /\ cr \in CR /\ cr.phase = Server.phase /\ cr.retry = Server.retry
        /\ cr.result = Server.result /\ cr.rollback = Server.rollback /\ ~cr.live
    BY <1>1 DEF CR
  <2> HIDE DEF cr
  <2>2. UserWrites(cr) /\ retries' = retries
    BY <1>10 DEF UserDelete, cr
  <2>3. /\ Server' = cr /\ pc' = pc /\ local' = local /\ policy' = policy
        /\ retries' = retries /\ faults' = faults /\ ops' = ops
    BY <1>7, <2>1, <2>2
  <2> HIDE DEF Server
  <2> QED
    BY <1>2, <1>3, <2>1, <2>3
<1>11. CASE Operator \/ TargetAppears
  <2>1. /\ pc' = pc /\ local' = local /\ policy' = policy /\ retries' = retries
        /\ faults' = faults /\ Server' = Server
        /\ \/ ops' = ops
           \/ \E id \in OpIds : ops[id] = "running" /\ ops' = [ops EXCEPT ![id] = "completed"]
           \/ \E id \in OpIds, to \in {"failed", "gone"} : ops' = [ops EXCEPT ![id] = to]
    BY <1>11 DEF Operator, OperatorFinishes, OperatorForgets, OperatorChanges, TargetAppears, Server
  <2>2. \A id \in OpIds : ops'[id] \in {"running", "completed"} => ops[id] \in {"running", "completed"}
    BY <2>1 DEF TypeOK
  <2> HIDE DEF Server
  <2> QED
    BY <1>2, <1>3, <2>1, <2>2
<1> QED
  BY <1>4, <1>5, <1>6, <1>8, <1>9, <1>10, <1>11 DEF User

\* What the named resource and the others come to holds in every reachable state.
THEOREM LeftoversCounted ==
    ASSUME MaxLag = 0
    PROVE  Spec => []LeftInv
<1>1. TypeOK /\ Init => LeftInv
  <2> SUFFICES ASSUME TypeOK, Init, NEW r \in Results
               PROVE  ~Claimed(pc, Server, local, r)
    BY DEF LeftInv
  <2>1. Server = NewCR(policy.mode) /\ local = Unset /\ pc = "idle"
    BY DEF Init, Server
  <2>2. /\ Server.result \notin OpIds /\ local.result \notin OpIds /\ Server.phase # "Failed"
    <3>1. 0 \notin OpIds
      BY BoundAssumption DEF OpIds
    <3>2. Server.result = 0 /\ local.result = 0 /\ Server.phase = ""
      BY <2>1 DEF NewCR, Unset, NoResult
    <3> QED
      BY <3>1, <3>2
  <2> HIDE DEF Server
  <2> QED
    BY <2>1, <2>2 DEF Claimed, Names, Undone
<1>2. TypeOK /\ TypeOK' /\ CoherentInv /\ OnceInv /\ LeftInv /\ [Next]_vars => LeftInv'
  <2> SUFFICES ASSUME TypeOK, TypeOK', CoherentInv, OnceInv, LeftInv, [Next]_vars PROVE LeftInv'
    OBVIOUS
  <2>1. CASE UNCHANGED vars
    BY <2>1 DEF vars, LeftInv, Server, OneShot
  <2>2. CASE OneShot /\ Next
    BY <2>2, ReconcileLeft, CallLeft, EnvironmentLeft DEF Next
  <2>3. CASE ~OneShot /\ Next
    BY <2>3, PolicyStays DEF LeftInv, OneShot
  <2> QED
    BY <2>1, <2>2, <2>3
<1> QED
  BY <1>1, <1>2, TypeCorrect, CoherentlyOrdered, ResourcesCounted, PTL DEF Spec

\* A rollback recorded as succeeded has made up for the resource of its attempt: a failed
\* policy leaves at most one for each earlier attempt and each fault.
THEOREM NothingIsLeft ==
    ASSUME MaxLag = 0
    PROVE  Spec => []FailedLeavesNothing
<1>1. TypeOK /\ LeftInv => FailedLeavesNothing
  <2> SUFFICES ASSUME TypeOK, LeftInv, OneShot, Server.phase = "Failed",
                      Server.rollback = "succeeded"
               PROVE  Cardinality(Live(ops)) <= retries + faults
    BY DEF FailedLeavesNothing
  <2>1. Claimed(pc, Server, local, NoResult) /\ NoResult \in Results
    BY DEF Claimed, Undone, Results
  <2>2. Cardinality(Others(ops, NoResult)) <= retries + faults - Owed(pc, Server, local)
    BY <2>1 DEF LeftInv
  <2>3. Others(ops, NoResult) = Live(ops)
    BY DEF Others, Live, NoResult, OpIds
  <2> QED
    BY <2>2, <2>3, LiveType, RoomType
<1> QED
  BY <1>1, TypeCorrect, LeftoversCounted, PTL

-----------------------------------------------------------------------------
(* 3. A cache at most one version behind, in the first attempt. No write   *)
(* is refused, so the copy a reconcile writes may rest on a version that a *)
(* later one has replaced. LateInv says what survives that: every version  *)
(* is Sound, each differs from the one before in a start or a completion   *)
(* time only in the phases that set it, and the copy in memory, made from  *)
(* either version, leaves out a time only where saving it leaves out the   *)
(* phase that needs the time.                                              *)

Began == {"Executing", "Applied"}
Ended == {"Applied", "Failed"}
Started(cr) == cr.executedAt # NoTime

\* What holds of every version, the policy's own mode being `mode`.
Sound(mode, cr) ==
    /\ ~cr.retry /\ cr.mode # "Continuous"
    /\ cr.phase = "" /\ cr.mode = "" => mode = ""
    /\ cr.phase = "Executing" => Started(cr)
    /\ cr.phase \in Ended => cr.completedAt

\* A version and the one after it.
Consecutive(old, new) ==
    /\ new.phase = "" => old.phase = ""
    /\ Started(old) /\ ~Started(new) => old.phase \in Began
    /\ Started(new) /\ ~Started(old) => new.phase \in Began
    /\ old.completedAt /\ ~new.completedAt => old.phase \in Ended
    /\ new.completedAt /\ ~old.completedAt => new.phase \in Ended
    /\ old.completedAt = new.completedAt \/ old.starts = new.starts

Saving == {"defaultMode", "modifySpec", "save"}
Undecided == {"begin", "poll", "clearDone", "clearFailed", "countMissing", "countError",
              "lateBackfill", "lateBackfillSave", "rollback", "saveRollback"}

\* The copy of a reconcile that makes call c next.
CopyInPhase(mode, c, new, copy) ==
    /\ c # "clearRetry" /\ copy.mode # "Continuous"
    /\ c = "defaultMode" => copy.phase = "" /\ mode = ""
    /\ c = "modifySpec" => copy.phase = "Pending" /\ new.phase # ""
    /\ c = "save" => copy.phase \notin {"", "Executing"}
    /\ c \in {"begin", "start"} => copy.phase = "Executing"

StartCopied(c, old, new, copy) ==
    /\ c \in Saving /\ ~Started(copy) =>
          /\ Started(old) => old.phase \in Began
          /\ Started(new) => new.phase \in Began
          /\ Started(old) /\ new.phase = "Executing" => old.phase = "Executing"
    /\ c \in Saving /\ Started(copy) /\ copy.phase # "Applied" => Started(new)
    /\ c = "save" /\ copy.phase = "Applied" /\ old.phase = "Applied" => new.phase = "Applied"
    /\ c = "begin" => /\ Started(copy) /\ (Started(old) => Started(new))
                      /\ old.phase = "Executing" => new.phase = "Executing"
    /\ c = "start" => Started(copy) /\ Started(new)
    /\ c \in {"poll", "clearDone"}
          => Started(copy) /\ (old.phase = "Applied" => new.phase = "Applied")

EndCopied(c, old, new, copy) ==
    /\ c \in Saving \cup {"begin", "start"} =>
          /\ ~copy.completedAt => /\ old.completedAt => old.phase \in Ended
                                  /\ new.completedAt => new.phase \in Ended
          /\ copy.completedAt /\ copy.phase \notin Ended => new.completedAt
          /\ copy.phase \in Ended => copy.completedAt /\ (old.completedAt => new.completedAt)
    /\ c \in Undecided => (old.completedAt => new.completedAt)
    /\ c = "begin" /\ ~copy.completedAt =>
          /\ old.completedAt => old.starts = copy.starts
          /\ new.completedAt => new.starts = copy.starts
    /\ c \in {"start", "saveResult", "startFailed"} /\ old.completedAt /\ ~new.completedAt
          => old.starts = copy.starts /\ new.starts = copy.starts

Late(mode, c, old, new, copy) ==
    /\ Sound(mode, old) /\ Sound(mode, new) /\ Consecutive(old, new)
    /\ CopyInPhase(mode, c, new, copy)
    /\ StartCopied(c, old, new, copy) /\ EndCopied(c, old, new, copy)

LateInv == FirstAttempt => Len(versions) <= 2 /\ Late(policy.mode, pc, Cache, Server, local)

\* The newest version is one a cache may hold next, with the same copy in memory.
LEMMA DeliveredLate ==
    ASSUME NEW mode, NEW c, NEW old \in CR, NEW new \in CR, NEW copy \in CR,
           Late(mode, c, old, new, copy)
    PROVE  Late(mode, c, new, new, copy)
<1>1. Sound(mode, new) /\ Consecutive(new, new) /\ CopyInPhase(mode, c, new, copy)
  BY DEF Late, Consecutive
<1>2. StartCopied(c, new, new, copy)
  BY DEF Late, StartCopied
<1>3. EndCopied(c, new, new, copy)
  BY DEF Late, EndCopied
<1> QED
  BY <1>1, <1>2, <1>3 DEF Late

\* Between reconciles only the versions matter.
LEMMA IdleLate ==
    ASSUME NEW mode, NEW old, NEW new, Sound(mode, old), Sound(mode, new), Consecutive(old, new)
    PROVE  Late(mode, "idle", old, new, Unset)
BY DEF Late, CopyInPhase, StartCopied, EndCopied, Saving, Undecided, Unset, NewCR

\* Time changes none of it.
LEMMA AgedLate ==
    ASSUME NEW mode, NEW c, NEW old \in CR, NEW new \in CR, NEW copy \in CR,
           Late(mode, c, old, new, copy)
    PROVE  Late(mode, c, Older(old), Older(new), Older(copy))
<1>1. \A cr \in CR : /\ Older(cr).phase = cr.phase /\ Older(cr).mode = cr.mode
                     /\ Older(cr).retry = cr.retry /\ Older(cr).starts = cr.starts
                     /\ Older(cr).completedAt = cr.completedAt
                     /\ Started(Older(cr)) <=> Started(cr)
  <2>1. \A cr \in CR : cr.executedAt = NoTime => Older(cr).executedAt = NoTime
    BY TimeAssumption DEF Older, NoTime, CR
  <2> QED
    BY <2>1, OlderFields DEF Started
<1> HIDE DEF Older, Started
<1>2. Sound(mode, Older(old)) /\ Sound(mode, Older(new)) /\ Consecutive(Older(old), Older(new))
  BY <1>1 DEF Late, Sound, Consecutive
<1>3. CopyInPhase(mode, c, Older(new), Older(copy))
  BY <1>1 DEF Late, CopyInPhase
<1>4. StartCopied(c, Older(old), Older(new), Older(copy))
  BY <1>1 DEF Late, StartCopied
<1>5. EndCopied(c, Older(old), Older(new), Older(copy))
  BY <1>1 DEF Late, EndCopied
<1> QED
  BY <1>2, <1>3, <1>4, <1>5 DEF Late

\* A version that differs from the one before it in neither phase nor times.
Twin(cr, new) ==
    /\ cr.phase = new.phase /\ cr.executedAt = new.executedAt
    /\ cr.completedAt = new.completedAt

\* Such a version is as sound, if its mode and its annotations are.
LEMMA TwinSound ==
    ASSUME NEW mode, NEW new \in CR, NEW cr \in CR, Sound(mode, new), Twin(cr, new),
           cr.retry = new.retry, cr.mode # "Continuous",
           cr.phase = "" /\ cr.mode = "" => mode = ""
    PROVE  Sound(mode, cr) /\ Consecutive(new, cr)
BY DEF Twin, Sound, Consecutive, Started

\* With a cache at most one version behind, a stored CR follows the newest one,
\* is the only one, or is no new one.
LEMMA StoreLate ==
    ASSUME MaxLag <= 1, TypeOK, Len(versions) <= 2, NEW cr \in CR, Store(cr)
    PROVE  /\ Len(versions') <= 2 /\ Server' = cr
           /\ \/ cr = Server /\ Cache' = Cache
              \/ Cache' = Server
              \/ Cache' = cr
<1>1. versions \in Seq(CR) /\ versions # <<>> /\ Len(versions) \in {1, 2} /\ MaxLag \in {0, 1}
  <2>1. versions \in Seq(CR) /\ versions # <<>>
    BY DEF TypeOK
  <2>2. Len(versions) \in Nat \ {0}
    BY <2>1, EndsType
  <2>3. Len(versions) = 1 \/ Len(versions) = 2
    <3>1. \A n \in Nat \ {0} : n <= 2 => n = 1 \/ n = 2
      OBVIOUS
    <3> QED
      BY <2>2, <3>1
  <2>4. MaxLag = 0 \/ MaxLag = 1
    BY BoundAssumption
  <2> QED
    BY <2>1, <2>3, <2>4
<1>2. CASE cr = Server
  <2>1. versions' = versions
    BY <1>2 DEF Store
  <2>2. Server' = Server /\ Cache' = Cache
    BY <2>1 DEF Server, Cache
  <2> QED
    BY <1>2, <2>1, <2>2
<1>3. CASE cr # Server /\ Len(versions) > MaxLag
  <2>1. versions' = Append(Tail(versions), cr)
    BY <1>3 DEF Store
  <2>2. /\ Tail(versions) \in Seq(CR) /\ Len(Tail(versions)) = Len(versions) - 1
        /\ Len(versions) = 2 => Tail(versions)[1] = versions[2]
    BY <1>1
  <2> DEFINE rest == Tail(versions)
  <2>3. rest \in Seq(CR) /\ Len(rest) = Len(versions) - 1 /\ versions' = Append(rest, cr)
    BY <2>1, <2>2
  <2>4. Len(versions) = 2 => rest[1] = Server
    BY <2>2 DEF Server
  <2> HIDE DEF rest
  <2>5. /\ Len(versions') = Len(versions) /\ versions'[Len(versions')] = cr
        /\ Len(versions) = 1 => versions'[1] = cr
        /\ Len(versions) = 2 => versions'[1] = rest[1]
    BY <1>1, <2>3
  <2> QED
    BY <1>1, <2>4, <2>5 DEF Server, Cache
<1>4. CASE cr # Server /\ Len(versions) <= MaxLag
  <2>1. versions' = Append(versions, cr) /\ Len(versions) = 1
    BY <1>1, <1>4 DEF Store
  <2>2. Len(versions') = 2 /\ versions'[1] = versions[1] /\ versions'[2] = cr
    <3>1. \A q \in Seq(CR) : /\ Len(Append(q, cr)) = Len(q) + 1
                             /\ Len(q) = 1 => Append(q, cr)[1] = q[1] /\ Append(q, cr)[2] = cr
      OBVIOUS
    <3> QED
      BY <1>1, <2>1, <3>1
  <2>3. Server' = cr /\ Cache' = versions[1]
    BY <2>2 DEF Server, Cache
  <2>4. Server = versions[1]
    BY <2>1 DEF Server
  <2> QED
    BY <2>2, <2>3, <2>4
<1> QED
  BY <1>1, <1>2, <1>3, <1>4

\* The hypothesis is about the first attempt, and stays so back in time.
LEMMA FirstAttemptBefore ==
    ASSUME TypeOK, policy' = policy, retries' \in {retries, retries + 1}, FirstAttempt'
    PROVE  FirstAttempt
<1>1. retries \in 0..MaxRetries
  BY DEF TypeOK
<1>2. retries' = 0
  BY DEF FirstAttempt
<1>3. retries = 0
  BY <1>1, <1>2, BoundAssumption
<1> QED
  BY <1>3 DEF FirstAttempt, DefaultMode

\* A write keeps the invariant if what it stores follows the newest version.
LEMMA WriteLate ==
    ASSUME MaxLag <= 1, TypeOK, Len(versions) <= 2, NEW cr \in CR, NEW next, NEW copy \in CR,
           Write(cr, next, copy),
           Late(policy.mode, next, Server, cr, IF next = "idle" THEN Unset ELSE copy),
           cr = Server => Late(policy.mode, next, Cache, Server, IF next = "idle" THEN Unset ELSE copy)
    PROVE  LateInv'
<1> DEFINE kept == IF next = "idle" THEN Unset ELSE copy
<1>1. /\ pc' = next /\ local' = kept /\ policy' = policy /\ Store(cr) /\ kept \in CR
  BY UnsetType DEF Write, Then, external
<1>2. Server \in CR /\ Cache \in CR
  BY EndsType DEF TypeOK
<1>3. Late(policy.mode, next, Server, cr, kept) /\ (cr = Server => Late(policy.mode, next, Cache, Server, kept))
  OBVIOUS
<1> HIDE DEF kept
<1>4. Late(policy.mode, next, cr, cr, kept)
  BY <1>1, <1>2, <1>3, DeliveredLate
<1>5. Len(versions') <= 2 /\ Server' = cr /\ ((cr = Server /\ Cache' = Cache) \/ Cache' = Server \/ Cache' = cr)
  BY <1>1, StoreLate
<1> HIDE DEF Server, Cache
<1>6. Late(policy.mode, next, Cache', Server', kept)
  BY <1>3, <1>4, <1>5
<1> QED
  BY <1>1, <1>5, <1>6 DEF LateInv

\* So does one that ends the reconcile.
LEMMA WriteIdleLate ==
    ASSUME MaxLag <= 1, TypeOK, FirstAttempt, LateInv, NEW cr \in CR, NEW copy \in CR,
           Write(cr, "idle", copy), Sound(policy.mode, cr), Consecutive(Server, cr)
    PROVE  LateInv'
<1>1. /\ Len(versions) <= 2 /\ Sound(policy.mode, Cache) /\ Sound(policy.mode, Server)
      /\ Consecutive(Cache, Server)
  BY DEF LateInv, Late
<1>2. Late(policy.mode, "idle", Server, cr, Unset) /\ Late(policy.mode, "idle", Cache, Server, Unset)
  BY <1>1, IdleLate
<1> QED
  BY <1>1, <1>2, WriteLate

\* A step that writes nothing keeps the invariant if the next call's copy is in order.
LEMMA QuietLate ==
    ASSUME TypeOK, LateInv, FirstAttempt, NEW next, NEW copy, Then(next, copy),
           versions' = versions, policy' = policy,
           next # "idle" => Late(policy.mode, next, Cache, Server, copy)
    PROVE  LateInv'
<1>1. Cache' = Cache /\ Server' = Server
  BY DEF Cache, Server
<1>2. Late(policy.mode, "idle", Cache, Server, Unset)
  BY IdleLate DEF LateInv, Late
<1> QED
  BY <1>1, <1>2 DEF LateInv, Then

\* A failed write is such a step.
LEMMA WriteFailsLate ==
    ASSUME TypeOK, LateInv, FirstAttempt, NEW next, NEW copy, WriteFails(next, copy),
           next # "idle" => Late(policy.mode, next, Cache, Server, copy)
    PROVE  LateInv'
BY QuietLate DEF WriteFails

\* So is a step that only goes on to the next call.
LEMMA ProceedLate ==
    ASSUME TypeOK, LateInv, FirstAttempt, NEW next, NEW copy, Proceed(next, copy),
           next # "idle" => Late(policy.mode, next, Cache, Server, copy)
    PROVE  LateInv'
BY QuietLate DEF Proceed, external

\* Giving up keeps the versions and ends the reconcile.
LEMMA AbandonLate ==
    ASSUME TypeOK, LateInv, FirstAttempt, Abandon
    PROVE  LateInv'
BY WriteFailsLate DEF Abandon

\* A reconcile that will only save a status, decided on an old one that is neither
\* being executed nor over.
LEMMA SaveBegins ==
    ASSUME NEW mode, NEW any, NEW old \in CR, NEW new \in CR, NEW copy \in CR,
           Late(mode, "idle", old, new, any),
           old.phase \notin {"Executing", "Applied", "Failed"},
           copy.phase \notin {"", "Executing", "Failed"},
           copy.mode = old.mode, copy.executedAt = old.executedAt,
           copy.completedAt = (old.completedAt \/ copy.phase = "Applied")
    PROVE  Late(mode, "save", old, new, copy)
<1>1. Sound(mode, old) /\ Sound(mode, new) /\ Consecutive(old, new)
  BY DEF Late
<1>2. CopyInPhase(mode, "save", new, copy)
  BY <1>1 DEF CopyInPhase, Sound
<1>3. StartCopied("save", old, new, copy)
  BY <1>1 DEF StartCopied, Consecutive, Sound, Saving, Started, Began
<1>4. EndCopied("save", old, new, copy)
  BY <1>1 DEF EndCopied, Consecutive, Saving, Undecided, Ended, CR
<1> QED
  BY <1>1, <1>2, <1>3, <1>4 DEF Late

\* A reconcile that changes the mode of a policy that is new or pending first.
LEMMA SpecBegins ==
    ASSUME NEW mode, NEW any, NEW old \in CR, NEW new \in CR, NEW copy \in CR,
           Late(mode, "idle", old, new, any),
           NEW c, \/ c = "defaultMode" /\ old.phase = "" /\ old.mode = ""
                  \/ c = "modifySpec" /\ old.phase = "Pending",
           copy.phase = old.phase, copy.executedAt = old.executedAt,
           copy.completedAt = old.completedAt, copy.mode # "Continuous"
    PROVE  Late(mode, c, old, new, copy)
<1>1. Sound(mode, old) /\ Sound(mode, new) /\ Consecutive(old, new)
  BY DEF Late
<1>2. CopyInPhase(mode, c, new, copy)
  BY <1>1 DEF CopyInPhase, Sound, Consecutive
<1>3. StartCopied(c, old, new, copy)
  BY <1>1 DEF StartCopied, Consecutive, Saving, Started, Began
<1>4. EndCopied(c, old, new, copy)
  BY <1>1 DEF EndCopied, Consecutive, Saving, Undecided, Ended, CR
<1> QED
  BY <1>1, <1>2, <1>3, <1>4 DEF Late

\* A reconcile that starts an execution.
LEMMA BeginBegins ==
    ASSUME NEW mode, NEW any, NEW old \in CR, NEW new \in CR, NEW copy \in CR,
           Late(mode, "idle", old, new, any), old.phase = "Approved",
           copy.phase = "Executing", Started(copy), copy.completedAt = old.completedAt,
           copy.mode = old.mode, copy.starts = old.starts
    PROVE  Late(mode, "begin", old, new, copy)
<1>1. Sound(mode, old) /\ Sound(mode, new) /\ Consecutive(old, new)
  BY DEF Late
<1>2. CopyInPhase(mode, "begin", new, copy)
  BY <1>1 DEF CopyInPhase, Sound
<1>3. StartCopied("begin", old, new, copy)
  BY <1>1 DEF StartCopied, Consecutive, Saving, Began
<1>4. EndCopied("begin", old, new, copy)
  BY <1>1 DEF EndCopied, Consecutive, Saving, Undecided, Ended, CR
<1> QED
  BY <1>1, <1>2, <1>3, <1>4 DEF Late

\* A reconcile that looks at an execution, or gives a policy up.
LEMMA LookBegins ==
    ASSUME NEW mode, NEW any, NEW old \in CR, NEW new \in CR,
           Late(mode, "idle", old, new, any),
           NEW c \in {"poll", "rollback", "backfill", "lateBackfill"},
           \/ old.phase = "Executing"
           \/ old.phase = "WaitingForTarget" /\ c = "rollback"
    PROVE  Late(mode, c, old, new, old)
<1>1. Sound(mode, old) /\ Sound(mode, new) /\ Consecutive(old, new)
  BY DEF Late
<1>2. CopyInPhase(mode, c, new, old)
  BY <1>1 DEF CopyInPhase, Sound
<1>3. StartCopied(c, old, new, old)
  BY <1>1 DEF StartCopied, Sound, Saving
<1>4. EndCopied(c, old, new, old)
  BY <1>1 DEF EndCopied, Consecutive, Saving, Undecided, Ended
<1> QED
  BY <1>1, <1>2, <1>3, <1>4 DEF Late

\* The fields of the copies the handlers make.
LEMMA CopyFields ==
    ASSUME NEW cr \in CR
    PROVE  /\ \A p \in Phases : /\ InPhase(cr, p) \in CR /\ InPhase(cr, p).phase = p
                                /\ InPhase(cr, p).mode = cr.mode
                                /\ InPhase(cr, p).executedAt = cr.executedAt
                                /\ InPhase(cr, p).completedAt = cr.completedAt
                                /\ InPhase(cr, p).starts = cr.starts
           /\ Applied(cr) \in CR /\ Applied(cr).phase = "Applied"
           /\ Applied(cr).mode = cr.mode /\ Applied(cr).executedAt = cr.executedAt
           /\ Applied(cr).completedAt = TRUE
<1>1. \A p \in Phases : InPhase(cr, p) \in CR
  BY CopyTypes
<1>2. Applied(cr) \in CR
  BY CopyTypes DEF Phases
<1>3. "Applied" \in Phases
  BY DEF Phases
<1> QED
  BY <1>1, <1>2, <1>3 DEF InPhase, Applied, CR

\* Every step that begins a reconcile keeps the invariant.
LEMMA ReconcileLate ==
    ASSUME TypeOK, FirstAttempt, LateInv, Reconcile
    PROVE  LateInv'
<1>1. /\ Cache \in CR /\ Server \in CR
      /\ pc = "idle" => Late(policy.mode, "idle", Cache, Server, local)
      /\ ~Cache.retry /\ Cache.mode # "Continuous"
      /\ {"Pending", "Approved", "Rejected", "WaitingForTarget"} \subseteq Phases
  BY EndsType DEF TypeOK, LateInv, Late, Sound, Phases
<1>2. \A next, copy : Proceed(next, copy) /\ Late(policy.mode, next, Cache, Server, copy) => LateInv'
  BY ProceedLate
<1>3. Compatible(Cache)
  BY <1>1 DEF Compatible
<1>4. ASSUME pc = "idle", Cache.phase \in {"", "Pending", "Approved", "WaitingForTarget"},
             NEW copy \in CR, copy.phase \notin {"", "Executing", "Failed"},
             copy.mode = Cache.mode, copy.executedAt = Cache.executedAt,
             copy.completedAt = (Cache.completedAt \/ copy.phase = "Applied"),
             Proceed("save", copy)
      PROVE  LateInv'
  <2>1. Late(policy.mode, "save", Cache, Server, copy)
    BY <1>1, <1>4, SaveBegins
  <2> QED
    BY <1>2, <1>4, <2>1
<1> HIDE DEF Cache, Server
<1>5. ASSUME pc = "idle", Cache.phase \in {"", "Pending", "Approved", "WaitingForTarget"},
             NEW p \in {"Pending", "Approved", "Rejected", "WaitingForTarget"},
             Proceed("save", InPhase(Cache, p))
      PROVE  LateInv'
  <2> DEFINE copy == InPhase(Cache, p)
  <2>1. /\ copy \in CR /\ copy.phase = p /\ copy.mode = Cache.mode
        /\ copy.executedAt = Cache.executedAt /\ copy.completedAt = Cache.completedAt
    <3>1. p \in Phases /\ Cache \in CR
      BY <1>1
    <3> HIDE DEF copy
    <3> QED
      BY <3>1, CopyFields DEF copy
  <2> HIDE DEF copy
  <2>2. copy.completedAt = (Cache.completedAt \/ copy.phase = "Applied")
    BY <1>1, <2>1 DEF CR
  <2> QED
    BY <1>4, <1>5, <2>1, <2>2 DEF copy
<1>6. ASSUME pc = "idle", Cache.phase \in {"Approved", "WaitingForTarget"},
             Proceed("save", Applied(Cache))
      PROVE  LateInv'
  BY <1>1, <1>4, <1>6, CopyFields
<1>7. CASE ReconcileNew
  <2>1. pc = "idle" /\ Cache.phase = ""
    BY <1>7 DEF ReconcileNew, Reconciling
  <2>2. CASE Cache.mode = ""
    <3>1. Late(policy.mode, "defaultMode", Cache, Server, Cache)
      BY <1>1, <2>1, <2>2, SpecBegins
    <3> QED
      BY <1>2, <1>7, <2>2, <3>1 DEF ReconcileNew
  <2> QED
    BY <1>5, <1>7, <2>1, <2>2 DEF ReconcileNew
<1>8. CASE ReconcilePending
  <2>1. pc = "idle" /\ Cache.phase = "Pending"
    BY <1>8 DEF ReconcilePending, Reconciling
  <2>2. CASE Proceed("save", Cache)
    <3>1. Cache.completedAt = (Cache.completedAt \/ Cache.phase = "Applied")
      BY <1>1, <2>1 DEF CR
    <3> QED
      BY <1>1, <1>4, <2>1, <2>2, <3>1
  <2>3. ASSUME NEW m \in AgentModes \cup {Cache.mode}, Proceed("modifySpec", [Cache EXCEPT !.mode = m])
        PROVE  LateInv'
    <3> DEFINE copy == [Cache EXCEPT !.mode = m]
    <3>1. m \in Modes /\ m # "Continuous"
      BY <1>1, AgentAssumption DEF FirstAttempt, CR
    <3>2. /\ copy \in CR /\ copy.mode = m /\ copy.phase = Cache.phase
          /\ copy.executedAt = Cache.executedAt /\ copy.completedAt = Cache.completedAt
      BY <1>1, <3>1 DEF CR
    <3> HIDE DEF copy
    <3>3. Late(policy.mode, "modifySpec", Cache, Server, copy)
      BY <1>1, <2>1, <3>1, <3>2, SpecBegins
    <3> QED
      BY <1>2, <2>3, <3>3 DEF copy
  <2>4. \/ Proceed("save", InPhase(Cache, "Approved")) \/ Proceed("save", InPhase(Cache, "Rejected"))
        \/ Proceed("save", Cache)
        \/ \E m \in AgentModes \cup {Cache.mode} : Proceed("modifySpec", [Cache EXCEPT !.mode = m])
    BY <1>8 DEF ReconcilePending
  <2> QED
    BY <1>5, <2>1, <2>2, <2>3, <2>4
<1>9. CASE ReconcileApproved
  <2>1. pc = "idle" /\ Cache.phase = "Approved"
    BY <1>9 DEF ReconcileApproved, Reconciling
  <2>2. \/ Proceed("save", InPhase(Cache, "WaitingForTarget")) \/ Proceed("save", Applied(Cache))
        \/ Proceed("begin", [Cache EXCEPT !.phase = "Executing", !.executedAt = 0])
    BY <1>3, <1>9 DEF ReconcileApproved, MovedToWaiting
  <2>3. CASE Proceed("begin", [Cache EXCEPT !.phase = "Executing", !.executedAt = 0])
    <3> DEFINE copy == [Cache EXCEPT !.phase = "Executing", !.executedAt = 0]
    <3>1. /\ copy \in CR /\ copy.mode = Cache.mode /\ copy.phase = "Executing"
          /\ copy.executedAt = 0 /\ copy.completedAt = Cache.completedAt
          /\ copy.starts = Cache.starts
      BY <1>1, StartTimeType DEF CR
    <3>2. Started(copy)
      BY <3>1 DEF Started, NoTime
    <3> HIDE DEF copy
    <3>3. Late(policy.mode, "begin", Cache, Server, copy)
      BY <1>1, <2>1, <3>1, <3>2, BeginBegins
    <3> QED
      BY <1>2, <2>3, <3>3 DEF copy
  <2> QED
    BY <1>5, <1>6, <2>1, <2>2, <2>3
<1>10. CASE ReconcileWaiting
  <2>1. pc = "idle" /\ Cache.phase = "WaitingForTarget"
    BY <1>10 DEF ReconcileWaiting, Reconciling
  <2>2. CASE Proceed("rollback", Cache)
    <3>1. Late(policy.mode, "rollback", Cache, Server, Cache)
      BY <1>1, <2>1, LookBegins
    <3> QED
      BY <1>2, <2>2, <3>1
  <2>3. CASE \E t \in NewTargets(Cache) :
               Proceed("save", [Cache EXCEPT !.phase = "Approved", !.consumed = TRUE,
                                             !.applied = @ \cup {t}])
    <3>1. PICK t \in NewTargets(Cache) :
               Proceed("save", [Cache EXCEPT !.phase = "Approved", !.consumed = TRUE,
                                             !.applied = @ \cup {t}])
      BY <2>3
    <3> DEFINE copy == [Cache EXCEPT !.phase = "Approved", !.consumed = TRUE,
                                     !.applied = @ \cup {t}]
    <3>2. t \in Targets
      BY DEF NewTargets, TypeOK
    <3>3. /\ copy \in CR /\ copy.mode = Cache.mode /\ copy.phase = "Approved"
          /\ copy.executedAt = Cache.executedAt /\ copy.completedAt = Cache.completedAt
      BY <1>1, <3>2 DEF CR
    <3> HIDE DEF copy
    <3>4. copy.completedAt = (Cache.completedAt \/ copy.phase = "Applied")
      BY <1>1, <3>3 DEF CR
    <3> QED
      BY <1>4, <2>1, <3>1, <3>3, <3>4 DEF copy
  <2> QED
    BY <1>6, <1>10, <2>1, <2>2, <2>3 DEF ReconcileWaiting
<1>11. CASE ReconcileRetry
  BY <1>1, <1>11 DEF ReconcileRetry
<1>12. CASE ExecTimedOut \/ ExecNoResult \/ ExecPoll
  <2>1. pc = "idle" /\ Cache.phase = "Executing"
    BY <1>12 DEF ExecTimedOut, ExecNoResult, ExecPoll, Monitoring, Reconciling
  <2>2. PICK c \in {"poll", "rollback", "backfill", "lateBackfill"} : Proceed(c, Cache)
    BY <1>12 DEF ExecTimedOut, ExecNoResult, ExecPoll
  <2>3. Late(policy.mode, c, Cache, Server, Cache)
    BY <1>1, <2>1, LookBegins
  <2> QED
    BY <1>2, <2>2, <2>3
<1> QED
  BY <1>7, <1>8, <1>9, <1>10, <1>11, <1>12 DEF Reconcile

\* Saving a status. What was decided on an old version and stored over a newer one
\* is a sound next version.
LEMMA SaveLands ==
    ASSUME NEW mode, NEW old \in CR, NEW new \in CR, NEW copy \in CR, NEW cr \in CR,
           Late(mode, "save", old, new, copy),
           cr.phase = Put(old.phase, copy.phase, new.phase),
           cr.executedAt = Put(old.executedAt, copy.executedAt, new.executedAt),
           cr.completedAt = Put(old.completedAt, copy.completedAt, new.completedAt),
           cr.starts = new.starts, cr.mode = new.mode, cr.retry = new.retry
    PROVE  Sound(mode, cr) /\ Consecutive(new, cr)
<1>1. /\ Sound(mode, old) /\ Sound(mode, new) /\ Consecutive(old, new)
      /\ StartCopied("save", old, new, copy) /\ EndCopied("save", old, new, copy)
      /\ copy.phase \notin {"", "Executing"}
  BY DEF Late, CopyInPhase
<1>2. /\ cr.phase = "" => new.phase = ""
      /\ cr.phase \in {copy.phase, new.phase}
      /\ cr.phase # copy.phase => old.phase = copy.phase /\ cr.phase = new.phase
  BY <1>1 DEF Put
<1>3. /\ Started(new) /\ ~Started(cr) => new.phase \in Began
      /\ Started(cr) /\ ~Started(new) => cr.phase \in Began
      /\ cr.phase = "Executing" => Started(cr)
  <2>1. /\ Started(cr) => (Started(copy) \/ (~Started(old) /\ Started(new)))
        /\ ~Started(cr) => \/ ~Started(copy) /\ (Started(old) \/ ~Started(new))
                           \/ Started(copy) /\ Started(old) /\ ~Started(new)
    BY DEF Put, Started
  <2> HIDE DEF Started
  <2>2. CASE ~Started(copy)
    BY <1>1, <1>2, <2>1, <2>2 DEF StartCopied, Saving, Sound, Began
  <2>3. CASE Started(copy) /\ copy.phase # "Applied"
    BY <1>1, <1>2, <2>1, <2>3 DEF StartCopied, Saving
  <2>4. CASE Started(copy) /\ copy.phase = "Applied"
    BY <1>1, <1>2, <2>1, <2>4 DEF StartCopied, Saving, Sound, Began
  <2> QED
    BY <2>2, <2>3, <2>4
<1>4. /\ new.completedAt /\ ~cr.completedAt => new.phase \in Ended
      /\ cr.completedAt /\ ~new.completedAt => cr.phase \in Ended
      /\ cr.phase \in Ended => cr.completedAt
  <2>1. /\ cr.completedAt => (copy.completedAt \/ (~old.completedAt /\ new.completedAt))
        /\ ~cr.completedAt => \/ ~copy.completedAt /\ (old.completedAt \/ ~new.completedAt)
                              \/ copy.completedAt /\ old.completedAt /\ ~new.completedAt
    BY DEF Put, CR
  <2>2. CASE ~copy.completedAt
    BY <1>1, <1>2, <2>1, <2>2 DEF EndCopied, Saving, Sound
  <2>3. CASE copy.completedAt
    BY <1>1, <1>2, <2>1, <2>3 DEF EndCopied, Saving, Sound
  <2> QED
    BY <2>2, <2>3
<1> QED
  BY <1>1, <1>2, <1>3, <1>4 DEF Sound, Consecutive

\* Storing that an execution begins. The execution has a start time.
LEMMA BeginLands ==
    ASSUME NEW mode, NEW old \in CR, NEW new \in CR, NEW copy \in CR, NEW cr \in CR,
           NEW reply \in CR, Late(mode, "begin", old, new, copy),
           cr.phase = Put(old.phase, copy.phase, new.phase),
           cr.executedAt = Put(old.executedAt, copy.executedAt, new.executedAt),
           cr.completedAt = Put(old.completedAt, copy.completedAt, new.completedAt),
           cr.starts = new.starts, cr.mode = new.mode, cr.retry = new.retry,
           reply.phase = cr.phase, reply.executedAt = cr.executedAt,
           reply.completedAt = cr.completedAt,
           reply.starts = copy.starts, reply.mode = copy.mode
    PROVE  /\ Late(mode, "start", new, cr, reply)
           /\ cr = new => Late(mode, "start", old, new, reply)
<1>1. /\ Sound(mode, old) /\ Sound(mode, new) /\ Consecutive(old, new)
      /\ StartCopied("begin", old, new, copy) /\ EndCopied("begin", old, new, copy)
      /\ copy.phase = "Executing" /\ copy.mode # "Continuous"
  BY DEF Late, CopyInPhase
<1>2. cr.phase = "Executing"
  BY <1>1 DEF Put, StartCopied
<1>3. Started(cr) /\ Started(reply)
  BY <1>1 DEF Put, StartCopied, Started
<1>4. /\ cr.completedAt /\ ~new.completedAt => FALSE
      /\ ~cr.completedAt => /\ old.completedAt => old.phase \in Ended
                            /\ new.completedAt => new.phase \in Ended
                            /\ old.completedAt => old.starts = copy.starts /\ new.starts = copy.starts
                            /\ new.completedAt => new.starts = copy.starts
  <2>1. /\ cr.completedAt => (copy.completedAt \/ (~old.completedAt /\ new.completedAt))
        /\ ~cr.completedAt => \/ ~copy.completedAt /\ (old.completedAt \/ ~new.completedAt)
                              \/ copy.completedAt /\ old.completedAt /\ ~new.completedAt
    BY DEF Put, CR
  <2> QED
    BY <1>1, <2>1 DEF EndCopied, Undecided, Ended
<1>5. Sound(mode, cr) /\ Consecutive(new, cr)
  BY <1>1, <1>2, <1>3, <1>4 DEF Sound, Consecutive, Began, Ended
<1>6. CopyInPhase(mode, "start", cr, reply) /\ CopyInPhase(mode, "start", new, reply)
  BY <1>1, <1>2 DEF CopyInPhase
<1>7. /\ StartCopied("start", new, cr, reply)
      /\ cr = new => StartCopied("start", old, new, reply)
  BY <1>3 DEF StartCopied, Saving
<1>8. EndCopied("start", new, cr, reply)
  BY <1>2, <1>4 DEF EndCopied, Saving, Undecided, Ended
<1>9. cr = new => EndCopied("start", old, new, reply)
  BY <1>1, <1>2, <1>4 DEF EndCopied, Saving, Undecided, Ended
<1> QED
  BY <1>1, <1>5, <1>6, <1>7, <1>8, <1>9 DEF Late

\* Storing a mode leads to saving a phase.
LEMMA SpecLands ==
    ASSUME NEW mode, NEW c \in {"defaultMode", "modifySpec"},
           NEW old \in CR, NEW new \in CR, NEW copy \in CR, NEW cr \in CR, NEW next \in CR,
           Late(mode, c, old, new, copy), Sound(mode, cr), Consecutive(new, cr), Twin(cr, new),
           next.phase \in {"Pending", "Approved"}, next.executedAt = copy.executedAt,
           next.completedAt = copy.completedAt, next.mode # "Continuous"
    PROVE  /\ Late(mode, "save", new, cr, next)
           /\ cr = new => Late(mode, "save", old, new, next)
<1>1. /\ Sound(mode, old) /\ Sound(mode, new) /\ Consecutive(old, new)
      /\ StartCopied(c, old, new, copy) /\ EndCopied(c, old, new, copy)
      /\ copy.phase \in {"", "Pending"}
  BY DEF Late, CopyInPhase
<1>2. CopyInPhase(mode, "save", cr, next) /\ CopyInPhase(mode, "save", new, next)
  BY DEF CopyInPhase
<1>3. StartCopied("save", new, cr, next) /\ StartCopied("save", old, new, next)
  BY <1>1 DEF StartCopied, Saving, Started, Twin
<1>4. EndCopied("save", new, cr, next) /\ EndCopied("save", old, new, next)
  BY <1>1 DEF EndCopied, Saving, Undecided, Ended, Twin
<1> QED
  BY <1>1, <1>2, <1>3, <1>4 DEF Late

\* A patch of an annotation, or of the result, leads to calls that rest on nothing
\* it could have missed.
LEMMA TwinLands ==
    ASSUME NEW mode, NEW c \in {"rollback", "clearStarts", "backfillMark"},
           NEW new \in CR, NEW cr \in CR, NEW next \in CR,
           Sound(mode, new), Sound(mode, cr), Consecutive(new, cr), Twin(cr, new),
           next.mode # "Continuous"
    PROVE  Late(mode, c, new, cr, next)
BY DEF Late, CopyInPhase, StartCopied, EndCopied, Saving, Undecided, Twin

\* The next call of a reconcile that has written nothing rests on what the one
\* before rested on.
Follows(c, d) ==
    \/ c = "start" /\ d \in {"saveResult", "startFailed"}
    \/ c = "saveResult" /\ d = "startFailed"
    \/ c = "poll" /\ d \in {"clearDone", "clearFailed", "clearRunning", "countMissing", "countError"}
    \/ c = "backfill" /\ d = "backfillSave"
    \/ c = "lateBackfill" /\ d \in {"lateBackfillSave", "rollback"}
    \/ c \in {"lateBackfillSave", "clearFailed", "countMissing", "countError"} /\ d = "rollback"
    \/ c = "rollback" /\ d = "saveRollback"

\* So its copy is in order for the call that follows.
LEMMA FollowsLate ==
    ASSUME NEW mode, NEW c, NEW d, Follows(c, d),
           NEW old \in CR, NEW new \in CR, NEW copy \in CR, NEW next \in CR,
           Late(mode, c, old, new, copy), next.mode = copy.mode,
           next.executedAt = copy.executedAt, next.starts = copy.starts
    PROVE  Late(mode, d, old, new, next)
<1>1. /\ Sound(mode, old) /\ Sound(mode, new) /\ Consecutive(old, new)
      /\ CopyInPhase(mode, c, new, copy)
      /\ StartCopied(c, old, new, copy) /\ EndCopied(c, old, new, copy)
  BY DEF Late
<1>2. CopyInPhase(mode, d, new, next)
  BY <1>1 DEF CopyInPhase, Follows
<1>3. StartCopied(d, old, new, next)
  BY <1>1 DEF StartCopied, Saving, Follows, Started
<1>4. EndCopied(d, old, new, next)
  BY <1>1 DEF EndCopied, Saving, Undecided, Follows
<1> QED
  BY <1>1, <1>2, <1>3, <1>4 DEF Late

\* The save that follows a start that was too early.
LEMMA TooEarlyLate ==
    ASSUME NEW mode, NEW old \in CR, NEW new \in CR, NEW copy \in CR,
           Late(mode, "start", old, new, copy)
    PROVE  Late(mode, "save", old, new, InPhase(copy, "WaitingForTarget"))
<1> DEFINE next == InPhase(copy, "WaitingForTarget")
<1>1. /\ Sound(mode, old) /\ Sound(mode, new) /\ Consecutive(old, new)
      /\ copy.mode # "Continuous" /\ copy.phase = "Executing"
      /\ StartCopied("start", old, new, copy) /\ EndCopied("start", old, new, copy)
  BY DEF Late, CopyInPhase
<1>2. /\ next.phase = "WaitingForTarget" /\ next.mode = copy.mode
      /\ next.executedAt = copy.executedAt /\ next.completedAt = copy.completedAt
  BY CopyFields DEF Phases
<1> HIDE DEF next
<1>3. CopyInPhase(mode, "save", new, next)
  BY <1>1, <1>2 DEF CopyInPhase
<1>4. StartCopied("save", old, new, next)
  BY <1>1, <1>2 DEF StartCopied, Saving, Started
<1>5. EndCopied("save", old, new, next)
  BY <1>1, <1>2 DEF EndCopied, Saving, Undecided, Ended
<1> QED
  BY <1>1, <1>3, <1>4, <1>5 DEF Late, next

\* The save that follows a confirmed completion, with or without a patch before it.
LEMMA CompletedLate ==
    ASSUME NEW mode, NEW old \in CR, NEW new \in CR, NEW copy \in CR, NEW cr \in CR, NEW next \in CR,
           Late(mode, "clearDone", old, new, copy), Twin(cr, new),
           Sound(mode, cr), Consecutive(new, cr),
           next.phase = "Applied", next.completedAt = TRUE, next.executedAt = copy.executedAt,
           next.mode # "Continuous"
    PROVE  Late(mode, "save", old, new, next) /\ Late(mode, "save", new, cr, next)
<1>1. /\ Sound(mode, old) /\ Sound(mode, new) /\ Consecutive(old, new)
      /\ StartCopied("clearDone", old, new, copy) /\ EndCopied("clearDone", old, new, copy)
  BY DEF Late, CopyInPhase
<1>2. CopyInPhase(mode, "save", new, next) /\ CopyInPhase(mode, "save", cr, next)
  BY DEF CopyInPhase
<1>3. StartCopied("save", old, new, next) /\ StartCopied("save", new, cr, next)
  BY <1>1 DEF StartCopied, Saving, Started, Twin
<1>4. EndCopied("save", old, new, next) /\ EndCopied("save", new, cr, next)
  BY <1>1 DEF EndCopied, Saving, Undecided, Ended, Twin
<1> QED
  BY <1>1, <1>2, <1>3, <1>4 DEF Late

\* The save that follows the record of a rollback: its copy is the stored CR.
LEMMA FailedLate ==
    ASSUME NEW mode, NEW old \in CR, NEW new \in CR, NEW copy \in CR, NEW cr \in CR, NEW next \in CR,
           Late(mode, "saveRollback", old, new, copy), Twin(cr, new),
           Sound(mode, cr), Consecutive(new, cr),
           next.phase = "Failed", next.completedAt = TRUE, next.executedAt = new.executedAt,
           next.mode # "Continuous"
    PROVE  /\ Late(mode, "save", new, cr, next)
           /\ cr = new => Late(mode, "save", old, new, next)
<1>1. /\ Sound(mode, old) /\ Sound(mode, new) /\ Consecutive(old, new)
      /\ EndCopied("saveRollback", old, new, copy)
  BY DEF Late, CopyInPhase
<1>2. CopyInPhase(mode, "save", new, next) /\ CopyInPhase(mode, "save", cr, next)
  BY DEF CopyInPhase
<1>3. StartCopied("save", new, cr, next)
  BY <1>1 DEF StartCopied, Saving, Started, Twin, Sound
<1>4. StartCopied("save", old, new, next)
  BY <1>1 DEF StartCopied, Saving, Started, Sound, Consecutive
<1>5. EndCopied("save", old, new, next) /\ EndCopied("save", new, cr, next)
  BY <1>1 DEF EndCopied, Saving, Undecided, Ended, Twin
<1> QED
  BY <1>1, <1>2, <1>3, <1>4, <1>5 DEF Late

\* Patches of one field or of annotations make a twin of the newest version.
LEMMA PatchTwins ==
    ASSUME NEW cr \in CR
    PROVE  /\ \A x \in Modes : /\ Twin([cr EXCEPT !.mode = x], cr)
                               /\ [cr EXCEPT !.mode = x].retry = cr.retry
                               /\ [cr EXCEPT !.mode = x].mode = x
           /\ \A x \in Results : /\ Twin([cr EXCEPT !.result = x], cr)
                                 /\ [cr EXCEPT !.result = x].retry = cr.retry
                                 /\ [cr EXCEPT !.result = x].mode = cr.mode
           /\ \A x \in Nat : /\ Twin([cr EXCEPT !.starts = x], cr)
                             /\ [cr EXCEPT !.starts = x].retry = cr.retry
                             /\ [cr EXCEPT !.starts = x].mode = cr.mode
                             /\ [cr EXCEPT !.starts = x].starts = x
           /\ \A x, y \in Nat : /\ Twin([cr EXCEPT !.missing = x, !.errors = y], cr)
                                /\ [cr EXCEPT !.missing = x, !.errors = y].retry = cr.retry
                                /\ [cr EXCEPT !.missing = x, !.errors = y].mode = cr.mode
           /\ \A x \in Nat : /\ Twin([cr EXCEPT !.missing = x], cr)
                             /\ [cr EXCEPT !.missing = x].retry = cr.retry
                             /\ [cr EXCEPT !.missing = x].mode = cr.mode
                             /\ Twin([cr EXCEPT !.errors = x], cr)
                             /\ [cr EXCEPT !.errors = x].retry = cr.retry
                             /\ [cr EXCEPT !.errors = x].mode = cr.mode
           /\ \A x \in Rollbacks : /\ Twin([cr EXCEPT !.rollback = x], cr)
                                   /\ [cr EXCEPT !.rollback = x].retry = cr.retry
                                   /\ [cr EXCEPT !.rollback = x].mode = cr.mode
BY DEF Twin, CR

\* Every call keeps the invariant.
LEMMA CallLate ==
    ASSUME MaxLag <= 1, TypeOK, FirstAttempt, LateInv, Call
    PROVE  LateInv'
<1> DEFINE mode == policy.mode
<1>1. /\ Cache \in CR /\ Server \in CR /\ local \in CR /\ Len(versions) <= 2
      /\ local.starts \in Nat /\ local.missing \in Nat /\ local.errors \in Nat
      /\ local.mode \in Modes /\ local.result \in Results
  BY EndsType DEF TypeOK, LateInv, CR
<1>2. /\ Late(mode, pc, Cache, Server, local)
      /\ Sound(mode, Cache) /\ Sound(mode, Server) /\ Consecutive(Cache, Server)
      /\ CopyInPhase(mode, pc, Server, local)
      /\ Server.mode # "Continuous" /\ local.mode # "Continuous"
  BY DEF LateInv, Late, Sound, CopyInPhase
<1>3. ASSUME NEW cr \in CR, NEW next, next # "idle", NEW copy \in CR, Write(cr, next, copy),
             Late(mode, next, Server, cr, copy), cr = Server => Late(mode, next, Cache, Server, copy)
      PROVE  LateInv'
  BY <1>1, <1>3, WriteLate
<1>4. ASSUME NEW cr \in CR, NEW copy \in CR, Write(cr, "idle", copy), Sound(mode, cr), Consecutive(Server, cr)
      PROVE  LateInv'
  BY <1>4, WriteIdleLate
<1>5. ASSUME NEW next, NEW copy, WriteFails(next, copy) \/ Proceed(next, copy),
             next # "idle" => Late(mode, next, Cache, Server, copy)
      PROVE  LateInv'
  BY <1>5, WriteFailsLate, ProceedLate
<1>6. Abandon => LateInv'
  BY AbandonLate
<1>7. \A cr \in CR : Twin(cr, Server) /\ cr.retry = Server.retry /\ cr.mode = Server.mode
        => Sound(mode, cr) /\ Consecutive(Server, cr)
  <2>1. Server.phase = "" /\ Server.mode = "" => mode = ""
    BY <1>2 DEF Sound
  <2> QED
    BY <1>1, <1>2, <2>1, TwinSound DEF Twin
<1>8. \A d : Follows(pc, d) => Late(mode, d, Cache, Server, local)
  BY <1>1, <1>2, FollowsLate
<1> HIDE DEF Cache, Server, mode
<1>9. CASE Save
  <2> DEFINE cr == MergeStatus(Cache, local)
  <2>1. /\ cr.phase = Put(Cache.phase, local.phase, Server.phase)
        /\ cr.executedAt = Put(Cache.executedAt, local.executedAt, Server.executedAt)
        /\ cr.completedAt = Put(Cache.completedAt, local.completedAt, Server.completedAt)
        /\ cr.starts = Server.starts /\ cr.mode = Server.mode /\ cr.retry = Server.retry
    BY <1>1 DEF MergeStatus, CR
  <2>2. cr \in CR /\ (Write(cr, "idle", local) \/ Abandon) /\ pc = "save"
    BY <1>1, <1>9, MergeType DEF Save
  <2> HIDE DEF cr
  <2>3. Sound(mode, cr) /\ Consecutive(Server, cr)
    BY <1>1, <1>2, <2>1, <2>2, SaveLands
  <2> QED
    BY <1>1, <1>4, <1>6, <2>2, <2>3
<1>10. CASE PatchDefaultMode \/ PatchModifiedSpec
  <2>1. PICK m \in Modes, p \in {"Pending", "Approved"} :
          /\ m # "Continuous" /\ (m # "" \/ pc = "modifySpec")
          /\ pc \in {"defaultMode", "modifySpec"}
          /\ \/ Abandon
             \/ LET new == [Server EXCEPT !.mode = Put(Cache.mode, m, @)]
                IN  Write(new, "save", [local EXCEPT !.mode = new.mode, !.phase = p])
    <3>1. CASE PatchDefaultMode
      <4>1. pc = "defaultMode" /\ policy.mode = ""
        BY <1>2, <3>1 DEF PatchDefaultMode, CopyInPhase, mode
      <4>2. /\ DefaultMode(policy.type) \in Modes /\ DefaultMode(policy.type) # ""
            /\ DefaultMode(policy.type) # "Continuous"
        BY <4>1 DEF FirstAttempt, DefaultMode, Modes
      <4> QED
        BY <3>1, <4>1, <4>2 DEF PatchDefaultMode
    <3>2. CASE PatchModifiedSpec
      BY <1>1, <1>2, <3>2 DEF PatchModifiedSpec
    <3> QED
      BY <1>10, <3>1, <3>2
  <2> DEFINE to  == Put(Cache.mode, m, Server.mode)
             new == [Server EXCEPT !.mode = to]
             next == [local EXCEPT !.mode = new.mode, !.phase = p]
  <2>2. to \in Modes /\ to # "Continuous" /\ to \in {m, Server.mode}
    BY <1>1, <1>2, <2>1 DEF Put, CR
  <2> HIDE DEF to
  <2>3. /\ new \in CR /\ Twin(new, Server) /\ new.retry = Server.retry /\ new.mode = to
    BY <1>1, <2>2, PatchTwins, CopyTypes DEF Phases
  <2> HIDE DEF new
  <2>4. /\ next \in CR /\ next.phase = p /\ next.mode = to
        /\ next.executedAt = local.executedAt /\ next.completedAt = local.completedAt
    BY <1>1, <2>2, <2>3 DEF CR, Phases
  <2> HIDE DEF next
  <2>5. new.phase = "" /\ new.mode = "" => mode = ""
    BY <1>2, <2>1, <2>2, <2>3 DEF Twin, CopyInPhase, Sound
  <2>6. Sound(mode, new) /\ Consecutive(Server, new)
    BY <1>1, <1>2, <2>2, <2>3, <2>5, TwinSound
  <2>7. Late(mode, "save", Server, new, next) /\ (new = Server => Late(mode, "save", Cache, Server, next))
    BY <1>1, <1>2, <2>1, <2>2, <2>3, <2>4, <2>6, SpecLands
  <2>8. Abandon \/ Write(new, "save", next)
    BY <2>1 DEF next, new, to
  <2> QED
    BY <1>3, <1>6, <2>3, <2>4, <2>7, <2>8
<1>11. CASE ClearRetry
  BY <1>2, <1>11 DEF ClearRetry, CopyInPhase
<1>12. CASE Begin
  <2> DEFINE cr == MergeStatus(Cache, local)
             reply == WithStatus(local, cr)
  <2>1. /\ cr.phase = Put(Cache.phase, local.phase, Server.phase)
        /\ cr.executedAt = Put(Cache.executedAt, local.executedAt, Server.executedAt)
        /\ cr.completedAt = Put(Cache.completedAt, local.completedAt, Server.completedAt)
        /\ cr.starts = Server.starts /\ cr.mode = Server.mode /\ cr.retry = Server.retry
    BY <1>1 DEF MergeStatus, CR
  <2>2. cr \in CR /\ (Write(cr, "start", reply) \/ Abandon) /\ pc = "begin"
    BY <1>1, <1>12, MergeType DEF Begin
  <2> HIDE DEF cr
  <2>3. reply \in CR
    BY <1>1, <2>2, ReplyTypes
  <2>4. /\ reply.phase = cr.phase /\ reply.executedAt = cr.executedAt
        /\ reply.completedAt = cr.completedAt
        /\ reply.starts = local.starts /\ reply.mode = local.mode
    BY <1>1 DEF WithStatus, CR
  <2> HIDE DEF reply
  <2>5. Late(mode, "start", Server, cr, reply) /\ (cr = Server => Late(mode, "start", Cache, Server, reply))
    BY <1>1, <1>2, <2>1, <2>2, <2>3, <2>4, BeginLands
  <2> QED
    BY <1>3, <1>6, <2>2, <2>3, <2>5
<1>13. CASE Start \/ Backfill
  <2>1. PICK ok, ko : /\ Post(ok, ko) /\ Follows(pc, ok)
                      /\ ko = "idle" \/ Follows(pc, ko)
    BY <1>13 DEF Start, Backfill, Follows
  <2>2. PICK next \in CR : /\ next.mode = local.mode /\ next.executedAt = local.executedAt
                           /\ next.starts = local.starts
                           /\ Then(ok, next) \/ Then(ko, next)
    <3>1. \A r \in Results : LET next == [local EXCEPT !.result = r]
                             IN  /\ next \in CR /\ next.mode = local.mode /\ next.starts = local.starts
                                 /\ next.executedAt = local.executedAt
      BY <1>1 DEF CR
    <3>2. Then(ko, local) \/ \E r \in OpIds \cup {NoId} : Then(ok, [local EXCEPT !.result = r])
      BY <2>1 DEF Post
    <3>3. OpIds \cup {NoId} \subseteq Results
      BY DEF Results
    <3> QED
      BY <1>1, <3>1, <3>2, <3>3
  <2>3. versions' = versions /\ policy' = policy
    BY <2>1 DEF Post
  <2>4. /\ Late(mode, ok, Cache, Server, next)
        /\ ko # "idle" => Late(mode, ko, Cache, Server, next)
    BY <1>1, <1>2, <2>1, <2>2, FollowsLate
  <2> QED
    BY <2>2, <2>3, <2>4, QuietLate DEF mode
<1>14. CASE StartTooEarly
  <2>1. Late(mode, "save", Cache, Server, InPhase(local, "WaitingForTarget"))
    BY <1>1, <1>2, <1>14, TooEarlyLate DEF StartTooEarly
  <2> QED
    BY <1>5, <1>14, <2>1 DEF StartTooEarly
<1>15. CASE SaveResult \/ BackfillSave
  <2> DEFINE to   == Put(Cache.result, local.result, Server.result)
             new  == [Server EXCEPT !.result = to]
             next == WithStatus(local, new)
  <2>1. PICK c \in {"clearStarts", "backfillMark"}, failed \in {"startFailed", "rollback", "idle"} :
          /\ Write(new, c, next) \/ WriteFails(failed, local)
          /\ failed = "idle" \/ Follows(pc, failed)
    BY <1>15 DEF SaveResult, BackfillSave, PatchResult, Follows
  <2>2. to \in Results
    BY <1>1 DEF Put, CR
  <2> HIDE DEF to
  <2>3. new \in CR /\ Twin(new, Server) /\ new.retry = Server.retry /\ new.mode = Server.mode
    BY <1>1, <2>2, PatchTwins, CopyTypes DEF Phases
  <2> HIDE DEF new
  <2>4. next \in CR /\ next.mode # "Continuous"
    BY <1>1, <1>2, <2>3, ReplyTypes, ReplyFields
  <2> HIDE DEF next
  <2>5. Sound(mode, new) /\ Consecutive(Server, new)
    BY <1>7, <2>3
  <2>6. Late(mode, c, Server, new, next)
    BY <1>1, <1>2, <2>3, <2>4, <2>5, TwinLands
  <2>7. Late(mode, c, Cache, Server, next)
    BY <1>2, <2>4 DEF Late, CopyInPhase, StartCopied, EndCopied, Saving, Undecided
  <2> QED
    BY <1>3, <1>5, <1>8, <2>1, <2>3, <2>4, <2>6, <2>7
<1>16. CASE ClearStarts \/ StartFailed \/ BackfillMark
  <2>1. PICK n \in Nat, c \in {"idle", "rollback"} :
          /\ PatchStarts(n, c) \/ Abandon
          /\ c = "rollback" => pc = "startFailed" /\ n = local.starts + 1
    BY <1>1, <1>16 DEF ClearStarts, StartFailed, BackfillMark
  <2> DEFINE to   == Put(Cache.starts, n, Server.starts)
             new  == [Server EXCEPT !.starts = to]
             next == WithAnnotations(local, new)
  <2>2. to \in Nat
    BY <1>1 DEF Put, CR
  <2>3. Write(new, c, next) \/ Abandon
    BY <2>1 DEF PatchStarts
  <2>4. /\ new \in CR /\ Twin(new, Server) /\ new.retry = Server.retry /\ new.mode = Server.mode
        /\ new.starts = to
    <3> HIDE DEF to
    <3>1. new \in CR
      BY <1>1, <2>2 DEF CR
    <3> QED
      BY <1>1, <2>2, <3>1, PatchTwins
  <2> HIDE DEF new
  <2>5. next \in CR /\ next.mode # "Continuous"
    BY <1>1, <1>2, <2>4, ReplyTypes, ReplyFields
  <2> HIDE DEF next
  <2>6. Sound(mode, new) /\ Consecutive(Server, new)
    BY <1>7, <2>4
  <2>7. CASE c = "rollback"
    <3>1. Late(mode, c, Server, new, next)
      BY <1>1, <1>2, <2>4, <2>5, <2>6, <2>7, TwinLands
    <3>2. ASSUME new = Server
          PROVE  Cache.completedAt => Server.completedAt
      <4>1. Server.starts = Put(Cache.starts, local.starts + 1, Server.starts) /\ pc = "startFailed"
        BY <2>1, <2>4, <2>7, <3>2
      <4>2. Cache.completedAt /\ ~Server.completedAt
              => Cache.starts = local.starts /\ Server.starts = local.starts
        BY <1>2, <4>1 DEF Late, EndCopied
      <4>3. Cache.starts = local.starts => Server.starts = local.starts + 1
        BY <1>1, <4>1 DEF Put
      <4> QED
        BY <1>1, <4>2, <4>3
    <3>3. new = Server => Late(mode, c, Cache, Server, next)
      BY <1>2, <2>5, <2>7, <3>2 DEF Late, CopyInPhase, StartCopied, EndCopied, Saving, Undecided
    <3> QED
      BY <1>3, <1>6, <2>3, <2>4, <2>5, <2>7, <3>1, <3>3
  <2>8. CASE c = "idle"
    BY <1>4, <1>6, <2>3, <2>4, <2>5, <2>6, <2>8
  <2> QED
    BY <2>7, <2>8
<1>17. CASE Poll
  <2>1. /\ Follows(pc, pc') /\ versions' = versions /\ local' = local /\ policy' = policy
    BY <1>17 DEF Poll, Follows
  <2>2. Cache' = Cache /\ Server' = Server
    BY <2>1 DEF Cache, Server
  <2> QED
    BY <1>1, <1>8, <2>1, <2>2 DEF LateInv, mode
<1>18. CASE PollError
  BY <1>5, <1>8, <1>18 DEF PollError, Follows
<1>19. CASE ClearAfterPoll
  <2> DEFINE zero(x, y) == Put(x, 0, y)
             none == Put(Cache.missing, 0, Server.missing)
             zeros == Put(Cache.errors, 0, Server.errors)
             new == [Server EXCEPT !.missing = none, !.errors = zeros]
  <2>1. none \in Nat /\ zeros \in Nat
    BY <1>1 DEF Put, CR
  <2>2. ASSUME NEW c, NEW copy, ClearCounters(c, copy)
        PROVE  Proceed(c, copy) \/ Write(new, c, WithAnnotations(copy, new)) \/ Abandon
    BY <2>2 DEF ClearCounters
  <2> HIDE DEF none, zeros
  <2>3. new \in CR
    <3>1. [Server EXCEPT !.missing = none] \in CR
      BY <1>1, <2>1 DEF CR
    <3> DEFINE half == [Server EXCEPT !.missing = none]
    <3>2. half \in CR /\ new = [half EXCEPT !.errors = zeros]
      BY <1>1, <3>1 DEF CR
    <3> HIDE DEF half, new
    <3> QED
      BY <2>1, <3>2 DEF CR
  <2>4. Twin(new, Server) /\ new.retry = Server.retry /\ new.mode = Server.mode
    <3>1. \A x, y \in Nat : /\ Twin([Server EXCEPT !.missing = x, !.errors = y], Server)
                            /\ [Server EXCEPT !.missing = x, !.errors = y].retry = Server.retry
                            /\ [Server EXCEPT !.missing = x, !.errors = y].mode = Server.mode
      BY <1>1, PatchTwins
    <3> QED
      BY <2>1, <3>1
  <2> HIDE DEF new
  <2>5. Sound(mode, new) /\ Consecutive(Server, new)
    BY <1>7, <2>3, <2>4
  <2>6. CASE pc = "clearDone"
    <3> DEFINE copy  == Completed(local)
               reply == WithAnnotations(copy, new)
    <3>1. ClearCounters("save", copy)
      BY <1>19, <2>6 DEF ClearAfterPoll
    <3>2. /\ copy \in CR /\ copy.phase = "Applied" /\ copy.completedAt = TRUE
          /\ copy.executedAt = local.executedAt /\ copy.mode = local.mode
      <4> DEFINE done == Applied(local)
      <4>1. /\ done \in CR /\ done.phase = "Applied" /\ done.completedAt = TRUE
            /\ done.executedAt = local.executedAt /\ done.mode = local.mode
        BY <1>1, CopyFields
      <4>2. copy = [done EXCEPT !.consumed = TRUE]
        BY <1>2 DEF Completed
      <4> HIDE DEF done, copy
      <4> QED
        BY <4>1, <4>2 DEF CR
    <3> HIDE DEF copy
    <3>3. /\ reply \in CR /\ reply.phase = "Applied" /\ reply.completedAt = TRUE
          /\ reply.executedAt = local.executedAt /\ reply.mode = local.mode
      BY <2>3, <3>2, ReplyTypes DEF WithAnnotations, CR
    <3>4. Proceed("save", copy) \/ Write(new, "save", reply) \/ Abandon
      BY <2>2, <3>1
    <3> HIDE DEF reply
    <3>5. /\ Late(mode, "save", Cache, Server, copy)
          /\ Late(mode, "save", Cache, Server, reply) /\ Late(mode, "save", Server, new, reply)
      BY <1>1, <1>2, <2>3, <2>4, <2>5, <2>6, <3>2, <3>3, CompletedLate
    <3> QED
      BY <1>3, <1>5, <1>6, <2>3, <3>2, <3>3, <3>4, <3>5
  <2>7. CASE pc # "clearDone"
    <3>1. PICK c \in {"rollback", "idle"} : ClearCounters(c, local) /\ (c = "rollback" => Follows(pc, c))
      BY <1>19, <2>7 DEF ClearAfterPoll, Follows
    <3> DEFINE reply == WithAnnotations(local, new)
    <3>2. reply \in CR /\ reply.mode = local.mode /\ reply.executedAt = local.executedAt
      BY <1>1, <2>3, ReplyTypes DEF WithAnnotations, CR
    <3>3. Proceed(c, local) \/ Write(new, c, reply) \/ Abandon
      BY <2>2, <3>1
    <3> HIDE DEF reply
    <3>4. CASE c = "rollback"
      <4>1. Late(mode, c, Server, new, reply)
        BY <1>1, <1>2, <2>3, <2>4, <2>5, <3>2, <3>4, TwinLands
      <4>2. Late(mode, c, Cache, Server, local)
        BY <1>8, <3>1, <3>4
      <4>3. Late(mode, c, Cache, Server, reply)
        BY <1>2, <3>2, <3>4, <4>2 DEF Late, CopyInPhase, StartCopied, EndCopied, Saving, Undecided
      <4> QED
        BY <1>3, <1>5, <1>6, <2>3, <3>2, <3>3, <3>4, <4>1, <4>2, <4>3
    <3>5. CASE c = "idle"
      BY <1>4, <1>5, <1>6, <2>3, <2>5, <3>2, <3>3, <3>5
    <3> QED
      BY <3>4, <3>5
  <2> QED
    BY <2>6, <2>7
<1>20. CASE CountMissing \/ CountError
  <2> DEFINE n1  == Put(Cache.missing, local.missing + 1, Server.missing)
             n2  == Put(Cache.errors, local.errors + 1, Server.errors)
             new1 == [Server EXCEPT !.missing = n1]
             new2 == [Server EXCEPT !.errors = n2]
  <2>1. n1 \in Nat /\ n2 \in Nat
    BY <1>1 DEF Put, CR
  <2>2. PICK c \in {"idle", "rollback"}, new \in {new1, new2} :
          /\ Write(new, c, WithAnnotations(local, new)) \/ Abandon
          /\ Follows(pc, "rollback")
    BY <1>20 DEF CountMissing, CountError, Follows
  <2>3. new \in CR /\ Twin(new, Server) /\ new.retry = Server.retry /\ new.mode = Server.mode
    <3> HIDE DEF n1, n2
    <3>1. new1 \in CR /\ new2 \in CR
      BY <1>1, <2>1 DEF CR
    <3>2. /\ Twin(new1, Server) /\ new1.retry = Server.retry /\ new1.mode = Server.mode
          /\ Twin(new2, Server) /\ new2.retry = Server.retry /\ new2.mode = Server.mode
      BY <1>1, <2>1, PatchTwins
    <3> HIDE DEF new1, new2
    <3> QED
      BY <2>2, <3>1, <3>2
  <2> HIDE DEF new1, new2
  <2> DEFINE reply == WithAnnotations(local, new)
  <2>4. reply \in CR /\ reply.mode = local.mode
    BY <1>1, <2>3, ReplyTypes, ReplyFields
  <2> HIDE DEF reply
  <2>5. Sound(mode, new) /\ Consecutive(Server, new)
    BY <1>7, <2>3
  <2>6. Late(mode, "rollback", Server, new, reply)
    BY <1>1, <1>2, <2>3, <2>4, <2>5, TwinLands
  <2>7. Late(mode, "rollback", Cache, Server, local)
    BY <1>8, <2>2
  <2>8. Late(mode, "rollback", Cache, Server, reply)
    BY <1>2, <2>4, <2>7 DEF Late, CopyInPhase, StartCopied, EndCopied, Saving, Undecided
  <2> QED
    BY <1>3, <1>4, <1>6, <2>2, <2>3, <2>4, <2>5, <2>6, <2>8 DEF reply
<1>21. CASE Rollback
  <2>1. PICK x \in Rollbacks : Then("saveRollback", [local EXCEPT !.rollback = x])
    BY <1>21 DEF Rollback
  <2> DEFINE next == [local EXCEPT !.rollback = x]
  <2>2. /\ next \in CR /\ next.mode = local.mode /\ next.executedAt = local.executedAt
        /\ next.starts = local.starts
    BY <1>1 DEF CR
  <2>3. versions' = versions /\ policy' = policy /\ pc = "rollback" /\ Then("saveRollback", next)
    BY <1>21, <2>1 DEF Rollback
  <2> HIDE DEF next
  <2>4. Late(mode, "saveRollback", Cache, Server, next)
    BY <1>1, <1>2, <2>2, <2>3, FollowsLate DEF Follows
  <2> QED
    BY <2>3, <2>4, QuietLate DEF mode
<1>22. CASE SaveRollback
  <2> DEFINE new == [Server EXCEPT !.rollback = local.rollback]
             next == [new EXCEPT !.phase = "Failed", !.completedAt = TRUE, !.result = FailText]
  <2>1. (Write(new, "save", next) \/ Abandon) /\ pc = "saveRollback"
    BY <1>22 DEF SaveRollback
  <2>2. local.rollback \in Rollbacks
    BY <1>1 DEF CR
  <2>3. new \in CR /\ Twin(new, Server) /\ new.retry = Server.retry /\ new.mode = Server.mode
    BY <1>1, <2>2, PatchTwins, CopyTypes DEF Phases
  <2> HIDE DEF new
  <2>4. next \in CR
    BY <2>3 DEF CR, Phases, Results
  <2>5. /\ next.phase = "Failed" /\ next.completedAt = TRUE /\ next.mode = new.mode
        /\ next.executedAt = new.executedAt
    BY <2>3 DEF CR
  <2> HIDE DEF next
  <2>6. Sound(mode, new) /\ Consecutive(Server, new)
    BY <1>7, <2>3
  <2>7. Late(mode, "save", Server, new, next) /\ (new = Server => Late(mode, "save", Cache, Server, next))
    BY <1>1, <1>2, <2>1, <2>3, <2>4, <2>5, <2>6, FailedLate DEF Twin
  <2> QED
    BY <1>3, <1>6, <2>1, <2>3, <2>4, <2>7
<1> QED
  BY <1>9, <1>10, <1>11, <1>12, <1>13, <1>14, <1>15, <1>16, <1>17, <1>18, <1>19, <1>20, <1>21,
     <1>22 DEF Call

\* A version stored by a user, during a reconcile or between two.
LEMMA UserStoreLate ==
    ASSUME MaxLag <= 1, TypeOK, FirstAttempt, LateInv, NEW cr \in CR, UserWrites(cr), cr # Server,
           Late(policy.mode, pc, Server, cr, local)
    PROVE  LateInv'
<1>1. /\ pc' = pc /\ local' = local /\ policy' = policy /\ Store(cr)
      /\ local \in CR /\ Server \in CR /\ Len(versions) <= 2
  BY EndsType DEF UserWrites, TypeOK, LateInv
<1>2. Late(policy.mode, pc, cr, cr, local)
  BY <1>1, DeliveredLate
<1>3. Len(versions') <= 2 /\ Server' = cr /\ (Cache' = Server \/ Cache' = cr)
  BY <1>1, StoreLate
<1> HIDE DEF Server, Cache
<1> QED
  BY <1>1, <1>2, <1>3 DEF LateInv

\* What a user stores follows the newest version, for the copy in memory as well.
LEMMA UserLate ==
    ASSUME NEW mode, NEW c, NEW old \in CR, NEW new \in CR, NEW copy \in CR,
           Late(mode, c, old, new, copy)
    PROVE  /\ Late(mode, c, new, [new EXCEPT !.live = FALSE], copy)
           /\ new.phase = "Pending" => Late(mode, c, new, [new EXCEPT !.phase = "Approved"], copy)
<1>1. Late(mode, c, new, new, copy)
  BY DeliveredLate
<1>2. Late(mode, c, new, [new EXCEPT !.live = FALSE], copy)
  <2> DEFINE cr == [new EXCEPT !.live = FALSE]
  <2>1. /\ cr.phase = new.phase /\ cr.mode = new.mode /\ cr.retry = new.retry
        /\ cr.executedAt = new.executedAt /\ cr.completedAt = new.completedAt
        /\ cr.starts = new.starts
    BY DEF CR
  <2> HIDE DEF cr
  <2>2. Sound(mode, cr) /\ Consecutive(new, cr)
    BY <1>1, <2>1 DEF Late, Sound, Consecutive, Started
  <2>3. CopyInPhase(mode, c, cr, copy)
    BY <1>1, <2>1 DEF Late, CopyInPhase
  <2>4. StartCopied(c, new, cr, copy)
    BY <1>1, <2>1 DEF Late, StartCopied, Started
  <2>5. EndCopied(c, new, cr, copy)
    BY <1>1, <2>1 DEF Late, EndCopied
  <2> QED
    BY <2>2, <2>3, <2>4, <2>5 DEF Late, cr
<1>3. ASSUME new.phase = "Pending"
      PROVE  Late(mode, c, new, [new EXCEPT !.phase = "Approved"], copy)
  <2> DEFINE cr == [new EXCEPT !.phase = "Approved"]
  <2>1. /\ cr.phase = "Approved" /\ cr.mode = new.mode /\ cr.retry = new.retry
        /\ cr.executedAt = new.executedAt /\ cr.completedAt = new.completedAt
        /\ cr.starts = new.starts
    BY DEF CR
  <2> HIDE DEF cr
  <2>2. Sound(mode, cr) /\ Consecutive(new, cr)
    BY <1>1, <1>3, <2>1 DEF Late, Sound, Consecutive, Started, Ended
  <2>3. CopyInPhase(mode, c, cr, copy)
    BY <1>1, <2>1 DEF Late, CopyInPhase
  <2>4. StartCopied(c, new, cr, copy)
    BY <1>1, <1>3, <2>1 DEF Late, StartCopied, Started, Began
  <2>5. EndCopied(c, new, cr, copy)
    BY <1>1, <1>3, <2>1 DEF Late, EndCopied, Ended
  <2> QED
    BY <2>2, <2>3, <2>4, <2>5 DEF Late, cr
<1> QED
  BY <1>2, <1>3

\* Every step of the others keeps the invariant.
LEMMA EnvironmentLate ==
    ASSUME MaxLag <= 1, TypeOK, FirstAttempt, FirstAttempt', LateInv,
           Deliver \/ Tick \/ Crash \/ User \/ Operator \/ TargetAppears
    PROVE  LateInv'
<1>1. /\ versions \in Seq(CR) /\ versions # <<>> /\ Len(versions) \in {1, 2}
      /\ Cache \in CR /\ Server \in CR /\ local \in CR
  <2>1. \A n \in Nat \ {0} : n <= 2 => n = 1 \/ n = 2
    OBVIOUS
  <2> QED
    BY <2>1, EndsType DEF TypeOK, LateInv
<1>2. Late(policy.mode, pc, Cache, Server, local)
  BY DEF LateInv
<1>3. Late(policy.mode, pc, Server, Server, local)
  BY <1>1, <1>2, DeliveredLate
<1>4. CASE Deliver
  <2>1. /\ versions' = Tail(versions) /\ Len(versions) = 2
        /\ pc' = pc /\ local' = local /\ policy' = policy
    BY <1>1, <1>4 DEF Deliver, external
  <2>2. Len(Tail(versions)) = 1 /\ Tail(versions)[1] = versions[2]
    <3>1. \A q \in Seq(CR) : Len(q) = 2 => Len(Tail(q)) = 1 /\ Tail(q)[1] = q[2]
      OBVIOUS
    <3> QED
      BY <1>1, <2>1, <3>1
  <2>3. Len(versions') <= 2 /\ Cache' = Server /\ Server' = Server
    BY <2>1, <2>2 DEF Cache, Server
  <2>4. pc' = pc /\ local' = local /\ policy' = policy
    BY <2>1
  <2> QED
    BY <1>3, <2>3, <2>4 DEF LateInv
<1>5. CASE Tick
  <2>1. /\ versions' = [i \in 1..Len(versions) |-> Older(versions[i])]
        /\ local' = Older(local) /\ pc' = pc /\ policy' = policy
    BY <1>5 DEF Tick, external
  <2>2. Len(versions') = Len(versions) /\ Cache' = Older(Cache) /\ Server' = Older(Server)
    <3> HIDE DEF Older
    <3>1. Len(versions') = Len(versions)
      BY <1>1, <2>1
    <3>2. \A i \in 1..Len(versions) : versions'[i] = Older(versions[i])
      BY <2>1
    <3>3. 1 \in 1..Len(versions) /\ Len(versions) \in 1..Len(versions)
      BY <1>1
    <3> QED
      BY <3>1, <3>2, <3>3 DEF Cache, Server
  <2>3. Late(policy.mode, pc, Older(Cache), Older(Server), Older(local))
    BY <1>1, <1>2, AgedLate
  <2> HIDE DEF Older, Cache, Server
  <2> QED
    BY <1>1, <2>1, <2>2, <2>3 DEF LateInv
<1>6. CASE Crash
  <2>1. versions' = <<Server>> /\ pc' = "idle" /\ local' = Unset /\ policy' = policy
    BY <1>6 DEF Crash, Then
  <2>2. Len(versions') = 1 /\ Cache' = Server /\ Server' = Server
    BY <2>1 DEF Cache, Server
  <2>3. Late(policy.mode, "idle", Server, Server, Unset)
    BY <1>3, IdleLate DEF Late
  <2> QED
    BY <2>1, <2>2, <2>3 DEF LateInv
<1>7. CASE UserApprove
  <2> DEFINE cr == [Server EXCEPT !.phase = "Approved"]
  <2>1. cr \in CR /\ cr # Server /\ UserWrites(cr) /\ Server.phase = "Pending"
    <3>1. cr \in CR /\ cr.phase = "Approved"
      BY <1>1 DEF CR, Phases
    <3> QED
      BY <1>7, <3>1 DEF UserApprove
  <2>2. Late(policy.mode, pc, Server, cr, local)
    BY <1>1, <1>2, <2>1, UserLate
  <2> HIDE DEF cr
  <2> QED
    BY <2>1, <2>2, UserStoreLate
<1>8. CASE UserDelete
  <2> DEFINE cr == [Server EXCEPT !.live = FALSE]
  <2>1. cr \in CR /\ cr # Server /\ UserWrites(cr)
    <3>1. cr \in CR /\ cr.live = FALSE
      BY <1>1 DEF CR
    <3>2. UserWrites(cr) /\ Server.live = TRUE
      BY <1>1, <1>8 DEF UserDelete, UserWrites, CR
    <3> QED
      BY <3>1, <3>2
  <2>2. Late(policy.mode, pc, Server, cr, local)
    BY <1>1, <1>2, UserLate
  <2> HIDE DEF cr
  <2> QED
    BY <2>1, <2>2, UserStoreLate
<1>9. CASE UserRetry
  <2>1. retries' = retries + 1 /\ retries \in Nat /\ retries' = 0
    BY <1>9, BoundAssumption DEF UserRetry, TypeOK, FirstAttempt
  <2> QED
    BY <2>1
<1>10. CASE Operator \/ TargetAppears
  <2>1. versions' = versions /\ pc' = pc /\ local' = local /\ policy' = policy
    BY <1>10 DEF Operator, OperatorFinishes, OperatorForgets, OperatorChanges, TargetAppears
  <2>2. Cache' = Cache /\ Server' = Server
    BY <2>1 DEF Cache, Server
  <2> HIDE DEF Cache, Server
  <2> QED
    BY <2>1, <2>2 DEF LateInv
<1> QED
  BY <1>4, <1>5, <1>6, <1>7, <1>8, <1>9, <1>10 DEF User

\* With a cache at most one version behind the first attempt is in order: each
\* version is sound and follows from the one before, and a reconcile in progress
\* takes for stored only what its copy shows of it.
THEOREM LateButOrdered ==
    ASSUME MaxLag <= 1
    PROVE  Spec => []LateInv
<1>1. Init => LateInv
  <2> SUFFICES ASSUME Init PROVE LateInv
    OBVIOUS
  <2>1. /\ Len(versions) = 1 /\ Server = NewCR(policy.mode) /\ Cache = NewCR(policy.mode)
        /\ local = Unset /\ pc = "idle"
        /\ FirstAttempt => policy.mode # "Continuous"
    BY DEF Init, Server, Cache, FirstAttempt
  <2>2. \A mode : mode # "Continuous" => Sound(mode, NewCR(mode))
    BY DEF Sound, NewCR, Ended
  <2>3. \A cr : Consecutive(cr, cr)
    BY DEF Consecutive
  <2> HIDE DEF Server, Cache, NewCR, Unset
  <2>4. ASSUME FirstAttempt
        PROVE  Late(policy.mode, "idle", Cache, Server, Unset)
    <3>1. Sound(policy.mode, Cache) /\ Sound(policy.mode, Server) /\ Consecutive(Cache, Server)
      BY <2>1, <2>2, <2>3, <2>4
    <3> QED
      BY <3>1, IdleLate
  <2>5. ASSUME FirstAttempt
        PROVE  Len(versions) <= 2 /\ Late(policy.mode, pc, Cache, Server, local)
    <3>1. Late(policy.mode, pc, Cache, Server, local)
      BY <2>1, <2>4, <2>5
    <3> QED
      BY <2>1, <3>1
  <2> QED
    BY <2>5 DEF LateInv
<1>2. TypeOK /\ LateInv /\ [Next]_vars => LateInv'
  <2> SUFFICES ASSUME TypeOK, LateInv, [Next]_vars, FirstAttempt' PROVE LateInv'
    BY DEF LateInv
  <2>1. policy' = policy /\ retries' \in {retries, retries + 1}
    <3>1. CASE Reconcile
      BY <3>1 DEF Reconcile, ReconcileNew, ReconcilePending, ReconcileApproved, ReconcileWaiting,
                  ReconcileRetry, ExecTimedOut, ExecNoResult, ExecPoll, Proceed, external
    <3>2. CASE Call
      BY <3>2, CallFaults
    <3>3. CASE Deliver \/ Tick \/ Crash \/ User \/ Operator \/ TargetAppears
      BY <3>3 DEF Deliver, Tick, Crash, User, UserApprove, UserRetry, UserDelete, UserWrites, external,
                  Operator, OperatorFinishes, OperatorForgets, OperatorChanges, TargetAppears
    <3>4. CASE UNCHANGED vars
      BY <3>4 DEF vars
    <3> QED
      BY <3>1, <3>2, <3>3, <3>4 DEF Next
  <2>2. FirstAttempt
    BY <2>1, FirstAttemptBefore
  <2>3. CASE UNCHANGED vars
    BY <2>3 DEF vars, LateInv, FirstAttempt, Cache, Server
  <2> QED
    BY <2>2, <2>3, ReconcileLate, CallLate, EnvironmentLate DEF Next
<1> QED
  BY <1>1, <1>2, TypeCorrect, PTL DEF Spec


\* An Executing policy has a start time, so it can finish or time out: at every
\* attempt with a coherent cache, and in the first one with a cache one version
\* behind, in the version stored and in the one the cache holds.
THEOREM StartIsKnown ==
    ASSUME MaxLag <= 1
    PROVE  Spec => []ExecutingHasStart
<1>1. MaxLag = 0 \/ MaxLag = 1
  BY BoundAssumption
<1>2. CASE MaxLag = 0
  <2>1. TypeOK /\ CoherentInv => ExecutingHasStart
    <3> SUFFICES ASSUME TypeOK, CoherentInv, NEW i \in 1..Len(versions),
                        versions[i].phase = "Executing"
                 PROVE  versions[i].executedAt # NoTime
      BY DEF ExecutingHasStart
    <3>1. i = 1 /\ versions[1] = Server
      BY <1>2, OneVersion DEF CoherentInv
    <3> QED
      BY <3>1 DEF CoherentInv, Truthful
  <2>2. Spec => []CoherentInv
    BY <1>2, CoherentlyOrdered
  <2> QED
    BY <2>1, <2>2, TypeCorrect, PTL
<1>3. CASE MaxLag = 1
  <2>1. TypeOK /\ LateInv => ExecutingHasStart
    <3> SUFFICES ASSUME TypeOK, LateInv, FirstAttempt, NEW i \in 1..Len(versions),
                        versions[i].phase = "Executing"
                 PROVE  versions[i].executedAt # NoTime
      BY <1>3 DEF ExecutingHasStart
    <3>1. Len(versions) \in Nat /\ Len(versions) <= 2
      BY EndsType DEF TypeOK, LateInv
    <3>2. i = 1 \/ i = Len(versions)
      BY <3>1
    <3>3. versions[i] = Cache \/ versions[i] = Server
      BY <3>2 DEF Cache, Server
    <3> QED
      BY <3>3 DEF LateInv, Late, Sound, Started
  <2> QED
    BY <2>1, LateButOrdered, TypeCorrect, PTL
<1> QED
  BY <1>1, <1>2, <1>3

\* A finished policy has its completion time, which the collector goes by, as far
\* as an Executing one has its start time.
THEOREM CompletionIsKnown ==
    ASSUME MaxLag <= 1
    PROVE  Spec => []FinishedHasCompletion
<1>1. MaxLag = 0 \/ MaxLag = 1
  BY BoundAssumption
<1>2. CASE MaxLag = 0
  <2>1. CoherentInv => FinishedHasCompletion
    BY DEF CoherentInv, Truthful, FinishedHasCompletion
  <2>2. Spec => []CoherentInv
    BY <1>2, CoherentlyOrdered
  <2> QED
    BY <2>1, <2>2, PTL
<1>3. CASE MaxLag = 1
  <2>1. LateInv => FinishedHasCompletion
    <3> SUFFICES ASSUME LateInv, FirstAttempt, Server.phase \in {"Applied", "Failed"}
                 PROVE  Server.completedAt
      BY <1>3 DEF FinishedHasCompletion
    <3> QED
      BY DEF LateInv, Late, Sound, Ended
  <2> QED
    BY <2>1, LateButOrdered, PTL
<1> QED
  BY <1>1, <1>2, <1>3
=============================================================================
