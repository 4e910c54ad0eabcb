# KETI-APOLLO in TLA+

APOLLO watches a Kubernetes cluster for AI workloads, decides how they should be
placed and moved, and has the AI storage orchestrator carry the decisions out.
This directory holds TLA+ models of the part of it in which a decision becomes an
action on the cluster, the instances TLC checks, and theorems TLAPS proves.
Sections 1 and 2 are the inventory of the system, 3 to 7 describe what is modelled,
checked and proved, 8 says what is not and what could be added.

## 1. The parts of the system

Paths are relative to the repository; `ope/` stands for
`orchestration-policy-engine/`.

| Part | State | Operations | Talks to |
|---|---|---|---|
| **Policy reconciler** `ope/internal/controller/` | none of its own: the OrchestrationPolicy CR (spec, status, annotations) | `handleNewPolicy`, `handleAutoApprove` with `approve/delay/reject/modifyAndApprove`, `handleApprovedPolicy`, `handleWaitingForTarget`, `handleExecutingPolicy` with `monitor*Execution`, `handleRetryFromFailure`, `markPolicyCompleted/Failed`, `attemptOperatorRollback` | API server through the informer cache and merge patches; the operator and the policy agent over HTTP |
| **Policy garbage collector** `gc.go` | locals of a sweep | `sweep` | API server: cached List, DELETE |
| **PolicyGenerator** `ope/internal/generator/` | in-memory record of policies created lately | a cycle every interval: forecasts, insights and recommendations to new CRs, `isDuplicatePolicy`, `cleanupOldPolicyRecords` | forecaster client, API server: Create |
| **Policy agent** `ope/internal/policyagent/` | rules | `RuleBasedEvaluate`: approve, reject, delay, modify; `Evaluate` over HTTP | called by the reconciler |
| **Operator client** `ope/internal/operator/` | none | one POST, GET and DELETE per policy type | the AI storage orchestrator ("operator") |
| **Forecaster client** `ope/internal/forecaster/` | cached forecast per node with fetch time | `GetForecast`, `ClearCache`, threshold rules | node resource forecaster |
| **Wiring** `ope/cmd/main.go`, `ope/internal/config/` | limits | starts the manager, leader election | all of the above |
| **gRPC server** `cmd/main.go`, `pkg/grpc/`, `pkg/monitor/` | signature per pod, insight per node, counters and latest reports, a channel of 100 per subscriber | streams of reports, policy requests, subscriptions | insight-trace, scheduler, orchestrator as its clients |
| **Insight service** `pkg/insight/` | signature per pod, insight per node | report, look up, sweep stale entries | the services below |
| **Scheduling service** `pkg/scheduling/` | policy cache | `GetSchedulingPolicy`, `ReportSchedulingResult` | insight service; scheduler over HTTP |
| **Orchestration service** `pkg/orchestration/` | active migrations | decide, `TriggerMigration` (POST repeated on error), status updates | insight service; orchestrator over HTTP |
| **Forecast service** `pkg/forecaster/` | bounded history per node | record, predict | orchestration service |
| **Scheduling policy engine** `scheduling-policy-engine/` (Python) | caches refreshed by threads, `policy_cache`, a PPO network | decide, learn from a report | scheduling service |
| **Node resource forecaster** `node-resource-forecaster/` (Python) | history, models, a training flag | report, predict, train in the background | forecaster client |
| generated protobuf code, manifests, test drivers | none | | |

A forecast or an insight makes the generator create a CR. The reconciler asks the
policy agent, posts the work to the operator, polls it, and records the result in
the CR. The collector removes the CR some time later. Only the API server joins
these three: none calls another, and each sees the others' writes late. The APOLLO
server keeps reports in a store of its own and answers from it; the four services
(insight, scheduling, orchestration, forecast) are a library that nothing in the
repository starts.

## 2. What is hard in it, and what makes each part correct

*Reconciler.* A reconcile makes several calls that leave the process: patches of
status, of spec and of one annotation each, and POST, GET and DELETE to the
operator. Any may fail, its reply may be lost, and the process may die or stop
being leader between any two. It reads the CR from an informer cache that lags
behind its own writes, and its merge patches carry no resource version, so no
write based on a stale copy is refused. Correct means: the operator is given work
only for an Executing policy and not twice in an attempt; Applied means a completion
was reported for this policy's resource, or its target appeared; a rollback recorded as
succeeded has made up for its attempt; every Executing policy leaves that phase; a
retry asked for takes place.

*Collector.* It works from a lagging list and deletes without a precondition.
Correct means: it takes only CRs finished longer than the TTL, and CRs that cannot
be deleted do not use up the batches of the others.

*Generator.* Its record of what it created is made after the CR and lives in
memory: a crash or leader change creates a policy twice, and a record or a cached
forecast that were renewed by use would silence a node for ever. Correct means: of
one kind a policy per TTL, from a fresh forecast, and none forgotten.

*Rules of a policy.* Thresholds (forecaster client), score (generator) and bounds
(agent) are three tables in three packages. Correct means: they fit, and the request
that comes out acts on the node that was analysed.

*HTTP clients.* Each has its own idea of success and of what is repeated. Correct
means: what a call returns is true of the server, and a POST to the operator is
never sent twice.

*gRPC server.* Counters, lists and maps have a lock each, and every call runs in its
own goroutine; subscriptions share ids, and channels are closed while others send.
Correct means: acknowledged reports are used, nothing is sent on a closed channel, no
broadcast waits.

*Library services.* Look-up, generation and removal of a cached policy are three lock
sections; the placement rules exist twice. Correct means: a cached policy is fresh, the
two copies agree, and the rules leave no gap but those the source has.

*Python servers.* A training flag set and cleared by different threads; an unbounded
`policy_cache`. `PROJECT.json` lists the hazards of the modelled parts, each at its
line.

## 3. Modules

| Module | What it is |
|---|---|
| `PolicyReconciler` | the life of one CR under the reconciler, with cache, operator, users, clock and faults |
| `PolicyLifecycle` | what the reconciler promises: phases and evidence, without patches, polling or crashes |
| `TerminatedPolicyGC` | the collector's sweep over many CRs |
| `ForecasterClient` | the generator's client: recommendations, cached forecasts, timeouts |
| `PolicyGenerator` | the generator's cycles, composed with its client |
| `PolicyRules` | the arithmetic of a policy, as operators: thresholds, score, agent's rules, request |
| `PolicyDecision` | one CR from forecast or user to request, with those rules |
| `RetriedCall` | one call of an HTTP client with its attempts |
| `RemoteCall` | what a caller may rely on: a call is one request, and its result says something of the server |
| `PolicySubscribers` | the policy streams of the gRPC server |
| `PlacementRules` | how workloads are placed, as operators: the server's copy and the services' |
| `ApolloServer` | the server that runs: report streams, monitor, store, policy requests |
| `PolicyServices` | the library services: insights, cached scheduling policies, migrations |
| `*_proofs` | theorems about the module of that name |
| `MC*` | its instance for TLC |

`PolicyReconciler` and `PolicyDecision` divide the CR between them: the first has
every call, fault and limit of the handlers and lets the agent answer what it likes,
the second computes the answers and the requests and reduces the handlers to their
effect. `PolicyGenerator` extends `ForecasterClient`, and its steps are interleaved
with those of the client; `PolicyDecision` extends `PolicyRules`; `ApolloServer` and
`PolicyServices` extend `PlacementRules`.

### PolicyReconciler

controller-runtime never reconciles one key twice at a time, so there is one
reconciler, and what interleaves with it is everything else. A reconcile is cut at
every call that leaves the process: `pc` names the next call and `local` is the
in-memory `*policy`.

| Variable | In the code |
|---|---|
| `versions` | the CR as stored (last), as the informer has it (first), and the versions on their way |
| `local`, `pc` | `policy` of the reconcile in progress and how far it has come |
| `policy` | spec fields that never change: type, autoExecute; `named`: workload, namespace and target node are given |
| `ops` | the operator's resources by id |
| `confirmed` | ids a GET has reported complete (history) |
| `present` | matching targets created after the policy |
| `faults`, `retries` | bounded counts of faults and of user retries |

| Actions | In the code |
|---|---|
| `ReconcileNew`, `PatchDefaultMode` | `handleNewPolicy` |
| `ReconcilePending`, `PatchModifiedSpec` | `handleAutoApprove` and the four verdicts |
| `ReconcileApproved`, `Begin` | `handleApprovedPolicy` to the patch to Executing |
| `Start`, `StartTooEarly`, `SaveResult`, `ClearStarts`, `StartFailed` | `executePolicyByType`, each `executeX`, and what follows |
| `ReconcileWaiting` | `handleWaitingForTarget`, `findNewMatchingTarget` |
| `ExecTimedOut`, `ExecNoResult`, `ExecPoll` | the branches of `handleExecutingPolicy` in their order |
| `Backfill`, `BackfillSave`, `BackfillMark` | the re-execution of a missing result |
| `Poll`, `PollError`, `ClearAfterPoll`, `CountMissing`, `CountError` | the status GET and its streaks |
| `Rollback`, `SaveRollback`, `Save` | `markPolicyFailed`; `Save` is every patch of the whole status |
| `ReconcileRetry`, `ClearRetry` | `handleRetryFromFailure` |
| `Deliver`, `Tick`, `Crash` | watch, clock, process |
| `UserApprove`, `UserRetry`, `UserDelete`, `TargetAppears`, `OperatorFinishes`, `OperatorForgets` | the outside world |

`PolicyLifecycle` is mapped to these variables at the end of the module. A retry
request outlives its annotation until the status patch that serves it
(`ServingRetry`); the count of requests ties each one to a user, so that a retry
nobody asked for is no behaviour of the lifecycle.

A patch is modelled by what it does: the difference between the new object and a
base read from the cache is put over the stored CR (`MergeStatus`, `Put`). The
reply replaces the whole status, or all annotations, of the in-memory copy.

With `MaxLag = 0` a handler reads the stored CR and computes in one step; with
`MaxLag >= 1` another write may come between a read and the patch made from it.

Abstractions: conditions, messages, names and times beyond the limits the code
compares with are left out. `completedAt` is only set or unset. A modified spec of
the agent changes only the mode. The clock runs only while some copy is Executing,
since nothing else the reconciler does depends on it. The annotation that records a
rollback is written even if it is equal. The operator gives every POST a new id. A
mode of `""` arises only with a CRD without its default, and is kept because
`handleNewPolicy` handles it. `cmd/main.go` always builds an operator client, so
the completion of demo mode is not modelled.

### TerminatedPolicyGC

`List` takes the informer's CRs and the time, `Delete(p)` is one DELETE with its
outcomes (gone already, done, only marked because of a finalizer, failed),
`EndSweep` ends the loop when the list is done or the batch is full. Of a CR the
model keeps its phase (final or not), the time since its creation, whether anything in it
tells when it finished (`dated`) and how long ago that was (`age`), and the attempt.
`TerminalAge` is `terminalTime`: it falls back to the time of creation if the completion
time is missing, as it may be in `PolicyReconciler` after a retry. `listed` is a history of what the entries of `todo` looked like. `kind`
fixes, per CR, what becomes of a DELETE. The reconciler is reduced to `Finish` and
`Retry`. Two deletions of a sweep come in any order: the cache lists in none.

### PolicyGenerator and ForecasterClient

The generator is one goroutine: `pc` says where `runPolicyGeneration` is, `todo` and
`recs` are what its two loops have left, `work` is the result of `findTargetWorkload`.
`recorded` and `recordAge` are `recentPolicies`, `ticked` the channel of the ticker,
which holds one tick. `cache` and `call` are `forecastCache` and the call in progress.

| Actions | In the code |
|---|---|
| `Start`, `OnTick` | `Start` and its loop, `getNodes` |
| `AnalyseNode`, `Analyse`, `Analysed` | `analyzeAndCreatePolicy` up to the recommendations |
| `UseRecommendations`, `UseCache`, `AskForecast`, `UseForecast`, `ForecastFails` | `AnalyzeAndRecommend`, `GetPolicyRecommendations`, `GetNodeForecast` |
| `Predict` | the node resource forecaster (external) |
| `Lookup`, `Check`, `Create`, `RecordPolicy` | `findTargetWorkload`, `isDuplicatePolicy` and `resolveTargetWorkload`, Create, `recordPolicy` |
| `CleanupOldPolicyRecords` | the same, at the end of a cycle |
| `Tick`, `Crash` | clock and ticker; process and lease |

Of every instant only its age is kept. A policy's key is node and type: the resource in
the code's key would only multiply the keys. Of a forecast its level over two horizons
is kept. Pods are obstacles, suitable, or suitable with a Deployment.

### PolicyRules and PolicyDecision

A utilisation is counted in thousandths, which separates all thresholds; that the code
multiplies a float by 100 and truncates, and so may lose a percent, is left out. Of a
spec the fields are kept that decide about its approval or about where its request acts.
`Generate` and `Apply` store a CR, `RejectMode`, `ApproveUnasked`, `Decide`,
`DecideFails` and `ModifyAndApprove` are the ends of `handleAutoApprove`, `Execute` is
the request of `handleApprovedPolicy`; it fails a policy whose start fails, or whose
request cannot be made, at once, where the code counts three failed starts or waits for
the hung limit (`PolicyReconciler` has those steps, and the properties here ask only
whether a policy may fail). An agent of its own (`"http"`) may answer
anything, and replaces the spec by whatever it sends.

### PlacementRules

Operators that the server's decisions (`calculatePluginWeights`, `calculateNodePreferences`)
and the services' (`computePluginWeights` and the scores of `orchestration_service.go`) are
computed by. The tables of plugin weights exist twice in the source, and each is written
out here on its own, with its own defaults, steps and numbers.

### RetriedCall

An attempt is sent, applied or refused by the server or not received, answered by a
status and a body, or not at all; then it is repeated (`Retry`) or the call ends
(`Return`) by the rules of its client. `Attempts`, `Repeats` and the `...Succeeds`
operators are those rules. The module ends with its mapping to `RemoteCall`: a call has
taken effect as often as `applied` says, at most once per attempt the client allows for
its operation, and the caller has *seen* the resource there or absent while the answer
of its last attempt still says so. That abstract call is what the
`Post`, `Poll` and `Rollback` of `PolicyReconciler` take their outcomes from. `applied` counts what the server did for the call; `Outside`
is the resource coming and going by other hands.

### PolicySubscribers

`at` says where a handler is, `chan` is its channel, `subscribers` the map, `casts` the
ids a broadcast has yet to visit, which is also its hold on the read lock. `Register`
and `Leave` are the two writers, `Broadcast` and `Offer` the reader. Go's lock keeps
readers away when a writer waits; letting them in, as the model does, only adds
behaviours, except to liveness: broadcasts are bounded there.

### ApolloServer and PolicyServices

Both cut every request at its lock sections. In `ApolloServer` a report passes
`Count` (atomic counter), `Log` (the list's lock), `Store` (the data lock); a request
passes `ReadSignature`, and then `Prefer` or `ReadInsight` and `FindMigrationTarget`. A
single report is a stream of one. In `PolicyServices` a request for a policy is `Hit`
and `Return`, or `Miss`, `ReadSignature`, `Remember`; a result report is `ReportResult`
and `Forget`; a decision is `AskOrchestration`, `Orchestrate`, `HandOut`. An entry of
the cache keeps its age and the age of what it rests on; what the policy says is computed
by `Schedulings` and `Orchestrations` where a property asks for it. What the forecast
service predicts (`overload`) is any answer.

## 4. Runs

In the reconciler's runs the limits of 10s, 45s, 60s and 30m become 1, 2, 3 and 4 ticks
(3 in `life`, as a policy times out beyond its limit): only their order matters to the
branches. Three start failures and two 404 or errors tell first, further and last apart.

| Run | Instance | Shows |
|---|---|---|
| `life` | five policies (every family of types and modes), all agent answers except delay, 3 resources, 1 fault, 1 retry, coherent cache; the only Continuous policy is of a type that may not be, and is rejected | `AppliedResultConfirmed`, `OneResourcePerAttempt`, `FailedLeavesNothing` (once the rollback is recorded as succeeded, at most one resource per earlier attempt and per fault is left), `StreaksAreBounded` (missing and broken answers); the CR's life implements `PolicyLifecycle` (`FollowsLifecycle`) |
| `stale_cache` | three policies, all agent answers, cache one version behind, 1 fault, no retry | `AppliedIsJustified`; `ExecutingHasStart` and `FinishedHasCompletion` in the first attempt |
| `progress` | migration and scaling, 1 fault, 1 retry, limits of 1 and 2 | `PolicyMovesOn`: New, Approved and Executing are left, whatever the operator answers; `RetryServed`: a retry is served if its own writes succeed |
| `collect` | two CRs, each of every kind, batch of 1, 1 retry of each, 1 fault | `CollectedIsOld`, `FinishedIsCollected` |
| `generate` | one node, two keys, cache and record of 2 ticks, timeout and interval of 1, 1 fault or crash | `OnePolicyPerTTL`, `ForecastIsFresh`, `HotNodeIsServed` |
| `decide` | utilisations at, above and below each threshold; clusters of one to three nodes; all urgencies, types, bounds; 1 fault, 1 retry | `NearWarningIsApproved`, `ModifiedOnce`, `ActsOnItsNode`, `FailsOnlyWithoutWorker`, `CriticalIsDecided` |
| `calls` | three calls of any six operations, three attempts | `OkMeansDone`, `MissingMeansAbsent`, `PostedOnce`, `CallReturns`; the client implements `RemoteCall` (`ResultsAreWarranted`) |
| `subscribe` | two handlers with equal or different ids, three broadcasts, channels of one | `OffersReachOpenChannels`, `OnlySharedIdsAreSilent`, `BroadcastReturns`, `ShutdownEnds` |
| `serve` | one pod, two nodes, two streams, four reports, a list of two | `AcknowledgedIsUsed`, `RecentIsFull` (the length of the monitor's list), `GPUNodesComeFirst` |
| `advise` | one pod, two nodes with insights below, at (exactly 80 %) and above the thresholds, two callers, cache of 2 ticks | `ServedIsFresh`, `LoadedNodeGetsAdvice`, `GPUDecisionIsSettled`, `WeightsAgree` |

Two more runs check a claim of the repository which the code does not keep; TLC
prints the steps:

| Run | Claim | What happens |
|---|---|---|
| `target_not_executed` | an OnTargetCreated policy is applied once when a target appears | it is marked consumed when the target is found, returns to Approved, is sent to wait again, found consumed, and ends Applied with nothing executed |
| `start_not_retried` | "Execution start failed, retrying" | the stored phase is Executing, whose handler never starts a policy whose start streak is set |

Why the bounds suffice. *Reconciler*: each property relates at most two attempts (one
retry), two resources (the start's and the backfill's), and one fault at any place, which may cost
a third resource if it comes without the retry; a second version in the cache is enough for every stale read, as a reconcile reads once.
`MaxOps` only makes further POSTs fail, which the operator may do anyway. *Collector*:
with two CRs and a batch of one, one may starve the other; `TTL = 0` still separates a
CR that just finished from one that is due. *Generator*: the nodes of a cycle are
analysed one after the other and share no key, so one node with two keys has every
conflict; three ticks of age go beyond both limits. *Rules*: every comparison is met
with equality and on both sides. *Calls*: no property relates a call to an earlier one
but through what exists; with three attempts there is a first, a middle and a last.
*Subscribers*: a shared id needs two handlers, overlap two broadcasts, a full channel one
place and two policies. *Server, services*: two streams or callers on one pod have every
interleaving of two requests; four reports overrun a list of two on either kind.

With `MaxLag = 1` these are false and not claimed: `OneResourcePerAttempt` (a stale
Approved copy is executed again), `AppliedResultConfirmed` (a stale patch changes
the result), `FailedLeavesNothing`. There, too, the reconcile of a stale Executing copy may
time out and delete the resource of a policy that is Applied (`rollback.go:58`).
`OneResourcePerAttempt` and
`FailedLeavesNothing` leave out the policies that are or may become Continuous
(`OneShot`), which create a resource each round and forget the earlier ones.
`ExecutingHasStart` and `FinishedHasCompletion` hold there in the first attempt only
(`FirstAttempt`): TLC finds a retried policy, and a Continuous one in its second round,
Failed without a completion time, against the comment at `gc.go:162`: the completion
time of the second finish equals, to the second, that of the first in the stale copy, so the
patch leaves it out, while the retry or the new round has removed the stored one. It needs
two finishes within one second; the collector then goes by the time of creation. With `MaxLag = 2` both fail in the first attempt
(no run).

Deadlock is checked where the system never rests (`generate`, `serve`). Elsewhere it may:
a deleted, Rejected or Applied CR, a collector with nothing to collect, calls and
broadcasts up to their bounds, a stopped server. The liveness properties say what must
not rest. (`advise` bounds the migrations handed out, and checks no liveness.)

### Seen in the models

What the models show and no document of the repository excludes, or excludes only in
passing; no run claims it. `C` is `orchestrationpolicy_controller.go`.

* A retry whose status patch fails is lost, as the annotation is gone by then (C:1888);
  `RetryServed` is stated for writes that succeed.
* A missing result is re-executed every reconcile until 60s while re-execution fails
  (C:733), though the comment at C:730 says once. An error between two answers of 404
  does not reset their streak (`sync_operator_verify.go:110`), though the comments on the
  annotations speak of consecutive answers (`annotations.go:21-29`), and a retry keeps the
  streaks of the attempt before it.
* A fault may cost more than one resource: a re-execution whose resource is at once
  reported failed notes nothing in the status (C:740), and so is done again at the next
  reconcile. `OneResourcePerAttempt` bounds by the faults only what runs or has completed.
* The collector may delete a policy that was retried after it was listed (`gc.go:121`).
* Preemption without a `targetAmount` is refused by the operator with 400, as the comment
  at C:1375 says, and the generator gives none. A loadbalance policy without parameters asks for its one node (C:1294).
* A HIGH recommendation for more than 30 minutes ahead scores too little for the rules
  and is delayed at every evaluation; the generator creates another each TTL.
* `TriggerMigration`, `SendOrchestrationPolicy` and `SendSchedulingPolicy` take 201 for a
  refusal. The first and the last repeat a POST after any error, so that one decision may
  be applied several times.
* A departing subscriber removes a later one of the same id, which then hears nothing. An
  idle subscriber keeps `GracefulStop` waiting; the 30s of `main` bound only HTTP.
* The pod's signature, its node's pressure and the target are read under three locks: a pod
  reported on the target in between is told to migrate to where it is (`cmd/main.go:407`).
* A node's preference may be 120 where the message says 0-100. A signature or insight
  reported over HTTP is acknowledged and only logged, which a comment calls supplementary; nodes never leave `clusterInsights`.
* In the services: a result report may remove a policy cached after the one it is about, and
  a request in flight caches the old one again; a node at exactly 80 %, or one to be left without a suitable target,
  is left without advice; the bonus for a CSD makes an unsuitable node a target; a GPU
  workload on a node without reported resources reads a nil pointer
  (`orchestration_service.go:217`); a migration nobody reports stays active, and
  `MigrationCooldownMinutes` is not used.

## 5. Fairness

`PolicyReconciler!FairSpec` is weakly fair to `Reconcile` (every handler of a phase
that is not final asks for a requeue, and every write triggers a watch event), to
`Call` (a handler in progress makes its next call, and every call has a timeout),
to `Deliver` (the watch) and to `Tick` (the clock). Users, targets and the operator
promise nothing. Faults are bounded, so that "in the end no more of them" is the
assumption. `TerminatedPolicyGC!FairSpec` is weakly fair to a sweep (the ticker),
the clock and the watch. `PolicyGenerator!FairSpec`: to its goroutine (`Work`; every
request has a timeout) and to the clock. `PolicyDecision`: to `Reconcile`, as above.
`RetriedCall`: to `Step`, as every attempt has a timeout and the client's code runs on.
`PolicySubscribers`: to each handler, each broadcast, and the server's stop; not to
`Send`, as a client may leave what is sent to it, nor to clients leaving.
`ApolloServer` and `PolicyServices` have safety properties only.

## 6. What is proved

All theorems hold for every value of the constants that satisfies the named
assumptions of the modules (limits and bounds are natural numbers, policies are
specs): any lag of the cache where none is named, any number of faults, retries,
resources and CRs.

* `TypeCorrect`: `Spec => []TypeOK` for `PolicyReconciler`. One lemma per way a
  step ends (patch, failed patch, abandoned, going on), one case per action.
* `AppliedJustified`: `Spec => []AppliedIsJustified`. A stale patch may bring back
  any old phase, so the invariant cannot speak of the stored CR alone. The
  inductive `JustifiedInv` says: either there is *evidence* (a confirmed completion
  or a target), which no step takes back, or *every copy* of the CR, stored, cached,
  on its way and in memory, is neither Applied nor consumed, and the reconcile is
  not at the call that completes it. A merge of clean copies is clean.
* With a coherent cache (`MaxLag = 0`), for any number of faults, retries, resources and
  any limits: `CoherentlyOrdered`, and from it `ResultIsConfirmed`
  (`AppliedResultConfirmed`).
  `CoherentInv` says of each call which phase the stored CR has while the reconcile is at
  it (`InOrder`), and what every copy may say of its own past (`Truthful`): the first is
  what makes a patch safe without a resource version, the second is what it preserves.
* `LifecycleFollowed`: `Spec => FollowsLifecycle`, the controller implements
  `PolicyLifecycle`. Every step is a step of the lifecycle or leaves what it sees alone;
  only the status patch makes several of its moves, and `InOrder` lists them.
* `AttemptsCounted`, `OneResourceEach`: `OneResourcePerAttempt`, by counting. `Owed` are
  the retry requests not served yet, `Slack` is one while the present attempt may own a
  resource, less what is owed; no resource has an id above `retries + Slack`, and a POST
  is made only while the attempt is fresh. This needs that a started attempt has noted
  its resource or its failure before it can be looked at again (`Attempted`), which is
  where a fault, a lagging cache or a Continuous policy breaks it.
* `ResourcesCounted`: the other half of `OneResourcePerAttempt`, with faults, by cardinality.
  An attempt is `Open` before its start and while its backfill is due; `Room` is one for an
  attempt that is not, less what is owed; and no more resources live than `retries`,
  `faults` and `Room` together. Each accepted POST closes its attempt, as its result is
  noted before the attempt is looked at again (`Noted`), or the write that notes it was the
  fault; a retry opens the next one and is counted when it is asked for.
* `StreaksCounted`, `StreaksStop`: `StreaksAreBounded`, the streaks of missing and of broken
  answers, with `MaxLag = 0`, for any limits, faults, retries and resources. Every loop through Executing counts a bad answer before
  it looks at the limit, so a streak at its limit leads to a rollback unless the write
  after it fails, or the policy is retried with the streak it had. `StreakInv` says, call
  by call, how far each streak may be: below the limit plus what has been spent
  (`Spent`, faults and retries served, which is `retries` less what is `Owed`), or one
  more while the failure is being recorded or a request is served.
* `LeftoversCounted`, `NothingIsLeft`: `FailedLeavesNothing`, with `MaxLag = 0`, for any
  faults and retries. `LeftInv` counts the resources besides the one that the reconcile or
  the CR names, and bounds them by the faults and by the retries served. As long as no
  result is known nothing is named and all of them count, which `ResourcesCounted`
  bounds; a rollback deletes the named one, and with it undone the others are all there is.
* `StartIsKnown`, `CompletionIsKnown`: `ExecutingHasStart` and `FinishedHasCompletion`,
  with a coherent cache from `CoherentlyOrdered`, and with a cache one version behind from
  `LateButOrdered`: `Spec => []LateInv` for `MaxLag <= 1`, any faults, agent answers,
  resources and limits. A stale copy is saved as a difference from a base that may be
  younger, so what the save leaves out is what matters. `LateInv` says of each version
  that its phase has its times (`Sound`); of two neighbours that a start or completion
  time appears, or goes, only under the phases that set it (`Consecutive`); and of the copy
  in memory that it leaves out a time only where the merge leaves out the phase too
  (`StartCopied`, `EndCopied`), call by call. The start streak is in it: a start that
  failed rolls back only after a patch that counts it, which always stores a new version
  and so takes the older one out of the cache.
* `ReconcilesAreFinite`: no reconcile makes a call twice, nor more than seven, however many
  fail and however stale its copy is: every step of the controller brings it nearer its end
  (`CallsLeft`), and no step of another takes it further away. `CallsAreFinite` says the
  same of a call of an HTTP client and its attempts (`StepsLeft`).
* `GCTypeCorrect`: types, and at most `BatchMax` deletions in a sweep. No run repeats
  a type invariant: the theorems say more.
* `CollectsOld`: `Spec => CollectedIsOld`. The invariant follows a finish from the
  API server to the cache to the list: a copy that shows the current attempt
  finished is never older news than the CR itself, by the recorded finish or, without one,
  by the time of creation, unless the CR is gone.
* `GeneratorTypeCorrect`, `PoliciesAreApart`, `ForecastsAreFresh`: types,
  `OnePolicyPerTTL` and `ForecastIsFresh`. The invariant says that, without faults, a
  CR younger than the TTL is remembered by a record no older than it, or is about to be
  recorded; that at Create the key's newest CR is at least a TTL old; and that the
  prediction behind a cached forecast is at most one timeout older than the entry.
* `SubscribersTypeCorrect`, `ChannelsAreOpen`, `OwnIdIsReached`: types,
  `OffersReachOpenChannels` and `OnlySharedIdsAreSilent`, for any number of handlers and
  ids. The invariant adds that a registered handler has the id it is registered under,
  and that a broadcast under way visits registered ids only, which the lock keeps so.
* `SuccessIsReal`, `MissingIsAbsent`, `PostsAreOnce`: `OkMeansDone`, `MissingMeansAbsent`
  and `PostedOnce`, for any number of retries in every client. A result rests on the last
  reply, so the invariant says what a reply that has arrived, and not been looked at, shows
  of the server; and that a POST on its way has not been applied.
* `EffectsAreCounted`, `RemoteImplemented`: `Spec => ResultsAreWarranted`, the client with
  its attempts implements `RemoteCall`. Each step of the client is one of the call, or
  none: an attempt that the server applies is `Effect`, one that comes back or is lost is
  `Look` or a stutter, a repetition forgets what was seen. A result is warranted by the
  invariant behind the three theorems above; the limit on effects by `AppliedPerAttempt`,
  which bounds the clients that repeat a POST as well.
* `AcknowledgedIsFound`, `ListIsFull`, `GPUsOutweighCores`: `AcknowledgedIsUsed`,
  `RecentIsFull` and `GPUNodesComeFirst`, for any pods, nodes, streams and insights. No
  signature leaves the store; the counter and the length of the list differ by the streams
  between them, which each step of a stream changes by one (an argument about
  cardinalities; it says nothing of which reports are listed); and a GPU is worth more than all that is left to a node without one.
* `CacheIsFresh`, `LoadedIsAdvised`, `GPUDecisionsAreSettled`: `ServedIsFresh`,
  `LoadedNodeGetsAdvice` and `GPUDecisionIsSettled`, for any TTL, callers and insights. The
  first rests on how old a signature may be on its way to the cache and in it. The second:
  migration above and scaling below 80 % meet at every other number, and if any known node
  scores above zero there is one of the highest score, so that none is overlooked. The
  third is arithmetic: a node with a free GPU always scores the 80
  that decide.
* `CopiesOfWeightsAgree`: `WeightsAgree`, that the server's and the service's table of
  plugin weights, each written out on its own, give one answer for every pattern, stage and
  type, case by case.
* `NearWarningsAreApproved`, `ModifiedAtMostOnce`, `RequestsActOnTheirNode`,
  `SendableUnlessAlone`: `NearWarningIsApproved`, `ModifiedOnce`, `ActsOnItsNode` and
  `FailsOnlyWithoutWorker`, for every utilisation, horizon, cluster and learned
  recommendation. What the generator wrote stays in the spec, but for the score, which only
  a modification changes; a near warning scores 84 or more, which the rules accept.
* `CallTypeCorrect`, `ServerTypeCorrect`, `ServicesTypeCorrect` and
  `DecisionTypeCorrect` prove the type invariants that these rest on.

## 7. What is only model-checked

Liveness, since TLAPS handles neither ENABLED nor fairness here (`PolicyMovesOn`,
`RetryServed`, `FinishedIsCollected`, `HotNodeIsServed`, `CriticalIsDecided`,
`CallReturns`, `BroadcastReturns`, `ShutdownEnds`). What is proved of it is the half that
is not temporal: that calls and reconciles run out (`CallsAreFinite`,
`ReconcilesAreFinite`). Every other property that a run
checks is stated by a theorem, with the hypotheses section 6 gives.

## 8. What is not modelled

* Wiring and configuration: flags and environment, whose values are CONSTANTS here.
* The forecast service: a bounded history per node under one lock, and floating-point
  predictions; nothing in the repository starts it.
* The Python servers: neural networks and forecasting models are floating-point code
  beyond these tools. The policy engine sees any answer of theirs. Two observations from
  reading: the training flag of the forecaster is cleared by a thread that did not set it,
  and `policy_cache` of the scheduling policy engine grows without bound.
* Generated code, manifests, test drivers.
* Of the modelled parts: text, logging, metrics, conditions; HTTP handlers that only
  read; functions nobody calls (`GetAllNodeForecasts`, `ForecastCluster`, `ClearCache`
  and `GetOrchestrationPolicy` of the forecaster client, `HealthCheck`, the generator's
  `Stop` and setters, `resolveMigrationPod`, `pickAlternateNode`,
  `allowSameNodeMigration`, `isNodeReady`, `findPodOnNode`); rewards, requirements and
  affinity of scheduling policies, priority and constraints of orchestration policies;
  the completion of demo mode, as `cmd/main.go` always builds an operator client.

What could be added: what of `PolicyLifecycle` survives a cache that lags, whose
invariant must follow each field through the merges; the forecast service once something
starts it.
