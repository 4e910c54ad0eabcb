---------------------------- MODULE PolicyServices ----------------------------
(***************************************************************************)
(* The library services of src/pkg, which share one store of insights:     *)
(* InsightService (the store), SchedulingPolicyService (policies, cached   *)
(* per pod) and OrchestrationPolicyService (decisions, and the migrations  *)
(* it has handed out). Each request takes the locks of several of them one *)
(* after the other. No program of the repository starts these services     *)
(* yet: whoever calls them is external, and so is what ForecastService     *)
(* predicts.                                                               *)
(***************************************************************************)
EXTENDS PlacementRules

CONSTANTS
    Pods, Nodes, Unknown,
    Signatures,    \* what is reported of a pod
    Insights,      \* what is reported of a node
    Callers,       \* requests in progress at a time
    CacheTTL,      \* 5 minutes
    CallTime,      \* how long a request may take
    MaxMigrations  \* bound: migrations handed out

ASSUME ServicesAssumption ==
    /\ Pods # {} /\ Unknown \notin Signatures \cup Insights
    /\ \A node \in Insights : /\ node.cpuUsed \in Nat /\ node.cpuTotal \in Nat
                             /\ IsFiniteSet(node.disks)
    /\ CacheTTL \in Nat \ {0} /\ CallTime \in Nat /\ MaxMigrations \in Nat

VARIABLES
    signatures, insights,   \* the two maps of InsightService
    cache,                  \* policyCache: a policy per pod
    calls,                  \* the requests in progress
    active,                 \* activeMigrations: request ids
    nextId

store == <<signatures, insights>>
orch  == <<active, nextId>>
vars  == <<store, cache, calls, orch>>

-----------------------------------------------------------------------------
Ages     == 0..(CacheTTL + CallTime)
Older(a) == IF a < CacheTTL + CallTime THEN a + 1 ELSE a

\* A cached policy: since when it is there, and how long ago its signature was read.
Entries == [age : 0..CacheTTL, read : Ages]
NoEntry == [age |-> CacheTTL, read |-> 0]

\* A request about a pod: where it is, what it has read and how long ago, what it decided.
Call(at, pod, sig, node, migrate, read) ==
    [at |-> at, pod |-> pod, sig |-> sig, node |-> node, migrate |-> migrate, read |-> read]
Request(at, pod) == Call(at, pod, Unknown, Unknown, FALSE, 0)
Idle   == Request("idle", CHOOSE p \in Pods : TRUE)
Ats    == {"idle", "missed", "read", "cached", "reported", "asked", "decided"}

TypeOK ==
    /\ signatures \in [Pods -> Signatures \cup {Unknown}]
    /\ insights \in [Nodes -> Insights \cup {Unknown}]
    /\ cache \in [Pods -> Entries]
    /\ calls \in [Callers -> [at : Ats, pod : Pods, sig : Signatures \cup {Unknown},
                              node : Nodes \cup {Unknown}, migrate : BOOLEAN, read : Ages]]
    /\ active \subseteq 1..MaxMigrations
    /\ nextId \in 1..(MaxMigrations + 1)

Init ==
    /\ signatures = [p \in Pods |-> Unknown] /\ insights = [n \in Nodes |-> Unknown]
    /\ cache = [p \in Pods |-> NoEntry]
    /\ calls = [c \in Callers |-> Idle]
    /\ active = {} /\ nextId = 1

Known == [n \in {m \in Nodes : insights[m] # Unknown} |-> insights[n]]

Becomes(c, call) == calls' = [calls EXCEPT ![c] = call]
Finish(c)        == Becomes(c, Idle)

-----------------------------------------------------------------------------
(* InsightService                                                          *)

ReportWorkloadSignature ==
    /\ \E p \in Pods, d \in Signatures : signatures' = [signatures EXCEPT ![p] = d]
    /\ UNCHANGED <<insights, cache, calls, orch>>

ReportClusterInsight ==
    /\ \E n \in Nodes, d \in Insights : insights' = [insights EXCEPT ![n] = d]
    /\ UNCHANGED <<signatures, cache, calls, orch>>

\* CleanupStaleEntries: the two maps one after the other; what has not been seen for
\* maxAge goes, which may be any of them.
Cleanup ==
    /\ \/ \E p \in Pods : signatures' = [signatures EXCEPT ![p] = Unknown] /\ UNCHANGED insights
       \/ \E n \in Nodes : insights' = [insights EXCEPT ![n] = Unknown] /\ UNCHANGED signatures
    /\ UNCHANGED <<cache, calls, orch>>

-----------------------------------------------------------------------------
(* SchedulingPolicyService                                                 *)

\* A policy is returned from the cache, if one is there that has not expired ...
Hit(c) ==
    /\ calls[c].at = "idle"
    /\ \E p \in Pods :
          /\ cache[p].age < CacheTTL
          /\ Becomes(c, Call("cached", p, Unknown, Unknown, FALSE, cache[p].read))
    /\ UNCHANGED <<store, cache, orch>>

\* Mutant: what is used stays.
Return_Renews(c) ==
    /\ calls[c].at = "cached" /\ Finish(c)
    /\ cache' = [cache EXCEPT ![calls[c].pod].age = 0]
    /\ UNCHANGED <<store, orch>>

Return(c) ==
    /\ calls[c].at = "cached" /\ Finish(c)
    /\ UNCHANGED <<store, cache, orch>>

\* ... or it is generated: the signature is read,
Miss(c) ==
    /\ calls[c].at = "idle"
    /\ \E p \in Pods :
          /\ cache[p].age >= CacheTTL
          /\ Becomes(c, Request("missed", p))
    /\ UNCHANGED <<store, cache, orch>>

ReadSignature(c) ==
    /\ calls[c].at = "missed"
    /\ Becomes(c, Call("read", calls[c].pod, signatures[calls[c].pod], Unknown, FALSE, 0))
    /\ UNCHANGED <<store, cache, orch>>

\* then all insights, and what the rules make of them is cached, whatever has happened
\* since the first look into the cache. (An entry does not say what the policy is: no
\* property asks what becomes of it.)
Remember(c) ==
    /\ calls[c].at = "read" /\ Finish(c)
    /\ cache' = [cache EXCEPT ![calls[c].pod] = [age |-> 0, read |-> calls[c].read]]
    /\ UNCHANGED <<store, orch>>

\* ReportSchedulingResult: the reward is computed from the cached policy ...
ReportResult(c) ==
    /\ calls[c].at = "idle"
    /\ \E p \in Pods : Becomes(c, Request("reported", p))
    /\ UNCHANGED <<store, cache, orch>>

\* ... and whatever policy is cached by now is removed.
Forget(c) ==
    /\ calls[c].at = "reported" /\ Finish(c)
    /\ cache' = [cache EXCEPT ![calls[c].pod] = NoEntry]
    /\ UNCHANGED <<store, orch>>

-----------------------------------------------------------------------------
(* OrchestrationPolicyService                                              *)

\* The signature is read for a pod on a node that the caller names,
AskOrchestration(c) ==
    /\ calls[c].at = "idle"
    /\ \E p \in Pods, n \in Nodes :
          Becomes(c, Call("asked", p, signatures[p], n, FALSE, 0))
    /\ UNCHANGED <<store, cache, orch>>

\* What is needed of a pod without a signature.
NoSignature == [io |-> "unknown", gpu |-> FALSE, stage |-> "unknown", type |-> "unknown",
                dependent |-> FALSE]
Sig(c)      == IF calls[c].sig = Unknown THEN NoSignature ELSE calls[c].sig

\* generateOrchestrationPolicy: the decisions it can come to, with the target. For a GPU
\* workload on a node without resources a nil pointer is read.
Decide(decision, target) == [decision |-> decision, target |-> target]

Settled(sig, node, needed) ==
    IF ScalingNeeded(node) THEN Decide("scale", Unknown)
    ELSE IF ~needed /\ OptimizationPossible(sig, node) THEN Decide("optimize", Unknown)
    ELSE Decide("no_action", Unknown)

Orchestrations(sig, name, nodes, overload) ==
    IF name \notin DOMAIN nodes THEN {Decide("no_action", Unknown)}
    ELSE IF sig.gpu /\ ~nodes[name].known THEN {Decide("panic", Unknown)}
    ELSE LET node == nodes[name]
             score == [n \in DOMAIN nodes \ {name} |-> TargetScore(sig, nodes[n])]
             Targets == {n \in Best(score) : score[n] > 0}
             needed == MigrationNeeded(sig, node, overload)
         IN  IF needed /\ Targets # {} THEN {Decide("migrate", n) : n \in Targets}
             ELSE {Settled(sig, node, needed)}

\* then all insights, and whatever ForecastService has predicted for the node last,
Orchestrate(c) ==
    /\ calls[c].at = "asked"
    /\ \E overload \in BOOLEAN :
       \E d \in Orchestrations(Sig(c), calls[c].node, Known, overload) :
          /\ d.decision = "migrate" => nextId <= MaxMigrations
          /\ Becomes(c, Call("decided", calls[c].pod, Unknown, Unknown,
                             d.decision = "migrate", 0))
    /\ UNCHANGED <<store, cache, orch>>

\* then a migration is tracked and the policy returned. Nothing looks whether the pod is
\* migrating already, or was lately: MigrationCooldownMinutes is not used.
HandOut(c) ==
    /\ calls[c].at = "decided" /\ Finish(c)
    /\ IF calls[c].migrate /\ nextId <= MaxMigrations
       THEN active' = active \cup {nextId} /\ nextId' = nextId + 1
       ELSE UNCHANGED orch
    /\ UNCHANGED <<store, cache>>

\* UpdateMigrationStatus with "completed" or "failed"; other statuses, and ids that are not
\* tracked, change nothing. A migration that nobody reports stays.
UpdateMigrationStatus ==
    /\ \E i \in active : active' = active \ {i}
    /\ UNCHANGED <<store, cache, calls, nextId>>

-----------------------------------------------------------------------------
\* Time passes; no request takes longer than CallTime.
Tick ==
    /\ \A c \in Callers : calls[c].at = "read" => calls[c].read < CallTime
    /\ cache' = [p \in Pods |-> IF cache[p].age >= CacheTTL THEN NoEntry
                                ELSE [age |-> cache[p].age + 1, read |-> Older(cache[p].read)]]
    /\ calls' = [c \in Callers |-> IF calls[c].at = "read"
                                   THEN [calls[c] EXCEPT !.read = Older(@)] ELSE calls[c]]
    /\ UNCHANGED <<store, orch>>

Schedule(c) == Hit(c) \/ Return(c) \/ Miss(c) \/ ReadSignature(c)
               \/ Remember(c) \/ ReportResult(c) \/ Forget(c)
Advise(c)   == AskOrchestration(c) \/ Orchestrate(c) \/ HandOut(c)

Next ==
    \/ ReportWorkloadSignature \/ ReportClusterInsight \/ Cleanup
    \/ \E c \in Callers : Schedule(c) \/ Advise(c)
    \/ UpdateMigrationStatus \/ Tick

Spec == Init /\ [][Next]_vars

-----------------------------------------------------------------------------
(* Properties                                                              *)

\* The signature behind a policy from the cache was read at most the cache's TTL and the
\* time of the request that generated it ago.
ServedIsFresh ==
    \A c \in Callers : calls[c].at = "cached" => calls[c].read < CacheTTL + CallTime

\* A node loaded above 60 % is left without advice only at exactly 80 %, or when the
\* workload should leave it and no other node is suitable: findBestTargetNode overlooks none.
LoadedNodeGetsAdvice ==
    \A c \in Callers :
        calls[c].at = "asked" /\ calls[c].node \in DOMAIN Known =>
            LET node == insights[calls[c].node]
            IN  node.known /\ Over(node.cpuUsed, node.cpuTotal, 60)
                /\ Decide("no_action", Unknown)
                       \in Orchestrations(Sig(c), calls[c].node, Known, FALSE)
                => \/ node.cpuUsed * 100 = 80 * node.cpuTotal
                   \/ /\ MigrationNeeded(Sig(c), node, FALSE)
                      /\ \A n \in DOMAIN Known \ {calls[c].node} :
                             TargetScore(Sig(c), Known[n]) = 0

\* Whether a GPU workload is told to prefer or allowed anywhere does not depend on the
\* order of a map: every node with a free GPU reaches the threshold. (That of others does.)
GPUDecisionIsSettled ==
    \A c \in Callers :
        calls[c].at = "read" /\ calls[c].sig # Unknown /\ calls[c].sig.gpu =>
            Cardinality({s.decision : s \in Schedulings(calls[c].sig, Known)}) = 1

\* The two tables of plugin weights, of main.go and of scheduling_service.go, have not
\* drifted apart: for a workload of any pattern at any stage they give the same weights, but
\* for steps of a workflow, which only the service knows and for which it lowers no weight.
WeightsAgree ==
    \A c \in Callers :
        calls[c].at = "read" /\ calls[c].sig # Unknown =>
            \A io \in Patterns, stage \in Stages :
                LET sig     == [calls[c].sig EXCEPT !.io = io, !.stage = stage]
                    server  == PluginWeights(sig)
                    service == ServicePluginWeights(sig)
                IN  \/ service = server
                    \/ sig.dependent /\ \A w \in DOMAIN server : service[w] >= server[w]
=============================================================================
