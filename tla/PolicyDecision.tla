--------------------------- MODULE PolicyDecision ---------------------------
(***************************************************************************)
(* One OrchestrationPolicy on its way from a forecast, or from a user, to  *)
(* the request made for it: the generator writes its spec, the policy      *)
(* agent decides on it as often as it is pending, the controller stores    *)
(* what the agent decided and makes the request. PolicyReconciler has the  *)
(* life of the CR with the agent's answers chosen freely; here the answers *)
(* are those of the rules, and the life is reduced to what surrounds them. *)
(***************************************************************************)
EXTENDS PolicyRules

CONSTANTS
    Clusters,        \* lists of nodes: name and control
    Workload,        \* the workload found on a node
    Utilizations,    \* thousandths that may be predicted
    Horizons,        \* minutes ahead
    Learned,         \* recommendations the trained models may make
    UserSpecs,       \* specs a user may store
    ForeignSpecs,    \* specs an agent of its own may answer with
    MaxFaults,       \* bound: failed writes and starts
    MaxRetries       \* bound: retries a user asks for

ASSUME DecisionAssumption ==
    /\ \A list \in Clusters : /\ list \in Seq([name : STRING, control : BOOLEAN])
                              /\ \A i \in DOMAIN list : list[i].name # ""
    /\ Workload \in STRING /\ Workload # ""
    /\ Utilizations \subseteq 0..1000 /\ Horizons \subseteq Nat
    /\ Learned \subseteq [type : Types, urgency : Urgencies, resource : Resources,
                          probability : 0..100, horizon : Nat]
    /\ UserSpecs \subseteq Specs /\ ForeignSpecs \subseteq Specs
    /\ MaxFaults \in Nat /\ MaxRetries \in Nat

VARIABLES
    agent,     \* PolicyAgentEnabled, PolicyAgentClient: "none", "rules" or "http"
    list,      \* the Ready nodes, as they were listed
    node,      \* the node that was analysed, "" for a policy of a user
    horizon,   \* the horizon of its recommendation
    spec,      \* spec of the CR
    phase,     \* phase of the CR
    verdict,   \* last answer of the agent since the policy became pending
    changes,   \* how often a modified spec was stored
    request,   \* the request made last
    faults,
    retries

crVars  == <<spec, phase>>
vars    == <<agent, list, node, horizon, crVars, verdict, changes, request, faults, retries>>

-----------------------------------------------------------------------------
Phases    == {"absent", "Pending", "Approved", "Rejected", "Executing", "Failed"}
NoSpec    == CreatePolicy("", Recommendation("scaling", "LOW", "CPU", 0, 0), "", "", FALSE)
NoRequest == [type |-> "", from |-> {}, to |-> ""]
Names     == {list[i].name : i \in DOMAIN list}

TypeOK ==
    /\ agent \in {"none", "rules", "http"} /\ list \in Clusters
    /\ node \in Names \cup {""} /\ phase \in Phases
    /\ verdict \in {"", "approve", "delay", "reject", "modify"}
    /\ spec \in Specs
    /\ changes \in Nat /\ request \in Requests
    /\ faults \in 0..MaxFaults /\ retries \in 0..MaxRetries

Init ==
    /\ agent \in {"none", "rules", "http"} /\ list \in Clusters
    /\ node = "" /\ horizon = 0 /\ spec = NoSpec /\ phase = "absent"
    /\ verdict = "" /\ changes = 0 /\ request = NoRequest
    /\ faults = 0 /\ retries = 0

Fault == faults < MaxFaults /\ faults' = faults + 1

-----------------------------------------------------------------------------
(* A policy is created.                                                    *)

Recommended ==
    Learned \cup UNION {AnalyzeResource(DefaultThresholds, forecast[1], forecast[2], forecast[3]) :
                            forecast \in Resources \X Utilizations \X Horizons}

\* The generator: analyzeAndCreatePolicy, with a workload found on the node.
Generate ==
    /\ phase = "absent"
    /\ \E n \in Names, rec \in Recommended :
          /\ node' = n /\ horizon' = rec.horizon
          /\ spec' = CreatePolicy(n, rec, Workload, MigrationTarget(n, list), TRUE)
    /\ phase' = "Pending"
    /\ UNCHANGED <<agent, list, verdict, changes, request, faults, retries>>

Apply ==
    /\ phase = "absent" /\ spec' \in UserSpecs /\ phase' = "Pending"
    /\ UNCHANGED <<agent, list, node, horizon, verdict, changes, request, faults, retries>>

-----------------------------------------------------------------------------
(* handleAutoApprove, one reconcile of a pending policy. Each ends with a  *)
(* patch of the status; when it fails the reconcile is repeated.           *)

Pending == phase = "Pending" /\ spec.auto

Unchanged == UNCHANGED <<agent, list, node, horizon, request, retries>>

\* validateExecutionModeCompatibility comes before the agent.
RejectMode ==
    /\ Pending /\ ~Compatible(spec) /\ phase' = "Rejected"
    /\ Unchanged /\ UNCHANGED <<spec, verdict, changes, faults>>

\* Without an agent everything else is approved.
ApproveUnasked ==
    /\ Pending /\ Compatible(spec) /\ agent = "none" /\ phase' = "Approved"
    /\ Unchanged /\ UNCHANGED <<spec, verdict, changes, faults>>

\* Evaluate: the rules, or whatever an agent of its own answers.
Answers(action) == \/ agent = "rules" /\ RuleBasedEvaluate(spec) = action
                   \/ agent = "http"

PhaseAfter(action) ==
    IF action = "approve" THEN "Approved" ELSE IF action = "delay" THEN "Pending" ELSE "Rejected"

Decide ==
    /\ Pending /\ Compatible(spec)
    /\ \E action \in {"approve", "delay", "reject"} :
          Answers(action) /\ verdict' = action /\ phase' = PhaseAfter(action)
    /\ Unchanged /\ UNCHANGED <<spec, changes, faults>>

\* An agent of its own does not answer, or answers what is no action.
DecideFails ==
    /\ Pending /\ Compatible(spec) /\ agent = "http" /\ Fault
    /\ Unchanged /\ UNCHANGED <<spec, phase, verdict, changes>>

ModifiedSpecs == IF agent = "rules" THEN {Modified(spec)} ELSE ForeignSpecs \cup {spec}

\* modifyAndApprovePolicy: the whole spec is replaced, and then the status patched.
ModifyAndApprove ==
    /\ Pending /\ Compatible(spec) /\ Answers("modify") /\ verdict' = "modify"
    /\ spec' \in ModifiedSpecs
    /\ changes' = changes + 1
    /\ \/ phase' = "Approved" /\ UNCHANGED faults
       \/ phase' = "Pending" /\ Fault
    /\ Unchanged

-----------------------------------------------------------------------------
(* handleApprovedPolicy: the request; a spec it cannot be made of fails.   *)
(* Only that the policy then fails is kept: the streak of failed starts    *)
(* and the hung limit by which it gets there are PolicyReconciler's.       *)

Execute ==
    /\ phase = "Approved"
    /\ \/ Sendable(spec) /\ request' = Request(spec) /\ phase' = "Executing" /\ UNCHANGED faults
       \/ Sendable(spec) /\ request' = Request(spec) /\ phase' = "Failed" /\ Fault
       \/ ~Sendable(spec) /\ phase' = "Failed" /\ UNCHANGED <<request, faults>>
    /\ UNCHANGED <<agent, list, node, horizon, spec, verdict, changes, retries>>

\* handleRetryFromFailure, asked for by a user.
RetryFromFailure ==
    /\ phase = "Failed" /\ retries < MaxRetries /\ retries' = retries + 1
    /\ phase' = "Pending" /\ verdict' = ""
    /\ UNCHANGED <<agent, list, node, horizon, spec, changes, request, faults>>

\* A user approves by hand.
ApproveByHand ==
    /\ phase = "Pending" /\ ~spec.auto /\ phase' = "Approved"
    /\ UNCHANGED <<agent, list, node, horizon, spec, verdict, changes, request, faults, retries>>

Reconcile == \/ RejectMode \/ ApproveUnasked \/ Decide \/ DecideFails \/ ModifyAndApprove \/ Execute

Next == Generate \/ Apply \/ Reconcile \/ RetryFromFailure \/ ApproveByHand

Spec     == Init /\ [][Next]_vars
\* The manager calls the reconciler again for as long as it is asked to.
FairSpec == Spec /\ WF_vars(Reconcile)

-----------------------------------------------------------------------------
(* Properties.                                                             *)

\* The thresholds of the forecaster client, the score of the generator and the bounds of
\* the agent fit: a forecast for the next half hour that is HIGH or CRITICAL, and of at
\* least 40 percent, is neither delayed nor rejected by the rules.
NearWarningIsApproved ==
    agent = "rules" /\ node # "" /\ horizon <= 30 /\ spec.probability >= 40
        /\ spec.urgency \in {"HIGH", "CRITICAL"}
      => verdict \notin {"delay", "reject", "modify"}

\* What the rules modified they do not modify again, when the status patch after the
\* modification failed or when the policy is retried.
ModifiedOnce == agent = "rules" => changes <= 1

\* A request made for a generated policy takes load from the analysed node, and brings
\* none to it nor to a node of the control plane.
ActsOnItsNode ==
    agent # "http" /\ node # "" /\ request # NoRequest =>
        /\ request.from \subseteq {node} /\ request.to # node
        /\ request.to # "" => \E i \in DOMAIN list : list[i].name = request.to /\ ~list[i].control

\* A generated policy whose request cannot be made is a migration with nowhere to go.
FailsOnlyWithoutWorker ==
    [][phase = "Approved" /\ phase' = "Failed" /\ faults' = faults /\ node # "" /\ agent # "http"
         => /\ spec.type = "migration"
            /\ \A i \in DOMAIN list : list[i].control \/ list[i].name = node]_vars

\* The rules never leave a CRITICAL policy pending, whoever wrote it.
CriticalIsDecided ==
    agent = "rules" /\ Pending /\ spec.urgency = "CRITICAL" ~> phase # "Pending"
=============================================================================
