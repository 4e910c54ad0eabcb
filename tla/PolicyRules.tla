----------------------------- MODULE PolicyRules -----------------------------
(***************************************************************************)
(* The arithmetic of a policy, from a forecast to a request:               *)
(*   internal/forecaster   a predicted utilisation becomes a recommendation*)
(*   internal/generator    a recommendation becomes the spec of a CR       *)
(*   internal/policyagent  the rules approve, modify, delay or reject it   *)
(*   internal/controller   an approved spec becomes the operator's request *)
(* A utilisation is counted in thousandths; that the code multiplies a     *)
(* float by 100 and cuts off the fraction, which may lose one percent, is  *)
(* left out. "" is the empty string of Go.                                 *)
(***************************************************************************)
EXTENDS Integers, Sequences

Resources == {"CPU", "MEMORY", "GPU", "STORAGE_IO"}
Urgencies == {"LOW", "MEDIUM", "HIGH", "CRITICAL"}
Types     == {"migration", "scaling", "provisioning", "caching", "loadbalance", "preemption"}
Modes     == {"Immediate", "OnTargetCreated", "Continuous"}
Texts     == STRING \cup {""}

-----------------------------------------------------------------------------
(* forecaster/client.go, analyzeResource.                                  *)

\* DefaultThresholdConfig. The environment may set each to any number.
DefaultThresholds ==
    [warning  |-> [CPU |-> 420, MEMORY |-> 420, GPU |-> 420, STORAGE_IO |-> 280],
     critical |-> [CPU |-> 850, MEMORY |-> 900, GPU |-> 950, STORAGE_IO |-> 850]]

WarningType  == [CPU |-> "scaling", MEMORY |-> "scaling",
                 GPU |-> "provisioning", STORAGE_IO |-> "loadbalance"]
CriticalType == [CPU |-> "migration", MEMORY |-> "migration",
                 GPU |-> "preemption", STORAGE_IO |-> "caching"]

Recommendation(type, urgency, resource, probability, horizon) ==
    [type |-> type, urgency |-> urgency, resource |-> resource,
     probability |-> probability, horizon |-> horizon]

\* At most one recommendation: none below the warning threshold.
AnalyzeResource(th, resource, predicted, horizon) ==
    IF predicted < th.warning[resource] THEN {}
    ELSE LET critical == predicted >= th.critical[resource]
         IN  {Recommendation(IF critical THEN CriticalType[resource] ELSE WarningType[resource],
                             IF critical THEN "CRITICAL" ELSE "HIGH",
                             resource, predicted \div 10, horizon)}

-----------------------------------------------------------------------------
(* generator/policy_generator.go.                                          *)

UrgencyWeight(urgency) ==
    IF urgency = "CRITICAL" THEN 40 ELSE IF urgency = "HIGH" THEN 25
    ELSE IF urgency = "MEDIUM" THEN 10 ELSE 0

HorizonWeight(horizon) ==
    IF horizon <= 5 THEN 15 ELSE IF horizon <= 10 THEN 10 ELSE IF horizon <= 30 THEN 5 ELSE 0

Least(a, b) == IF a < b THEN a ELSE b

\* Mutant: the probability is taken for a fraction.
CalculatePriorityScore_Fraction(urgency, probability, horizon) ==
    Least(100, 50 + UrgencyWeight(urgency) + probability \div 100 + HorizonWeight(horizon))

CalculatePriorityScore(urgency, probability, horizon) ==
    Least(100, 50 + UrgencyWeight(urgency) + probability \div 10 + HorizonWeight(horizon))

\* The positions of those workers of the list that are not the node itself.
\* Mutant: the node itself is not left out.
OtherWorkers_All(node, list) == {i \in DOMAIN list : ~list[i].control}

\* Mutant: only the first node of the list is considered.
OtherWorkers_First(node, list) ==
    {i \in DOMAIN list : i = 1 /\ ~list[i].control /\ list[i].name # node}

OtherWorkers(node, list) ==
    {i \in DOMAIN list : ~list[i].control /\ list[i].name # node}

\* The first of them; "" without any.
MigrationTarget(node, list) ==
    LET others == OtherWorkers(node, list)
    IN  IF others = {} THEN ""
        ELSE list[CHOOSE i \in others : \A j \in others : ~(j < i)].name

\* The parameters of a spec that decide about its request; what the generator puts
\* there is none of them.
Parameters   == [sourceNode : Texts, targetNode : Texts, targetNodes : SUBSET Texts,
                 scope : Texts]
NoParameters == [sourceNode |-> "", targetNode |-> "", targetNodes |-> {}, scope |-> ""]

Specs == [type : Types, probability : 0..100, urgency : Urgencies, source : Texts,
          target : Texts, workload : Texts, auto : BOOLEAN, mode : Modes, score : 0..100,
          parameters : Parameters]

DefaultMode(type) == IF type = "scaling" THEN "Continuous" ELSE "Immediate"

CreatePolicy(node, rec, workload, target, auto) ==
    [type |-> rec.type, probability |-> rec.probability, urgency |-> rec.urgency,
     source |-> IF rec.type = "migration" THEN node ELSE "",
     target |-> IF rec.type = "migration" THEN target ELSE node,
     workload |-> workload, auto |-> auto, mode |-> DefaultMode(rec.type),
     score |-> CalculatePriorityScore(rec.urgency, rec.probability, rec.horizon),
     parameters |-> NoParameters]

-----------------------------------------------------------------------------
(* policyagent/client.go, RuleBasedEvaluate. The rules are tried in order. *)

\* Mutant: the score is set to a value the rules do not accept.
Modified_Short(spec) == [spec EXCEPT !.score = 79]
Modified(spec)       == [spec EXCEPT !.score = 80]

MustReject(spec) ==
    \/ spec.workload = ""
    \/ spec.type = "migration" /\ spec.source # "" /\ spec.source = spec.target
    \/ spec.probability < 40

\* Mutant: a critical policy is treated as any other.
MayApprove_NotCritical(spec) ==
    \/ spec.urgency = "HIGH" /\ spec.score >= 84
    \/ spec.score >= 84 /\ spec.probability >= 45
    \/ spec.score >= 80 /\ spec.probability >= 50

MayApprove(spec) ==
    \/ spec.urgency = "CRITICAL"
    \/ spec.urgency = "HIGH" /\ spec.score >= 84
    \/ spec.score >= 84 /\ spec.probability >= 45
    \/ spec.score >= 80 /\ spec.probability >= 50

RuleBasedEvaluate(spec) ==
    IF MustReject(spec) THEN "reject"
    ELSE IF spec.urgency = "CRITICAL" /\ spec.score < 80 THEN "modify"
    ELSE IF MayApprove(spec) THEN "approve" ELSE "delay"

-----------------------------------------------------------------------------
(* controller: the request made for an approved spec. Of its fields, those *)
(* that say where it acts are kept; the rest are defaults and copies.      *)

\* validateExecutionModeCompatibility
Compatible(spec) == spec.mode = "Continuous" => spec.type = "scaling"

\* paramStr
Param(value, fallback) == IF value = "" THEN fallback ELSE value

MigrationNode(spec) == Param(spec.parameters.targetNode, spec.target)

\* executeMigrationPolicy refuses a spec it cannot make a request of.
Sendable(spec) == spec.type = "migration" => spec.workload # "" /\ MigrationNode(spec) # ""

\* executeLoadbalancePolicy: no node means all nodes.
LoadbalanceNodes(spec) ==
    IF spec.parameters.scope # "all" /\ spec.parameters.targetNodes = {} /\ spec.target # ""
    THEN {spec.target} ELSE spec.parameters.targetNodes

Requests == [type : Types \cup {""}, from : SUBSET Texts, to : Texts]

\* The nodes a request takes load from, and the node it brings load to.
Request(spec) ==
    [type  |-> spec.type,
     from  |-> IF spec.type = "migration" THEN {Param(spec.parameters.sourceNode, spec.source)}
               ELSE IF spec.type = "loadbalance" THEN LoadbalanceNodes(spec)
               ELSE IF spec.type = "preemption" THEN {spec.target} ELSE {},
     to    |-> IF spec.type = "migration" THEN MigrationNode(spec) ELSE ""]
=============================================================================
