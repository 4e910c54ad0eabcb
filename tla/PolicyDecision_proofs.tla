------------------------ MODULE PolicyDecision_proofs ------------------------
(***************************************************************************)
(* The tables of numbers fit together for every utilisation, horizon and   *)
(* cluster. What the generator writes into a spec stays there, since only  *)
(* an agent of its own, or the modification by the rules, changes it, and  *)
(* that changes the score alone. So a near warning keeps the score it got, *)
(* which the rules accept; what was modified has a score the rules do not  *)
(* modify; and the request is made of the node that was analysed.          *)
(***************************************************************************)
EXTENDS PolicyDecision, SequenceTheorems, WellFoundedInduction, TLAPS

Near == horizon <= 30 /\ spec.probability >= 40 /\ spec.urgency \in {"HIGH", "CRITICAL"}

\* Nothing has happened to a policy that does not exist.
NothingYet ==
    phase = "absent" => changes = 0 /\ request = NoRequest /\ node = "" /\ verdict = ""

\* What the generator wrote is still there.
AsGenerated ==
    node # "" /\ agent # "http" =>
        /\ spec.workload = Workload /\ spec.parameters = NoParameters
        /\ spec.type = "migration" => spec.source = node /\ spec.target = MigrationTarget(node, list)
        /\ spec.type # "migration" => spec.target = node
        /\ Near => spec.score >= 84

ModifiedScore == agent = "rules" /\ changes > 0 => spec.score = 80

IInv == /\ TypeOK /\ NothingYet /\ AsGenerated /\ ModifiedScore
        /\ NearWarningIsApproved /\ ModifiedOnce /\ ActsOnItsNode

-----------------------------------------------------------------------------
\* The first of some positions of a list.
LEMMA FirstPosition ==
  ASSUME NEW T, T \subseteq Nat, T # {}
  PROVE  \E i \in T : \A j \in T : ~(j < i)
<1>1. \E x \in T : \A y \in T : ~(<<y, x>> \in OpToRel(<, Nat))
  BY NatLessThanWellFounded, WFMin
<1> QED
  BY <1>1 DEF OpToRel

\* The parameters, one by one.
LEMMA Parameter ==
  /\ MaxFaults \in Nat /\ MaxRetries \in Nat
  /\ Workload \in Texts /\ Workload # ""
  /\ UserSpecs \subseteq Specs /\ ForeignSpecs \subseteq Specs
<1>1. /\ MaxFaults \in Nat /\ MaxRetries \in Nat /\ Workload \in STRING /\ Workload # ""
      /\ UserSpecs \subseteq Specs /\ ForeignSpecs \subseteq Specs
  BY DecisionAssumption, Zenon
<1>2. Workload \in Texts
  BY <1>1 DEF Texts
<1> QED
  BY <1>1, <1>2

\* Faults are counted up to the bound.
LEMMA FaultCounts ==
  ASSUME faults \in 0..MaxFaults, Fault
  PROVE  faults' \in 0..MaxFaults /\ faults' # faults
<1>1. MaxFaults \in Nat
  BY Parameter
<1> QED
  BY <1>1 DEF Fault

\* The target of a migration is another worker; there is none only without one.
LEMMA TargetIsAnotherWorker ==
  ASSUME NEW l \in Clusters, NEW n
  PROVE  /\ MigrationTarget(n, l) \in Texts
         /\ MigrationTarget(n, l) # "" =>
              /\ MigrationTarget(n, l) # n
              /\ \E i \in DOMAIN l : l[i].name = MigrationTarget(n, l) /\ ~l[i].control
         /\ MigrationTarget(n, l) = "" => \A i \in DOMAIN l : l[i].control \/ l[i].name = n
<1> DEFINE others == OtherWorkers(n, l)
<1>1. \A i \in DOMAIN l : i \in Nat /\ l[i].name \in STRING /\ l[i].name # ""
  <2>1. /\ l \in Seq([name : STRING, control : BOOLEAN])
        /\ \A i \in DOMAIN l : l[i].name # ""
    BY DecisionAssumption, ZenonT(30)
  <2>2. DOMAIN l = 1..Len(l) /\ Len(l) \in Nat
    BY <2>1, LenProperties
  <2>3. \A i \in 1..Len(l) : l[i] \in [name : STRING, control : BOOLEAN]
    BY <2>1, ElementOfSeq
  <2> SUFFICES ASSUME NEW i \in DOMAIN l
               PROVE  i \in Nat /\ l[i].name \in STRING /\ l[i].name # ""
    OBVIOUS
  <2>4. i \in 1..Len(l)
    BY <2>2
  <2>5. l[i] \in [name : STRING, control : BOOLEAN]
    BY <2>3, <2>4
  <2>6. l[i].name # ""
    BY <2>1
  <2>7. i \in Nat
    BY <2>2, <2>4
  <2> QED
    BY <2>5, <2>6, <2>7
<1>2. others \subseteq DOMAIN l /\ \A i \in others : ~l[i].control /\ l[i].name # n
  BY DEF OtherWorkers
<1>3. CASE others = {}
  <2>1. MigrationTarget(n, l) = ""
    BY <1>3 DEF MigrationTarget
  <2> QED
    BY <1>3, <2>1 DEF OtherWorkers, Texts
<1>4. CASE others # {}
  <2>1. \E i \in others : \A j \in others : ~(j < i)
    BY <1>1, <1>2, <1>4, FirstPosition
  <2>2. PICK i \in others : MigrationTarget(n, l) = l[i].name
    BY <1>4, <2>1 DEF MigrationTarget
  <2> QED
    BY <1>1, <1>2, <2>2 DEF Texts
<1> QED
  BY <1>3, <1>4

\* What may be recommended.
Recommendations == [type : Types, urgency : Urgencies, resource : Resources,
                    probability : 0..100, horizon : Nat]

LEMMA RecommendedType ==
  Recommended \subseteq Recommendations
<1>1. ASSUME NEW r \in Resources, NEW u \in Utilizations, NEW h \in Horizons,
             NEW rec \in AnalyzeResource(DefaultThresholds, r, u, h)
      PROVE  rec \in Recommendations
  <2>1. u \in 0..1000 /\ h \in Nat
    BY DecisionAssumption, ZenonT(30)
  <2>2. u \div 10 \in 0..100
    BY <2>1
  <2>3. CriticalType[r] \in Types /\ WarningType[r] \in Types
    BY DEF CriticalType, WarningType, Types, Resources
  <2>4. PICK t \in Types, x \in {"HIGH", "CRITICAL"} : rec = Recommendation(t, x, r, u \div 10, h)
    BY <2>3 DEF AnalyzeResource
  <2> QED
    BY <2>1, <2>2, <2>4 DEF Recommendation, Recommendations, Urgencies
<1>2. Learned \subseteq Recommendations
  BY DecisionAssumption DEF Recommendations
<1>3. ASSUME NEW rec \in Recommended, rec \notin Learned
      PROVE  \E f \in Resources \X Utilizations \X Horizons :
                rec \in AnalyzeResource(DefaultThresholds, f[1], f[2], f[3])
  BY <1>3 DEF Recommended
<1> QED
  BY <1>1, <1>2, <1>3

\* A score is a percentage, and a near warning's is 84 or more.
LEMMA ScoreBounds ==
  ASSUME NEW u \in Urgencies, NEW p \in 0..100, NEW h \in Nat
  PROVE  /\ CalculatePriorityScore(u, p, h) \in 0..100
         /\ h <= 30 /\ p >= 40 /\ u \in {"HIGH", "CRITICAL"} => CalculatePriorityScore(u, p, h) >= 84
<1>1. p \div 10 \in 0..10 /\ (p >= 40 => p \div 10 >= 4)
  OBVIOUS
<1>2. /\ UrgencyWeight(u) \in 0..40 /\ (u \in {"HIGH", "CRITICAL"} => UrgencyWeight(u) >= 25)
      /\ HorizonWeight(h) \in 0..15 /\ (h <= 30 => HorizonWeight(h) >= 5)
  BY DEF UrgencyWeight, HorizonWeight, Urgencies
<1> QED
  BY <1>1, <1>2 DEF CalculatePriorityScore, Least

\* What the generator writes for a recommendation.
Written(new, n, rec, w, t) ==
    /\ new \in Specs /\ new.workload = w /\ new.parameters = NoParameters
    /\ new.type = "migration" => new.source = n /\ new.target = t
    /\ new.type # "migration" => new.target = n
    /\ new.probability = rec.probability /\ new.urgency = rec.urgency
    /\ new.score = CalculatePriorityScore(rec.urgency, rec.probability, rec.horizon)

LEMMA CreatedSpec ==
  ASSUME NEW n \in Texts, NEW w \in Texts, NEW t \in Texts, NEW rec \in Recommendations
  PROVE  /\ Written(CreatePolicy(n, rec, w, t, TRUE), n, rec, w, t)
         /\ Written(CreatePolicy(n, rec, w, t, FALSE), n, rec, w, t)
<1>1. CalculatePriorityScore(rec.urgency, rec.probability, rec.horizon) \in 0..100
  BY ScoreBounds DEF Recommendations
<1>2. NoParameters \in Parameters
  BY DEF NoParameters, Parameters, Texts
<1>3. DefaultMode(rec.type) \in Modes /\ "" \in Texts
  BY DEF DefaultMode, Modes, Texts
<1>4. ASSUME NEW auto \in BOOLEAN
      PROVE  Written(CreatePolicy(n, rec, w, t, auto), n, rec, w, t)
  BY <1>1, <1>2, <1>3 DEF CreatePolicy, Specs, Written, Recommendations
<1>5. TRUE \in BOOLEAN /\ FALSE \in BOOLEAN
  OBVIOUS
<1> QED
  BY <1>4, <1>5, Zenon

\* A modified spec is the same but for its score.
LEMMA ModifiedSpec ==
  ASSUME NEW s \in Specs
  PROVE  /\ Modified(s) \in Specs /\ Modified(s).score = 80
         /\ Modified(s).workload = s.workload /\ Modified(s).parameters = s.parameters
         /\ Modified(s).type = s.type /\ Modified(s).source = s.source
         /\ Modified(s).target = s.target /\ Modified(s).probability = s.probability
         /\ Modified(s).urgency = s.urgency
  BY DEF Modified, Specs

\* Requests are made of specs.
LEMMA RequestType ==
  ASSUME NEW s \in Specs
  PROVE  Request(s) \in Requests
<1>1. /\ s.type \in Types /\ s.source \in Texts /\ s.target \in Texts
      /\ s.parameters \in Parameters
  BY DEF Specs
<1>2. /\ s.parameters.sourceNode \in Texts /\ s.parameters.targetNode \in Texts
      /\ s.parameters.targetNodes \subseteq Texts
  BY <1>1 DEF Parameters
<1>3. MigrationNode(s) \in Texts /\ Param(s.parameters.sourceNode, s.source) \in Texts
  BY <1>1, <1>2 DEF MigrationNode, Param
<1>4. LoadbalanceNodes(s) \subseteq Texts /\ "" \in Texts
  BY <1>1, <1>2 DEF LoadbalanceNodes, Texts
<1> QED
  BY <1>1, <1>2, <1>3, <1>4 DEF Request, Requests

-----------------------------------------------------------------------------
\* The names of the list are names.
LEMMA NamesType == TypeOK => \A n \in Names : n \in Texts /\ n # ""
<1> SUFFICES ASSUME TypeOK, NEW i \in DOMAIN list
             PROVE  list[i].name \in Texts /\ list[i].name # ""
  BY DEF Names
<1>1. /\ list \in Clusters /\ list \in Seq([name : STRING, control : BOOLEAN])
      /\ list[i].name # ""
  BY DecisionAssumption, ZenonT(30) DEF TypeOK
<1>2. i \in 1..Len(list)
  BY <1>1, LenProperties
<1>3. list[i] \in [name : STRING, control : BOOLEAN]
  BY <1>1, <1>2, ElementOfSeq
<1> QED
  BY <1>1, <1>3 DEF Texts

\* Nothing has happened at first.
LEMMA Initially == Init => IInv
<1> SUFFICES ASSUME Init PROVE IInv
  OBVIOUS
<1>1. Recommendation("scaling", "LOW", "CPU", 0, 0) \in Recommendations
  BY DEF Recommendation, Recommendations, Types, Urgencies, Resources
<1>2. NoSpec \in Specs
  <2>1. "" \in Texts
    BY DEF Texts
  <2>2. \E rec : Written(NoSpec, "", rec, "", "")
    BY <1>1, <2>1, CreatedSpec, Zenon DEF NoSpec
  <2> QED
    BY <2>2 DEF Written
<1>3. NoRequest \in Requests
  BY DEF NoRequest, Requests, Texts
<1>4. 0 \in 0..MaxFaults /\ 0 \in 0..MaxRetries
  <2>1. MaxFaults \in Nat /\ MaxRetries \in Nat
    BY Parameter
  <2> QED
    BY <2>1
<1>5. TypeOK
  BY <1>2, <1>3, <1>4 DEF Init, TypeOK, Phases
<1>6. NothingYet
  BY DEF Init, NothingYet
<1>7. AsGenerated /\ NearWarningIsApproved /\ ActsOnItsNode
  BY DEF Init, AsGenerated, NearWarningIsApproved, ActsOnItsNode
<1>8. changes = 0
  BY DEF Init
<1>9. ModifiedScore /\ ModifiedOnce
  BY <1>8 DEF ModifiedScore, ModifiedOnce
<1> QED
  BY <1>5, <1>6, <1>7, <1>9 DEF IInv

\* Above one bound is not below a lower one.
LEMMA Comparison ==
  ASSUME NEW a \in 0..100
  PROVE  (a >= 84 => ~(a < 80)) /\ (a >= 40 => ~(a < 40))
  OBVIOUS

\* The rules approve a near warning: it has a workload and, if it is a migration, another
\* target; and its score is enough.
LEMMA NearIsApproved ==
  ASSUME IInv, agent = "rules", node # "", Near
  PROVE  RuleBasedEvaluate(spec) = "approve"
<1>1. /\ spec.workload = Workload /\ spec.score >= 84
      /\ spec.type = "migration" => spec.source = node /\ spec.target = MigrationTarget(node, list)
  BY DEF IInv, AsGenerated
<1>2. list \in Clusters /\ spec.probability \in 0..100 /\ spec.score \in 0..100
  BY DEF IInv, TypeOK, Specs
<1>3. MigrationTarget(node, list) # node
  <2>1. MigrationTarget(node, list) # "" => MigrationTarget(node, list) # node
    BY <1>2, TargetIsAnotherWorker
  <2> QED
    BY <2>1
<1>4. ~MustReject(spec)
  <2>1. spec.workload # ""
    BY <1>1, Parameter
  <2>2. ~(spec.probability < 40)
    <3>1. spec.probability >= 40
      BY DEF Near
    <3> QED
      BY <1>2, <3>1, Comparison
  <2>3. ~(spec.type = "migration" /\ spec.source = spec.target)
    BY <1>1, <1>3
  <2> QED
    BY <2>1, <2>2, <2>3 DEF MustReject
<1>5. ~(spec.score < 80)
  BY <1>1, <1>2, Comparison
<1>6. MayApprove(spec)
  BY <1>1 DEF MayApprove, Near
<1> QED
  BY <1>4, <1>5, <1>6 DEF RuleBasedEvaluate

\* A policy is created.
LEMMA CreatePreserves == IInv /\ (Generate \/ Apply) => IInv'
<1> SUFFICES ASSUME IInv, Generate \/ Apply PROVE IInv'
  OBVIOUS
<1>1. /\ changes = 0 /\ request = NoRequest /\ node = "" /\ verdict = ""
      /\ phase' = "Pending"
      /\ UNCHANGED <<agent, list, verdict, changes, request, faults, retries>>
  BY DEF IInv, NothingYet, Generate, Apply
<1>2. /\ spec' \in Specs /\ node' \in Names \cup {""}
      /\ AsGenerated'
  <2>1. CASE Generate
    <3>1. PICK n \in Names, rec \in Recommended :
            /\ node' = n /\ horizon' = rec.horizon
            /\ spec' = CreatePolicy(n, rec, Workload, MigrationTarget(n, list), TRUE)
      BY <2>1 DEF Generate
    <3>2. n \in Texts /\ list \in Clusters /\ Workload \in Texts
      BY NamesType, Parameter DEF IInv, TypeOK
    <3>3. MigrationTarget(n, list) \in Texts
      BY <3>2, TargetIsAnotherWorker
    <3>4. rec \in Recommendations
      BY RecommendedType
    <3>5. /\ spec' \in Specs /\ spec'.workload = Workload /\ spec'.parameters = NoParameters
          /\ spec'.type = "migration" => spec'.source = n /\ spec'.target = MigrationTarget(n, list)
          /\ spec'.type # "migration" => spec'.target = n
          /\ spec'.probability = rec.probability /\ spec'.urgency = rec.urgency
          /\ spec'.score = CalculatePriorityScore(rec.urgency, rec.probability, rec.horizon)
      <4>1. Written(spec', n, rec, Workload, MigrationTarget(n, list))
        BY <3>1, <3>2, <3>3, <3>4, CreatedSpec, Zenon
      <4> QED
        BY <4>1 DEF Written
    <3>6. Near' => spec'.score >= 84
      BY <3>1, <3>4, <3>5, ScoreBounds DEF Near, Recommendations
    <3> QED
      BY <1>1, <3>1, <3>5, <3>6 DEF AsGenerated
  <2>2. CASE Apply
    <3>1. spec' \in Specs /\ node' = ""
      BY <1>1, <2>2, Parameter DEF Apply
    <3> QED
      BY <3>1 DEF AsGenerated
  <2> QED
    BY <2>1, <2>2
<1>3. TypeOK'
  BY <1>1, <1>2 DEF IInv, TypeOK, Phases, Names
<1>4. NothingYet'
  BY <1>1 DEF NothingYet
<1>5. NearWarningIsApproved' /\ ActsOnItsNode'
  BY <1>1 DEF NearWarningIsApproved, ActsOnItsNode
<1>6. ModifiedScore' /\ ModifiedOnce'
  <2>1. changes' = 0
    BY <1>1
  <2> QED
    BY <2>1 DEF ModifiedScore, ModifiedOnce
<1> QED
  BY <1>2, <1>3, <1>4, <1>5, <1>6 DEF IInv

\* A step that changes neither the spec nor the request, and no verdict but for one that
\* is in order.
LEMMA StatusPreserves ==
  ASSUME IInv, UNCHANGED <<agent, list, node, horizon, spec, changes, request>>,
         phase' \in Phases \ {"absent"}, verdict' \in {"", "approve", "delay", "reject", "modify"},
         faults' \in 0..MaxFaults, retries' \in 0..MaxRetries,
         verdict' = verdict \/ verdict' = "" \/ agent # "rules" \/ RuleBasedEvaluate(spec) = verdict'
  PROVE  IInv'
<1>1. TypeOK'
  BY DEF IInv, TypeOK, Names
<1>2. NothingYet' /\ AsGenerated' /\ ModifiedScore' /\ ModifiedOnce' /\ ActsOnItsNode'
  BY DEF IInv, NothingYet, AsGenerated, Near, ModifiedScore, ModifiedOnce, ActsOnItsNode
<1>3. NearWarningIsApproved'
  BY NearIsApproved DEF IInv, NearWarningIsApproved, Near
<1> QED
  BY <1>1, <1>2, <1>3 DEF IInv

\* Everything that happens to a policy but for its modification and its request.
LEMMA DecidePreserves ==
  IInv /\ (RejectMode \/ ApproveUnasked \/ Decide \/ DecideFails \/ RetryFromFailure \/ ApproveByHand)
    => IInv'
<1> SUFFICES ASSUME IInv, RejectMode \/ ApproveUnasked \/ Decide \/ DecideFails
                          \/ RetryFromFailure \/ ApproveByHand
             PROVE  IInv'
  OBVIOUS
<1>1. /\ faults \in 0..MaxFaults /\ retries \in 0..MaxRetries /\ phase \in Phases
      /\ verdict \in {"", "approve", "delay", "reject", "modify"}
  BY DEF IInv, TypeOK
<1>2. UNCHANGED <<agent, list, node, horizon, spec, changes, request>>
  BY DEF RejectMode, ApproveUnasked, Decide, DecideFails, RetryFromFailure, ApproveByHand, Unchanged
<1>3. faults' \in 0..MaxFaults
  <2>1. faults' = faults \/ Fault
    BY DEF RejectMode, ApproveUnasked, Decide, DecideFails, RetryFromFailure, ApproveByHand
  <2> QED
    BY <1>1, <2>1, FaultCounts
<1>6. retries' \in 0..MaxRetries
  <2>1. retries' = retries \/ (retries < MaxRetries /\ retries' = retries + 1)
    BY DEF RejectMode, ApproveUnasked, Decide, DecideFails, RetryFromFailure, ApproveByHand, Unchanged
  <2>2. MaxRetries \in Nat
    BY Parameter
  <2>3. retries \in 0..MaxRetries
    BY <1>1
  <2> QED
    BY <2>1, <2>2, <2>3
<1>4. phase' \in Phases \ {"absent"}
  BY DEF RejectMode, ApproveUnasked, Decide, DecideFails, RetryFromFailure, ApproveByHand,
         Pending, PhaseAfter, Phases
<1>5. /\ verdict' \in {"", "approve", "delay", "reject", "modify"}
      /\ verdict' = verdict \/ verdict' = "" \/ agent # "rules" \/ RuleBasedEvaluate(spec) = verdict'
  BY <1>1 DEF RejectMode, ApproveUnasked, Decide, DecideFails, RetryFromFailure, ApproveByHand,
              Answers
<1> QED
  BY <1>2, <1>3, <1>4, <1>5, <1>6, StatusPreserves

\* The rules modify only what has a score below 80, which a near warning has not, and give
\* it a score which they do not modify.
LEMMA ModifyPreserves == IInv /\ ModifyAndApprove => IInv'
<1> SUFFICES ASSUME IInv, ModifyAndApprove PROVE IInv'
  OBVIOUS
<1>1. /\ TypeOK /\ verdict' = "modify" /\ changes' = changes + 1 /\ changes \in Nat
      /\ UNCHANGED <<agent, list, node, horizon, request, retries>>
      /\ phase' \in {"Approved", "Pending"} /\ spec' \in ModifiedSpecs
  BY DEF IInv, TypeOK, ModifyAndApprove, Unchanged
<1>2. faults' \in 0..MaxFaults
  <2>1. faults \in 0..MaxFaults /\ (faults' = faults \/ Fault)
    BY <1>1 DEF TypeOK, ModifyAndApprove
  <2> QED
    BY <2>1, FaultCounts
<1>3. spec \in Specs /\ Modified(spec) \in Specs
  BY <1>1, ModifiedSpec DEF TypeOK
<1>4. spec' \in Specs
  BY <1>1, <1>3, Parameter DEF ModifiedSpecs
<1>5. TypeOK'
  <2>1. changes' \in Nat
    BY <1>1
  <2>2. phase' \in Phases
    BY <1>1 DEF Phases
  <2>3. /\ agent' \in {"none", "rules", "http"} /\ list' \in Clusters
        /\ node' \in Names' \cup {""} /\ request' \in Requests /\ retries' \in 0..MaxRetries
    BY <1>1 DEF TypeOK, Names
  <2> QED
    BY <1>1, <1>2, <1>4, <2>1, <2>2, <2>3 DEF TypeOK
<1>6. NothingYet'
  BY <1>1 DEF NothingYet
<1>7. CASE agent = "rules"
  <2>1. RuleBasedEvaluate(spec) = "modify" /\ spec' = Modified(spec)
    BY <1>1, <1>7 DEF ModifyAndApprove, Answers, ModifiedSpecs
  <2>2. spec.score < 80
    BY <2>1 DEF RuleBasedEvaluate
  <2>3. changes = 0
    BY <1>1, <1>7, <2>2 DEF IInv, ModifiedScore
  <2>4. node # "" => ~Near
    BY <1>7, <2>1, NearIsApproved
  <2>5. /\ spec'.score = 80 /\ spec'.workload = spec.workload /\ spec'.parameters = spec.parameters
        /\ spec'.type = spec.type /\ spec'.source = spec.source /\ spec'.target = spec.target
        /\ spec'.probability = spec.probability /\ spec'.urgency = spec.urgency
    BY <1>3, <2>1, ModifiedSpec
  <2>6. AsGenerated'
    BY <1>1, <1>7, <2>4, <2>5 DEF IInv, AsGenerated, Near
  <2>7. NearWarningIsApproved'
    BY <1>1, <1>7, <2>4, <2>5 DEF NearWarningIsApproved, Near
  <2>8. ModifiedOnce' /\ ModifiedScore'
    BY <1>1, <2>3, <2>5 DEF ModifiedOnce, ModifiedScore
  <2>9. ActsOnItsNode'
    BY <1>1 DEF IInv, ActsOnItsNode
  <2> QED
    BY <1>5, <1>6, <2>6, <2>7, <2>8, <2>9 DEF IInv
<1>8. CASE agent # "rules"
  <2>1. agent = "http"
    BY <1>8 DEF ModifyAndApprove, Answers
  <2> QED
    BY <1>1, <1>5, <1>6, <2>1 DEF IInv, AsGenerated, ModifiedScore, NearWarningIsApproved,
                                  ModifiedOnce, ActsOnItsNode
<1> QED
  BY <1>7, <1>8

\* The request of a generated policy acts on its node.
LEMMA RequestActsOnNode ==
  ASSUME IInv, agent # "http", node # ""
  PROVE  /\ Request(spec).from \subseteq {node} /\ Request(spec).to # node
         /\ Request(spec).to # "" =>
              \E i \in DOMAIN list : list[i].name = Request(spec).to /\ ~list[i].control
<1>1. /\ spec.parameters = NoParameters /\ list \in Clusters
      /\ spec.type = "migration" => spec.source = node /\ spec.target = MigrationTarget(node, list)
      /\ spec.type # "migration" => spec.target = node
  BY DEF IInv, AsGenerated, TypeOK
<1>2. /\ NoParameters.sourceNode = "" /\ NoParameters.targetNode = ""
      /\ NoParameters.targetNodes = {} /\ NoParameters.scope = ""
  BY DEF NoParameters
<1>3. CASE spec.type = "migration"
  <2>1. Request(spec).from = {node} /\ Request(spec).to = MigrationTarget(node, list)
    BY <1>1, <1>2, <1>3 DEF Request, MigrationNode, Param
  <2> DEFINE t == MigrationTarget(node, list)
  <2>2. /\ t # "" => t # node /\ \E i \in DOMAIN list : list[i].name = t /\ ~list[i].control
    BY <1>1, TargetIsAnotherWorker
  <2>3. Request(spec).to = t
    BY <2>1
  <2> HIDE DEF t
  <2> QED
    BY <2>1, <2>2, <2>3
<1>4. CASE spec.type # "migration"
  <2>1. Request(spec).to = ""
    BY <1>4 DEF Request
  <2>2. Request(spec).from \subseteq {node}
    BY <1>1, <1>2, <1>4 DEF Request, LoadbalanceNodes
  <2> QED
    BY <2>1, <2>2
<1> QED
  BY <1>3, <1>4

\* A request is made, or cannot be.
LEMMA ExecutePreserves == IInv /\ Execute => IInv'
<1> SUFFICES ASSUME IInv, Execute PROVE IInv'
  OBVIOUS
<1>1. /\ phase' \in {"Executing", "Failed"} /\ request' \in {request, Request(spec)}
      /\ UNCHANGED <<agent, list, node, horizon, spec, verdict, changes, retries>>
  BY DEF Execute
<1>2. faults' \in 0..MaxFaults
  <2>1. faults \in 0..MaxFaults /\ (faults' = faults \/ Fault)
    BY DEF IInv, TypeOK, Execute
  <2> QED
    BY <2>1, FaultCounts
<1>3. request' \in Requests
  BY <1>1, RequestType DEF IInv, TypeOK
<1>4. TypeOK'
  BY <1>1, <1>2, <1>3 DEF IInv, TypeOK, Phases, Names
<1>5. ActsOnItsNode'
  BY <1>1, RequestActsOnNode DEF IInv, ActsOnItsNode
<1> QED
  BY <1>1, <1>4, <1>5 DEF IInv, NothingYet, AsGenerated, Near, ModifiedScore,
                          NearWarningIsApproved, ModifiedOnce

-----------------------------------------------------------------------------
\* The invariant holds in every state.
THEOREM DecisionInvariant == Spec => []IInv
<1>1. IInv /\ [Next]_vars => IInv'
  <2> SUFFICES ASSUME IInv, [Next]_vars PROVE IInv'
    OBVIOUS
  <2>1. CASE UNCHANGED vars
    <3>1. UNCHANGED <<agent, list, node, horizon, spec, phase, verdict, changes, request,
                      faults, retries>>
      BY <2>1 DEF vars, crVars
    <3>2. TypeOK'
      BY <3>1 DEF IInv, TypeOK, Names
    <3>3. NothingYet' /\ AsGenerated' /\ NearWarningIsApproved' /\ ActsOnItsNode'
      BY <3>1 DEF IInv, NothingYet, AsGenerated, Near, NearWarningIsApproved, ActsOnItsNode
    <3>4. ModifiedScore' /\ ModifiedOnce'
      BY <3>1 DEF IInv, ModifiedScore, ModifiedOnce
    <3> QED
      BY <3>2, <3>3, <3>4 DEF IInv
  <2> QED
    BY <2>1, CreatePreserves, DecidePreserves, ModifyPreserves, ExecutePreserves
       DEF Next, Reconcile
<1> QED
  BY Initially, <1>1, PTL DEF Spec

\* Every spec and every request is one, whoever wrote it.
THEOREM DecisionTypeCorrect == Spec => []TypeOK
<1>1. IInv => TypeOK
  BY DEF IInv
<1> QED
  BY DecisionInvariant, <1>1, PTL

\* Whatever is predicted: a near warning of 40 percent and more is approved by the rules.
THEOREM NearWarningsAreApproved == Spec => []NearWarningIsApproved
<1>1. IInv => NearWarningIsApproved
  BY DEF IInv
<1> QED
  BY DecisionInvariant, <1>1, PTL

\* The rules modify a policy once, however often it is decided on.
THEOREM ModifiedAtMostOnce == Spec => []ModifiedOnce
<1>1. IInv => ModifiedOnce
  BY DEF IInv
<1> QED
  BY DecisionInvariant, <1>1, PTL

\* In every cluster a generated policy relieves its node and burdens no control plane.
THEOREM RequestsActOnTheirNode == Spec => []ActsOnItsNode
<1>1. IInv => ActsOnItsNode
  BY DEF IInv
<1> QED
  BY DecisionInvariant, <1>1, PTL

\* What was generated can be sent, unless there is no other worker to migrate to.
THEOREM SendableUnlessAlone == Spec => FailsOnlyWithoutWorker
<1>1. IInv /\ [Next]_vars =>
        [phase = "Approved" /\ phase' = "Failed" /\ faults' = faults /\ node # "" /\ agent # "http"
           => /\ spec.type = "migration"
              /\ \A i \in DOMAIN list : list[i].control \/ list[i].name = node]_vars
  <2> SUFFICES ASSUME IInv, Next, phase = "Approved", phase' = "Failed", faults' = faults,
                      node # "", agent # "http"
               PROVE  /\ spec.type = "migration"
                      /\ \A i \in DOMAIN list : list[i].control \/ list[i].name = node
    OBVIOUS
  <2>1. Execute
    BY DEF Next, Reconcile, Generate, Apply, RejectMode, ApproveUnasked, Decide, DecideFails,
           ModifyAndApprove, RetryFromFailure, ApproveByHand, Pending
  <2>2. ~Sendable(spec)
    <3>1. faults \in 0..MaxFaults
      BY DEF IInv, TypeOK
    <3>2. ~Fault
      BY <3>1, FaultCounts
    <3> QED
      BY <2>1, <3>2 DEF Execute
  <2>3. /\ spec.parameters = NoParameters /\ spec.workload # "" /\ list \in Clusters
        /\ spec.type = "migration" => spec.target = MigrationTarget(node, list)
    BY Parameter DEF IInv, AsGenerated, TypeOK
  <2>4. NoParameters.targetNode = ""
    BY DEF NoParameters
  <2>5. spec.type = "migration" /\ MigrationTarget(node, list) = ""
    BY <2>2, <2>3, <2>4 DEF Sendable, MigrationNode, Param
  <2> QED
    BY <2>3, <2>5, TargetIsAnotherWorker
<1> QED
  BY DecisionInvariant, <1>1, PTL DEF Spec, FailsOnlyWithoutWorker
=============================================================================
