----------------------- MODULE PolicyGenerator_proofs -----------------------
(***************************************************************************)
(* What the generator remembers, for any nodes, intervals and forecasts.   *)
(* The argument for OnePolicyPerTTL: as long as nothing failed, a CR that  *)
(* is younger than the TTL is either remembered by a record no older than  *)
(* it, or is about to be recorded; so the check finds it. The argument for *)
(* ForecastIsFresh: a cached prediction is at most one request older than  *)
(* its cache line, and a line is used only while it is younger than its    *)
(* TTL.                                                                    *)
(***************************************************************************)
EXTENDS PolicyGenerator, TLAPS

Busy == pc \in {"lookup", "check", "create", "record"}

\* The call belongs to the cycle: it names the node of the analysis.
CallInCycle ==
    /\ pc = "analyse" \/ Busy => call.node \in Nodes
    /\ call.stage # "idle" => pc = "analyse"

\* Every CR younger than the TTL is remembered, or about to be.
YoungIsRemembered ==
    CheckDuplicates /\ faults = 0 =>
      /\ ~early
      /\ \A k \in Keys : made[k] < PolicyTTL =>
           \/ k \in recorded /\ recordAge[k] <= made[k]
           \/ pc = "record" /\ k = Key
      /\ pc = "create" => made[Key] >= PolicyTTL

\* How old a prediction can be, on its way and in the cache.
PredictionAges ==
    /\ Pending => call.age <= HttpTimeout
    /\ call.stage = "answered" => call.predicted <= call.age
    /\ \A n \in Nodes : cache[n].present =>
         cache[n].predicted <= cache[n].fetched + HttpTimeout

IInv == TypeOK /\ CallInCycle /\ YoungIsRemembered /\ PredictionAges /\ ForecastIsFresh

-----------------------------------------------------------------------------
\* Growing older keeps an age an age, moves no age past a younger one, and never back.
LEMMA OlderAges ==
    ASSUME NEW a \in Ages, NEW b \in Ages
    PROVE  /\ Older(a) \in Ages /\ 0 \in Ages
           /\ a <= b => Older(a) <= Older(b)
           /\ a <= b + HttpTimeout => Older(a) <= Older(b) + HttpTimeout
           /\ Older(a) >= a /\ Older(a) <= a + 1
    BY ClientAssumption DEF Ages, Older

\* What a forecast recommends is a list of policy types.
LEMMA RecommendedType ==
    ASSUME NEW l
    PROVE  Recommended(l) \in Seq(Types)
<1>1. <<>> \in Seq(Types)
    OBVIOUS
<1>2. ASSUME NEW a \in Types, NEW b \in Types PROVE <<a, b>> \in Seq(Types)
    OBVIOUS
<1>3. "migration" \in Types /\ "scaling" \in Types
    BY DEF Types
<1> QED
    BY <1>1, <1>2, <1>3 DEF Recommended

\* What is put together as a call is one.
LEMMA CallType ==
    ASSUME NEW s \in Stages, NEW n \in Nodes \cup {NoNode}, NEW ok \in BOOLEAN,
           NEW r \in Seq(Types), NEW p \in Ages
    PROVE  Call(s, n, ok, r, p) \in Calls
<1>1. 0 \in Ages /\ "normal" \in Levels
    BY ClientAssumption DEF Ages
<1> QED
    BY <1>1 DEF Call, Calls

LEMMA NoLineType == NoLine \in Line
    BY ClientAssumption DEF NoLine, Line, Ages

-----------------------------------------------------------------------------
\* A step of the client keeps its state well-typed, and the call of the same node.
LEMMA ClientTypeStep ==
    ASSUME TypeOK, CallInCycle, pc = "analyse", ClientNext
    PROVE  ClientTypeOK' /\ call'.node = call.node
<1> DEFINE n == call.node
<1>0. /\ n \in Nodes /\ call \in Calls /\ cache \in [Nodes -> Line] /\ faults \in 0..MaxFaults
      /\ call.level \in Levels /\ call.predicted \in Ages /\ call.age \in Ages
      /\ cache[n].level \in Levels /\ cache[n].predicted \in Ages
    BY DEF TypeOK, ClientTypeOK, CallInCycle, Calls, Line
<1>1. 0 \in Ages /\ "done" \in Stages /\ "forecast" \in Stages /\ "answered" \in Stages
    BY ClientAssumption DEF Ages, Stages
<1>2. CASE UseRecommendations
  <2>1. PICK a \in Answers : Return(a, call.age)
      BY <1>2 DEF UseRecommendations
  <2>2. a \in Seq(Types)
      BY ClientAssumption DEF Types
  <2> QED
      BY <1>0, <1>1, <1>2, <2>1, <2>2, CallType
         DEF UseRecommendations, Return, ClientTypeOK, Call
<1>3. CASE UseCache
    BY <1>0, <1>1, <1>3, CallType, RecommendedType DEF UseCache, Return, ClientTypeOK, Call
<1>4. CASE AskForecast
    BY <1>0, <1>1, <1>4 DEF AskForecast, ClientTypeOK, Calls
<1>5. CASE Predict
    BY <1>0, <1>1, <1>5 DEF Predict, ClientTypeOK, Calls
<1>6. CASE UseForecast
  <2>1. [present |-> TRUE, level |-> call.level, fetched |-> 0, predicted |-> call.predicted]
          \in Line
      BY <1>0, <1>1 DEF Line
  <2>2. cache' \in [Nodes -> Line]
      BY <1>0, <1>6, <2>1 DEF UseForecast
  <2> QED
      BY <1>0, <1>1, <1>6, <2>2, CallType, RecommendedType
         DEF UseForecast, Return, ClientTypeOK, Call
<1>7. CASE ForecastFails
  <2>1. <<>> \in Seq(Types)
      OBVIOUS
  <2>2. faults' \in 0..MaxFaults
      BY <1>0, <1>7, ClientAssumption DEF ForecastFails, Fault
  <2> QED
      BY <1>0, <1>1, <1>7, <2>1, <2>2, CallType DEF ForecastFails, ClientTypeOK, Call
<1> QED
    BY <1>2, <1>3, <1>4, <1>5, <1>6, <1>7 DEF ClientNext

\* Time passing keeps the client well-typed.
LEMMA TickTypes ==
    ASSUME ClientTypeOK, ClientTick
    PROVE  cache' \in [Nodes -> Line] /\ call' \in Calls
<1>1. ASSUME NEW l \in Line
      PROVE  [l EXCEPT !.fetched = Older(l.fetched), !.predicted = Older(l.predicted)] \in Line
  <2>1. Older(l.fetched) \in Ages /\ Older(l.predicted) \in Ages
      BY OlderAges DEF Line
  <2> QED
      BY <2>1 DEF Line
<1>2. cache' \in [Nodes -> Line]
    BY <1>1 DEF ClientTypeOK, ClientTick
<1>3. ASSUME NEW c \in Calls, NEW a \in Ages, NEW p \in Ages
      PROVE  [c EXCEPT !.age = a, !.predicted = p] \in Calls
    BY DEF Calls
<1>4. call.age \in Ages /\ call.predicted \in Ages
    BY DEF ClientTypeOK, Calls
<1>5. /\ (IF Pending THEN Older(call.age) ELSE call.age) \in Ages
      /\ (IF call.stage = "answered" THEN Older(call.predicted) ELSE call.predicted) \in Ages
    BY <1>4, OlderAges
<1> QED
    BY <1>2, <1>3, <1>5 DEF ClientTypeOK, ClientTick

\* Every step keeps the state well-typed: a list of recommendations is never read past
\* its end.
LEMMA TypeStep == TypeOK /\ CallInCycle /\ [Next]_vars => TypeOK'
<1> SUFFICES ASSUME TypeOK, CallInCycle, [Next]_vars PROVE TypeOK'
    OBVIOUS
<1> USE DEF TypeOK
<1>0. /\ 0 \in Ages /\ <<>> \in Seq(Types) /\ NoWork \in [deployment : BOOLEAN, pod : BOOLEAN]
      /\ {"stopped", "waiting", "next", "analyse", "lookup", "check", "create", "record"} = Steps
      /\ \A r \in Seq(Types) : r # <<>> => Tail(r) \in Seq(Types)
    BY ClientAssumption DEF Ages, NoWork, Steps
<1>a. 0 \in 0..(CheckInterval - 1)
    BY GeneratorAssumption
<1>1. ASSUME Fault PROVE faults' \in 0..MaxFaults
    BY <1>1, ClientAssumption DEF Fault, ClientTypeOK
<1>2. ASSUME RunPolicyGeneration
      PROVE  /\ pc' \in {"next", "waiting"} /\ todo' \subseteq Nodes /\ recs' \in Seq(Types)
             /\ work' \in [deployment : BOOLEAN, pod : BOOLEAN] /\ faults' \in 0..MaxFaults
    BY <1>0, <1>1, <1>2 DEF RunPolicyGeneration, Rest, ClientTypeOK
<1>3. CASE Start
    BY <1>0, <1>a, <1>2, <1>3 DEF Start, clientVars, memoryVars, crVars, ClientTypeOK
<1>4. CASE OnTick
    BY <1>0, <1>2, <1>4 DEF OnTick, clientVars, memoryVars, crVars, ClientTypeOK
<1>5. CASE AnalyseNode
  <2>1. PICK n \in todo : Ask(n)
      BY <1>5 DEF AnalyseNode
  <2>2. n \in Nodes \cup {NoNode} /\ "recommendations" \in Stages
      BY DEF Stages
  <2>3. call' \in Calls
      BY <1>0, <2>1, <2>2, CallType DEF Ask
  <2> QED
      BY <1>0, <1>5, <2>3 DEF AnalyseNode, ClientTypeOK, memoryVars, clockVars, crVars
<1>6. CASE Analyse
    BY <1>6, ClientTypeStep DEF Analyse, cycleVars, memoryVars, clockVars, crVars
<1>7. CASE Analysed
  <2>1. call' \in Calls /\ recs' \in Seq(Types)
    <3>1. call.node \in Nodes \cup {NoNode} /\ call.recs \in Seq(Types) /\ "idle" \in Stages
        BY DEF ClientTypeOK, Calls, Stages
    <3> QED
        BY <1>0, <1>7, <3>1, CallType DEF Analysed
  <2> QED
      BY <1>0, <1>7, <2>1 DEF Analysed, ClientTypeOK, memoryVars, clockVars, crVars
<1>8. CASE Lookup
  <2>1. \A list \in PodLists :
          FindTargetWorkload(list) \in [deployment : BOOLEAN, pod : BOOLEAN]
      BY DEF FindTargetWorkload
  <2>2. work' \in [deployment : BOOLEAN, pod : BOOLEAN] /\ faults' \in 0..MaxFaults
      BY <1>0, <1>1, <1>8, <2>1 DEF Lookup, ClientTypeOK
  <2> QED
      BY <1>0, <1>8, <2>2 DEF Lookup, ClientTypeOK, clientVars, memoryVars, clockVars, crVars
<1>9. CASE Check
    BY <1>0, <1>9 DEF Check, ClientTypeOK, clientVars, memoryVars, clockVars, crVars
<1>10. CASE Create
  <2>1. made' \in [Keys -> Ages] /\ early' \in BOOLEAN
      BY <1>0, <1>10 DEF Create, NewPolicy, crVars
  <2>2. pc' \in {"record", "check"} /\ (pc' = "record" => recs' = recs)
      BY <1>10 DEF Create
  <2>3. recs' \in Seq(Types) /\ faults' \in 0..MaxFaults
      BY <1>0, <1>1, <1>10 DEF Create, ClientTypeOK
  <2> QED
      BY <1>0, <1>10, <2>1, <2>2, <2>3 DEF Create, ClientTypeOK, clientVars, memoryVars, clockVars
<1>11. CASE RecordPolicy
  <2>1. Head(recs) \in Types /\ call.node \in Nodes
      BY <1>11 DEF RecordPolicy, CallInCycle, Busy
  <2>2. Key \in Keys
      BY <2>1 DEF Key, Keys
  <2> QED
      BY <1>0, <1>11, <2>2 DEF RecordPolicy, ClientTypeOK, clientVars, clockVars, crVars
<1>12. CASE CleanupOldPolicyRecords
  <2>1. call' \in Calls
      BY <1>0, <1>12, CallType DEF CleanupOldPolicyRecords, NoCall, Stages
  <2> QED
      BY <1>0, <1>12, <2>1 DEF CleanupOldPolicyRecords, Rest, ClientTypeOK, clockVars, crVars
<1>13. CASE Tick
  <2>1. cache' \in [Nodes -> Line] /\ call' \in Calls
      BY <1>13, TickTypes DEF Tick
  <2>2. recordAge' \in [Keys -> Ages] /\ made' \in [Keys -> Ages]
      BY <1>13, OlderAges DEF Tick
  <2>3. ticked' \in BOOLEAN /\ tickAge' \in 0..(CheckInterval - 1)
    <3>1. CASE pc = "stopped"
        BY <1>13, <3>1 DEF Tick, clockVars
    <3>2. CASE pc # "stopped" /\ tickAge + 1 = CheckInterval
        BY <1>13, <3>2, GeneratorAssumption DEF Tick
    <3>3. CASE pc # "stopped" /\ tickAge + 1 # CheckInterval
      <4>1. ticked' = ticked /\ tickAge' = tickAge + 1
          BY <1>13, <3>3 DEF Tick
      <4> QED
          BY <3>3, <4>1, GeneratorAssumption
    <3> QED
        BY <3>1, <3>2, <3>3
  <2> QED
      BY <1>13, <2>1, <2>2, <2>3 DEF Tick, ClientTypeOK, cycleVars
<1>14. CASE Crash
  <2>1. cache' \in [Nodes -> Line] /\ call' \in Calls
      BY <1>0, <1>14, CallType, NoLineType DEF Crash, ClientCrash, NoCall, Stages
  <2> QED
      BY <1>0, <1>a, <1>1, <1>14, <2>1 DEF Crash, Rest, ClientTypeOK, crVars
<1>15. CASE UNCHANGED vars
    BY <1>15 DEF vars, clientVars, cycleVars, memoryVars, clockVars, crVars, ClientTypeOK
<1> QED
    BY <1>3, <1>4, <1>5, <1>6, <1>7, <1>8, <1>9, <1>10, <1>11, <1>12, <1>13, <1>14, <1>15
       DEF Next, Work

\* The client is at work only inside an analysis, and on its node.
LEMMA CallStep == TypeOK /\ CallInCycle /\ [Next]_vars => CallInCycle'
<1> SUFFICES ASSUME TypeOK, CallInCycle, [Next]_vars PROVE CallInCycle'
    OBVIOUS
<1> USE DEF CallInCycle, Busy
<1>1. CASE Start
    BY <1>1 DEF Start, RunPolicyGeneration, clientVars
<1>2. CASE OnTick
    BY <1>2 DEF OnTick, RunPolicyGeneration, clientVars
<1>3. CASE AnalyseNode
  <2>1. PICK n \in todo : Ask(n)
      BY <1>3 DEF AnalyseNode
  <2> QED
      BY <1>3, <2>1 DEF AnalyseNode, Ask, Call, TypeOK
<1>4. CASE Analyse
    BY <1>4, ClientTypeStep DEF Analyse, cycleVars
<1>5. CASE Analysed
    BY <1>5 DEF Analysed, Call
<1>6. CASE Lookup
    BY <1>6 DEF Lookup, clientVars
<1>7. CASE Check
    BY <1>7 DEF Check, clientVars
<1>8. CASE Create
    BY <1>8 DEF Create, clientVars
<1>9. CASE RecordPolicy
    BY <1>9 DEF RecordPolicy, clientVars
<1>10. CASE CleanupOldPolicyRecords
    BY <1>10 DEF CleanupOldPolicyRecords, NoCall, Call
<1>11. CASE Tick
  <2>1. call'.node = call.node /\ call'.stage = call.stage
      BY <1>11 DEF Tick, ClientTick, TypeOK, ClientTypeOK, Calls
  <2> QED
      BY <1>11, <2>1 DEF Tick, cycleVars
<1>12. CASE Crash
    BY <1>12 DEF Crash, ClientCrash, NoCall, Call
<1>13. CASE UNCHANGED vars
    BY <1>13 DEF vars, clientVars, cycleVars
<1> QED
    BY <1>1, <1>2, <1>3, <1>4, <1>5, <1>6, <1>7, <1>8, <1>9, <1>10, <1>11, <1>12, <1>13
       DEF Next, Work

\* Faults are only counted up, so a step without one starts without one.
LEMMA FaultsGrow ==
    ASSUME TypeOK, [Next]_vars
    PROVE  faults' = 0 => faults = 0
<1>1. faults' = faults \/ faults' = faults + 1
  <2> USE DEF Fault, RunPolicyGeneration
  <2>1. CASE Analyse
      BY <2>1 DEF Analyse, ClientNext, UseRecommendations, UseCache, AskForecast, Predict,
                  UseForecast, ForecastFails
  <2>2. CASE UNCHANGED vars
      BY <2>2 DEF vars
  <2> QED
      BY <2>1, <2>2 DEF Next, Work, Start, OnTick, AnalyseNode, Analysed, Lookup, Check, Create,
                        RecordPolicy, CleanupOldPolicyRecords, Tick, Crash
<1> QED
    BY <1>1 DEF TypeOK, ClientTypeOK

\* A young CR stays remembered: by its record until it is no longer young, and from
\* its creation to its record by the place the loop is at.
LEMMA RememberStep ==
    TypeOK /\ CallInCycle /\ YoungIsRemembered /\ [Next]_vars => YoungIsRemembered'
<1> SUFFICES ASSUME TypeOK, CallInCycle, YoungIsRemembered, [Next]_vars,
                    CheckDuplicates, faults' = 0
             PROVE  /\ ~early'
                    /\ \A k \in Keys : made'[k] < PolicyTTL =>
                         \/ k \in recorded' /\ recordAge'[k] <= made'[k]
                         \/ pc' = "record" /\ k = Key'
                    /\ pc' = "create" => made'[Key'] >= PolicyTTL
    BY DEF YoungIsRemembered
<1>0. /\ ~early
      /\ \A k \in Keys : made[k] < PolicyTTL =>
           \/ k \in recorded /\ recordAge[k] <= made[k]
           \/ pc = "record" /\ k = Key
      /\ pc = "create" => made[Key] >= PolicyTTL
      /\ faults = 0
    BY FaultsGrow DEF YoungIsRemembered
<1>a. ~Fault
    BY <1>0 DEF Fault
<1>b. ASSUME pc = "create" \/ pc = "record" \/ pc = "check", recs # <<>>
      PROVE  Key \in Keys
  <2>1. Head(recs) \in Types /\ call.node \in Nodes
      BY <1>b DEF TypeOK, CallInCycle, Busy
  <2> QED
      BY <2>1 DEF Key, Keys
<1>c. ASSUME UNCHANGED <<made, recorded, recordAge, early>>, pc # "record",
             pc' \notin {"create", "record"}
      PROVE  /\ ~early'
             /\ \A k \in Keys : made'[k] < PolicyTTL => k \in recorded' /\ recordAge'[k] <= made'[k]
             /\ pc' # "create"
    BY <1>0, <1>c
<1>1. CASE Start \/ OnTick
    BY <1>1, <1>a, <1>c DEF Start, OnTick, RunPolicyGeneration, memoryVars, crVars
<1>2. CASE AnalyseNode \/ Analysed \/ Lookup
    BY <1>2, <1>c DEF AnalyseNode, Analysed, Lookup, memoryVars, crVars
<1>3. CASE Analyse
    BY <1>3, <1>c DEF Analyse, cycleVars, memoryVars, crVars
<1>4. CASE Check
  <2>1. UNCHANGED <<made, recorded, recordAge, early>> /\ pc = "check"
      BY <1>4 DEF Check, memoryVars, crVars
  <2>2. CASE pc' = "create"
    <3>1. recs # <<>> /\ ~IsDuplicatePolicy(Key) /\ recs' = recs /\ call' = call
        BY <1>4, <2>1, <2>2 DEF Check, clientVars
    <3>2. Key' = Key /\ Key \in Keys
        BY <1>b, <2>1, <3>1 DEF Key
    <3>3. recordAge[Key] \in Ages /\ made[Key] \in Ages
        BY <3>2 DEF TypeOK
    <3>4. made[Key] >= PolicyTTL
        BY <1>0, <2>1, <3>1, <3>2, <3>3, ClientAssumption, GeneratorAssumption
           DEF IsDuplicatePolicy, Ages
    <3> QED
        BY <1>0, <2>1, <2>2, <3>2, <3>4
  <2>3. CASE pc' # "create"
    <3>1. pc' \notin {"create", "record"}
        BY <1>4, <2>1, <2>3 DEF Check
    <3> QED
        BY <1>c, <2>1, <3>1
  <2> QED
      BY <2>2, <2>3
<1>5. CASE Create
  <2>1. /\ NewPolicy /\ pc = "create" /\ pc' = "record" /\ recs' = recs /\ call' = call
        /\ UNCHANGED <<recorded, recordAge>>
      BY <1>5, <1>a DEF Create, memoryVars, clientVars
  <2>2. Key' = Key /\ Key \in Keys
    <3>1. recs # <<>>
        BY <2>1 DEF TypeOK
    <3> QED
        BY <1>b, <2>1, <3>1 DEF Key
  <2>3. made[Key] >= PolicyTTL /\ made[Key] \in Ages
      BY <1>0, <2>1, <2>2 DEF TypeOK
  <2>4. ~early'
    <3>1. ~(made[Key] < PolicyTTL)
        BY <2>3, ClientAssumption, GeneratorAssumption DEF Ages
    <3> QED
        BY <1>0, <2>1, <3>1 DEF NewPolicy
  <2>5. \A k \in Keys : k # Key => made'[k] = made[k]
      BY <2>1, <2>2 DEF NewPolicy, TypeOK
  <2> QED
      BY <1>0, <2>1, <2>2, <2>4, <2>5
<1>6. CASE RecordPolicy
  <2>1. /\ pc = "record" /\ pc' = "check" /\ UNCHANGED <<made, early>>
        /\ recorded' = recorded \cup {Key} /\ recordAge' = [recordAge EXCEPT ![Key] = 0]
      BY <1>6 DEF RecordPolicy, crVars
  <2>2. Key \in Keys
    <3>1. recs # <<>>
        BY <2>1 DEF TypeOK
    <3> QED
        BY <1>b, <2>1, <3>1
  <2>3. ASSUME NEW k \in Keys, made'[k] < PolicyTTL
        PROVE  k \in recorded' /\ recordAge'[k] <= made'[k]
    <3>1. made[k] \in Ages /\ made'[k] = made[k]
        BY <2>1 DEF TypeOK
    <3>2. CASE k = Key
        BY <2>1, <2>2, <3>1, <3>2, ClientAssumption DEF TypeOK, Ages
    <3>3. CASE k # Key
        BY <1>0, <2>1, <2>3, <3>1, <3>3 DEF TypeOK
    <3> QED
        BY <3>2, <3>3
  <2> QED
      BY <1>0, <2>1, <2>3
<1>7. CASE CleanupOldPolicyRecords
  <2>1. /\ pc = "next" /\ pc' = "waiting" /\ UNCHANGED <<made, early>>
        /\ recorded' = {k \in recorded : recordAge[k] <= PolicyTTL}
        /\ recordAge' = [k \in Keys |-> IF k \in recorded' THEN recordAge[k] ELSE 0]
      BY <1>7 DEF CleanupOldPolicyRecords, crVars
  <2>2. ASSUME NEW k \in Keys, made'[k] < PolicyTTL
        PROVE  k \in recorded' /\ recordAge'[k] <= made'[k]
    <3>1. made[k] \in Ages /\ recordAge[k] \in Ages /\ made'[k] = made[k]
        BY <2>1 DEF TypeOK
    <3>2. k \in recorded /\ recordAge[k] <= made[k]
        BY <1>0, <2>1, <2>2
    <3>3. k \in recorded'
        BY <2>1, <2>2, <3>1, <3>2, ClientAssumption, GeneratorAssumption DEF Ages
    <3> QED
        BY <2>1, <3>1, <3>2, <3>3
  <2> QED
      BY <1>0, <2>1, <2>2
<1>8. CASE Tick
  <2>1. /\ pc' = pc /\ recs' = recs /\ recorded' = recorded /\ early' = early
        /\ recordAge' = [k \in Keys |-> IF k \in recorded THEN Older(recordAge[k]) ELSE recordAge[k]]
        /\ made' = [k \in Keys |-> Older(made[k])]
      BY <1>8 DEF Tick, cycleVars
  <2>2. Key' = Key
    <3>1. call'.node = call.node
        BY <1>8 DEF Tick, ClientTick, TypeOK, ClientTypeOK, Calls
    <3> QED
        BY <2>1, <3>1 DEF Key
  <2>3. ASSUME NEW k \in Keys
        PROVE  /\ made'[k] >= made[k] /\ made[k] \in Ages /\ made'[k] \in Ages
               /\ k \in recorded /\ recordAge[k] <= made[k] => recordAge'[k] <= made'[k]
    <3>1. made[k] \in Ages /\ recordAge[k] \in Ages
        BY DEF TypeOK
    <3> QED
        BY <2>1, <3>1, OlderAges
  <2>4. \A k \in Keys : made'[k] < PolicyTTL => made[k] < PolicyTTL
      BY <2>3, ClientAssumption, GeneratorAssumption DEF Ages
  <2>5. pc' = "create" => made'[Key'] >= PolicyTTL
    <3> SUFFICES ASSUME pc' = "create" PROVE made'[Key'] >= PolicyTTL
        OBVIOUS
    <3>0. recs # <<>>
        BY <2>1 DEF TypeOK
    <3>1. Key \in Keys /\ made[Key] >= PolicyTTL
        BY <1>0, <1>b, <2>1, <3>0
    <3> QED
        BY <2>2, <2>3, <3>1, ClientAssumption, GeneratorAssumption DEF Ages
  <2> QED
      BY <1>0, <2>1, <2>2, <2>3, <2>4, <2>5
<1>9. CASE Crash
    BY <1>9, <1>a DEF Crash
<1>10. CASE UNCHANGED vars
  <2>1. UNCHANGED <<pc, recs, call, made, recorded, recordAge, early>>
      BY <1>10 DEF vars, clientVars, cycleVars, memoryVars, crVars
  <2>2. Key' = Key
      BY <2>1 DEF Key
  <2> QED
      BY <1>0, <2>1, <2>2
<1> QED
    BY <1>1, <1>2, <1>3, <1>4, <1>5, <1>6, <1>7, <1>8, <1>9, <1>10 DEF Next, Work

\* A prediction is at most one request older than its cache line, and what a call
\* returns is younger than the line may be and the request may take.
LEMMA FreshStep ==
    TypeOK /\ CallInCycle /\ PredictionAges /\ ForecastIsFresh /\ [Next]_vars
      => PredictionAges' /\ ForecastIsFresh'
<1> SUFFICES ASSUME TypeOK, CallInCycle, PredictionAges, ForecastIsFresh, [Next]_vars
             PROVE  PredictionAges' /\ ForecastIsFresh'
    OBVIOUS
<1> USE DEF PredictionAges, ForecastIsFresh, Pending
<1>0. /\ cache \in [Nodes -> Line] /\ call \in Calls /\ MaxAge \in Nat
      /\ CacheTTL \in Nat \ {0} /\ HttpTimeout \in Nat /\ MaxAge >= CacheTTL + HttpTimeout
    BY ClientAssumption DEF TypeOK, ClientTypeOK
<1>1. call.age \in Ages /\ call.predicted \in Ages
    BY <1>0 DEF Calls
<1>2. ASSUME NEW n \in Nodes
      PROVE  cache[n] \in Line /\ cache[n].fetched \in Ages /\ cache[n].predicted \in Ages
    BY <1>0 DEF Line
<1>3. ASSUME cache' = cache, call'.stage = "idle" \/ call' = call
      PROVE  PredictionAges' /\ ForecastIsFresh'
    BY <1>3
<1>4. CASE Start \/ OnTick \/ Lookup \/ Check \/ Create \/ RecordPolicy
    BY <1>3, <1>4 DEF Start, OnTick, Lookup, Check, Create, RecordPolicy, clientVars
<1>5. CASE AnalyseNode
  <2>1. PICK n \in todo : Ask(n)
      BY <1>5 DEF AnalyseNode
  <2>2. cache' = cache
      BY <1>5 DEF AnalyseNode
  <2> QED
      BY <1>0, <2>1, <2>2 DEF Ask, Call
<1>6. CASE Analysed \/ CleanupOldPolicyRecords
    BY <1>3, <1>6 DEF Analysed, CleanupOldPolicyRecords, NoCall, Call
<1>7. CASE Analyse
  <2> DEFINE n == call.node
  <2>1. n \in Nodes
      BY <1>7 DEF Analyse, CallInCycle
  <2>2. CASE UseRecommendations
    <3>1. call'.stage = "done" /\ call'.predicted = call.age /\ cache' = cache
        BY <2>2 DEF UseRecommendations, Return, Call
    <3>2. call.age <= HttpTimeout
        BY <2>2 DEF UseRecommendations
    <3> QED
        BY <1>0, <1>1, <3>1, <3>2 DEF Ages
  <2>3. CASE UseCache
    <3>1. /\ call'.stage = "done" /\ call'.predicted = cache[n].predicted /\ cache' = cache
          /\ cache[n].present /\ cache[n].fetched < CacheTTL
        BY <2>3 DEF UseCache, Fresh, Return, Call
    <3>2. cache[n].predicted < CacheTTL + HttpTimeout
        BY <1>0, <1>2, <2>1, <3>1 DEF Ages
    <3> QED
        BY <3>1, <3>2
  <2>4. CASE AskForecast
    <3>1. call'.stage = "forecast" /\ call'.age = 0 /\ cache' = cache
        BY <1>0, <2>4 DEF AskForecast, Calls
    <3> QED
        BY <1>0, <3>1
  <2>5. CASE Predict
    <3>1. call'.stage = "answered" /\ call'.predicted = 0 /\ call'.age = call.age /\ cache' = cache
        BY <1>0, <2>5 DEF Predict, Calls
    <3>2. call.age <= HttpTimeout
        BY <2>5 DEF Predict
    <3> QED
        BY <1>0, <1>1, <3>1, <3>2 DEF Ages
  <2>6. CASE UseForecast
    <3>1. /\ call'.stage = "done" /\ call'.predicted = call.predicted
          /\ cache' = [cache EXCEPT ![n] =
                         [present |-> TRUE, level |-> call.level, fetched |-> 0,
                          predicted |-> call.predicted]]
        BY <2>6 DEF UseForecast, Return, Call
    <3>2. call.predicted <= HttpTimeout
        BY <1>0, <1>1, <2>6 DEF UseForecast, Ages
    <3>3. cache'[n].predicted = call.predicted /\ cache'[n].fetched = 0
        BY <1>0, <2>1, <3>1
    <3>4. \A m \in Nodes : m # n => cache'[m] = cache[m]
        BY <1>0, <3>1
    <3>5. call.predicted < CacheTTL + HttpTimeout /\ call.predicted <= 0 + HttpTimeout
        BY <1>0, <1>1, <3>2 DEF Ages
    <3> QED
        BY <3>1, <3>3, <3>4, <3>5
  <2>7. CASE ForecastFails
    <3>1. call'.stage = "done" /\ ~call'.ok /\ cache' = cache
        BY <2>7 DEF ForecastFails, Call
    <3> QED
        BY <3>1
  <2> QED
      BY <1>7, <2>2, <2>3, <2>4, <2>5, <2>6, <2>7 DEF Analyse, ClientNext
<1>8. CASE Tick
  <2>1. /\ call'.stage = call.stage /\ call'.ok = call.ok
        /\ call'.age = IF Pending THEN Older(call.age) ELSE call.age
        /\ call'.predicted = IF call.stage = "answered" THEN Older(call.predicted)
                                                       ELSE call.predicted
        /\ Pending => call.age < HttpTimeout
      BY <1>0, <1>8 DEF Tick, ClientTick, Calls
  <2>2. Pending => Older(call.age) <= HttpTimeout
      BY <1>0, <1>1, <2>1, OlderAges DEF Ages
  <2>3. call.stage = "answered" => Older(call.predicted) <= Older(call.age)
      BY <1>1, OlderAges
  <2>4. ASSUME NEW n \in Nodes, cache'[n].present
        PROVE  cache'[n].predicted <= cache'[n].fetched + HttpTimeout
    <3>1. cache'[n] = IF cache[n].present
                      THEN [cache[n] EXCEPT !.fetched = Older(cache[n].fetched),
                                            !.predicted = Older(cache[n].predicted)]
                      ELSE cache[n]
        BY <1>8 DEF Tick, ClientTick
    <3>2. cache[n].present
        BY <2>4, <3>1
    <3>3. \A l \in Line, f \in Ages, p \in Ages :
            /\ [l EXCEPT !.fetched = f, !.predicted = p].fetched = f
            /\ [l EXCEPT !.fetched = f, !.predicted = p].predicted = p
        BY DEF Line
    <3>4. Older(cache[n].fetched) \in Ages /\ Older(cache[n].predicted) \in Ages
        BY <1>2, OlderAges
    <3>5. /\ cache'[n].fetched = Older(cache[n].fetched)
          /\ cache'[n].predicted = Older(cache[n].predicted)
        BY <1>2, <3>1, <3>2, <3>3, <3>4
    <3> QED
        BY <1>2, <3>2, <3>5, OlderAges
  <2> QED
      BY <2>1, <2>2, <2>3, <2>4
<1>9. CASE Crash
    BY <1>9 DEF Crash, ClientCrash, NoLine, NoCall, Call
<1>10. CASE UNCHANGED vars
    BY <1>3, <1>10 DEF vars, clientVars
<1> QED
    BY <1>4, <1>5, <1>6, <1>7, <1>8, <1>9, <1>10 DEF Next, Work

\* The initial states.
LEMMA Initially == Init => IInv
<1> SUFFICES ASSUME Init PROVE IInv
    OBVIOUS
<1>1. /\ 0 \in Ages /\ MaxAge \in Ages /\ 0 \in 0..(CheckInterval - 1) /\ 0 \in 0..MaxFaults
      /\ <<>> \in Seq(Types) /\ NoWork \in [deployment : BOOLEAN, pod : BOOLEAN]
      /\ "stopped" \in Steps /\ "idle" \in Stages
    BY ClientAssumption, GeneratorAssumption DEF Ages, NoWork, Steps, Stages
<1>2. TypeOK
    BY <1>1, CallType, NoLineType DEF Init, ClientInit, NoCall, TypeOK, ClientTypeOK
<1>3. CallInCycle
    BY DEF Init, ClientInit, NoCall, Call, CallInCycle, Busy
<1>4. YoungIsRemembered
    BY ClientAssumption, GeneratorAssumption DEF Init, YoungIsRemembered
<1>5. PredictionAges /\ ForecastIsFresh
    BY DEF Init, ClientInit, NoCall, NoLine, Call, PredictionAges, ForecastIsFresh, Pending
<1> QED
    BY <1>2, <1>3, <1>4, <1>5 DEF IInv

\* The inductive invariant: types, the place of the call, what is remembered, ages.
THEOREM GeneratorInvariant == Spec => []IInv
<1>1. IInv /\ [Next]_vars => IInv'
    BY TypeStep, CallStep, RememberStep, FreshStep DEF IInv
<1> QED
    BY Initially, <1>1, PTL DEF Spec

\* Every state of the generator is well-typed: in particular no list is read past its
\* end, and only an analysis has a call under way.
THEOREM GeneratorTypeCorrect == Spec => []TypeOK
<1>1. IInv => TypeOK
    BY DEF IInv
<1> QED
    BY <1>1, GeneratorInvariant, PTL

\* Without a failed call or a restart, two policies of the same node and type are at
\* least PolicyTTL apart, however long a cycle, an analysis or a Create takes.
THEOREM PoliciesAreApart == Spec => []OnePolicyPerTTL
<1>1. IInv => OnePolicyPerTTL
    BY DEF IInv, YoungIsRemembered, OnePolicyPerTTL
<1> QED
    BY <1>1, GeneratorInvariant, PTL

\* No prediction that is acted upon is older than a cache line may get plus the time of
\* a request, however often and whenever the cache is used.
THEOREM ForecastsAreFresh == Spec => []ForecastIsFresh
<1>1. IInv => ForecastIsFresh
    BY DEF IInv
<1> QED
    BY <1>1, GeneratorInvariant, PTL
=============================================================================
