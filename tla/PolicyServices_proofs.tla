------------------------ MODULE PolicyServices_proofs ------------------------
(***************************************************************************)
(* The library services for any pods, nodes, requests, reports and times.  *)
(* How old the signature behind a cached policy is follows from when it    *)
(* was read (at most a request before the policy was cached) and how long  *)
(* the policy has been cached, which is less than the TTL for one that is  *)
(* served. The rules leave the gaps that their comparisons leave.          *)
(***************************************************************************)
EXTENDS PolicyServices, FiniteSetTheorems, TLAPS

\* How old a signature may be, on its way to the cache and in it.
ReadAges ==
    /\ \A c \in Callers : calls[c].at = "read" => calls[c].read <= CallTime
    /\ \A p \in Pods : cache[p].age < CacheTTL => cache[p].read <= cache[p].age + CallTime

IInv == TypeOK /\ ReadAges /\ ServedIsFresh

CallTypes == [at : Ats, pod : Pods, sig : Signatures \cup {Unknown},
              node : Nodes \cup {Unknown}, migrate : BOOLEAN, read : Ages]

-----------------------------------------------------------------------------
\* Ages, entries and requests that are written are of their types.
LEMMA EntryType ==
  /\ 0 \in Ages /\ NoEntry \in Entries /\ NoEntry.age = CacheTTL
  /\ \A r \in Ages : Older(r) \in Ages /\ Older(r) <= r + 1
  /\ \A a \in 0..CacheTTL, r \in Ages : [age |-> a, read |-> r] \in Entries
  BY ServicesAssumption DEF Ages, Entries, NoEntry, Older

LEMMA RequestType ==
  /\ \A at \in Ats, p \in Pods : /\ Request(at, p) \in CallTypes
                                 /\ Request(at, p).at = at /\ Request(at, p).read = 0
  /\ Idle \in CallTypes /\ Idle.at = "idle"
<1>1. \A at \in Ats, p \in Pods : /\ Request(at, p) \in CallTypes
                                  /\ Request(at, p).at = at /\ Request(at, p).read = 0
  BY EntryType DEF Request, Call, CallTypes
<1>2. "idle" \in Ats /\ (CHOOSE p \in Pods : TRUE) \in Pods
  BY ServicesAssumption DEF Ats
<1> QED
  BY <1>1, <1>2 DEF Idle

\* Nothing is reported, cached or asked at first.
LEMMA Initially == Init => IInv
<1> SUFFICES ASSUME Init PROVE IInv
  OBVIOUS
<1>1. 1 \in 1..(MaxMigrations + 1)
  BY ServicesAssumption
<1>2. TypeOK
  BY <1>1, EntryType, RequestType DEF Init, TypeOK, CallTypes
<1>3. \A c \in Callers : calls[c].at = "idle"
  BY RequestType DEF Init
<1>4. \A p \in Pods : ~(cache[p].age < CacheTTL)
  BY EntryType, ServicesAssumption DEF Init
<1> QED
  BY <1>2, <1>3, <1>4 DEF IInv, ReadAges, ServedIsFresh

\* A request goes on, and nothing else changes but, perhaps, what is handed out.
LEMMA CallStep ==
  ASSUME IInv, NEW c \in Callers, NEW x \in CallTypes, Becomes(c, x), UNCHANGED <<store, cache>>,
         active' \subseteq 1..MaxMigrations, nextId' \in 1..(MaxMigrations + 1),
         x.at = "read" => x.read <= CallTime,
         x.at = "cached" => x.read < CacheTTL + CallTime
  PROVE  IInv'
<1>1. calls \in [Callers -> CallTypes]
  BY DEF IInv, TypeOK, CallTypes
<1>2. calls' \in [Callers -> CallTypes]
  BY <1>1 DEF Becomes
<1>3. \A d \in Callers : calls'[d] = IF d = c THEN x ELSE calls[d]
  BY <1>1 DEF Becomes
<1>4. TypeOK'
  BY <1>2 DEF IInv, TypeOK, CallTypes, store
<1>5. ReadAges' /\ ServedIsFresh'
  BY <1>3 DEF IInv, ReadAges, ServedIsFresh, store
<1> QED
  BY <1>4, <1>5 DEF IInv

\* Reports and sweeps change the store only.
LEMMA StorePreserves ==
  IInv /\ (ReportWorkloadSignature \/ ReportClusterInsight \/ Cleanup) => IInv'
<1> SUFFICES ASSUME IInv, ReportWorkloadSignature \/ ReportClusterInsight \/ Cleanup
             PROVE  IInv'
  OBVIOUS
<1>1. TypeOK
  BY DEF IInv
<1>2. UNCHANGED <<cache, calls, orch>>
  BY DEF ReportWorkloadSignature, ReportClusterInsight, Cleanup
<1>3. signatures' \in [Pods -> Signatures \cup {Unknown}]
  BY <1>1 DEF TypeOK, ReportWorkloadSignature, ReportClusterInsight, Cleanup
<1>4. insights' \in [Nodes -> Insights \cup {Unknown}]
  BY <1>1 DEF TypeOK, ReportWorkloadSignature, ReportClusterInsight, Cleanup
<1> QED
  BY <1>1, <1>2, <1>3, <1>4
     DEF IInv, TypeOK, ReadAges, ServedIsFresh, orch

\* Looking into the cache: what is served rests on a signature that is not too old.
LEMMA LookPreserves ==
  ASSUME IInv, NEW c \in Callers, Hit(c) \/ Miss(c) \/ ReadSignature(c)
  PROVE  IInv'
<1>1. /\ cache \in [Pods -> Entries] /\ calls[c].pod \in Pods
      /\ signatures \in [Pods -> Signatures \cup {Unknown}]
      /\ active \subseteq 1..MaxMigrations /\ nextId \in 1..(MaxMigrations + 1)
  BY DEF IInv, TypeOK
<1>2. UNCHANGED <<store, cache, orch>>
  BY DEF Hit, Miss, ReadSignature
<1>3. CASE Hit(c)
  <2>1. PICK p \in Pods :
          /\ cache[p].age < CacheTTL
          /\ Becomes(c, Call("cached", p, Unknown, Unknown, FALSE, cache[p].read))
    BY <1>3 DEF Hit
  <2> DEFINE x == Call("cached", p, Unknown, Unknown, FALSE, cache[p].read)
  <2>2. cache[p].read \in Ages /\ cache[p].age \in Nat
    BY <1>1 DEF Entries
  <2>3. cache[p].read < CacheTTL + CallTime
    BY <2>1, <2>2, ServicesAssumption DEF IInv, ReadAges, Ages
  <2>4. x \in CallTypes /\ x.at = "cached" /\ x.read = cache[p].read
    BY <2>2 DEF Call, CallTypes, Ats
  <2> HIDE DEF x
  <2> QED
    BY <1>1, <1>2, <2>1, <2>3, <2>4, CallStep DEF orch, x
<1>4. CASE Miss(c)
  <2>1. PICK p \in Pods : Becomes(c, Request("missed", p))
    BY <1>4 DEF Miss
  <2>2. Request("missed", p) \in CallTypes /\ Request("missed", p).at = "missed"
    BY RequestType DEF Ats
  <2> QED
    BY <1>1, <1>2, <2>1, <2>2, CallStep DEF orch
<1>5. CASE ReadSignature(c)
  <2> DEFINE x == Call("read", calls[c].pod, signatures[calls[c].pod], Unknown, FALSE, 0)
  <2>1. x \in CallTypes /\ x.at = "read" /\ x.read = 0
    BY <1>1, EntryType DEF Call, CallTypes, Ats
  <2>2. Becomes(c, x)
    BY <1>5 DEF ReadSignature
  <2> HIDE DEF x
  <2> QED
    BY <1>1, <1>2, <2>1, <2>2, CallStep, ServicesAssumption DEF orch
<1> QED
  BY <1>3, <1>4, <1>5

\* A result report, and the requests for an orchestration policy, up to their last step.
LEMMA OtherCallPreserves ==
  ASSUME IInv, NEW c \in Callers,
         Return(c) \/ ReportResult(c) \/ AskOrchestration(c) \/ Orchestrate(c) \/ HandOut(c)
  PROVE  IInv'
<1>1. /\ calls[c].pod \in Pods /\ signatures \in [Pods -> Signatures \cup {Unknown}]
      /\ active \subseteq 1..MaxMigrations /\ nextId \in 1..(MaxMigrations + 1)
  BY DEF IInv, TypeOK
<1>2. UNCHANGED <<store, cache>>
  BY DEF Return, ReportResult, AskOrchestration, Orchestrate, HandOut
<1>3. PICK x \in CallTypes : Becomes(c, x) /\ x.at \notin {"read", "cached"}
  <2>1. CASE Return(c) \/ HandOut(c)
    BY <2>1, RequestType DEF Return, HandOut, Finish
  <2>2. CASE ReportResult(c)
    BY <2>2, RequestType DEF ReportResult, Ats
  <2>3. CASE AskOrchestration(c)
    <3>1. PICK p \in Pods, n \in Nodes : Becomes(c, Call("asked", p, signatures[p], n, FALSE, 0))
      BY <2>3 DEF AskOrchestration
    <3>2. Call("asked", p, signatures[p], n, FALSE, 0) \in CallTypes
      BY <1>1, EntryType DEF Call, CallTypes, Ats
    <3>3. Call("asked", p, signatures[p], n, FALSE, 0).at = "asked"
      BY DEF Call
    <3> QED
      BY <3>1, <3>2, <3>3
  <2>4. CASE Orchestrate(c)
    <3>1. PICK migrate \in BOOLEAN :
            Becomes(c, Call("decided", calls[c].pod, Unknown, Unknown, migrate, 0))
      BY <2>4 DEF Orchestrate
    <3>2. Call("decided", calls[c].pod, Unknown, Unknown, migrate, 0) \in CallTypes
      BY <1>1, EntryType DEF Call, CallTypes, Ats
    <3>3. Call("decided", calls[c].pod, Unknown, Unknown, migrate, 0).at = "decided"
      BY DEF Call
    <3> QED
      BY <3>1, <3>2, <3>3
  <2> QED
    BY <2>1, <2>2, <2>3, <2>4
<1>4. active' \subseteq 1..MaxMigrations /\ nextId' \in 1..(MaxMigrations + 1)
  <2>1. CASE HandOut(c)
    <3>1. CASE calls[c].migrate /\ nextId <= MaxMigrations
      <4>1. active' = active \cup {nextId} /\ nextId' = nextId + 1
        BY <2>1, <3>1 DEF HandOut
      <4>2. nextId \in 1..MaxMigrations /\ nextId + 1 \in 1..(MaxMigrations + 1)
        BY <1>1, <3>1, ServicesAssumption
      <4> QED
        BY <1>1, <4>1, <4>2
    <3>2. CASE ~(calls[c].migrate /\ nextId <= MaxMigrations)
      BY <1>1, <2>1, <3>2 DEF HandOut, orch
    <3> QED
      BY <3>1, <3>2
  <2>2. CASE ~HandOut(c)
    BY <1>1, <2>2 DEF Return, ReportResult, AskOrchestration, Orchestrate, orch
  <2> QED
    BY <2>1, <2>2
<1> QED
  BY <1>2, <1>3, <1>4, CallStep

\* A policy is cached, or whatever is cached is removed.
LEMMA CachePreserves ==
  ASSUME IInv, NEW c \in Callers, Remember(c) \/ Forget(c)
  PROVE  IInv'
<1> DEFINE pod == calls[c].pod
<1>1. /\ calls \in [Callers -> CallTypes] /\ cache \in [Pods -> Entries]
      /\ pod \in Pods /\ calls[c].read \in Ages
  BY DEF IInv, TypeOK, CallTypes
<1>2. UNCHANGED <<store, orch>> /\ calls' = [calls EXCEPT ![c] = Idle]
  BY DEF Remember, Forget, Finish, Becomes
<1>3. /\ calls' \in [Callers -> CallTypes]
      /\ \A d \in Callers : calls'[d] = IF d = c THEN Idle ELSE calls[d]
  BY <1>1, <1>2, RequestType
<1>4. PICK e \in Entries :
        /\ cache' = [cache EXCEPT ![pod] = e]
        /\ e.age < CacheTTL => e.read <= e.age + CallTime
  <2>1. CASE Remember(c)
    <3> DEFINE e == [age |-> 0, read |-> calls[c].read]
    <3>1. e \in Entries
      BY <1>1, EntryType, ServicesAssumption
    <3>2. e.read <= e.age + CallTime
      BY <2>1, ServicesAssumption DEF Remember, IInv, ReadAges
    <3> QED
      BY <2>1, <3>1, <3>2 DEF Remember
  <2>2. CASE Forget(c)
    <3>1. ~(NoEntry.age < CacheTTL)
      BY EntryType, ServicesAssumption
    <3> QED
      BY <2>2, <3>1, EntryType DEF Forget
  <2> QED
    BY <2>1, <2>2
<1> HIDE DEF pod
<1>5. /\ cache' \in [Pods -> Entries]
      /\ \A p \in Pods : cache'[p] = IF p = pod THEN e ELSE cache[p]
  BY <1>1, <1>4
<1>6. TypeOK'
  BY <1>2, <1>3, <1>5 DEF IInv, TypeOK, CallTypes, store, orch
<1>7. ReadAges' /\ ServedIsFresh'
  BY <1>3, <1>4, <1>5, RequestType DEF IInv, ReadAges, ServedIsFresh
<1> QED
  BY <1>6, <1>7 DEF IInv

\* A migration is reported as finished.
LEMMA UpdatePreserves == IInv /\ UpdateMigrationStatus => IInv'
<1> SUFFICES ASSUME IInv, UpdateMigrationStatus PROVE IInv'
  OBVIOUS
<1>1. UNCHANGED <<store, cache, calls, nextId>> /\ active' \subseteq active
  BY DEF UpdateMigrationStatus
<1> QED
  BY <1>1 DEF IInv, TypeOK, ReadAges, ServedIsFresh, store

\* Time passes for the cached and for those who have read.
LEMMA TickPreserves == IInv /\ Tick => IInv'
<1> SUFFICES ASSUME IInv, Tick PROVE IInv'
  OBVIOUS
<1>1. calls \in [Callers -> CallTypes] /\ cache \in [Pods -> Entries]
  BY DEF IInv, TypeOK, CallTypes
<1>2. UNCHANGED <<store, orch>>
  BY DEF Tick
<1>3. ASSUME NEW p \in Pods
      PROVE  /\ cache'[p] \in Entries
             /\ cache'[p].age < CacheTTL => cache'[p].read <= cache'[p].age + CallTime
             /\ cache[p].age = CacheTTL => cache'[p].age = CacheTTL
  <2>1. cache[p].age \in 0..CacheTTL /\ cache[p].read \in Ages
    BY <1>1 DEF Entries
  <2>2. CASE cache[p].age >= CacheTTL
    <3>1. cache'[p] = NoEntry
      BY <2>2 DEF Tick
    <3> QED
      BY <2>2, <3>1, EntryType, ServicesAssumption
  <2>3. CASE ~(cache[p].age >= CacheTTL)
    <3>1. cache'[p] = [age |-> cache[p].age + 1, read |-> Older(cache[p].read)]
      BY <2>3 DEF Tick
    <3>2. cache[p].age + 1 \in 0..CacheTTL /\ Older(cache[p].read) \in Ages
      BY <2>1, <2>3, EntryType, ServicesAssumption
    <3>3. cache'[p] \in Entries
      BY <3>1, <3>2, EntryType
    <3>4. cache[p].read <= cache[p].age + CallTime /\ Older(cache[p].read) <= cache[p].read + 1
      BY <2>1, <2>3, EntryType, ServicesAssumption DEF IInv, ReadAges
    <3>5. Older(cache[p].read) <= cache[p].age + 1 + CallTime
      BY <2>1, <3>2, <3>4, ServicesAssumption DEF Ages
    <3>6. cache'[p].read = Older(cache[p].read) /\ cache'[p].age = cache[p].age + 1
      BY <3>1
    <3>7. cache[p].age # CacheTTL
      BY <2>1, <2>3, ServicesAssumption
    <3> QED
      BY <3>3, <3>5, <3>6, <3>7
  <2> QED
    BY <2>2, <2>3
<1>4. ASSUME NEW c \in Callers
      PROVE  /\ calls'[c] \in CallTypes
             /\ calls'[c].at = "read" => calls'[c].read <= CallTime
             /\ calls'[c].at # "read" => calls'[c] = calls[c]
  <2>1. calls[c] \in CallTypes
    BY <1>1
  <2>2. CASE calls[c].at = "read"
    <3>1. calls'[c] = [calls[c] EXCEPT !.read = Older(calls[c].read)] /\ calls[c].read < CallTime
      BY <2>2 DEF Tick
    <3>2. calls[c].read \in Ages /\ Older(calls[c].read) \in Ages
          /\ Older(calls[c].read) <= calls[c].read + 1
      BY <2>1, EntryType DEF CallTypes
    <3>3. calls'[c] \in CallTypes /\ calls'[c].read = Older(calls[c].read) /\ calls'[c].at = "read"
      BY <2>1, <2>2, <3>1, <3>2 DEF CallTypes
    <3>4. Older(calls[c].read) <= CallTime
      BY <3>1, <3>2, ServicesAssumption DEF Ages
    <3> QED
      BY <3>3, <3>4
  <2>3. CASE calls[c].at # "read"
    <3>1. calls'[c] = calls[c]
      BY <2>3 DEF Tick
    <3> QED
      BY <2>1, <2>3, <3>1
  <2> QED
    BY <2>2, <2>3
<1>5. cache' \in [Pods -> Entries] /\ calls' \in [Callers -> CallTypes]
  <2>1. /\ cache' = [p \in Pods |-> cache'[p]] /\ calls' = [c \in Callers |-> calls'[c]]
    BY DEF Tick
  <2> QED
    BY <1>3, <1>4, <2>1
<1>6. TypeOK'
  BY <1>2, <1>5 DEF IInv, TypeOK, CallTypes, store, orch
<1>7. ReadAges'
  BY <1>3, <1>4 DEF ReadAges
<1>8. ServedIsFresh'
  BY <1>4 DEF IInv, ServedIsFresh
<1> QED
  BY <1>6, <1>7, <1>8 DEF IInv

-----------------------------------------------------------------------------
\* The invariant holds in every state.
THEOREM ServicesInvariant == Spec => []IInv
<1>1. IInv /\ [Next]_vars => IInv'
  <2> SUFFICES ASSUME IInv, [Next]_vars PROVE IInv'
    OBVIOUS
  <2>1. CASE \E c \in Callers : Schedule(c) \/ Advise(c)
    BY <2>1, LookPreserves, OtherCallPreserves, CachePreserves DEF Schedule, Advise
  <2>2. CASE UNCHANGED vars
    BY <2>2 DEF IInv, TypeOK, ReadAges, ServedIsFresh, vars, store, orch
  <2> QED
    BY <2>1, <2>2, StorePreserves, UpdatePreserves, TickPreserves DEF Next
<1> QED
  BY Initially, <1>1, PTL DEF Spec

\* Types of the stores, the cache and the requests.
THEOREM ServicesTypeCorrect == Spec => []TypeOK
<1>1. IInv => TypeOK
  BY DEF IInv
<1> QED
  BY ServicesInvariant, <1>1, PTL

\* What the cache serves rests on a signature younger than its TTL and a request's time.
THEOREM CacheIsFresh == Spec => []ServedIsFresh
<1>1. IInv => ServedIsFresh
  BY DEF IInv
<1> QED
  BY ServicesInvariant, <1>1, PTL

\* The scores of nodes are numbers up to 120,
LEMMA ScoreType ==
  ASSUME NEW sig, NEW node, IsFiniteSet(node.disks)
  PROVE  TargetScore(sig, node) \in 0..120
<1> DEFINE D == {d \in node.disks : d.fast /\ d.busy < 50}
           sum == 50 + (IF Over(node.cpuFree, node.cpuTotal, 50) THEN 15
                        ELSE IF Over(node.cpuFree, node.cpuTotal, 30) THEN 10 ELSE 0)
                     + (IF Over(node.memFree, node.memTotal, 50) THEN 15
                        ELSE IF Over(node.memFree, node.memTotal, 30) THEN 10 ELSE 0)
                     + (IF sig.gpu THEN 25 ELSE 0) + 10 * Cardinality(D)
<1>1. Cardinality(D) \in Nat
  BY FS_Subset, FS_CardinalityType
<1>2. Suitability(sig, node) = 0 \/ Suitability(sig, node) = Least(100, sum)
  BY DEF Suitability
<1> HIDE DEF D
<1>3. sum \in Nat
  BY <1>1
<1> HIDE DEF sum
<1>4. Suitability(sig, node) \in 0..100
  BY <1>2, <1>3 DEF Least
<1> QED
  BY <1>4 DEF TargetScore

\* so that, where there is a node, there is a best one: one above whose score the fewest
\* numbers lie, by inclusion.
LEMMA BestExists ==
  ASSUME NEW score, DOMAIN score # {}, \A n \in DOMAIN score : score[n] \in 0..120
  PROVE  Best(score) # {}
<1> DEFINE Above(n) == {k \in 0..120 : k > score[n]}
           T == {Above(n) : n \in DOMAIN score}
           Fewer == StrictSubsetOrdering(0..120)
<1>1. T \subseteq SUBSET (0..120) /\ T # {}
  OBVIOUS
<1>2. IsWellFoundedOn(Fewer, SUBSET (0..120))
  <2>1. 0 \in Int /\ 120 \in Int
    OBVIOUS
  <2>2. IsFiniteSet(0..120)
    BY ONLY <2>1, FS_Interval, Zenon
  <2> QED
    BY <2>2, FS_StrictSubsetOrderingWellFounded, FS_FiniteSubsetsOfFinite
<1>3. PICK x \in T : \A y \in T : <<y, x>> \notin Fewer
  <2> DEFINE S == SUBSET (0..120)
  <2> HIDE DEF T, Fewer, S
  <2>1. IsWellFoundedOn(Fewer, S) /\ T \subseteq S /\ T # {}
    BY <1>1, <1>2 DEF S
  <2> QED
    BY ONLY <2>1, WFMin, Zenon
<1>4. PICK n \in DOMAIN score : x = Above(n)
  BY <1>3
<1>5. ASSUME NEW m \in DOMAIN score, ~(score[m] <= score[n]) PROVE FALSE
  <2>1. Above(m) \subseteq Above(n) /\ score[m] \in Above(n) /\ score[m] \notin Above(m)
    BY <1>5
  <2>2. Above(m) # Above(n) /\ Above(m) \in SUBSET (0..120) /\ Above(n) \in SUBSET (0..120)
    BY <2>1
  <2> HIDE DEF Above
  <2>3. <<Above(m), Above(n)>> \in Fewer
    BY <2>1, <2>2 DEF StrictSubsetOrdering
  <2> QED
    BY <1>3, <1>4, <2>3
<1> QED
  BY <1>5 DEF Best

\* Above 60 % a node is told to scale, up to 80 %, or its workload to leave, above 80 %, if
\* some other node is suitable.
THEOREM LoadedIsAdvised == Spec => []LoadedNodeGetsAdvice
<1>1. TypeOK => LoadedNodeGetsAdvice
  <2> SUFFICES ASSUME TypeOK, NEW c \in Callers, calls[c].node \in DOMAIN Known,
                      insights[calls[c].node].known,
                      Over(insights[calls[c].node].cpuUsed, insights[calls[c].node].cpuTotal, 60),
                      Decide("no_action", Unknown)
                          \in Orchestrations(Sig(c), calls[c].node, Known, FALSE)
               PROVE  \/ insights[calls[c].node].cpuUsed * 100
                            = 80 * insights[calls[c].node].cpuTotal
                      \/ /\ MigrationNeeded(Sig(c), insights[calls[c].node], FALSE)
                         /\ \A n \in DOMAIN Known \ {calls[c].node} :
                                TargetScore(Sig(c), Known[n]) = 0
    BY DEF LoadedNodeGetsAdvice
  <2> DEFINE node   == insights[calls[c].node]
             needed == MigrationNeeded(Sig(c), node, FALSE)
             score  == [n \in DOMAIN Known \ {calls[c].node} |-> TargetScore(Sig(c), Known[n])]
             Targets == {n \in Best(score) : score[n] > 0}
  <2>1. calls[c].node \in Nodes /\ node \in Insights /\ Known[calls[c].node] = node
    BY DEF Known, TypeOK
  <2>2. node.cpuUsed \in Nat /\ node.cpuTotal \in Nat
    BY <2>1, ServicesAssumption
  <2>3. ~(needed /\ Targets # {}) /\ Decide("no_action", Unknown) = Settled(Sig(c), node, needed)
    <3>1. \A d : d # "no_action" => \A t : Decide("no_action", Unknown) # Decide(d, t)
      BY DEF Decide
    <3>2. ~(Sig(c).gpu /\ ~node.known)
      OBVIOUS
    <3>3. Orchestrations(Sig(c), calls[c].node, Known, FALSE)
            = IF needed /\ Targets # {} THEN {Decide("migrate", n) : n \in Targets}
              ELSE {Settled(Sig(c), node, needed)}
      BY <2>1, <3>2 DEF Orchestrations
    <3> HIDE DEF needed, Targets
    <3>4. ~(needed /\ Targets # {})
      <4> SUFFICES ASSUME needed /\ Targets # {} PROVE FALSE
        OBVIOUS
      <4>1. PICK n \in Targets : Decide("no_action", Unknown) = Decide("migrate", n)
        BY <3>3
      <4> QED
        BY <3>1, <4>1
    <3> QED
      BY <3>3, <3>4
  <2>4. CASE ~needed
    <3>1. ~ScalingNeeded(node)
      BY <2>3 DEF Settled, Decide
    <3>2. node.cpuUsed * 100 >= 80 * node.cpuTotal
      BY <2>2, <3>1 DEF ScalingNeeded, Over, Under
    <3>3. node.cpuUsed * 100 <= 80 * node.cpuTotal
      BY <2>2, <2>4 DEF MigrationNeeded, Over
    <3>4. node.cpuUsed * 100 = 80 * node.cpuTotal
      BY <2>2, <3>2, <3>3
    <3> QED
      BY <3>4
  <2>5. CASE needed
    <3>1. \A n \in DOMAIN score : score[n] \in 0..120
      <4>1. \A n \in DOMAIN Known : IsFiniteSet(Known[n].disks)
        BY ServicesAssumption DEF TypeOK, Known
      <4> QED
        BY <4>1, ScoreType
    <3>2. \A n \in DOMAIN score : score[n] = 0
      <4> SUFFICES ASSUME NEW n \in DOMAIN score, score[n] # 0 PROVE FALSE
        OBVIOUS
      <4> HIDE DEF score
      <4>1. PICK m \in Best(score) : score[n] <= score[m] /\ m \in DOMAIN score
        BY <3>1, BestExists DEF Best
      <4>2. m \in Targets
        BY <3>1, <4>1
      <4> QED
        BY <2>3, <2>5, <4>2
    <3>3. \A n \in DOMAIN Known \ {calls[c].node} : TargetScore(Sig(c), Known[n]) = 0
      BY <3>2
    <3> QED
      BY <2>5, <3>3
  <2> QED
    BY <2>4, <2>5
<1> QED
  BY ServicesTypeCorrect, <1>1, PTL

\* Every node with a free GPU scores 80 at least.
LEMMA GPUScore ==
  ASSUME NEW sig, NEW node, sig.gpu, IsFiniteSet(node.disks), NodeScore(sig, node) > 0
  PROVE  NodeScore(sig, node) >= Threshold
<1> DEFINE D == {d \in node.disks : d.fast /\ d.busy < 70}
<1>1. Cardinality(D) \in Nat
  BY FS_Subset, FS_CardinalityType
<1> HIDE DEF D
<1>2. NodeScore(sig, node) =
        Least(100, 50 + 30 + (IF Heavy(sig) /\ Usable(node.csds, 80) THEN 20 ELSE 0)
                       + 10 * Cardinality(D)
                       + (IF node.cpuFree > 2 THEN 5 ELSE 0)
                       + (IF node.memFree > 4 THEN 5 ELSE 0))
  BY DEF NodeScore, D
<1> QED
  BY <1>1, <1>2 DEF Least, Threshold

\* So the first of the preferences, whichever it is, decides the same.
THEOREM GPUDecisionsAreSettled == Spec => []GPUDecisionIsSettled
<1>1. TypeOK => GPUDecisionIsSettled
  <2> SUFFICES ASSUME TypeOK, NEW c \in Callers, calls[c].sig.gpu
               PROVE  Cardinality({s.decision : s \in Schedulings(calls[c].sig, Known)}) = 1
    BY DEF GPUDecisionIsSettled
  <2> DEFINE sig == calls[c].sig
             Preferred == {n \in DOMAIN Known : NodeScore(sig, Known[n]) > 0}
  <2>1. \A n \in Preferred : NodeScore(sig, Known[n]) >= Threshold
    <3>1. \A n \in DOMAIN Known : IsFiniteSet(Known[n].disks)
      BY ServicesAssumption DEF TypeOK, Known
    <3> QED
      BY <3>1, GPUScore
  <2>2. \E d : {s.decision : s \in Schedulings(sig, Known)} = {d}
    <3>1. CASE Preferred = {}
      <4>1. Schedulings(sig, Known) = {[decision |-> "allow", nodes |-> {}]}
        BY <3>1 DEF Schedulings
      <4>2. {s.decision : s \in Schedulings(sig, Known)} = {"allow"}
        BY <4>1
      <4> QED
        BY <4>2
    <3>2. CASE Preferred # {}
      <4>1. Schedulings(sig, Known) = {[decision |-> "prefer", nodes |-> Preferred]}
        BY <2>1, <3>2 DEF Schedulings
      <4>2. {s.decision : s \in Schedulings(sig, Known)} = {"prefer"}
        BY <4>1
      <4> QED
        BY <4>2
    <3> QED
      BY <3>1, <3>2
  <2> QED
    BY <2>2, FS_Singleton
<1> QED
  BY ServicesTypeCorrect, <1>1, PTL

-----------------------------------------------------------------------------
(* The two copies of the plugin weights. Weights are whole tenths; without   *)
(* the rule for workflow steps locality is at most nine and the stage at    *)
(* most eight, which is where that rule puts them.                          *)

Plugins == {"locality", "tier", "pattern", "kueue", "stage"}
Weights == [Plugins -> Nat]
Within(w) == w.locality <= 9 /\ w.stage <= 8

Set(w, plugin, weight) == [w EXCEPT ![plugin] = weight]

\* One adjustment within those limits leaves weights within them.
LEMMA Adjusted ==
  ASSUME NEW w \in Weights, Within(w), NEW p \in Plugins, NEW v \in Nat,
         p = "locality" => v <= 9, p = "stage" => v <= 8
  PROVE  Set(w, p, v) \in Weights /\ Within(Set(w, p, v))
<1>1. Set(w, p, v) \in Weights
  BY DEF Weights, Set
<1>2. \A q \in Plugins : Set(w, p, v)[q] = IF q = p THEN v ELSE w[q]
  BY DEF Weights, Set
<1>3. "locality" \in Plugins /\ "stage" \in Plugins
  BY DEF Plugins
<1> QED
  BY <1>1, <1>2, <1>3 DEF Within

\* The weights that the I/O pattern asks for are within the limits,
LEMMA PatternWeights ==
  ASSUME NEW io
  PROVE  ByPattern(DefaultWeights, io) \in Weights /\ Within(ByPattern(DefaultWeights, io))
<1> DEFINE w == DefaultWeights
           Adjust(tier, pattern) == Set(Set(w, "tier", tier), "pattern", pattern)
<1>1. w \in Weights /\ Within(w) /\ "tier" \in Plugins /\ "pattern" \in Plugins
      /\ "locality" \in Plugins
  BY DEF DefaultWeights, Weights, Plugins, Within
<1> HIDE DEF w
<1>2. ASSUME NEW t \in Nat, NEW n \in Nat
      PROVE  Adjust(t, n) \in Weights /\ Within(Adjust(t, n))
  BY <1>1, Adjusted
<1>3. CASE io \in {"read_heavy", "write_heavy"}
  <2>1. ByPattern(w, io) = Set(Set(Set(w, "locality", 8), "tier", 9), "pattern", 9)
    BY <1>3 DEF ByPattern, Set
  <2>2. Set(w, "locality", 8) \in Weights /\ Within(Set(w, "locality", 8))
    BY <1>1, Adjusted
  <2>3. /\ Set(Set(w, "locality", 8), "tier", 9) \in Weights
        /\ Within(Set(Set(w, "locality", 8), "tier", 9))
    BY <1>1, <2>2, Adjusted
  <2> QED
    BY <1>1, <2>1, <2>3, Adjusted DEF w
<1>4. CASE io \notin {"read_heavy", "write_heavy"}
  <2>1. \/ ByPattern(w, io) = w \/ ByPattern(w, io) = Adjust(8, 7)
        \/ ByPattern(w, io) = Adjust(9, 8) \/ ByPattern(w, io) = Adjust(7, 6)
    <3>1. CASE io = "sequential"
      BY <1>4, <3>1 DEF ByPattern, Set
    <3>2. CASE io = "random"
      BY <1>4, <3>2 DEF ByPattern, Set
    <3>3. CASE io = "bursty"
      BY <1>4, <3>3 DEF ByPattern, Set
    <3>4. CASE io \notin {"sequential", "random", "bursty"}
      BY <1>4, <3>4 DEF ByPattern
    <3> QED
      BY <3>1, <3>2, <3>3, <3>4
  <2> HIDE DEF Adjust
  <2> QED
    BY <1>1, <1>2, <2>1 DEF w
<1> QED
  BY <1>3, <1>4

\* and so are those that the stage asks for then.
LEMMA StagedWeights ==
  ASSUME NEW w \in Weights, Within(w), NEW stage, NEW gpu
  PROVE  ByStage(w, stage, gpu) \in Weights /\ Within(ByStage(w, stage, gpu))
<1>1. /\ "tier" \in Plugins /\ "pattern" \in Plugins /\ "locality" \in Plugins
      /\ "stage" \in Plugins
  BY DEF Plugins
<1>2. CASE stage \in {"data_loading", "preprocessing"}
  <2>1. ByStage(w, stage, gpu) = Set(Set(w, "locality", 9), "stage", 8)
    BY <1>2 DEF ByStage, Set
  <2>2. Set(w, "locality", 9) \in Weights /\ Within(Set(w, "locality", 9))
    BY <1>1, Adjusted
  <2> QED
    BY <1>1, <2>1, <2>2, Adjusted
<1>3. CASE stage = "training"
  <2>1. (IF gpu THEN 6 ELSE w.tier) \in Nat
    BY <1>1 DEF Weights
  <2> DEFINE tier == IF gpu THEN 6 ELSE w.tier
  <2>2. ByStage(w, stage, gpu) = Set(Set(w, "stage", 7), "tier", tier)
    BY <1>3 DEF ByStage, Set
  <2> HIDE DEF tier
  <2>3. Set(w, "stage", 7) \in Weights /\ Within(Set(w, "stage", 7))
    BY <1>1, Adjusted
  <2> QED
    BY <1>1, <2>1, <2>2, <2>3, Adjusted DEF tier
<1>4. CASE stage = "inference"
  <2>1. ByStage(w, stage, gpu) = Set(Set(w, "tier", 8), "stage", 7)
    BY <1>4 DEF ByStage, Set
  <2>2. Set(w, "tier", 8) \in Weights /\ Within(Set(w, "tier", 8))
    BY <1>1, Adjusted
  <2> QED
    BY <1>1, <2>1, <2>2, Adjusted
<1>5. CASE stage = "checkpointing"
  <2>1. ByStage(w, stage, gpu) = Set(Set(w, "tier", 9), "pattern", 8)
    BY <1>5 DEF ByStage, Set
  <2>2. Set(w, "tier", 9) \in Weights /\ Within(Set(w, "tier", 9))
    BY <1>1, Adjusted
  <2> QED
    BY <1>1, <2>1, <2>2, Adjusted
<1>6. CASE stage \notin {"data_loading", "preprocessing", "training", "inference", "checkpointing"}
  BY <1>6 DEF ByStage
<1> QED
  BY <1>2, <1>3, <1>4, <1>5, <1>6

\* The adjustment for the type is that of one weight, whichever the others are.
LEMMA TypeAdjustment ==
  ASSUME NEW type, NEW low \in Weights, NEW high \in Weights,
         \A w \in DOMAIN low : high[w] >= low[w]
  PROVE  \A w \in DOMAIN ByType(low, type) : ByType(high, type)[w] >= ByType(low, type)[w]
<1>1. DOMAIN low = Plugins /\ DOMAIN high = Plugins
  BY DEF Weights, Plugins
<1>2. CASE type \in {"image", "text"}
  <2>1. \A w \in DOMAIN low : /\ ByType(low, type)[w] = IF w = "kueue" THEN 7 ELSE low[w]
                             /\ ByType(high, type)[w] = IF w = "kueue" THEN 7 ELSE high[w]
    BY <1>1, <1>2 DEF ByType, Plugins
  <2>2. DOMAIN ByType(low, type) = DOMAIN low
    BY <1>2 DEF ByType
  <2> QED
    BY <2>1, <2>2
<1>3. CASE type \notin {"image", "text"}
  BY <1>3 DEF ByType
<1> QED
  BY <1>2, <1>3

\* The tables of the service hold the numbers of the server's.
LEMMA TablesAgree ==
  ASSUME NEW sig
  PROVE  ServiceByStage(ServiceByPattern(ServiceDefaults, sig.io), sig.stage, sig.gpu)
           = ByStage(ByPattern(DefaultWeights, sig.io), sig.stage, sig.gpu)
<1>1. ServiceDefaults = DefaultWeights
  BY DEF ServiceDefaults, DefaultWeights
<1>2. \A w : ServiceByPattern(w, sig.io) = ByPattern(w, sig.io)
  BY DEF ServiceByPattern, ByPattern
<1>3. \A w : ServiceByStage(w, sig.stage, sig.gpu) = ByStage(w, sig.stage, sig.gpu)
  BY DEF ServiceByStage, ByStage
<1> QED
  BY <1>1, <1>2, <1>3

\* So the service gives a step of a workflow no weight below the server's, and any other
\* workload the server's.
LEMMA WeightRules ==
  ASSUME NEW sig
  PROVE  \/ ServicePluginWeights(sig) = PluginWeights(sig)
         \/ /\ sig.dependent
            /\ \A w \in DOMAIN PluginWeights(sig) :
                   ServicePluginWeights(sig)[w] >= PluginWeights(sig)[w]
<1> DEFINE w    == ByStage(ByPattern(DefaultWeights, sig.io), sig.stage, sig.gpu)
           step == Set(Set(w, "locality", 9), "stage", 8)
<1>1. w \in Weights /\ Within(w)
  BY PatternWeights, StagedWeights
<1>2. PluginWeights(sig) = ByType(w, sig.type)
  BY DEF PluginWeights
<1>3. ServicePluginWeights(sig) = ByType(ByWorkflow(w, sig.dependent), sig.type)
  BY TablesAgree DEF ServicePluginWeights, ServiceByType, ByType
<1>4. CASE ~sig.dependent
  BY <1>2, <1>3, <1>4 DEF ByWorkflow
<1>5. CASE sig.dependent
  <2>1. ServicePluginWeights(sig) = ByType(step, sig.type)
    BY <1>3, <1>5 DEF ByWorkflow, Set
  <2> HIDE DEF w
  <2>2. step \in Weights
    <3>1. "locality" \in Plugins /\ "stage" \in Plugins
      BY DEF Plugins
    <3>2. Set(w, "locality", 9) \in Weights /\ Within(Set(w, "locality", 9))
      BY <1>1, <3>1, Adjusted
    <3> QED
      BY <3>1, <3>2, Adjusted
  <2>3. \A x \in DOMAIN w : step[x] = IF x = "locality" THEN 9 ELSE IF x = "stage" THEN 8 ELSE w[x]
    BY <1>1 DEF Weights, Plugins, Set
  <2>4. \A x \in DOMAIN w : w[x] \in Nat
    BY <1>1 DEF Weights
  <2>5. \A x \in DOMAIN w : step[x] >= w[x]
    BY <1>1, <2>3, <2>4 DEF Within
  <2> HIDE DEF step
  <2>6. \A x \in DOMAIN ByType(w, sig.type) : ByType(step, sig.type)[x] >= ByType(w, sig.type)[x]
    BY <1>1, <2>2, <2>5, TypeAdjustment
  <2> QED
    BY <1>2, <1>5, <2>1, <2>6
<1> QED
  BY <1>4, <1>5

\* The copies of the weight rules agree but for workflow steps, whatever is reported.
THEOREM CopiesOfWeightsAgree == Spec => []WeightsAgree
<1>1. WeightsAgree
  BY WeightRules DEF WeightsAgree
<1> QED
  BY <1>1, PTL
=============================================================================
