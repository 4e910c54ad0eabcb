---------------------- MODULE TerminatedPolicyGC_proofs ----------------------
(***************************************************************************)
(* What the collector takes, for any CRs, TTL and batch size. The argument *)
(* follows a finish from the API server to the cache and from the cache to *)
(* the list: unless a retry came between, the CR behind a copy that shows a *)
(* finish is gone, or was created and has been finished as long, at least. *)
(***************************************************************************)
EXTENDS TerminatedPolicyGC, TLAPS

\* A copy of a finished CR in the cache, of the CR's current attempt.
CacheIsBehind ==
    \A p \in Policies :
        /\ cache[p].attempt <= crs[p].attempt
        /\ Finished(cache[p]) /\ cache[p].attempt = crs[p].attempt /\ crs[p].phase # "gone"
              => /\ Finished(crs[p]) /\ cache[p].dated = crs[p].dated
                 /\ cache[p].age <= crs[p].age /\ cache[p].created <= crs[p].created

\* A CR on the list of the sweep.
ListIsBehind ==
    \A p \in todo :
        /\ listed[p] <= crs[p].attempt
        /\ listed[p] = crs[p].attempt /\ crs[p].phase # "gone" => Expired(crs[p])

IInv == TypeOK /\ CacheIsBehind /\ ListIsBehind

-----------------------------------------------------------------------------
\* The CR that a DELETE leaves behind is a CR.
LEMMA DeleteTypes ==
    ASSUME NEW cr \in CR
    PROVE  /\ [cr EXCEPT !.deleting = TRUE] \in CR
           /\ Gone(cr) \in CR
<1>0. 0 \in Ages
    BY GCAssumption DEF Ages
<1>1. [cr EXCEPT !.deleting = TRUE] \in CR
    BY DEF CR
<1>2. Gone(cr) \in CR
    BY <1>0 DEF Gone, CR
<1> QED
    BY <1>1, <1>2

\* A CR that finishes, and one that is retried, are CRs.
LEMMA UpdateTypes ==
    ASSUME NEW cr \in CR
    PROVE  /\ \A d \in BOOLEAN :
                 [cr EXCEPT !.phase = "finished", !.age = 0, !.dated = d] \in CR
           /\ \A n \in 0..MaxAttempts :
                 [cr EXCEPT !.phase = "unfinished", !.age = 0, !.dated = FALSE,
                            !.attempt = n] \in CR
<1>0. 0 \in Ages
    BY GCAssumption DEF Ages
<1>1. ASSUME NEW d \in BOOLEAN
      PROVE  [cr EXCEPT !.phase = "finished", !.age = 0, !.dated = d] \in CR
    BY <1>0 DEF CR
<1>2. ASSUME NEW n \in 0..MaxAttempts
      PROVE  [cr EXCEPT !.phase = "unfinished", !.age = 0, !.dated = FALSE,
                        !.attempt = n] \in CR
    BY <1>0 DEF CR
<1> QED
    BY <1>1, <1>2

\* Every step keeps the state well-typed; in particular a sweep deletes at most
\* BatchMax CRs: the type invariant bounds the variable deleted.
LEMMA TypeStep == TypeOK /\ [Next]_vars => TypeOK'
<1> SUFFICES ASSUME TypeOK, [Next]_vars PROVE TypeOK'
    OBVIOUS
<1> USE GCAssumption
<1>i. Idle => /\ sweeping' \in BOOLEAN /\ todo' \subseteq Policies
              /\ listed' \in [Policies -> 0..MaxAttempts]
              /\ deleted' \in Nat /\ (BatchMax > 0 => deleted' <= BatchMax)
  <2>1. Idle => sweeping' \in BOOLEAN
      BY DEF Idle
  <2>2. Idle => listed' \in [Policies -> 0..MaxAttempts]
      BY DEF Idle
  <2>3. Idle => todo' \subseteq Policies /\ deleted' = 0
      BY DEF Idle
  <2> QED
      BY <2>1, <2>2, <2>3
<1>1. CASE List
    BY <1>1 DEF List, TypeOK, CR, Ages, Finished, Eligible, Expired
<1>2. CASE EndSweep
    BY <1>2, <1>i DEF EndSweep, TypeOK
<1>3. ASSUME NEW p \in Policies, Delete(p) PROVE TypeOK'
  <2>1. crs' \in [Policies -> CR]
    <3>1. ASSUME Remove(p) PROVE crs' \in [Policies -> CR]
        BY <3>1, DeleteTypes DEF Remove, TypeOK
    <3> QED
        BY <1>3, <3>1 DEF Delete, TypeOK
  <2>2. deleted' \in Nat /\ (BatchMax > 0 => deleted' <= BatchMax)
      BY <1>3 DEF Delete, HasRoom, TypeOK
  <2>3. faults' \in 0..MaxFaults
      BY <1>3 DEF Delete, Fault, TypeOK
  <2> QED
      BY <1>3, <2>1, <2>2, <2>3 DEF Delete, TypeOK
<1>4. ASSUME NEW p \in Policies, Finish(p) \/ Retry(p) \/ Vanish(p) PROVE TypeOK'
  <2>1. crs' \in [Policies -> CR]
    <3>1. CASE Finish(p)
      <4>1. \A d \in BOOLEAN :
               [crs[p] EXCEPT !.phase = "finished", !.age = 0, !.dated = d] \in CR
          BY UpdateTypes DEF TypeOK
      <4> QED
          BY <3>1, <4>1 DEF Finish, Environment, TypeOK
    <3>2. CASE Retry(p)
      <4>1. [crs[p] EXCEPT !.phase = "unfinished", !.age = 0, !.dated = FALSE,
                           !.attempt = @ + 1] \in CR
        <5>1. crs[p] \in CR /\ crs[p].attempt + 1 \in 0..MaxAttempts
            BY <3>2 DEF Retry, TypeOK, CR
        <5> QED
            BY <5>1, UpdateTypes
      <4> QED
          BY <3>2, <4>1 DEF Retry, Environment, TypeOK
    <3>3. CASE Vanish(p)
        BY <3>3, DeleteTypes DEF Vanish, Environment, TypeOK
    <3> QED
        BY <1>4, <3>1, <3>2, <3>3
  <2> QED
      BY <1>4, <2>1 DEF Finish, Retry, Vanish, Environment, TypeOK
<1>5. ASSUME NEW p \in Policies, Deliver(p) PROVE TypeOK'
    BY <1>5 DEF Deliver, TypeOK
<1>6. CASE Tick
  <2>1. ASSUME NEW cr \in CR PROVE Older(cr) \in CR
    <3>1. \A a \in Ages : (a <= TTL => a + 1 \in Ages)
        BY DEF Ages
    <3>2. cr.age \in Ages /\ cr.created \in Ages
        BY DEF CR
    <3>3. \A a, b \in Ages : [cr EXCEPT !.age = a, !.created = b] \in CR
        BY DEF CR
    <3> DEFINE a == IF cr.dated /\ cr.age <= TTL THEN cr.age + 1 ELSE cr.age
               b == IF cr.phase # "gone" /\ cr.created <= TTL THEN cr.created + 1
                    ELSE cr.created
    <3>4. a \in Ages
        BY <3>1, <3>2
    <3>5. b \in Ages
        BY <3>1, <3>2
    <3>6. Older(cr) = [cr EXCEPT !.age = a, !.created = b]
        BY DEF Older
    <3> HIDE DEF a, b
    <3> QED
        BY <3>3, <3>4, <3>5, <3>6
  <2> QED
      BY <1>6, <2>1 DEF Tick, TypeOK
<1>7. CASE Crash
    BY <1>7, <1>i DEF Crash, Fault, TypeOK
<1>8. CASE UNCHANGED vars
    BY <1>8 DEF vars, TypeOK
<1> QED
    BY <1>1, <1>2, <1>3, <1>4, <1>5, <1>6, <1>7, <1>8 DEF Next, Sweep

-----------------------------------------------------------------------------
\* Two copies of a CR that give the same time of its finish.
SameAge(new, old) == /\ new.dated = old.dated
                     /\ new.age = old.age /\ new.created = old.created

\* A step of a CR keeps what is true of each copy of it.
LEMMA BehindStep == IInv /\ [Next]_vars => CacheIsBehind' /\ ListIsBehind'
<1> SUFFICES ASSUME IInv, [Next]_vars PROVE CacheIsBehind' /\ ListIsBehind'
    OBVIOUS
<1> USE GCAssumption DEF IInv, CacheIsBehind, ListIsBehind, Finished, Expired, TerminalAge
<1>t. \A p \in Policies : /\ crs[p].attempt \in Int /\ cache[p].attempt \in Int
                          /\ crs[p].age \in 0..(TTL + 1) /\ cache[p].age \in 0..(TTL + 1)
                          /\ crs[p].created \in 0..(TTL + 1)
                          /\ cache[p].created \in 0..(TTL + 1)
    BY DEF TypeOK, CR, Ages
<1>u. /\ crs \in [Policies -> CR] /\ cache \in [Policies -> CR]
      /\ todo \subseteq Policies
    BY DEF TypeOK
<1>1. CASE List
    BY <1>1, <1>t, <1>u DEF List, Eligible
<1>2. CASE EndSweep
    BY <1>2 DEF EndSweep, Idle
<1>3. ASSUME NEW q \in Policies, Delete(q) PROVE CacheIsBehind' /\ ListIsBehind'
  <2>1. \A p \in Policies : /\ crs'[p].attempt = crs[p].attempt
                            /\ crs'[p].phase = "gone" \/ (/\ crs'[p].phase = crs[p].phase
                                                          /\ SameAge(crs'[p], crs[p]))
    <3>1. \A p \in Policies : crs[p] \in CR
        BY <1>u
    <3>2. ASSUME NEW p \in Policies, Remove(q)
          PROVE  crs'[p] = crs[p] \/ crs'[p] = [crs[p] EXCEPT !.deleting = TRUE]
                    \/ crs'[p] = Gone(crs[p])
        BY <3>2, <1>u DEF Remove
    <3>3. UNCHANGED crs \/ Remove(q)
        BY <1>3 DEF Delete
    <3> QED
      <4>1. \A cr \in CR : /\ [cr EXCEPT !.deleting = TRUE].attempt = cr.attempt
                           /\ [cr EXCEPT !.deleting = TRUE].phase = cr.phase
                           /\ SameAge([cr EXCEPT !.deleting = TRUE], cr)
          BY DEF CR, SameAge
      <4>2. \A cr \in CR : /\ Gone(cr).attempt = cr.attempt
                           /\ Gone(cr).phase = "gone"
          BY DEF CR, Gone
      <4>3. CASE UNCHANGED crs
          BY <4>3 DEF SameAge
      <4>4. ASSUME Remove(q), NEW p \in Policies
            PROVE  /\ crs'[p].attempt = crs[p].attempt
                   /\ crs'[p].phase = "gone" \/ (/\ crs'[p].phase = crs[p].phase
                                                 /\ SameAge(crs'[p], crs[p]))
        <5>1. CASE crs'[p] = crs[p]
            BY <5>1 DEF SameAge
        <5>2. CASE crs'[p] = [crs[p] EXCEPT !.deleting = TRUE]
            BY <3>1, <4>1, <5>2
        <5>3. CASE crs'[p] = Gone(crs[p])
            BY <3>1, <4>2, <5>3
        <5> QED
            BY <3>2, <4>4, <5>1, <5>2, <5>3
      <4> QED
          BY <3>3, <4>3, <4>4
  <2> QED
      BY <1>3, <2>1, <1>u DEF Delete, SameAge
<1>4. ASSUME NEW q \in Policies, Finish(q) \/ Retry(q) \/ Vanish(q)
      PROVE  CacheIsBehind' /\ ListIsBehind'
  <2>1. \A p \in Policies \ {q} : crs'[p] = crs[p]
      BY <1>4, <1>u DEF Finish, Retry, Vanish, Environment
  <2>2. UNCHANGED <<cache, todo, listed>>
      BY <1>4 DEF Finish, Retry, Vanish, Environment
  <2>3. CASE Retry(q)
    <3>1. crs'[q].attempt = crs[q].attempt + 1
        BY <2>3, <1>u DEF Retry, Environment, CR
    <3>2. \A p \in todo : listed[p] \in Int
        BY <1>u DEF TypeOK
    <3> QED
        BY <2>1, <2>2, <3>1, <3>2, <1>t, <1>u
  <2>4. CASE Finish(q)
    <3>1. crs[q].phase = "unfinished" /\ crs'[q].attempt = crs[q].attempt
        BY <2>4, <1>u DEF Finish, Environment, CR
    <3> QED
        BY <2>1, <2>2, <3>1, <1>t, <1>u
  <2>5. CASE Vanish(q)
    <3>1. crs'[q].phase = "gone" /\ crs'[q].attempt = crs[q].attempt
        BY <2>5, <1>u DEF Vanish, Environment, Gone, CR
    <3> QED
        BY <2>1, <2>2, <3>1, <1>t, <1>u
  <2> QED
      BY <1>4, <2>3, <2>4, <2>5
<1>5. ASSUME NEW q \in Policies, Deliver(q) PROVE CacheIsBehind' /\ ListIsBehind'
    BY <1>5, <1>t, <1>u DEF Deliver
<1>6. CASE Tick
  <2>1. \A cr \in CR : /\ Older(cr).phase = cr.phase
                       /\ Older(cr).attempt = cr.attempt
                       /\ Older(cr).dated = cr.dated
                       /\ Older(cr).age = IF cr.dated /\ cr.age <= TTL
                                          THEN cr.age + 1 ELSE cr.age
                       /\ Older(cr).created = IF cr.phase # "gone" /\ cr.created <= TTL
                                              THEN cr.created + 1 ELSE cr.created
      BY DEF Older, CR
  <2>2. \A p \in Policies : crs'[p] = Older(crs[p]) /\ cache'[p] = Older(cache[p])
      BY <1>6 DEF Tick
  <2>3. \A p \in Policies : crs[p] \in CR /\ cache[p] \in CR
      BY <1>u
  <2>4. CacheIsBehind'
      BY <2>1, <2>2, <2>3, <1>t
  <2>5. ListIsBehind'
      BY <1>6, <2>1, <2>2, <2>3, <1>t, <1>u DEF Tick
  <2> QED
      BY <2>4, <2>5
<1>7. CASE Crash
    BY <1>7, <1>t DEF Crash, Idle
<1>8. CASE UNCHANGED vars
    BY <1>8 DEF vars
<1> QED
    BY <1>1, <1>2, <1>3, <1>4, <1>5, <1>6, <1>7, <1>8 DEF Next, Sweep

-----------------------------------------------------------------------------
\* Before the first sweep nothing is cached that the CRs do not show.
LEMMA InitIInv == Init => IInv
<1> SUFFICES ASSUME Init PROVE IInv
    OBVIOUS
<1>1. TypeOK
  <2>1. Unfinished \in CR
      BY GCAssumption DEF Unfinished, CR, Ages
  <2>2. sweeping \in BOOLEAN
      BY DEF Init
  <2>3. listed \in [Policies -> 0..MaxAttempts]
      BY GCAssumption DEF Init
  <2> QED
      BY <2>1, <2>2, <2>3, GCAssumption DEF Init, TypeOK
<1> QED
    BY <1>1 DEF Init, Unfinished, IInv, CacheIsBehind, ListIsBehind, Finished, TypeOK

\* A copy in the cache, and an entry of the list, never shows a finish that the CR
\* did not have at least as long ago, unless it was retried or is gone.
THEOREM GCInvariant == Spec => []IInv
<1>1. IInv /\ [Next]_vars => IInv'
    BY TypeStep, BehindStep DEF IInv
<1> QED
    BY <1>1, InitIInv, PTL DEF Spec

\* The type invariant of the collector, with its limit of deletions in a sweep.
THEOREM GCTypeCorrect == Spec => []TypeOK
<1>1. IInv => TypeOK
    BY DEF IInv
<1> QED
    BY <1>1, GCInvariant, PTL

\* What a DELETE of the sweep takes has been finished for longer than the TTL (or has
\* existed for longer, if nothing in it says when it finished), unless the policy was
\* retried after the sweep listed it.
THEOREM CollectsOld == Spec => CollectedIsOld
<1> DEFINE Old == \A p \in Policies :
                     Collects(p) /\ crs[p].attempt = listed[p] => Expired(crs[p])
<1>1. IInv /\ [Next]_vars => Old
  <2> SUFFICES ASSUME IInv, NEW p \in Policies, Collects(p), crs[p].attempt = listed[p]
               PROVE  Expired(crs[p])
      OBVIOUS
  <2>1. p \in todo /\ crs[p].phase # "gone"
      BY DEF Collects, Delete
  <2> QED
      BY <2>1 DEF IInv, ListIsBehind
<1>2. IInv /\ [Next]_vars => [Old]_vars
    BY <1>1
<1> QED
    BY <1>2, GCInvariant, PTL DEF Spec, CollectedIsOld
=============================================================================
