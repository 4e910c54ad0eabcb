----------------------- MODULE PolicySubscribers_proofs -----------------------
(***************************************************************************)
(* The subscriber map and its channels, for any handlers, ids, capacity    *)
(* and number of broadcasts at a time. That no broadcast meets a closed    *)
(* channel needs to know, beside the lock, that a handler is registered    *)
(* under its own id only: else its departure would leave an entry behind.  *)
(***************************************************************************)
EXTENDS PolicySubscribers, SequenceTheorems, TLAPS

RegisteredUnderItsId ==
    \A i \in Ids : subscribers[i] # None
        => /\ at[subscribers[i]] \in Waiting
           /\ id[subscribers[i]] = i

VisitsFindSomeone ==
    \A p \in Policies, i \in Ids : i \in casts[p] => subscribers[i] # None

\* A handler that is in or about to leave the map's care, yet not in the map.
SilentIsShared ==
    \A h \in Handlers :
        at[h] \in Waiting /\ subscribers[id[h]] # h
            => \E g \in Handlers \ {h} : id[g] = id[h] /\ at[g] \notin {"idle", "entered"}

IInv == TypeOK /\ RegisteredUnderItsId /\ VisitsFindSomeone /\ SilentIsShared

-----------------------------------------------------------------------------
\* What a type-correct state with a handler, a policy and an id in it says.
LEMMA ChannelType ==
    ASSUME TypeOK, NEW h \in Handlers, NEW p \in Policies, Len(chan[h]) < Capacity
    PROVE  /\ Append(chan[h], p) \in Seq(Policies)
           /\ Len(Append(chan[h], p)) <= Capacity
  <1>1. chan[h] \in Seq(Policies)
    BY DEF TypeOK
  <1>2. Append(chan[h], p) \in Seq(Policies) /\ Len(Append(chan[h], p)) = Len(chan[h]) + 1
    BY <1>1, AppendProperties
  <1>3. Len(chan[h]) \in Nat
    BY <1>1, LenProperties
  <1> QED
    BY <1>2, <1>3, SubscribersAssumption

\* The initial states.
LEMMA InitInvariant == Init => IInv
  <1> SUFFICES ASSUME Init PROVE IInv
    OBVIOUS
  <1>1. TypeOK
    <2>1. /\ at \in [Handlers -> Places] /\ id \in [Handlers -> Ids]
          /\ subscribers \in [Ids -> Handlers \cup {None}]
          /\ casts \in [Policies -> SUBSET Ids]
      BY DEF Init, Places
    <2>2. chan \in [Handlers -> Seq(Policies)] /\ \A h \in Handlers : Len(chan[h]) <= Capacity
      BY SubscribersAssumption DEF Init
    <2>3. started \in 0..MaxPolicies /\ server \in {"running", "stopping", "stopped"}
      BY SubscribersAssumption DEF Init
    <2> QED
      BY <2>1, <2>2, <2>3 DEF TypeOK
  <1>2. RegisteredUnderItsId /\ VisitsFindSomeone
    BY DEF Init, RegisteredUnderItsId, VisitsFindSomeone
  <1>3. SilentIsShared
    BY DEF Init, SilentIsShared, Waiting
  <1> QED
    BY <1>1, <1>2, <1>3 DEF IInv

\* A handler that registers is the only one under its id from then on.
LEMMA RegisterPreserves ==
    ASSUME IInv, NEW h \in Handlers, Register(h)
    PROVE  IInv'
  <1>1. TypeOK'
    BY DEF IInv, TypeOK, Register, Places
  <1>2. RegisteredUnderItsId'
    BY SubscribersAssumption DEF IInv, TypeOK, Register, RegisteredUnderItsId, Waiting
  <1>3. VisitsFindSomeone'
    BY DEF IInv, Register, VisitsFindSomeone, Unlocked
  <1>4. SilentIsShared'
    <2> SUFFICES ASSUME NEW k \in Handlers, at'[k] \in Waiting, subscribers'[id'[k]] # k
                 PROVE  \E g \in Handlers \ {k} : id'[g] = id'[k] /\ at'[g] \notin {"idle", "entered"}
      BY DEF SilentIsShared
    <2>1. k # h /\ at[k] \in Waiting
      BY DEF IInv, TypeOK, Register, Waiting
    <2>2. CASE id[k] = id[h]
      BY <2>1, <2>2 DEF IInv, TypeOK, Register
    <2>3. CASE id[k] # id[h]
      <3>1. subscribers[id[k]] # k
        BY <2>3 DEF IInv, TypeOK, Register
      <3>2. PICK g \in Handlers \ {k} : id[g] = id[k] /\ at[g] \notin {"idle", "entered"}
        BY <2>1, <3>1 DEF IInv, SilentIsShared
      <3> QED
        BY <3>2 DEF IInv, TypeOK, Register
    <2> QED
      BY <2>2, <2>3
  <1> QED
    BY <1>1, <1>2, <1>3, <1>4 DEF IInv

\* A handler that leaves takes the entry of its id with it, its own or another's.
LEMMA LeavePreserves ==
    ASSUME IInv, NEW h \in Handlers, Leave(h)
    PROVE  IInv'
  <1>1. TypeOK'
    <2>1. /\ at' \in [Handlers -> Places]
          /\ subscribers' \in [Ids -> Handlers \cup {None}]
      BY DEF IInv, TypeOK, Leave, Places
    <2>2. chan' \in [Handlers -> Seq(Policies)]
      BY DEF IInv, TypeOK, Leave
    <2>3. \A k \in Handlers : Len(chan'[k]) <= Capacity
      BY SubscribersAssumption DEF IInv, TypeOK, Leave
    <2> QED
      BY <2>1, <2>2, <2>3 DEF IInv, TypeOK, Leave
  <1>2. RegisteredUnderItsId'
    BY SubscribersAssumption DEF IInv, TypeOK, Leave, RegisteredUnderItsId, Waiting
  <1>3. VisitsFindSomeone'
    BY DEF IInv, Leave, VisitsFindSomeone, Unlocked
  <1>4. SilentIsShared'
    <2> SUFFICES ASSUME NEW k \in Handlers, at'[k] \in Waiting, subscribers'[id'[k]] # k
                 PROVE  \E g \in Handlers \ {k} : id'[g] = id'[k] /\ at'[g] \notin {"idle", "entered"}
      BY DEF SilentIsShared
    <2>1. k # h /\ at[k] \in Waiting
      BY DEF IInv, TypeOK, Leave, Waiting
    <2>2. CASE id[k] = id[h]
      BY <2>1, <2>2 DEF IInv, TypeOK, Leave
    <2>3. CASE id[k] # id[h]
      <3>1. subscribers[id[k]] # k
        BY <2>3 DEF IInv, TypeOK, Leave
      <3>2. PICK g \in Handlers \ {k} : id[g] = id[k] /\ at[g] \notin {"idle", "entered"}
        BY <2>1, <3>1 DEF IInv, SilentIsShared
      <3> QED
        BY <3>2 DEF IInv, TypeOK, Leave
    <2> QED
      BY <2>2, <2>3
  <1> QED
    BY <1>1, <1>2, <1>3, <1>4 DEF IInv

\* The other steps of a handler leave the map alone.
LEMMA HandlerPreserves ==
    ASSUME IInv, NEW h \in Handlers, Subscribe(h) \/ Receive(h) \/ Send(h)
    PROVE  IInv'
  <1>1. TypeOK'
    <2>1. at' \in [Handlers -> Places]
      BY DEF IInv, TypeOK, Subscribe, Receive, Send, Places
    <2>2. chan' \in [Handlers -> Seq(Policies)] /\ \A k \in Handlers : Len(chan'[k]) <= Capacity
      <3>1. CASE Receive(h)
        <4>1. chan[h] \in Seq(Policies) /\ chan[h] # <<>>
          BY <3>1 DEF IInv, TypeOK, Receive
        <4>2. Tail(chan[h]) \in Seq(Policies) /\ Len(Tail(chan[h])) = Len(chan[h]) - 1
          BY <4>1, HeadTailProperties
        <4>3. Len(chan[h]) \in Nat /\ Len(chan[h]) <= Capacity
          BY <4>1, LenProperties DEF IInv, TypeOK
        <4>4. chan' = [chan EXCEPT ![h] = Tail(chan[h])]
          BY <3>1 DEF Receive
        <4>5. Len(Tail(chan[h])) <= Capacity
          BY <4>2, <4>3, SubscribersAssumption
        <4> QED
          BY <4>2, <4>4, <4>5 DEF IInv, TypeOK
      <3>2. CASE Subscribe(h) \/ Send(h)
        BY <3>2 DEF IInv, TypeOK, Subscribe, Send
      <3> QED
        BY <3>1, <3>2
    <2> QED
      BY <2>1, <2>2 DEF IInv, TypeOK, Subscribe, Receive, Send
  <1>2. /\ UNCHANGED <<id, subscribers, casts>>
        /\ \A k \in Handlers : at[k] \in Waiting => at'[k] \in Waiting
        /\ \A k \in Handlers : at'[k] \in Waiting => at[k] \in Waiting
        /\ \A k \in Handlers : at[k] \notin {"idle", "entered"} => at'[k] \notin {"idle", "entered"}
    BY DEF IInv, TypeOK, Subscribe, Receive, Send, Waiting
  <1>3. RegisteredUnderItsId' /\ VisitsFindSomeone'
    BY <1>2 DEF IInv, TypeOK, RegisteredUnderItsId, VisitsFindSomeone
  <1>4. SilentIsShared'
    BY <1>2 DEF IInv, SilentIsShared
  <1> QED
    BY <1>1, <1>3, <1>4 DEF IInv

\* A broadcast changes channels and its own list of ids.
LEMMA BroadcastPreserves ==
    ASSUME IInv, Broadcast
    PROVE  IInv'
  <1>1. started + 1 \in Policies
    BY SubscribersAssumption DEF IInv, TypeOK, Broadcast, Policies
  <1>2. TypeOK'
    BY <1>1, SubscribersAssumption DEF IInv, TypeOK, Broadcast, Policies
  <1>3. VisitsFindSomeone'
    BY <1>1 DEF IInv, TypeOK, Broadcast, VisitsFindSomeone
  <1>4. RegisteredUnderItsId' /\ SilentIsShared'
    BY DEF IInv, Broadcast, RegisteredUnderItsId, SilentIsShared
  <1> QED
    BY <1>2, <1>3, <1>4 DEF IInv

LEMMA OfferPreserves ==
    ASSUME IInv, NEW p \in Policies, NEW i \in Ids, Offer(p, i)
    PROVE  IInv'
  <1>1. subscribers[i] \in Handlers
    BY DEF IInv, TypeOK, VisitsFindSomeone, Offer
  <1>2. chan' \in [Handlers -> Seq(Policies)] /\ \A k \in Handlers : Len(chan'[k]) <= Capacity
    <2>1. CASE Len(chan[subscribers[i]]) >= Capacity
      BY <2>1 DEF IInv, TypeOK, Offer
    <2>2. CASE ~(Len(chan[subscribers[i]]) >= Capacity)
      <3>1. Len(chan[subscribers[i]]) < Capacity
        BY <1>1, <2>2, LenProperties, SubscribersAssumption DEF IInv, TypeOK
      <3>2. /\ Append(chan[subscribers[i]], p) \in Seq(Policies)
            /\ Len(Append(chan[subscribers[i]], p)) <= Capacity
        BY <1>1, <3>1, ChannelType DEF IInv
      <3>3. chan' = [chan EXCEPT ![subscribers[i]] = Append(chan[subscribers[i]], p)]
        BY <2>2 DEF Offer
      <3> QED
        BY <1>1, <3>2, <3>3 DEF IInv, TypeOK
    <2> QED
      BY <2>1, <2>2
  <1>3. TypeOK'
    BY <1>2 DEF IInv, TypeOK, Offer
  <1>4. VisitsFindSomeone'
    BY DEF IInv, TypeOK, Offer, VisitsFindSomeone
  <1>5. RegisteredUnderItsId' /\ SilentIsShared'
    BY DEF IInv, Offer, RegisteredUnderItsId, SilentIsShared
  <1> QED
    BY <1>3, <1>4, <1>5 DEF IInv

\* Shutting down, and doing nothing.
LEMMA OtherPreserves ==
    ASSUME IInv, Shutdown \/ Stopped \/ UNCHANGED vars
    PROVE  IInv'
  <1>1. UNCHANGED <<at, id, chan, subscribers, casts, started>>
        /\ server' \in {"running", "stopping", "stopped"}
    BY DEF IInv, TypeOK, Shutdown, Stopped, vars
  <1>2. TypeOK'
    BY <1>1 DEF IInv, TypeOK
  <1>3. RegisteredUnderItsId' /\ VisitsFindSomeone' /\ SilentIsShared'
    BY <1>1 DEF IInv, RegisteredUnderItsId, VisitsFindSomeone, SilentIsShared
  <1> QED
    BY <1>2, <1>3 DEF IInv

-----------------------------------------------------------------------------
\* SubscribePolicies and BroadcastOrchestrationPolicy keep the map, the channels and the
\* broadcasts under way in step.
THEOREM SubscribersInvariant == Spec => []IInv
  <1>1. ASSUME IInv, [Next]_vars PROVE IInv'
    <2>1. CASE \E h \in Handlers : Subscribe(h) \/ Handle(h) \/ Send(h)
      BY <1>1, <2>1, HandlerPreserves, RegisterPreserves, LeavePreserves DEF Handle
    <2>2. CASE \E p \in Policies : Cast(p)
      BY <1>1, <2>2, OfferPreserves DEF Cast
    <2>3. CASE Broadcast
      BY <1>1, <2>3, BroadcastPreserves
    <2>4. CASE Shutdown \/ Stopped \/ UNCHANGED vars
      BY <1>1, <2>4, OtherPreserves
    <2> QED
      BY <1>1, <2>1, <2>2, <2>3, <2>4 DEF Next
  <1> QED
    BY InitInvariant, <1>1, PTL DEF Spec

\* Every channel holds at most its capacity, and every entry of the map is a handler.
THEOREM SubscribersTypeCorrect == Spec => []TypeOK
  <1>1. IInv => TypeOK
    BY DEF IInv
  <1> QED
    BY SubscribersInvariant, <1>1, PTL

\* BroadcastOrchestrationPolicy never sends on a channel that SubscribePolicies has closed.
THEOREM ChannelsAreOpen == Spec => []OffersReachOpenChannels
  <1>1. IInv => OffersReachOpenChannels
    BY DEF IInv, RegisteredUnderItsId, VisitsFindSomeone, OffersReachOpenChannels
  <1> QED
    BY SubscribersInvariant, <1>1, PTL

\* A subscriber whose id no other call has used is in the map as long as it is served.
THEOREM OwnIdIsReached == Spec => []OnlySharedIdsAreSilent
  <1>1. IInv => OnlySharedIdsAreSilent
    BY DEF IInv, SilentIsShared, OnlySharedIdsAreSilent, Waiting
  <1> QED
    BY SubscribersInvariant, <1>1, PTL
=============================================================================
