------------------------- MODULE ApolloServer_proofs -------------------------
(***************************************************************************)
(* The APOLLO server for any pods, nodes, streams and reports. A signature *)
(* is never taken out of the store: so what a stream has stored, or has    *)
(* had acknowledged, is there when a request reads it. The streams between *)
(* the counter and the list are what the two differ by.                    *)
(***************************************************************************)
EXTENDS ApolloServer, SequenceTheorems, FiniteSetTheorems, TLAPS

Has(p) == signatures[p] # Unknown

\* What a stream holds while it handles a report.
StreamsHoldReports ==
    \A s \in Streams :
        streams[s].at \in {"received", "counted", "logged"} => streams[s].report \in Reports

\* Stored is stored, acknowledged or not.
StoredIsThere ==
    /\ \A p \in acked : Has(p)
    /\ \A s \in Streams : \A p \in streams[s].pods : Has(p)

\* What a request knows at each of its locks.
RequestIsInOrder ==
    /\ query.at = "asked" => answer = NoAnswer /\ (query.known => Has(query.pod))
    /\ query.at \in {"read", "pressed", "prefer"} => query.sig \in Signatures
    /\ query.at = "pressed" => query.sig.node \in Nodes

IInv == /\ TypeOK /\ StreamsHoldReports /\ StoredIsThere
        /\ RequestIsInOrder

StreamTypes == [at : {"closed", "open", "received", "counted", "logged"},
                report : Reports \cup {NoReport}, pods : SUBSET Pods]

-----------------------------------------------------------------------------
\* Nothing is stored, asked or answered at first.
LEMMA Initially == Init => IInv
<1> SUFFICES ASSUME Init PROVE IInv
  OBVIOUS
<1>1. NoStream \in StreamTypes
  BY DEF NoStream, Stream, StreamTypes
<1>2. NoQuery \in [at : {"idle", "asked", "read", "pressed", "prefer"}, pod : Pods,
                   known : BOOLEAN, sig : Signatures \cup {Unknown}]
  BY ServerAssumption DEF NoQuery, Query
<1>3. NoAnswer \in [action : Actions, source : Nodes \cup {NoNode}, target : Nodes \cup {NoNode}]
  BY DEF NoAnswer, Actions
<1>4. \A k \in Kinds : recent[k] = <<>> /\ Len(recent[k]) <= MaxRecent
  BY ServerAssumption DEF Init
<1>5. recent \in [Kinds -> Seq(Pods \cup Nodes)]
  <2>1. <<>> \in Seq(Pods \cup Nodes)
    BY EmptySeq
  <2> QED
    BY <2>1 DEF Init
<1>6. TypeOK
  BY <1>1, <1>2, <1>3, <1>4, <1>5 DEF Init, TypeOK, StreamTypes
<1> QED
  BY <1>6 DEF Init, IInv, StreamsHoldReports, StoredIsThere, RequestIsInOrder,
              NoStream, Stream, NoQuery, Query, NoAnswer

\* The fields of a stream, and what a changed stream is like.
LEMMA StreamType ==
  ASSUME TypeOK, NEW s \in Streams
  PROVE  /\ streams[s] \in StreamTypes /\ Report(s) \in Reports \cup {NoReport}
         /\ streams[s].pods \subseteq Pods
  BY DEF TypeOK, StreamTypes, Report

\* A step of a stream which changes that stream only keeps the order of the others, and of
\* the requests.
LEMMA StreamStep ==
  ASSUME IInv, NEW s \in Streams, NEW x \in StreamTypes,
         streams' = [streams EXCEPT ![s] = x],
         x.at \in {"received", "counted", "logged"} => x.report \in Reports,
         \A p \in x.pods : signatures'[p] # Unknown,
         \A p \in Pods : Has(p) => signatures'[p] # Unknown,
         \A p \in acked' : signatures'[p] # Unknown,
         signatures' \in [Pods -> Signatures \cup {Unknown}],
         insights' \in [Nodes -> Insights \cup {Unknown}],
         counted' \in [Kinds -> Nat],
         recent' \in [Kinds -> Seq(Pods \cup Nodes)],
         \A k \in Kinds : Len(recent'[k]) <= MaxRecent,
         acked' \subseteq Pods, UNCHANGED <<query, answer>>
  PROVE  IInv'
<1>1. TypeOK /\ query.pod \in Pods
  BY DEF IInv, TypeOK
<1>2. streams \in [Streams -> StreamTypes]
  BY <1>1 DEF TypeOK, StreamTypes
<1>3. streams' \in [Streams -> StreamTypes]
  BY <1>2
<1>4. streams'[s] = x /\ \A z \in Streams \ {s} : streams'[z] = streams[z]
  BY <1>2
<1>5. TypeOK'
  BY <1>1, <1>3 DEF TypeOK, StreamTypes
<1>6. StreamsHoldReports'
  BY <1>4 DEF StreamsHoldReports, IInv
<1>7. StoredIsThere'
  <2>1. \A z \in Streams \ {s} : \A p \in streams[z].pods : p \in Pods /\ Has(p)
    BY <1>2 DEF IInv, StoredIsThere, StreamTypes
  <2> QED
    BY <1>4, <2>1 DEF StoredIsThere, Has
<1>8. RequestIsInOrder'
  BY <1>1 DEF IInv, RequestIsInOrder, Has
<1> QED
  BY <1>5, <1>6, <1>7, <1>8 DEF IInv

\* A stream is opened, and receives.
LEMMA ReceivePreserves ==
  ASSUME IInv, NEW s \in Streams, Open(s) \/ Receive(s)
  PROVE  IInv'
<1>1. TypeOK /\ streams[s] \in StreamTypes
  BY StreamType DEF IInv
<1>2. PICK x \in StreamTypes :
        /\ streams' = [streams EXCEPT ![s] = x] /\ x.pods = streams[s].pods
        /\ x.at \in {"received", "counted", "logged"} => x.report \in Reports
  <2>1. CASE Open(s)
    <3>1. streams' = [streams EXCEPT ![s] = Stream("open", Report(s), streams[s].pods)]
      BY <2>1 DEF Open, Move
    <3>2. Stream("open", Report(s), streams[s].pods) \in StreamTypes
      BY <1>1 DEF Stream, StreamTypes, Report
    <3> QED
      BY <3>1, <3>2 DEF Stream
  <2>2. CASE Receive(s)
    <3>1. PICK r \in Reports : streams' = [streams EXCEPT ![s] = Stream("received", r, streams[s].pods)]
      BY <2>2 DEF Receive
    <3>2. Stream("received", r, streams[s].pods) \in StreamTypes
      BY <1>1 DEF Stream, StreamTypes
    <3> QED
      BY <3>1, <3>2 DEF Stream
  <2> QED
    BY <2>1, <2>2
<1>3. UNCHANGED <<signatures, insights, counted, recent, acked, query, answer>>
  BY DEF Open, Receive, Kept
<1> QED
  BY <1>1, <1>2, <1>3, StreamStep DEF IInv, TypeOK, StoredIsThere, Has

\* The monitor's counter and its list.
LEMMA MonitorPreserves ==
  ASSUME IInv, NEW s \in Streams, Count(s) \/ Log(s)
  PROVE  IInv'
<1> DEFINE kind == Report(s).kind
<1>1. TypeOK /\ streams[s] \in StreamTypes
  BY StreamType DEF IInv
<1>2. Report(s) \in Reports
  BY DEF IInv, StreamsHoldReports, Count, Log, Report
<1>3. kind \in Kinds /\ Report(s).of \in Pods \cup Nodes
  BY <1>2 DEF Reports, Kinds
<1>4. PICK x \in StreamTypes :
        /\ streams' = [streams EXCEPT ![s] = x] /\ x.pods = streams[s].pods
        /\ x.report \in Reports
  <2>1. PICK at \in {"counted", "logged"} : Move(s, at)
    BY DEF Count, Log
  <2>2. Stream(at, Report(s), streams[s].pods) \in StreamTypes
    BY <1>1, <1>2 DEF Stream, StreamTypes
  <2> QED
    BY <1>2, <2>1, <2>2 DEF Move, Stream
<1>5. counted' \in [Kinds -> Nat]
  <2>1. counted \in [Kinds -> Nat]
    BY <1>1 DEF TypeOK
  <2>2. CASE Count(s)
    BY <1>3, <2>1, <2>2 DEF Count
  <2>3. CASE Log(s)
    BY <2>1, <2>3 DEF Log
  <2> QED
    BY <2>2, <2>3
<1>6. recent' \in [Kinds -> Seq(Pods \cup Nodes)] /\ \A k \in Kinds : Len(recent'[k]) <= MaxRecent
  <2>1. recent \in [Kinds -> Seq(Pods \cup Nodes)] /\ \A k \in Kinds : Len(recent[k]) <= MaxRecent
    BY <1>1 DEF TypeOK
  <2>2. CASE Count(s)
    BY <2>1, <2>2 DEF Count
  <2>3. CASE Log(s)
    <3> DEFINE kept == IF Len(recent[kind]) >= MaxRecent THEN Tail(recent[kind]) ELSE recent[kind]
    <3>1. kept \in Seq(Pods \cup Nodes) /\ Len(kept) + 1 <= MaxRecent
      <4>1. recent[kind] \in Seq(Pods \cup Nodes) /\ Len(recent[kind]) <= MaxRecent
        BY <1>3, <2>1
      <4>2. Len(recent[kind]) \in Nat /\ MaxRecent \in Nat \ {0}
        BY <4>1, ServerAssumption, LenProperties
      <4>3. CASE Len(recent[kind]) >= MaxRecent
        <5>1. recent[kind] # <<>>
          BY <4>2, <4>3
        <5>2. Tail(recent[kind]) \in Seq(Pods \cup Nodes)
              /\ Len(Tail(recent[kind])) = Len(recent[kind]) - 1
          BY <4>1, <5>1, HeadTailProperties
        <5> QED
          BY <4>1, <4>2, <4>3, <5>2
      <4>4. CASE ~(Len(recent[kind]) >= MaxRecent)
        BY <4>1, <4>2, <4>4
      <4> QED
        BY <4>3, <4>4
    <3>2. recent' = [recent EXCEPT ![kind] = Append(kept, Report(s).of)]
      BY <2>3 DEF Log
    <3> HIDE DEF kept
    <3>3. Append(kept, Report(s).of) \in Seq(Pods \cup Nodes)
          /\ Len(Append(kept, Report(s).of)) = Len(kept) + 1
      BY <1>3, <3>1, AppendProperties
    <3>4. \A k \in Kinds : recent'[k] = IF k = kind THEN Append(kept, Report(s).of) ELSE recent[k]
      BY <2>1, <3>2
    <3>5. \A k \in Kinds : Len(recent'[k]) <= MaxRecent
      BY <2>1, <3>1, <3>3, <3>4
    <3> QED
      BY <2>1, <3>2, <3>3, <3>5
  <2> QED
    BY <2>2, <2>3
<1>7. UNCHANGED <<signatures, insights, acked, query, answer>>
  BY DEF Count, Log, Kept
<1> HIDE DEF kind
<1> QED
  BY <1>1, <1>4, <1>5, <1>6, <1>7, StreamStep DEF IInv, TypeOK, StoredIsThere, Has

\* A report is stored: nothing that was stored goes.
LEMMA StorePreserves ==
  ASSUME IInv, NEW s \in Streams, Store(s)
  PROVE  IInv'
<1> DEFINE r == Report(s)
           sig == r.kind = "signature"
           x == Stream("open", NoReport, streams[s].pods \cup IF sig THEN {r.of} ELSE {})
<1>1. TypeOK /\ streams[s] \in StreamTypes /\ streams[s].pods \subseteq Pods
  BY StreamType DEF IInv
<1>2. r \in Reports
  BY DEF IInv, StreamsHoldReports, Store, Report
<1>3. IF sig THEN r.of \in Pods /\ r.data \in Signatures ELSE r.of \in Nodes /\ r.data \in Insights
  BY <1>2 DEF Reports
<1>4. /\ signatures' = IF sig THEN [signatures EXCEPT ![r.of] = r.data] ELSE signatures
      /\ insights' = IF sig THEN insights ELSE [insights EXCEPT ![r.of] = r.data]
      /\ streams' = [streams EXCEPT ![s] = x]
      /\ UNCHANGED <<counted, recent, acked, query, answer>>
  BY DEF Store, Kept
<1>5. x \in StreamTypes /\ x.at = "open" /\ x.pods = streams[s].pods \cup IF sig THEN {r.of} ELSE {}
  BY <1>1, <1>3 DEF Stream, StreamTypes
<1> HIDE DEF x, r
<1>6. /\ signatures \in [Pods -> Signatures \cup {Unknown}]
      /\ insights \in [Nodes -> Insights \cup {Unknown}]
      /\ acked \subseteq Pods
  BY <1>1 DEF TypeOK
<1>7. /\ signatures' \in [Pods -> Signatures \cup {Unknown}]
      /\ insights' \in [Nodes -> Insights \cup {Unknown}]
  BY <1>3, <1>4, <1>6
<1>8. \A p \in Pods : Has(p) => signatures'[p] # Unknown
  BY <1>3, <1>4, <1>6, ServerAssumption DEF Has
<1>9. sig => signatures'[r.of] # Unknown
  BY <1>3, <1>4, <1>6, ServerAssumption
<1>10. \A p \in acked' \cup x.pods : signatures'[p] # Unknown
  <2>1. \A p \in acked \cup streams[s].pods : Has(p)
    BY DEF IInv, StoredIsThere
  <2> QED
    BY <1>1, <1>4, <1>5, <1>6, <1>8, <1>9, <2>1
<1>11. /\ counted' \in [Kinds -> Nat] /\ recent' \in [Kinds -> Seq(Pods \cup Nodes)]
       /\ \A k \in Kinds : Len(recent'[k]) <= MaxRecent
  BY <1>1, <1>4 DEF TypeOK
<1> HIDE DEF sig
<1> QED
  BY <1>4, <1>5, <1>6, <1>7, <1>8, <1>10, <1>11, StreamStep

\* What is acknowledged was stored.
LEMMA ClosePreserves ==
  ASSUME IInv, NEW s \in Streams, Close(s)
  PROVE  IInv'
<1>1. TypeOK /\ streams[s] \in StreamTypes /\ streams[s].pods \subseteq Pods
  BY StreamType DEF IInv
<1>2. /\ NoStream \in StreamTypes /\ NoStream.pods = {}
      /\ NoStream.at = "closed"
  BY DEF NoStream, Stream, StreamTypes
<1>3. /\ acked' \in {acked, acked \cup streams[s].pods}
      /\ streams' = [streams EXCEPT ![s] = NoStream]
      /\ UNCHANGED <<signatures, insights, counted, recent, query, answer>>
  BY DEF Close, Kept
<1>4. acked' \subseteq Pods /\ \A p \in acked' : signatures'[p] # Unknown
  BY <1>1, <1>3 DEF IInv, TypeOK, StoredIsThere, Has
<1> QED
  BY <1>1, <1>2, <1>3, <1>4, StreamStep DEF IInv, TypeOK, Has

-----------------------------------------------------------------------------
QueryTypes  == [at : {"idle", "asked", "read", "pressed", "prefer"}, pod : Pods,
                known : BOOLEAN, sig : Signatures \cup {Unknown}]
AnswerTypes == [action : Actions, source : Nodes \cup {NoNode}, target : Nodes \cup {NoNode}]

\* A step of a request leaves the store alone.
LEMMA QueryStep ==
  ASSUME IInv, Stored, query' \in QueryTypes, answer' \in AnswerTypes,
         RequestIsInOrder'
  PROVE  IInv'
<1>1. TypeOK'
  BY DEF IInv, TypeOK, Stored, QueryTypes, AnswerTypes
<1>2. StreamsHoldReports' /\ StoredIsThere'
  BY DEF IInv, StreamsHoldReports, StoredIsThere, Has, Stored
<1> QED
  BY <1>1, <1>2 DEF IInv

\* A request that is answered is over.
LEMMA ReplyPreserves ==
  ASSUME IInv, Stored, NEW action \in Actions, NEW source \in Nodes \cup {NoNode},
         NEW target \in Nodes \cup {NoNode},
         Reply(Answer(action, source, target))
  PROVE  IInv'
<1>1. NoQuery \in QueryTypes /\ NoQuery.at = "idle"
  BY ServerAssumption DEF NoQuery, Query, QueryTypes
<1>2. Answer(action, source, target) \in AnswerTypes
  BY DEF Answer, AnswerTypes
<1>3. query' = NoQuery /\ answer' = Answer(action, source, target)
  BY DEF Reply
<1>4. RequestIsInOrder'
  BY <1>1, <1>3 DEF RequestIsInOrder
<1> QED
  BY <1>1, <1>2, <1>3, <1>4, QueryStep

\* A request begins: a pod that was acknowledged is in the store.
LEMMA AskPreserves == IInv /\ Ask => IInv'
<1> SUFFICES ASSUME IInv, Ask PROVE IInv'
  OBVIOUS
<1>1. PICK p \in Pods : query' = Query("asked", p, p \in acked, Unknown)
  BY DEF Ask
<1>2. query' \in QueryTypes
  BY <1>1 DEF Query, QueryTypes
<1>3. answer' = NoAnswer /\ NoAnswer \in AnswerTypes /\ NoAnswer.action = "none"
  BY DEF Ask, NoAnswer, AnswerTypes, Actions
<1>4. Stored
  BY DEF Ask
<1>5. RequestIsInOrder'
  <2>1. query'.at = "asked" /\ query'.pod = p /\ query'.known = (p \in acked)
    BY <1>1 DEF Query
  <2>2. p \in acked => Has(p)'
    BY <1>4 DEF IInv, StoredIsThere, Has, Stored
  <2> QED
    BY <1>3, <2>1, <2>2 DEF RequestIsInOrder, Has
<1> QED
  BY <1>2, <1>3, <1>4, <1>5, QueryStep

\* The first lock.
LEMMA ReadSignaturePreserves == IInv /\ ReadSignature => IInv'
<1> SUFFICES ASSUME IInv, ReadSignature PROVE IInv'
  OBVIOUS
<1> DEFINE sig == signatures[query.pod]
<1>1. /\ query \in QueryTypes /\ query.pod \in Pods /\ answer \in AnswerTypes
      /\ sig \in Signatures \cup {Unknown}
  BY DEF IInv, TypeOK, QueryTypes, AnswerTypes
<1>2. Stored /\ query.at = "asked"
  BY DEF ReadSignature
<1>3. CASE sig = Unknown
  <2>1. Reply(Answer("unknown", NoNode, NoNode))
    BY <1>3 DEF ReadSignature
  <2> QED
    BY <1>2, <2>1, ReplyPreserves DEF Actions
<1>4. CASE sig # Unknown
  <2>1. PICK at \in {"read", "prefer"} : query' = Query(at, query.pod, query.known, sig)
    BY <1>4 DEF ReadSignature
  <2>2. answer' = answer
    BY <1>4 DEF ReadSignature
  <2>3. query' \in QueryTypes
    BY <1>1, <2>1 DEF Query, QueryTypes
  <2>4. query'.at = at /\ query'.sig = sig
    BY <2>1 DEF Query
  <2> HIDE DEF sig
  <2>5. RequestIsInOrder'
    BY <1>1, <1>4, <2>4 DEF RequestIsInOrder
  <2> QED
    BY <1>1, <1>2, <2>2, <2>3, <2>5, QueryStep
<1> QED
  BY <1>3, <1>4

\* The second lock.
LEMMA SecondLockPreserves == IInv /\ (Prefer \/ ReadInsight) => IInv'
<1> SUFFICES ASSUME IInv, Prefer \/ ReadInsight PROVE IInv'
  OBVIOUS
<1> DEFINE node == query.sig.node
<1>1. /\ query \in QueryTypes /\ query.pod \in Pods /\ query.known \in BOOLEAN
      /\ answer \in AnswerTypes
  BY DEF IInv, TypeOK, QueryTypes, AnswerTypes
<1>2. Stored /\ query.at \in {"read", "prefer"}
  BY DEF Prefer, ReadInsight
<1>3. query.sig \in Signatures
  BY <1>2 DEF IInv, RequestIsInOrder
<1>4. node \in Nodes \cup {NoNode}
  BY <1>3, ServerAssumption
<1>5. CASE Reply(Answer("allow", node, NoNode)) \/ Reply(Answer("keep", node, NoNode))
  BY <1>2, <1>4, <1>5, ReplyPreserves DEF Actions
<1>6. CASE /\ node \in Nodes /\ answer' = answer
           /\ query' = Query("pressed", query.pod, query.known, query.sig)
  <2>1. query' \in QueryTypes /\ query'.at = "pressed" /\ query'.sig = query.sig
    BY <1>1, <1>3, <1>6 DEF Query, QueryTypes
  <2>2. RequestIsInOrder'
    BY <1>3, <1>6, <2>1 DEF RequestIsInOrder
  <2> QED
    BY <1>1, <1>2, <1>6, <2>1, <2>2, QueryStep
<1> QED
  BY <1>5, <1>6 DEF Prefer, ReadInsight

\* The third lock: the target is looked for among the other nodes.
LEMMA TargetPreserves == IInv /\ FindMigrationTarget => IInv'
<1> SUFFICES ASSUME IInv, FindMigrationTarget PROVE IInv'
  OBVIOUS
<1>1. Stored /\ query.at = "pressed"
  BY DEF FindMigrationTarget
<1>2. query.sig.node \in Nodes
  BY <1>1 DEF IInv, RequestIsInOrder
<1>3. PICK target \in (Nodes \ {query.sig.node}) \cup {NoNode} :
        Reply(Answer("migrate", query.sig.node, target))
  <2> DEFINE Candidates == {n \in Nodes \ {query.sig.node} :
                              insights[n] # Unknown /\ Room(insights[n]) > 0}
             score == [n \in Candidates |-> Room(insights[n])]
  <2>1. CASE Candidates = {}
    BY <2>1 DEF FindMigrationTarget
  <2>2. CASE Candidates # {}
    <3>1. PICK n \in Best(score) : Reply(Answer("migrate", query.sig.node, n))
      BY <2>2 DEF FindMigrationTarget
    <3>2. Best(score) \subseteq Candidates
      BY DEF Best
    <3> QED
      BY <3>1, <3>2
  <2> QED
    BY <2>1, <2>2
<1> QED
  BY <1>1, <1>2, <1>3, ReplyPreserves DEF Actions

-----------------------------------------------------------------------------
\* One step of the server.
LEMMA StepPreserves == IInv /\ [Next]_vars => IInv'
<1> SUFFICES ASSUME IInv, [Next]_vars PROVE IInv'
  OBVIOUS
<1>1. CASE \E s \in Streams : Open(s) \/ Receive(s) \/ Take(s) \/ Close(s)
  BY <1>1, ReceivePreserves, MonitorPreserves, StorePreserves, ClosePreserves DEF Take
<1>2. CASE Ask \/ ReadSignature \/ Prefer \/ ReadInsight \/ FindMigrationTarget
  BY <1>2, AskPreserves, ReadSignaturePreserves, SecondLockPreserves, TargetPreserves
<1>3. CASE UNCHANGED vars
  BY <1>3 DEF IInv, TypeOK, StreamsHoldReports, StoredIsThere, Has, RequestIsInOrder,
              vars
<1> QED
  BY <1>1, <1>2, <1>3 DEF Next

\* The invariant holds in every state.
THEOREM ServerInvariant == Spec => []IInv
<1> QED
  BY Initially, StepPreserves, PTL DEF Spec

\* Types, and the monitor never keeps more than MaxRecent reports.
THEOREM ServerTypeCorrect == Spec => []TypeOK
<1>1. IInv => TypeOK
  BY DEF IInv
<1> QED
  BY ServerInvariant, <1>1, PTL

\* A request for a pod whose signature was acknowledged before finds it.
THEOREM AcknowledgedIsFound == Spec => AcknowledgedIsUsed
<1>1. IInv /\ [Next]_vars
        => [query.at = "asked" /\ query.known => answer'.action # "unknown"]_vars
  <2> SUFFICES ASSUME IInv, Next, query.at = "asked", query.known
               PROVE  answer'.action # "unknown"
    OBVIOUS
  <2>1. answer = NoAnswer /\ NoAnswer.action # "unknown" /\ Has(query.pod)
    BY DEF IInv, RequestIsInOrder, NoAnswer
  <2>2. answer' = answer
    <3>1. CASE \E s \in Streams : Open(s) \/ Receive(s) \/ Take(s) \/ Close(s)
      BY <3>1 DEF Open, Receive, Take, Count, Log, Store, Close, Kept
    <3>2. CASE ReadSignature
      BY <2>1, <3>2 DEF ReadSignature, Has
    <3> QED
      BY <3>1, <3>2 DEF Next, Ask, Prefer, ReadInsight, FindMigrationTarget
  <2> QED
    BY <2>1, <2>2
<1> QED
  BY ServerInvariant, <1>1, PTL DEF Spec, AcknowledgedIsUsed

\* The streams between the counter and the list.
Counted(k) == {s \in Streams : streams[s].at = "counted" /\ streams[s].report.kind = k}

LEMMA CountedFinite ==
  \A k : /\ IsFiniteSet(Counted(k)) /\ Cardinality(Counted(k)) \in Nat
        /\ Between(k, "counted") = Cardinality(Counted(k))
<1> SUFFICES ASSUME NEW k
             PROVE  /\ IsFiniteSet(Counted(k)) /\ Cardinality(Counted(k)) \in Nat
                    /\ Between(k, "counted") = Cardinality(Counted(k))
  OBVIOUS
<1>1. IsFiniteSet(Counted(k))
  BY ServerAssumption, FS_Subset DEF Counted
<1> QED
  BY <1>1, FS_CardinalityType DEF Between, Counted

\* Counter, list and the streams between them change together.
LEMMA FullStep == IInv /\ RecentIsFull /\ [Next]_vars => RecentIsFull'
<1> SUFFICES ASSUME IInv, RecentIsFull, [Next]_vars,
                    NEW k \in Kinds
             PROVE  Len(recent'[k]) = Least(MaxRecent, counted'[k] - Cardinality(Counted(k)'))
  <2>1. \A k \in Kinds : Between(k, "counted")' = Cardinality(Counted(k)')
    BY CountedFinite DEF Between, Counted
  <2> QED
    BY <2>1 DEF RecentIsFull
<1>1. Len(recent[k]) = Least(MaxRecent, counted[k] - Cardinality(Counted(k)))
  BY CountedFinite DEF RecentIsFull
<1>2. /\ streams \in [Streams -> StreamTypes] /\ counted \in [Kinds -> Nat]
      /\ recent \in [Kinds -> Seq(Pods \cup Nodes)]
  BY DEF IInv, TypeOK, StreamTypes
<1>3. CASE UNCHANGED <<counted, recent>> /\ Counted(k)' = Counted(k)
  BY <1>1, <1>3
<1>4. ASSUME NEW s \in Streams, Count(s)
      PROVE  Len(recent'[k]) = Least(MaxRecent, counted'[k] - Cardinality(Counted(k)'))
  <2>1. /\ streams[s].at = "received" /\ recent' = recent
        /\ counted' = [counted EXCEPT ![Report(s).kind] = @ + 1]
        /\ streams' = [streams EXCEPT ![s] = Stream("counted", Report(s), streams[s].pods)]
    BY <1>4 DEF Count, Move
  <2>2. CASE Report(s).kind = k
    <3>1. Counted(k)' = Counted(k) \cup {s} /\ s \notin Counted(k)
      BY <1>2, <2>1, <2>2 DEF Counted, Stream
    <3>2. Cardinality(Counted(k)') = Cardinality(Counted(k)) + 1
      BY <3>1, CountedFinite, FS_AddElement
    <3>3. counted'[k] = counted[k] + 1
      BY <1>2, <2>1, <2>2
    <3> QED
      BY <1>1, <1>2, <2>1, <3>2, <3>3, CountedFinite
  <2>3. CASE Report(s).kind # k
    <3>1. Counted(k)' = Counted(k)
      BY <1>2, <2>1, <2>3 DEF Counted, Stream
    <3>2. counted'[k] = counted[k]
      BY <1>2, <2>1, <2>3
    <3> QED
      BY <1>1, <2>1, <3>1, <3>2
  <2> QED
    BY <2>2, <2>3
<1>5. ASSUME NEW s \in Streams, Log(s)
      PROVE  Len(recent'[k]) = Least(MaxRecent, counted'[k] - Cardinality(Counted(k)'))
  <2> DEFINE kind == Report(s).kind
             kept == IF Len(recent[kind]) >= MaxRecent THEN Tail(recent[kind]) ELSE recent[kind]
  <2>1. /\ streams[s].at = "counted" /\ counted' = counted
        /\ recent' = [recent EXCEPT ![kind] = Append(kept, Report(s).of)]
        /\ streams' = [streams EXCEPT ![s] = Stream("logged", Report(s), streams[s].pods)]
    BY <1>5 DEF Log, Move
  <2>2. CASE kind = k
    <3>1. Counted(k)' = Counted(k) \ {s} /\ s \in Counted(k)
      BY <1>2, <2>1, <2>2 DEF Counted, Stream, Report
    <3>2. Cardinality(Counted(k)') = Cardinality(Counted(k)) - 1
      BY <3>1, CountedFinite, FS_RemoveElement
    <3>3. recent[k] \in Seq(Pods \cup Nodes) /\ Len(recent[k]) \in Nat /\ MaxRecent \in Nat \ {0}
      BY <1>2, ServerAssumption, LenProperties
    <3>4. /\ kept \in Seq(Pods \cup Nodes)
          /\ Len(kept) = IF Len(recent[k]) >= MaxRecent THEN Len(recent[k]) - 1 ELSE Len(recent[k])
      <4>1. CASE Len(recent[k]) >= MaxRecent
        <5>1. recent[k] # <<>>
          BY <3>3, <4>1
        <5> QED
          BY <2>2, <3>3, <4>1, <5>1, HeadTailProperties
      <4>2. CASE ~(Len(recent[k]) >= MaxRecent)
        BY <2>2, <3>3, <4>2
      <4> QED
        BY <4>1, <4>2
    <3>5. Report(s).of \in Pods \cup Nodes
      BY <2>1 DEF IInv, StreamsHoldReports, Report, Reports
    <3> HIDE DEF kept
    <3>6. Len(Append(kept, Report(s).of)) = Len(kept) + 1
      BY <3>4, <3>5, AppendProperties
    <3>7. Len(recent'[k]) = Len(kept) + 1
      BY <1>2, <2>1, <2>2, <3>6
    <3>8. counted[k] \in Nat /\ counted'[k] = counted[k]
      BY <1>2, <2>1
    <3> QED
      BY <1>1, <3>2, <3>3, <3>4, <3>7, <3>8, CountedFinite DEF Least
  <2>3. CASE kind # k
    <3>1. Counted(k)' = Counted(k)
      BY <1>2, <2>1, <2>3 DEF Counted, Stream, Report
    <3>2. recent'[k] = recent[k]
      BY <1>2, <2>1, <2>3
    <3> QED
      BY <1>1, <2>1, <3>1, <3>2
  <2> QED
    BY <2>2, <2>3
<1>6. ASSUME NEW s \in Streams, Open(s) \/ Receive(s) \/ Store(s) \/ Close(s)
      PROVE  UNCHANGED <<counted, recent>> /\ Counted(k)' = Counted(k)
  <2>1. PICK x : /\ streams' = [streams EXCEPT ![s] = x] /\ x.at # "counted"
                 /\ streams[s].at # "counted" /\ UNCHANGED <<counted, recent>>
    <3>1. \A at, report, pods : Stream(at, report, pods).at = at
      BY DEF Stream
    <3>2. CASE Open(s)
      <4> WITNESS Stream("open", Report(s), streams[s].pods)
      <4> QED
        BY <3>1, <3>2 DEF Open, Move
    <3>3. CASE Receive(s)
      <4>1. PICK r \in Reports : streams' = [streams EXCEPT ![s] = Stream("received", r, streams[s].pods)]
        BY <3>3 DEF Receive
      <4> WITNESS Stream("received", r, streams[s].pods)
      <4> QED
        BY <3>1, <3>3, <4>1 DEF Receive
    <3>4. CASE Store(s)
      <4> DEFINE pods == streams[s].pods \cup
                           IF Report(s).kind = "signature" THEN {Report(s).of} ELSE {}
      <4> WITNESS Stream("open", NoReport, pods)
      <4> QED
        BY <3>1, <3>4 DEF Store
    <3>5. CASE Close(s)
      <4> WITNESS NoStream
      <4> QED
        BY <3>1, <3>5 DEF Close, NoStream
    <3> QED
      BY <1>6, <3>2, <3>3, <3>4, <3>5
  <2>2. \A z \in Streams : streams'[z] = IF z = s THEN x ELSE streams[z]
    BY <1>2, <2>1
  <2> QED
    BY <2>1, <2>2 DEF Counted
<1>7. CASE \E s \in Streams : Open(s) \/ Receive(s) \/ Take(s) \/ Close(s)
  BY <1>3, <1>4, <1>5, <1>6, <1>7 DEF Take
<1>8. CASE Ask \/ ReadSignature \/ Prefer \/ ReadInsight \/ FindMigrationTarget \/ UNCHANGED vars
  <2>1. UNCHANGED <<counted, recent, streams>>
    BY <1>8 DEF Ask, ReadSignature, Prefer, ReadInsight, FindMigrationTarget, Stored, vars
  <2> QED
    BY <1>3, <2>1 DEF Counted
<1> QED
  BY <1>7, <1>8 DEF Next

\* The monitor's list is as long as what has been counted, up to its bound, for either kind.
THEOREM ListIsFull == Spec => []RecentIsFull
<1>1. Init => RecentIsFull
  <2> SUFFICES ASSUME Init, NEW k \in Kinds
               PROVE  Len(recent[k]) = Least(MaxRecent, counted[k] - Between(k, "counted"))
    BY DEF RecentIsFull
  <2>1. Counted(k) = {}
    BY DEF Init, Counted, NoStream, Stream
  <2>2. Cardinality(Counted(k)) = 0
    BY <2>1, FS_EmptySet
  <2> QED
    BY <2>2, CountedFinite, ServerAssumption DEF Init, Least
<1> QED
  BY <1>1, ServerInvariant, FullStep, PTL DEF Spec

\* The bonuses alone decide: whatever cores are free, 30 for a GPU outweigh 20 for them.
THEOREM GPUsOutweighCores == Spec => []GPUNodesComeFirst
<1>1. GPUNodesComeFirst
  <2> SUFFICES ASSUME query.sig.gpu, ~Heavy(query.sig),
                      NEW n \in DOMAIN Preferences, NEW m \in DOMAIN Preferences,
                      insights[n].gpus > 0, insights[m].gpus = 0
               PROVE  Preferences[n] > Preferences[m]
    BY DEF GPUNodesComeFirst
  <2>1. /\ Preferences[n] = Preference(query.sig, insights[n])
        /\ Preferences[m] = Preference(query.sig, insights[m])
    BY DEF Preferences
  <2>2. Preference(query.sig, insights[n]) >= 80
    BY DEF Preference
  <2>3. Preference(query.sig, insights[m]) <= 70
    BY DEF Preference
  <2>4. Preference(query.sig, insights[n]) \in Int /\ Preference(query.sig, insights[m]) \in Int
    BY DEF Preference
  <2> QED
    BY <2>1, <2>2, <2>3, <2>4
<1> QED
  BY <1>1, PTL
=============================================================================
