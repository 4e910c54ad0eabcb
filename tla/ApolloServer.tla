----------------------------- MODULE ApolloServer -----------------------------
(***************************************************************************)
(* The APOLLO server of cmd/main.go: reports of workloads and nodes come   *)
(* in over streams (a single report is a stream of one), the monitor       *)
(* counts and keeps the latest of them, the server stores them, and        *)
(* scheduling and orchestration policies are computed from the store. A    *)
(* report and a policy request take several locks one after the other, and *)
(* every gRPC call runs in a goroutine of its own.                         *)
(***************************************************************************)
EXTENDS PlacementRules, Sequences

CONSTANTS
    Pods, Nodes,
    NoNode,       \* a name under which no node reports
    Streams,      \* report streams open at a time
    Signatures,   \* what is reported of a pod: a record with its node
    Insights,     \* what is reported of a node
    Unknown,      \* nothing is stored
    MaxRecent,    \* reports the monitor keeps: 100
    MaxReports    \* bound: reports received

ASSUME ServerAssumption ==
    /\ Pods # {} /\ IsFiniteSet(Streams) /\ NoNode \notin Nodes /\ Unknown \notin Signatures \cup Insights
    /\ \A sig \in Signatures : sig.node \in Nodes \cup {NoNode}
    /\ MaxRecent \in Nat \ {0} /\ MaxReports \in Nat

VARIABLES
    signatures,   \* workloadSignatures
    insights,     \* clusterInsights
    streams,      \* the report streams: where each is, with which report
    counted,      \* workloadSignatureCount, clusterInsightCount
    recent,       \* recentWorkloads, recentInsights
    acked,        \* pods whose signature the server has acknowledged
    query,        \* the policy request in progress
    answer        \* the last policy returned

vars == <<signatures, insights, streams, counted, recent, acked, query, answer>>

-----------------------------------------------------------------------------
Kinds     == {"signature", "insight"}
Reports   == [kind : {"signature"}, of : Pods, data : Signatures]
             \cup [kind : {"insight"}, of : Nodes, data : Insights]
NoReport  == [kind |-> "none", of |-> NoNode, data |-> Unknown]
Stream(at, report, pods) == [at |-> at, report |-> report, pods |-> pods]
NoStream  == Stream("closed", NoReport, {})
Actions   == {"none", "unknown", "allow", "keep", "migrate"}
NoAnswer  == [action |-> "none", source |-> NoNode, target |-> NoNode]
Query(at, pod, known, sig) == [at |-> at, pod |-> pod, known |-> known, sig |-> sig]
NoQuery   == Query("idle", CHOOSE p \in Pods : TRUE, FALSE, Unknown)

Received == counted["signature"] + counted["insight"]
Between(kind, at) == Cardinality({s \in Streams : streams[s].at = at
                                                  /\ streams[s].report.kind = kind})

TypeOK ==
    /\ signatures \in [Pods -> Signatures \cup {Unknown}]
    /\ insights \in [Nodes -> Insights \cup {Unknown}]
    /\ streams \in [Streams -> [at : {"closed", "open", "received", "counted", "logged"},
                                report : Reports \cup {NoReport}, pods : SUBSET Pods]]
    /\ counted \in [Kinds -> Nat]
    /\ recent \in [Kinds -> Seq(Pods \cup Nodes)]
    /\ \A k \in Kinds : Len(recent[k]) <= MaxRecent
    /\ acked \subseteq Pods
    /\ query \in [at : {"idle", "asked", "read", "pressed", "prefer"}, pod : Pods,
                  known : BOOLEAN, sig : Signatures \cup {Unknown}]
    /\ answer \in [action : Actions, source : Nodes \cup {NoNode}, target : Nodes \cup {NoNode}]

Init ==
    /\ signatures = [p \in Pods |-> Unknown] /\ insights = [n \in Nodes |-> Unknown]
    /\ streams = [s \in Streams |-> NoStream]
    /\ counted = [k \in Kinds |-> 0] /\ recent = [k \in Kinds |-> <<>>]
    /\ acked = {} /\ query = NoQuery /\ answer = NoAnswer

-----------------------------------------------------------------------------
(* StreamWorkloadSignatures, StreamClusterInsights and the single reports  *)

Kept     == UNCHANGED <<query, answer>>
Report(s) == streams[s].report

Move(s, at) == streams' = [streams EXCEPT ![s] = Stream(at, Report(s), streams[s].pods)]

Open(s) ==
    /\ streams[s].at = "closed" /\ Move(s, "open")
    /\ UNCHANGED <<signatures, insights, counted, recent, acked>> /\ Kept

\* stream.Recv: the bound holds for the reports that are not yet counted, too.
Receive(s) ==
    /\ streams[s].at = "open"
    /\ Received + Between("signature", "received") + Between("insight", "received") < MaxReports
    /\ \E r \in Reports :
          streams' = [streams EXCEPT ![s] = Stream("received", r, streams[s].pods)]
    /\ UNCHANGED <<signatures, insights, counted, recent, acked>> /\ Kept

\* LogWorkloadSignature, LogClusterInsight: the counter is atomic ...
Count(s) ==
    /\ streams[s].at = "received"
    /\ counted' = [counted EXCEPT ![Report(s).kind] = @ + 1]
    /\ Move(s, "counted")
    /\ UNCHANGED <<signatures, insights, recent, acked>> /\ Kept

\* Mutant: the counter decides whether the oldest report has to go.
Log_ByCount(s) ==
    /\ streams[s].at = "counted"
    /\ LET kind == Report(s).kind
           kept == IF counted[kind] > MaxRecent /\ recent[kind] # <<>>
                   THEN Tail(recent[kind]) ELSE recent[kind]
       IN  recent' = [recent EXCEPT ![kind] = Append(kept, Report(s).of)]
    /\ Move(s, "logged")
    /\ UNCHANGED <<signatures, insights, counted, acked>> /\ Kept

\* ... the list of the latest reports has a lock.
Log(s) ==
    /\ streams[s].at = "counted"
    /\ LET kind == Report(s).kind
           kept == IF Len(recent[kind]) >= MaxRecent THEN Tail(recent[kind]) ELSE recent[kind]
       IN  recent' = [recent EXCEPT ![kind] = Append(kept, Report(s).of)]
    /\ Move(s, "logged")
    /\ UNCHANGED <<signatures, insights, counted, acked>> /\ Kept

\* handleWorkloadSignature, handleClusterInsight: whatever is stored is replaced, however
\* old the report is. Each map entry is written under dataMu.
Store(s) ==
    /\ streams[s].at = "logged"
    /\ LET r == Report(s)
           sig == r.kind = "signature"
       IN  /\ signatures' = IF sig THEN [signatures EXCEPT ![r.of] = r.data] ELSE signatures
           /\ insights' = IF sig THEN insights ELSE [insights EXCEPT ![r.of] = r.data]
           /\ streams' = [streams EXCEPT ![s] =
                 Stream("open", NoReport, streams[s].pods \cup IF sig THEN {r.of} ELSE {})]
    /\ UNCHANGED <<counted, recent, acked>> /\ Kept

\* Mutant: the report in progress is acknowledged with the others.
Close_Early(s) ==
    /\ streams[s].at \in {"open", "logged"}
    /\ LET now == IF Report(s).kind = "signature" THEN {Report(s).of} ELSE {}
       IN  acked' = acked \cup streams[s].pods \cup now
    /\ streams' = [streams EXCEPT ![s] =
          IF @.at = "open" THEN NoStream ELSE Stream(@.at, @.report, {})]
    /\ UNCHANGED <<signatures, insights, counted, recent>> /\ Kept

\* The client closes its stream and is told how many reports were received and processed,
\* or the stream breaks and it is told nothing.
Close(s) ==
    /\ streams[s].at = "open"
    /\ acked' \in {acked, acked \cup streams[s].pods}
    /\ streams' = [streams EXCEPT ![s] = NoStream]
    /\ UNCHANGED <<signatures, insights, counted, recent>> /\ Kept

-----------------------------------------------------------------------------
(* GetSchedulingPolicy, GetOrchestrationPolicy                             *)

Stored == UNCHANGED <<signatures, insights, streams, counted, recent, acked>>

Reply(a) == answer' = a /\ query' = NoQuery

Answer(action, source, target) == [action |-> action, source |-> source, target |-> target]

Ask ==
    /\ query.at = "idle"
    /\ \E p \in Pods :
          query' = Query("asked", p, p \in acked, Unknown)
    /\ answer' = NoAnswer /\ Stored

\* The first lock: the signature, which no one changes once it is stored.
ReadSignature ==
    /\ query.at = "asked"
    /\ LET sig == signatures[query.pod]
       IN  IF sig = Unknown THEN Reply(Answer("unknown", NoNode, NoNode))
           ELSE /\ \E at \in {"read", "prefer"} : query' = Query(at, query.pod, query.known, sig)
                /\ UNCHANGED answer
    /\ Stored

\* calculateNodePreferences: of all nodes, under the second lock.
Preferences == [n \in {m \in Nodes : insights[m] # Unknown} |->
                   Preference(query.sig, insights[n])]

Prefer ==
    /\ query.at = "prefer" /\ Reply(Answer("allow", query.sig.node, NoNode)) /\ Stored

\* getOrchestrationPolicy: the pod's node, under the second lock.
ReadInsight ==
    /\ query.at = "read"
    /\ LET node == query.sig.node
       IN  IF node \in Nodes /\ insights[node] # Unknown /\ UnderPressure(insights[node])
           THEN query' = Query("pressed", query.pod, query.known, query.sig) /\ UNCHANGED answer
           ELSE Reply(Answer("keep", node, NoNode))
    /\ Stored

\* findMigrationTarget: the other nodes, under the third lock. Among equals the order of
\* the map decides; without a target the policy still says to migrate.
FindMigrationTarget ==
    /\ query.at = "pressed"
    /\ LET Candidates == {n \in Nodes \ {query.sig.node} :
                             insights[n] # Unknown /\ Room(insights[n]) > 0}
           score == [n \in Candidates |-> Room(insights[n])]
       IN  IF Candidates = {} THEN Reply(Answer("migrate", query.sig.node, NoNode))
           ELSE \E n \in Best(score) : Reply(Answer("migrate", query.sig.node, n))
    /\ Stored

-----------------------------------------------------------------------------
Take(s) == Count(s) \/ Log(s) \/ Store(s)
Next ==
    \/ \E s \in Streams : Open(s) \/ Receive(s) \/ Take(s) \/ Close(s)
    \/ Ask \/ ReadSignature \/ Prefer \/ ReadInsight \/ FindMigrationTarget

Spec == Init /\ [][Next]_vars
-----------------------------------------------------------------------------
(* Properties                                                              *)

\* Once a stream's reports are acknowledged, a policy for a pod among them is computed from
\* a signature: "No workload signature found" is never the answer to a later request.
AcknowledgedIsUsed ==
    [][query.at = "asked" /\ query.known => answer'.action # "unknown"]_vars

\* The monitor's list is as long as the number of reports counted, up to MaxRecent, but for
\* those between the counter and the list: no interleaving of streams loses an entry or
\* lets the list outgrow its bound. (Which reports it holds is a matter of the list's own
\* lock: they may have been counted in another order.)
RecentIsFull ==
    \A k \in Kinds :
        Len(recent[k]) = Least(MaxRecent, counted[k] - Between(k, "counted"))

\* For a GPU workload that is not I/O-heavy each node with a GPU is preferred to each
\* without, whatever their other resources. (With a CSD and free cores a node without a
\* GPU is preferred by I/O-heavy ones.)
GPUNodesComeFirst ==
    query.at = "prefer" /\ query.sig.gpu /\ ~Heavy(query.sig) =>
        \A n, m \in DOMAIN Preferences :
            insights[n].gpus > 0 /\ insights[m].gpus = 0 => Preferences[n] > Preferences[m]
=============================================================================
