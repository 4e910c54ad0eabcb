--------------------------- MODULE PolicyGenerator ---------------------------
(***************************************************************************)
(* The policy generator, internal/generator/policy_generator.go: one       *)
(* goroutine that, at its start and at every tick of its ticker, lists the *)
(* nodes, has each analysed by the forecaster client, and creates an       *)
(* OrchestrationPolicy for every recommendation that is not a repetition   *)
(* of one it remembers. What it remembers is in its memory only.           *)
(*                                                                         *)
(* A key is the pair of node and policy type; the resource, which the code *)
(* adds to the key, is left out: there is one. Of a CR that was created    *)
(* the model keeps its age.                                                *)
(***************************************************************************)
EXTENDS ForecasterClient, FiniteSets

CONSTANTS
    CheckInterval,   \* checkInterval
    PolicyTTL,       \* policyTTL
    CheckDuplicates, \* not disableDuplicateCheck
    PodLists         \* what may be listed as the pods of a node

ASSUME GeneratorAssumption ==
    /\ CheckInterval \in Nat \ {0} /\ PolicyTTL \in Nat \ {0} /\ MaxAge > PolicyTTL
    /\ CheckDuplicates \in BOOLEAN

VARIABLES
    pc,        \* where runPolicyGeneration is
    todo,      \* nodes of this cycle still to be analysed
    recs,      \* recommendations of the node still to be handled
    work,      \* what findTargetWorkload returned
    recorded,  \* keys of recentPolicies
    recordAge, \* the age of their records
    ticked,    \* the ticker's channel holds a tick
    tickAge,   \* time since the ticker ticked
    made,      \* age of the newest CR of each key
    early      \* some CR was created less than PolicyTTL after one of the same key

cycleVars  == <<pc, todo, recs, work>>
memoryVars == <<recorded, recordAge>>
crVars     == <<made, early>>
clockVars  == <<ticked, tickAge>>
vars == <<clientVars, faults, cycleVars, memoryVars, clockVars, crVars>>

-----------------------------------------------------------------------------
Keys == Nodes \X Types

Steps == {"stopped", "waiting", "next", "analyse", "lookup", "check", "create", "record"}

\* A pod is an obstacle to orchestration (a namespace not allowed, a system or platform
\* component, a product of a migration, an image without a shell, not running, of a
\* DaemonSet), or it is suitable, and then may be owned by a Deployment.
Suitable(pod) == pod # "obstacle"
Owned(pod)    == pod = "deployed"
NoWork        == [deployment |-> FALSE, pod |-> FALSE]

\* The first suitable pod of a Deployment, else the first suitable pod.
FindTargetWorkload(list) ==
    [deployment |-> \E i \in DOMAIN list : Owned(list[i]),
     pod        |-> \E i \in DOMAIN list : Suitable(list[i])]

\* A migration needs a pod, every other policy a Deployment.
ResolveTargetWorkload(type, found) == IF type = "migration" THEN found.pod ELSE found.deployment

TypeOK ==
    /\ ClientTypeOK
    /\ pc \in Steps /\ todo \subseteq Nodes /\ recs \in Seq(Types)
    /\ pc \in {"create", "record"} => recs # <<>>
    /\ work \in [deployment : BOOLEAN, pod : BOOLEAN]
    /\ recorded \subseteq Keys /\ recordAge \in [Keys -> Ages]
    /\ ticked \in BOOLEAN /\ tickAge \in 0..(CheckInterval - 1)
    /\ made \in [Keys -> Ages] /\ early \in BOOLEAN

Rest == /\ todo' = {} /\ recs' = <<>> /\ work' = NoWork

Init ==
    /\ ClientInit
    /\ pc = "stopped" /\ todo = {} /\ recs = <<>> /\ work = NoWork
    /\ recorded = {} /\ recordAge = [k \in Keys |-> 0]
    /\ ticked = FALSE /\ tickAge = 0
    /\ made = [k \in Keys |-> MaxAge] /\ early = FALSE

-----------------------------------------------------------------------------
(* Start, and runPolicyGeneration: one cycle.                              *)

\* getNodes: those of the cached list that are Ready, whichever they are; without the
\* list the cycle is over, and nothing is cleaned up.
RunPolicyGeneration ==
    \/ /\ pc' = "next" /\ todo' \in SUBSET Nodes
       /\ recs' = <<>> /\ work' = NoWork /\ UNCHANGED faults
    \/ /\ pc' = "waiting" /\ Fault /\ Rest

\* The first cycle is at once, the ticker starts with it.
Start ==
    /\ pc = "stopped" /\ RunPolicyGeneration
    /\ ticked' = FALSE /\ tickAge' = 0
    /\ UNCHANGED <<clientVars, memoryVars, crVars>>

OnTick ==
    /\ pc = "waiting" /\ ticked /\ RunPolicyGeneration
    /\ ticked' = FALSE
    /\ UNCHANGED <<clientVars, memoryVars, crVars, tickAge>>

\* analyzeAndCreatePolicy of the next node.
AnalyseNode ==
    /\ pc = "next" /\ pc' = "analyse"
    /\ \E n \in todo : todo' = todo \ {n} /\ Ask(n)
    /\ UNCHANGED <<cache, faults, memoryVars, clockVars, crVars, recs, work>>

\* An error, or no recommendation, ends the analysis of the node.
Analysed ==
    /\ pc = "analyse" /\ call.stage = "done"
    /\ pc' = IF call.ok /\ call.recs # <<>> THEN "lookup" ELSE "next"
    /\ recs' = IF call.ok THEN call.recs ELSE <<>>
    /\ call' = Call("idle", call.node, FALSE, <<>>, 0)
    /\ UNCHANGED <<cache, faults, memoryVars, clockVars, crVars, todo, work>>

\* findTargetWorkload, which has nothing to offer when the pods cannot be listed.
Lookup ==
    /\ pc = "lookup" /\ pc' = "check"
    /\ \/ work' \in {FindTargetWorkload(list) : list \in PodLists} /\ UNCHANGED faults
       \/ work' = NoWork /\ Fault
    /\ UNCHANGED <<clientVars, memoryVars, clockVars, crVars, todo, recs>>

Key == <<call.node, Head(recs)>>

IsDuplicatePolicy(k) == CheckDuplicates /\ k \in recorded /\ recordAge[k] < PolicyTTL

\* Mutant: a repetition renews the record.
Check_Renews ==
    /\ pc = "check"
    /\ \/ recs = <<>> /\ pc' = "next" /\ UNCHANGED <<recs, recordAge>>
       \/ /\ recs # <<>>
          /\ \/ /\ IsDuplicatePolicy(Key)
                /\ recs' = Tail(recs) /\ recordAge' = [recordAge EXCEPT ![Key] = 0]
                /\ UNCHANGED pc
             \/ /\ ~IsDuplicatePolicy(Key)
                /\ IF ResolveTargetWorkload(Head(recs), work)
                   THEN pc' = "create" /\ UNCHANGED recs
                   ELSE recs' = Tail(recs) /\ UNCHANGED pc
                /\ UNCHANGED recordAge
    /\ UNCHANGED <<clientVars, faults, recorded, clockVars, crVars, todo, work>>

\* The next recommendation: skipped when it is a repetition or has no workload to act on.
Check ==
    /\ pc = "check"
    /\ \/ recs = <<>> /\ pc' = "next" /\ UNCHANGED recs
       \/ /\ recs # <<>>
          /\ \/ /\ IsDuplicatePolicy(Key) \/ ~ResolveTargetWorkload(Head(recs), work)
                /\ recs' = Tail(recs) /\ UNCHANGED pc
             \/ /\ ~IsDuplicatePolicy(Key) /\ ResolveTargetWorkload(Head(recs), work)
                /\ pc' = "create" /\ UNCHANGED recs
    /\ UNCHANGED <<clientVars, faults, memoryVars, clockVars, crVars, todo, work>>

\* createPolicyFromRecommendation and its storing by the API server.
NewPolicy ==
    /\ made' = [made EXCEPT ![Key] = 0]
    /\ early' = (early \/ made[Key] < PolicyTTL)

\* Create: done; refused or not sent; done, and the reply lost. After an error nothing
\* is recorded.
Create ==
    /\ pc = "create"
    /\ \/ NewPolicy /\ pc' = "record" /\ UNCHANGED <<recs, faults>>
       \/ UNCHANGED crVars /\ Fault /\ pc' = "check" /\ recs' = Tail(recs)
       \/ NewPolicy /\ Fault /\ pc' = "check" /\ recs' = Tail(recs)
    /\ UNCHANGED <<clientVars, memoryVars, clockVars, todo, work>>

RecordPolicy ==
    /\ pc = "record" /\ pc' = "check"
    /\ recorded' = recorded \cup {Key} /\ recordAge' = [recordAge EXCEPT ![Key] = 0]
    /\ recs' = Tail(recs)
    /\ UNCHANGED <<clientVars, faults, clockVars, crVars, todo, work>>

\* cleanupOldPolicyRecords, the end of a cycle.
\* Mutant: it keeps the old records and drops the young ones.
CleanupOldPolicyRecords_Inverted ==
    /\ pc = "next" /\ todo = {} /\ pc' = "waiting" /\ Rest
    /\ recorded' = {k \in recorded : recordAge[k] > PolicyTTL}
    /\ recordAge' = [k \in Keys |-> IF k \in recorded' THEN recordAge[k] ELSE 0]
    /\ call' = NoCall
    /\ UNCHANGED <<cache, faults, clockVars, crVars>>

CleanupOldPolicyRecords ==
    /\ pc = "next" /\ todo = {} /\ pc' = "waiting" /\ Rest
    /\ recorded' = {k \in recorded : recordAge[k] <= PolicyTTL}
    /\ recordAge' = [k \in Keys |-> IF k \in recorded' THEN recordAge[k] ELSE 0]
    /\ call' = NoCall
    /\ UNCHANGED <<cache, faults, clockVars, crVars>>

Analyse == pc = "analyse" /\ ClientNext /\ UNCHANGED <<cycleVars, memoryVars, clockVars, crVars>>

-----------------------------------------------------------------------------
(* Time, the ticker, and a process that is killed or has lost its lease.   *)

Tick ==
    /\ ClientTick
    /\ recordAge' = [k \in Keys |-> IF k \in recorded THEN Older(recordAge[k]) ELSE recordAge[k]]
    /\ made' = [k \in Keys |-> Older(made[k])]
    /\ IF pc = "stopped" THEN UNCHANGED clockVars
       ELSE IF tickAge + 1 = CheckInterval THEN ticked' = TRUE /\ tickAge' = 0
       ELSE ticked' = ticked /\ tickAge' = tickAge + 1
    /\ UNCHANGED <<faults, cycleVars, recorded, early>>

Crash ==
    /\ pc # "stopped" /\ Fault /\ pc' = "stopped" /\ Rest
    /\ ClientCrash
    /\ recorded' = {} /\ recordAge' = [k \in Keys |-> 0]
    /\ ticked' = FALSE /\ tickAge' = 0
    /\ UNCHANGED crVars

Work == \/ Start \/ OnTick \/ AnalyseNode \/ Analyse \/ Analysed \/ Lookup
        \/ Check \/ Create \/ RecordPolicy \/ CleanupOldPolicyRecords

Next == Work \/ Tick \/ Crash

Spec     == Init /\ [][Next]_vars
\* The goroutine runs on while it can, and time passes.
FairSpec == Spec /\ WF_vars(Work) /\ WF_vars(Tick)

-----------------------------------------------------------------------------
(* Properties.                                                             *)

\* Two policies of the same node and type are created at least PolicyTTL apart, as
\* long as no call failed and the process did not restart: the record is made after
\* the CR is, and dropped only when it no longer counts.
OnePolicyPerTTL == CheckDuplicates /\ faults = 0 => ~early

\* A forecast that is acted upon is never older than the cache keeps it plus the time
\* its request may take, however often the cache is hit.
ForecastIsFresh ==
    call.stage = "done" /\ call.ok => call.predicted < CacheTTL + HttpTimeout

\* A node that from some time on is listed in every cycle, that every analysis has
\* something to recommend for, and on which a pod of a Deployment is always found, is
\* given a policy again and again: neither the records nor the cache silence it.
Listed(n)      == pc' = "next" /\ pc \in {"stopped", "waiting"} => n \in todo'
Pressed(n)     == call.node = n /\ call.stage = "done" => call.ok /\ call.recs # <<>>
Deployed(n)    == call.node = n /\ pc = "check" => work.deployment

HotNodeIsServed ==
    \A n \in Nodes : <>[][Listed(n)]_vars /\ <>[](Pressed(n) /\ Deployed(n))
                      => []<>(\E t \in Types : made[<<n, t>>] = 0)
=============================================================================
