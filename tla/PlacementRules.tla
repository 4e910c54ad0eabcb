---------------------------- MODULE PlacementRules ----------------------------
(***************************************************************************)
(* How APOLLO places workloads, as operators on a workload signature and   *)
(* on what is known of a node. The rules exist twice: in the server that   *)
(* runs (cmd/main.go) and in the library services (pkg/scheduling,         *)
(* pkg/orchestration), with thresholds and bonuses of their own.           *)
(*                                                                         *)
(* A use of cores or bytes exceeds a percentage of their total as the      *)
(* quotient of floats does: of a total of 0, any use is too much and no    *)
(* use is not.                                                             *)
(***************************************************************************)
EXTENDS Integers, FiniteSets

Over(used, total, percent)  == used * 100 > percent * total
Under(used, total, percent) == used * 100 < percent * total

Heavy(sig) == sig.io \in {"read_heavy", "write_heavy"}

\* The nodes with the highest score.
Best(score) == {n \in DOMAIN score : \A m \in DOMAIN score : score[m] <= score[n]}

-----------------------------------------------------------------------------
(* PluginWeights, in tenths. A later adjustment replaces an earlier one.   *)
(* The table exists in two copies that nothing keeps together: each has    *)
(* its own operators here.                                                 *)

Patterns == {"read_heavy", "write_heavy", "balanced", "sequential", "random", "bursty", "unknown"}
Stages   == {"data_loading", "preprocessing", "training", "validation", "inference",
             "postprocessing", "checkpointing", "idle", "unknown"}

\* calculatePluginWeights of the server.
DefaultWeights == [locality |-> 5, tier |-> 5, pattern |-> 5, kueue |-> 5, stage |-> 5]

ByPattern(w, io) ==
    CASE io \in {"read_heavy", "write_heavy"} ->
             [w EXCEPT !.locality = 8, !.tier = 9, !.pattern = 9]
      [] io = "sequential" -> [w EXCEPT !.tier = 8, !.pattern = 7]
      [] io = "random"     -> [w EXCEPT !.tier = 9, !.pattern = 8]
      [] io = "bursty"     -> [w EXCEPT !.tier = 7, !.pattern = 6]
      [] OTHER             -> w

ByStage(w, stage, gpu) ==
    CASE stage \in {"data_loading", "preprocessing"} -> [w EXCEPT !.locality = 9, !.stage = 8]
      [] stage = "training" -> [w EXCEPT !.stage = 7, !.tier = IF gpu THEN 6 ELSE @]
      [] stage = "inference" -> [w EXCEPT !.tier = 8, !.stage = 7]
      [] stage = "checkpointing" -> [w EXCEPT !.tier = 9, !.pattern = 8]
      [] OTHER -> w

ByType(w, type) == IF type \in {"image", "text"} THEN [w EXCEPT !.kueue = 7] ELSE w

PluginWeights(sig) ==
    ByType(ByStage(ByPattern(DefaultWeights, sig.io), sig.stage, sig.gpu), sig.type)

\* computePluginWeights of the service.
ServiceDefaults == [locality |-> 5, tier |-> 5, pattern |-> 5, kueue |-> 5, stage |-> 5]

ServiceByPattern(w, io) ==
    CASE io \in {"read_heavy", "write_heavy"} ->
             [w EXCEPT !.locality = 8, !.tier = 9, !.pattern = 9]
      [] io = "sequential" -> [w EXCEPT !.tier = 8, !.pattern = 7]
      [] io = "random"     -> [w EXCEPT !.tier = 9, !.pattern = 8]
      [] io = "bursty"     -> [w EXCEPT !.tier = 7, !.pattern = 6]
      [] OTHER             -> w

\* Mutant: inference is given a tier weight of its own in one of the copies.
ServiceByStage_Drifted(w, stage, gpu) ==
    CASE stage \in {"data_loading", "preprocessing"} -> [w EXCEPT !.locality = 9, !.stage = 8]
      [] stage = "training" -> [w EXCEPT !.stage = 7, !.tier = IF gpu THEN 6 ELSE @]
      [] stage = "inference" -> [w EXCEPT !.tier = 9, !.stage = 7]
      [] stage = "checkpointing" -> [w EXCEPT !.tier = 9, !.pattern = 8]
      [] OTHER -> w

ServiceByStage(w, stage, gpu) ==
    CASE stage \in {"data_loading", "preprocessing"} -> [w EXCEPT !.locality = 9, !.stage = 8]
      [] stage = "training" -> [w EXCEPT !.stage = 7, !.tier = IF gpu THEN 6 ELSE @]
      [] stage = "inference" -> [w EXCEPT !.tier = 8, !.stage = 7]
      [] stage = "checkpointing" -> [w EXCEPT !.tier = 9, !.pattern = 8]
      [] OTHER -> w

\* A workflow step with dependencies wants locality; kueue is for batches.
ByWorkflow(w, dependent) == IF dependent THEN [w EXCEPT !.locality = 9, !.stage = 8] ELSE w
ServiceByType(w, type)   == IF type \in {"image", "text"} THEN [w EXCEPT !.kueue = 7] ELSE w

ServicePluginWeights(sig) ==
    LET w == ServiceByStage(ServiceByPattern(ServiceDefaults, sig.io), sig.stage, sig.gpu)
    IN  ServiceByType(ByWorkflow(w, sig.dependent), sig.type)

-----------------------------------------------------------------------------
(* The server                                                              *)

\* Mutant: a GPU is worth no more than free cores.
Preference_Even(sig, node) ==
    50 + (IF node.known /\ node.cpuFree > 4 THEN 20 ELSE 0)
       + (IF sig.gpu /\ node.gpus > 0 THEN 20 ELSE 0)
       + (IF Heavy(sig) /\ node.csds # {} THEN 20 ELSE 0)

\* calculateNodePreferences.
Preference(sig, node) ==
    50 + (IF node.known /\ node.cpuFree > 4 THEN 20 ELSE 0)
       + (IF sig.gpu /\ node.gpus > 0 THEN 30 ELSE 0)
       + (IF Heavy(sig) /\ node.csds # {} THEN 20 ELSE 0)

\* getOrchestrationPolicy: more than 90 % of the cores or of the memory are used.
UnderPressure(node) ==
    /\ node.known
    /\ \/ node.cpuTotal > 0 /\ Over(node.cpuUsed, node.cpuTotal, 90)
       \/ node.memTotal > 0 /\ Over(node.memUsed, node.memTotal, 90)

\* findMigrationTarget: ten points a free core, one a free gigabyte.
Room(node) == IF node.known THEN 10 * node.cpuFree + node.memFree ELSE 0

-----------------------------------------------------------------------------
(* The scheduling service                                                  *)

Usable(csds, percent) == \E c \in csds : c.available /\ c.busy < percent

Least(a, b) == IF a <= b THEN a ELSE b

\* calculateNodeScore with the default configuration; 0 is "not suitable".
NodeScore(sig, node) ==
    IF ~node.known \/ (sig.gpu /\ node.gpuFree = 0) THEN 0
    ELSE Least(100, 50 + (IF sig.gpu THEN 30 ELSE 0)
                       + (IF Heavy(sig) /\ Usable(node.csds, 80) THEN 20 ELSE 0)
                       + 10 * Cardinality({d \in node.disks : d.fast /\ d.busy < 70})
                       + (IF node.cpuFree > 2 THEN 5 ELSE 0)
                       + (IF node.memFree > 4 THEN 5 ELSE 0))

\* Mutant: the threshold has to be exceeded.
Schedulings_Above(sig, nodes) ==
    LET Preferred == {n \in DOMAIN nodes : NodeScore(sig, nodes[n]) > 0}
    IN  IF Preferred = {} THEN {[decision |-> "allow", nodes |-> {}]}
        ELSE {[decision |-> IF NodeScore(sig, nodes[first]) > 80
                            THEN "prefer" ELSE "allow",
               nodes |-> Preferred] : first \in Preferred}

\* defaultPolicyGenerator: the preferences come in the order in which the map was ranged
\* over, and the first of them decides.
Threshold == 80

Schedulings(sig, nodes) ==
    LET Preferred == {n \in DOMAIN nodes : NodeScore(sig, nodes[n]) > 0}
    IN  IF Preferred = {} THEN {[decision |-> "allow", nodes |-> {}]}
        ELSE {[decision |-> IF NodeScore(sig, nodes[first]) >= Threshold
                            THEN "prefer" ELSE "allow",
               nodes |-> Preferred] : first \in Preferred}

-----------------------------------------------------------------------------
(* The orchestration service                                               *)

\* checkMigrationNeeded; a prediction is asked for the node by the caller.
MigrationNeeded(sig, node, overload) ==
    \/ node.known /\ Over(node.cpuUsed, node.cpuTotal, 80)
    \/ node.known /\ Over(node.memUsed, node.memTotal, 85)
    \/ \E d \in node.disks : d.busy > 90
    \/ sig.gpu /\ node.gpuFree = 0
    \/ Heavy(sig) /\ ~\E c \in node.csds : c.available
    \/ overload

\* calculateNodeSuitability; 0 is "not suitable".
Suitability(sig, node) ==
    IF ~node.known \/ (sig.gpu /\ node.gpuFree = 0) THEN 0
    ELSE Least(100, 50 + (IF Over(node.cpuFree, node.cpuTotal, 50) THEN 15
                          ELSE IF Over(node.cpuFree, node.cpuTotal, 30) THEN 10 ELSE 0)
                       + (IF Over(node.memFree, node.memTotal, 50) THEN 15
                          ELSE IF Over(node.memFree, node.memTotal, 30) THEN 10 ELSE 0)
                       + (IF sig.gpu THEN 25 ELSE 0)
                       + 10 * Cardinality({d \in node.disks : d.fast /\ d.busy < 50}))

\* findBestTargetNode: a bonus for a CSD goes to unsuitable nodes as well.
TargetScore(sig, node) ==
    Suitability(sig, node) + (IF Heavy(sig) /\ Usable(node.csds, 80) THEN 20 ELSE 0)

\* Mutant: critical begins at 75 %.
ScalingNeeded_Early(node) ==
    node.known /\ \/ Over(node.cpuUsed, node.cpuTotal, 60) /\ Under(node.cpuUsed, node.cpuTotal, 75)
                  \/ Over(node.memUsed, node.memTotal, 70) /\ Under(node.memUsed, node.memTotal, 85)

\* checkScalingNeeded: loaded, not yet critical.
ScalingNeeded(node) ==
    node.known /\ \/ Over(node.cpuUsed, node.cpuTotal, 60) /\ Under(node.cpuUsed, node.cpuTotal, 80)
                  \/ Over(node.memUsed, node.memTotal, 70) /\ Under(node.memUsed, node.memTotal, 85)

\* checkOptimizationPossible.
OptimizationPossible(sig, node) == Heavy(sig) /\ Usable(node.csds, 50)
=============================================================================
