--------------------------- MODULE MCPolicyServices ---------------------------
(* A small instance of PolicyServices for TLC. *)
EXTENDS PolicyServices, TLC

Work(io, gpu, stage, dependent) ==
    [io |-> io, gpu |-> gpu, stage |-> stage, type |-> "image", dependent |-> dependent]
Node(used, gpuFree, csds) ==
    [known |-> TRUE, cpuUsed |-> used, cpuTotal |-> 20, cpuFree |-> 20 - used,
     memUsed |-> 0, memTotal |-> 0, memFree |-> 0, gpuFree |-> gpuFree, csds |-> csds, disks |-> {}]
CSD == [available |-> TRUE, busy |-> 10]

MCSignatures == {Work("random", TRUE, "training", FALSE),
                 Work("read_heavy", FALSE, "inference", TRUE)}

\* Two with a GPU, overloaded (its score is the threshold) and loaded, one at exactly 80 %,
\* one free with a CSD, and one whose resources nobody has reported.
MCInsights   == {Node(18, 1, {}), Node(15, 1, {}), Node(16, 0, {}), Node(2, 0, {CSD}),
                 [Node(0, 0, {}) EXCEPT !.known = FALSE]}

\* All properties of the run are invariants, and none tells requests or nodes apart.
Symmetry == Permutations(Callers) \cup Permutations(Nodes)
=============================================================================
