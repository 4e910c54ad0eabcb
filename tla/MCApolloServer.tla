---------------------------- MODULE MCApolloServer ----------------------------
(* A small instance of ApolloServer for TLC. *)
EXTENDS ApolloServer

CONSTANTS n1, n2

Sig(node, io, gpu) == [node |-> node, io |-> io, gpu |-> gpu]
Node(used, free, gpus) ==
    [known |-> TRUE, cpuUsed |-> used, cpuTotal |-> 20, cpuFree |-> free,
     memUsed |-> 0, memTotal |-> 0, memFree |-> 0, gpus |-> gpus, csds |-> {}]

MCSignatures == {Sig(n1, "random", TRUE), Sig(n2, "read_heavy", FALSE), Sig(NoNode, "bursty", FALSE)}

\* Under pressure with a GPU, just not under pressure, and without resources.
MCInsights   == {Node(19, 1, 1), Node(18, 6, 0), [Node(0, 0, 0) EXCEPT !.known = FALSE]}
=============================================================================
