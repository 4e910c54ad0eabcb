-------------------------- MODULE MCPolicyDecision --------------------------
EXTENDS PolicyDecision

Node(name, control) == [name |-> name, control |-> control]
MCClusters == {<<Node("n1", TRUE), Node("n2", FALSE), Node("n3", FALSE)>>,
               <<Node("n1", TRUE), Node("n2", FALSE)>>, <<Node("n2", FALSE)>>}

\* At, just below and just above each threshold of a resource and each bound of the rules.
MCUtilizations == {279, 280, 399, 400, 419, 420, 499, 500, 849, 850, 899, 900, 949, 950, 1000}

MCLearned == {Recommendation(t, u, "CPU", p, 15) :
                t \in Types, u \in Urgencies, p \in {39, 40, 45, 49, 50, 90}}

MCUserSpecs ==
    {[type |-> t, probability |-> p, urgency |-> u, source |-> "n1", target |-> n,
      workload |-> w, auto |-> a, mode |-> m, score |-> s,
      parameters |-> [NoParameters EXCEPT !.targetNode = o, !.scope = c]] :
        t \in {"migration", "loadbalance"}, p \in {39, 45, 50}, u \in {"CRITICAL", "HIGH"},
        n \in {"", "n1", "n2"}, w \in {"", "workload"}, a \in BOOLEAN,
        m \in {"Immediate", "Continuous"}, s \in {0, 79, 80, 84}, o \in {"", "n1"}, c \in {"", "all"}}

\* What an agent leaves out of its answer is empty in the spec it replaces.
MCForeignSpecs ==
    {[type |-> t, probability |-> 50, urgency |-> "HIGH", source |-> "", target |-> "",
      workload |-> w, auto |-> a, mode |-> "Immediate", score |-> 0,
      parameters |-> NoParameters] :
        t \in {"migration", "scaling"}, w \in {"", "workload"}, a \in BOOLEAN}
=============================================================================
