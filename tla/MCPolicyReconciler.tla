------------------------- MODULE MCPolicyReconciler -------------------------
(* Small instances of PolicyReconciler for TLC. *)
EXTENDS PolicyReconciler

P(type, mode, auto, named) == [type |-> type, mode |-> mode, auto |-> auto, named |-> named]

MCEach    == {P("migration", "Immediate", TRUE, TRUE), P("scaling", "Immediate", TRUE, TRUE),
              P("provisioning", "Immediate", TRUE, TRUE),
              P("caching", "OnTargetCreated", FALSE, TRUE),
              P("preemption", "Continuous", FALSE, FALSE)}
MCStale   == {P("scaling", "Immediate", TRUE, TRUE), P("migration", "", FALSE, TRUE),
              P("caching", "OnTargetCreated", TRUE, TRUE)}
MCLive    == {P("migration", "Immediate", TRUE, TRUE), P("scaling", "Continuous", TRUE, TRUE)}
MCTarget  == {P("caching", "OnTargetCreated", TRUE, TRUE)}
MCScaling == {P("scaling", "Immediate", TRUE, TRUE)}
=============================================================================
