------------------------- MODULE MCPolicyGenerator -------------------------
(* A small instance of PolicyGenerator for TLC. *)
EXTENDS PolicyGenerator

MCPodLists == {<<"obstacle", "bare">>, <<"bare", "deployed">>}
MCAnswers  == {<<"scaling">>, <<"scaling", "migration">>}
=============================================================================
