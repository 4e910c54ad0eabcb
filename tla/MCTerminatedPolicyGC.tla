------------------------ MODULE MCTerminatedPolicyGC ------------------------
(* Small instances of TerminatedPolicyGC for TLC. *)
EXTENDS TerminatedPolicyGC

CONSTANTS p1, p2
=============================================================================
