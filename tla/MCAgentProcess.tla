---------------------------- MODULE MCAgentProcess ----------------------------
(* Two calls in the memory of one process, for AgentProcess.                   *)
EXTENDS AgentProcess

CONSTANTS k1, k2, p

OneProcess == [k \in {k1, k2} |-> p]
=============================================================================
