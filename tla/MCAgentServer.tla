--------------------------- MODULE MCAgentServer ---------------------------
(* Small instances of AgentServer for TLC. *)
EXTENDS AgentServer, TLC

CONSTANTS c1, c2

\* No connection is special: the safety run may exchange them.
ConnSymmetry == Permutations(Conns)
=============================================================================
