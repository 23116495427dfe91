-------------------------- MODULE MCAgentPipeline --------------------------
(* Small instances of AgentPipeline for TLC: requests and peer values. *)
EXTENDS AgentPipeline

CONSTANTS r1, r2, r3, v1, v2

\* Key 1 has an ordinary value and one that vtysh refuses, key 2 an ordinary one
\* and one that wg may not take.
RefusedLines == {[key |-> 1, val |-> v2]}
=============================================================================
