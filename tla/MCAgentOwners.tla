--------------------------- MODULE MCAgentOwners ---------------------------
(* The gateway, started again after it went, next to a `ferrule run`. *)
EXTENDS AgentOwners
CONSTANTS g1, g2, r1, a, b
MCSeat == [p \in Procs |-> IF p = r1 THEN "run" ELSE "gateway"]
MCHome == [x \in Agents |-> IF x = a THEN "gateway" ELSE "run"]
=============================================================================
