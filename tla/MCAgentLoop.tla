---------------------------- MODULE MCAgentLoop ----------------------------
EXTENDS AgentLoop

MCShapes == {<<"fetch", "fetch", "write">>}
=============================================================================
