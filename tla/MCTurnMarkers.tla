---------------------------- MODULE MCTurnMarkers ----------------------------
EXTENDS TurnMarkers
=============================================================================
