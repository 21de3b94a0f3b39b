------------------------- MODULE MCMissionManager -------------------------
EXTENDS MissionManager

CONSTANTS Periods   \* the stale_after of both modes, for the cfg

MCStaleAfter == [m \in Targets |-> Periods]
=============================================================================
