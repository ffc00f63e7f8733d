----------------------- MODULE MCDistributedMatchmaking -----------------------
(***************************************************************************)
(* Two agents, each in the second range of the other.                      *)
(***************************************************************************)
EXTENDS DistributedMatchmaking, TLC

CONSTANTS a1, a2

MCAgents == {a1, a2}
MCRatings == (a1 :> 5) @@ (a2 :> 7)
=============================================================================
