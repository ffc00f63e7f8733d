---------------------- MODULE MCMatchmakingCoordinator ----------------------
(***************************************************************************)
(* Instances are interchangeable; symmetry is used only where no liveness  *)
(* property is checked.                                                    *)
(***************************************************************************)
EXTENDS MatchmakingCoordinator, TLC

Symmetry == Permutations(Instance)
=============================================================================
