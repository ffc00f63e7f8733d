----------------------------- MODULE MCRateLimit ------------------------------
(***************************************************************************)
(* Seconds of two ticks.                                                   *)
(***************************************************************************)
EXTENDS RateLimit, TLC

Symmetry == Permutations(Request)
=============================================================================
