---------------------------- MODULE MCMatchmaking ----------------------------
(***************************************************************************)
(* Ratings in steps of 100 points.  Three agents: a1, a2 are equal, a3 is  *)
(* found at the second range only, or at the first.                        *)
(***************************************************************************)
EXTENDS Matchmaking, TLC

CONSTANTS a1, a2, a3

MCThree == {a1, a2, a3}
MCThreeRatings == (a1 :> 5) @@ (a2 :> 5) @@ (a3 :> 7)

\* The same with a3 in the first range.
MCNearRatings == (a1 :> 5) @@ (a2 :> 5) @@ (a3 :> 6)

\* There a1 and a2 are alike, both being ready.
Symmetry == Permutations(Instance) \cup Permutations({a1, a2})

\* A bound: of the replicas and the user, no more than two are at it at once.
TwoAtOnce == Cardinality({p \in Player : ~At(p, "idle")}) <= 2
=============================================================================
