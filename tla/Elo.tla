-------------------------------- MODULE Elo --------------------------------
(***************************************************************************)
(* The rating arithmetic of internal/service/elo_service.go.               *)
(*                                                                         *)
(* The code computes in float64.  Here a probability is a whole number of  *)
(* 1/Scale parts, and the logistic curve 1/(1+10^((b-a)/400)) is the       *)
(* constant function Expected over rating differences.  Beyond Span (at    *)
(* least 800 points) the curve moves no rating by as much as half a point, *)
(* so differences are clamped there.                                       *)
(***************************************************************************)
EXTENDS Integers

CONSTANTS
  Scale,      \* parts of a certain win
  Span,       \* rating differences are clamped to -Span..Span
  Expected    \* Expected[d]: score expected of the player rated d points higher

(***************************************************************************)
(* What the logistic curve guarantees: the two players' expectations sum   *)
(* to one, and the stronger player is expected to score at least as much.  *)
(***************************************************************************)
ASSUME EloAssumption ==
  /\ Scale \in Nat \ {0}
  /\ Span \in Nat
  /\ Expected \in [-Span..Span -> 0..Scale]
  /\ \A d \in -Span..Span : Expected[d] + Expected[-d] = Scale
  /\ \A d, e \in -Span..Span : d <= e => Expected[d] <= Expected[e]

-----------------------------------------------------------------------------
\* A result is counted in half points for agent1, as the code's 1.0, 0.5, 0.0.
Agent1Wins == 2
Draw       == 1
Agent2Wins == 0
Results    == {Agent1Wins, Draw, Agent2Wins}

\* The same result seen by agent2 (the code's 1.0 - result).
Reverse(result) == 2 - result

GetKFactor(matchCount) ==
  IF matchCount < 10 THEN 40 ELSE IF matchCount < 20 THEN 32 ELSE 24

Clamp(d) == IF d < -Span THEN -Span ELSE IF d > Span THEN Span ELSE d

ExpectedScore(ratingA, ratingB) == Expected[Clamp(ratingA - ratingB)]

\* math.Round(num / den) for den > 0: halves are rounded away from zero.
Round(num, den) ==
  IF num >= 0 THEN (2 * num + den) \div (2 * den)
              ELSE -((den - 2 * num) \div (2 * den))

\* The rating after a match of a player with factor k who scored result
\* half points where expected parts of Scale were expected.
NewRating(elo, k, result, expected) ==
  Round(2 * Scale * elo + k * (Scale * result - 2 * expected), 2 * Scale)

\* The two changes of CalculateNewRatingsWithMatchCounts.
Agent1Change(elo1, elo2, matches1, result) ==
  NewRating(elo1, GetKFactor(matches1), result, ExpectedScore(elo1, elo2)) - elo1

Agent2Change(elo1, elo2, matches2, result) ==
  NewRating(elo2, GetKFactor(matches2), Reverse(result),
            Scale - ExpectedScore(elo1, elo2)) - elo2

=============================================================================
