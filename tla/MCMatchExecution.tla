-------------------------- MODULE MCMatchExecution --------------------------
(***************************************************************************)
(* Three agents of one environment and one of another would differ only in *)
(* rejected pairs, so the environments are a 2 + 1 split of the agents.    *)
(***************************************************************************)
EXTENDS MatchExecution, TLC

CONSTANTS a1, a2, a3

MCAgents == {a1, a2, a3}
MCEnvironmentOf == [a \in MCAgents |-> IF a = a3 THEN "other" ELSE "pong"]

(***************************************************************************)
(* The logistic curve in thousandths, exact at multiples of 100 points and *)
(* linear in between, which is within 0.003 of the curve.                  *)
(***************************************************************************)
MCScale == 1000
MCSpan  == 800
Knots   == <<500, 640, 760, 849, 909, 947, 969, 983, 990>>
Rising(d) ==
  LET k == d \div 100
      r == d % 100
  IN IF r = 0 THEN Knots[k + 1]
     ELSE Knots[k + 1] + ((Knots[k + 2] - Knots[k + 1]) * r) \div 100
MCExpected == [d \in -MCSpan..MCSpan |-> IF d >= 0 THEN Rising(d) ELSE MCScale - Rising(-d)]

Symmetry == Permutations(Worker) \cup Permutations(MatchId)
=============================================================================
