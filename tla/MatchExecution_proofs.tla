----------------------- MODULE MatchExecution_proofs -----------------------
(***************************************************************************)
(* Match rows for any number of agents, workers, matches and faults.  The  *)
(* inductive invariant is TypeOK with CallShape: which locals of a call    *)
(* are set at which statement, and that it owns the row it created.        *)
(* History adds that the counters tally with the rows, Counted the same of *)
(* the rate limiter's table.  RatingIsLedger sums the changes of the rows  *)
(* that are applied; QueueRatingWasReal follows what a call has read.      *)
(***************************************************************************)
EXTENDS MatchExecution, FiniteSums

-----------------------------------------------------------------------------
(* The rating arithmetic, for every rating, match count and curve that     *)
(* EloAssumption allows                                                    *)

\* Division of integers, as far as it is needed: the quotient is an integer
\* that lies between any integer bounds of the fraction.
LEMMA Quotient ==
  ASSUME NEW x \in Int, NEW y \in Nat \ {0}
  PROVE  /\ x \div y \in Int
         /\ y * (x \div y) <= x
         /\ x < y * (x \div y) + y
  BY Z3

\* A product is monotonic in its second factor.
LEMMA Cancel ==
  ASSUME NEW y \in Nat \ {0}, NEW p \in Int, NEW q \in Int, y * p < y * q + y
  PROVE  p <= q
<1>1. SUFFICES ASSUME p > q PROVE FALSE
  OBVIOUS
<1>2. p - q - 1 \in Nat
  BY <1>1
<1>3. y * (p - q - 1) >= 0
  BY <1>2, Z3
<1>4. y * p = y * q + y + y * (p - q - 1)
  BY Z3
<1> QED
  BY <1>3, <1>4

\* Rounding stays on the same side of a rating as the number rounded.
LEMMA RoundBounds ==
  ASSUME NEW num \in Int, NEW den \in Nat \ {0}, NEW e \in Int
  PROVE  /\ Round(num, den) \in Int
         /\ num >= den * e => Round(num, den) >= e
         /\ num <= den * e => Round(num, den) <= e
<1> DEFINE twice == 2 * den
           q == (2 * num + den) \div twice
           r == (den - 2 * num) \div twice
<1>1. /\ twice \in Nat \ {0}
      /\ 2 * num + den \in Int
      /\ den - 2 * num \in Int
      /\ den * e \in Int
      /\ twice * e = 2 * (den * e)
      /\ twice * (-e) = -(twice * e)
  BY Z3
<1>2. q \in Int /\ twice * q <= 2 * num + den /\ 2 * num + den < twice * q + twice
  BY <1>1, Quotient
<1>3. r \in Int /\ twice * r <= den - 2 * num /\ den - 2 * num < twice * r + twice
  BY <1>1, Quotient
<1>4. CASE num >= 0
  <2>1. Round(num, den) = q
    BY <1>4 DEF Round
  <2>2. twice * q \in Int
    BY <1>1, <1>2
  <2>3. ASSUME num >= den * e PROVE e <= q
    <3>1. twice * e < twice * q + twice
      BY <1>1, <1>2, <2>2, <2>3
    <3> QED
      BY <3>1, <1>1, <1>2, Cancel
  <2>4. ASSUME num <= den * e PROVE q <= e
    <3>1. twice * q < twice * e + twice
      BY <1>1, <1>2, <2>2, <2>4
    <3> QED
      BY <3>1, <1>1, <1>2, Cancel
  <2> QED
    BY <1>2, <2>1, <2>3, <2>4
<1>5. CASE num < 0
  <2>1. Round(num, den) = -r
    BY <1>5 DEF Round
  <2>2. twice * r \in Int
    BY <1>1, <1>3
  <2>3. ASSUME num >= den * e PROVE r <= -e
    <3>1. twice * r < twice * (-e) + twice
      BY <1>1, <1>3, <2>2, <2>3
    <3> QED
      BY <3>1, <1>1, <1>3, Cancel
  <2>4. ASSUME num <= den * e PROVE -e <= r
    <3>1. twice * (-e) < twice * r + twice
      BY <1>1, <1>3, <2>2, <2>4
    <3> QED
      BY <3>1, <1>1, <1>3, Cancel
  <2> QED
    BY <1>3, <2>1, <2>3, <2>4
<1> QED
  BY <1>4, <1>5

\* The expectation is a share of Scale, for any two ratings.
LEMMA ExpectedScoreType ==
  ASSUME NEW ratingA \in Int, NEW ratingB \in Int
  PROVE  ExpectedScore(ratingA, ratingB) \in 0..Scale
BY EloAssumption DEF ExpectedScore, Clamp

\* GetKFactor: a factor is positive and at most 40.
LEMMA KFactorBounds ==
  ASSUME NEW n \in Nat
  PROVE  GetKFactor(n) \in 24..40
BY DEF GetKFactor

\* calculateNewRating: nobody's rating moves by more than K points; a winner
\* loses none and a loser gains none.  Whatever was expected of them.
LEMMA NewRatingBounds ==
  ASSUME NEW elo \in Nat, NEW k \in Nat, NEW result \in Results, NEW x \in 0..Scale
  PROVE  /\ NewRating(elo, k, result, x) \in Int
         /\ NewRating(elo, k, result, x) - elo \in -k..k
         /\ result = Agent1Wins => NewRating(elo, k, result, x) - elo \in 0..k
         /\ result = Agent2Wins => NewRating(elo, k, result, x) <= elo
<1> DEFINE den == 2 * Scale
           share == Scale * result - 2 * x
           num == den * elo + k * share
<1>1. /\ den \in Nat \ {0}
      /\ share \in Int
      /\ -den <= share /\ share <= den
      /\ result = Agent1Wins => 0 <= share
      /\ result = Agent2Wins => share <= 0
  BY EloAssumption DEF Results, Agent1Wins, Draw, Agent2Wins
<1>2. ASSUME NEW y \in Int
      PROVE  /\ k * y \in Int
             /\ 0 <= y => 0 <= k * y
             /\ y <= 0 => k * y <= 0
             /\ y <= den => k * y <= k * den
             /\ -den <= y => -(k * den) <= k * y
  <2>1. /\ k * (den - y) = k * den - k * y
        /\ k * (den + y) = k * den + k * y
    BY <1>1, Z3
  <2>2. /\ den >= y => k * (den - y) >= 0
        /\ -den <= y => k * (den + y) >= 0
    BY <1>1, Z3
  <2>3. k * y \in Int /\ (0 <= y => 0 <= k * y) /\ (y <= 0 => k * y <= 0)
    BY Z3
  <2>4. k * den \in Int
    BY <1>1, Z3
  <2> QED
    BY <1>1, <2>1, <2>2, <2>3, <2>4
<1>3. /\ k * share \in Int
      /\ -(k * den) <= k * share /\ k * share <= k * den
      /\ result = Agent1Wins => 0 <= k * share
      /\ result = Agent2Wins => k * share <= 0
  BY <1>1, <1>2
<1>4. /\ den * (elo + k) = den * elo + k * den /\ den * (elo - k) = den * elo - k * den
      /\ den * elo \in Int /\ k * den \in Int
  BY <1>1, Z3
<1>5. NewRating(elo, k, result, x) = Round(num, den)
  BY EloAssumption DEF NewRating, Results, Agent1Wins, Draw, Agent2Wins
<1>6. num \in Int
  BY <1>3, <1>4
<1>7. /\ Round(num, den) \in Int
      /\ num >= den * elo => Round(num, den) >= elo
      /\ num <= den * elo => Round(num, den) <= elo
      /\ num <= den * (elo + k) => Round(num, den) <= elo + k
      /\ num >= den * (elo - k) => Round(num, den) >= elo - k
  <2> elo + k \in Int /\ elo - k \in Int
    OBVIOUS
  <2> HIDE DEF num, den
  <2> QED
    BY <1>1, <1>6, RoundBounds
<1>8. /\ num >= den * (elo - k) /\ num <= den * (elo + k)
      /\ result = Agent1Wins => num >= den * elo
  BY <1>3, <1>4
<1>9. result = Agent2Wins => num <= den * elo
  BY <1>3, <1>4
<1> HIDE DEF num, den, share
<1> QED
  BY <1>5, <1>7, <1>8, <1>9

-----------------------------------------------------------------------------
(* Match rows *)

HoldsMatch == {"execute", "save", "stats1", "stats2"}

\* The locals of a call in progress.
CallShape ==
  \A w \in Worker :
    /\ ~At(w, "idle") => call[w].agent1 \in Agent
    /\ call[w].pc \notin {"idle", "enqueue", "upsert"} =>
         call[w].agent2 \in Agent /\ call[w].agent1 # call[w].agent2
    /\ call[w].pc \in HoldsMatch <=> call[w].match # NoOne
    /\ At(w, "save") => call[w].winner \in {call[w].agent1, call[w].agent2, NoOne}

\* A row that some call holds exists, is held by that call alone and names its
\* players; until the call saves it, it is pending.
RowsOwned ==
  /\ \A v, w \in Worker : v # w /\ call[v].match # NoOne => call[v].match # call[w].match
  /\ \A w \in Worker : call[w].match # NoOne =>
       /\ matches[call[w].match].status # "none"
       /\ matches[call[w].match].agent1 = call[w].agent1
       /\ matches[call[w].match].agent2 = call[w].agent2
       /\ call[w].pc \in {"execute", "save"} => matches[call[w].match].status = "pending"

-----------------------------------------------------------------------------
(* The types, action by action *)

\* A worker outside every call has well-typed locals.
LEMMA IdleType == Idle \in Calls /\ NoCopy \in Copies
BY DEF Idle, Calls, NoCopy, Copies

\* What FindByID returns is well typed.
LEMMA CopyType ==
  ASSUME TypeOK, NEW a \in Agent
  PROVE  Copy(a) \in Copies
BY DEF TypeOK, Copy, Copies, AgentRows

\* The two changes of CalculateNewRatingsWithMatchCounts are at most 40 points.
LEMMA ChangeTypes ==
  ASSUME NEW elo1 \in Nat, NEW elo2 \in Nat, NEW n \in Nat, NEW result \in Results
  PROVE  /\ Agent1Change(elo1, elo2, n, result) \in -40..40
         /\ Agent2Change(elo1, elo2, n, result) \in -40..40
         /\ result = Agent1Wins => /\ Agent1Change(elo1, elo2, n, result) \in 0..40
                                   /\ Agent2Change(elo1, elo2, n, result) <= 0
         /\ result = Agent2Wins => /\ Agent2Change(elo1, elo2, n, result) \in 0..40
                                   /\ Agent1Change(elo1, elo2, n, result) <= 0
<1> DEFINE x == ExpectedScore(elo1, elo2)
           k == GetKFactor(n)
           one == NewRating(elo1, k, result, x)
           two == NewRating(elo2, k, Reverse(result), Scale - x)
<1>1. k \in 24..40
  BY KFactorBounds
<1>a. Scale \in Nat
  BY EloAssumption
<1>b. x \in 0..Scale
  BY ExpectedScoreType
<1> HIDE DEF x, k
<1>2. x \in 0..Scale /\ Scale - x \in 0..Scale
  BY <1>a, <1>b
<1>3. /\ Reverse(result) \in Results
      /\ result = Agent1Wins <=> Reverse(result) = Agent2Wins
      /\ result = Agent2Wins <=> Reverse(result) = Agent1Wins
  BY DEF Reverse, Results, Agent1Wins, Agent2Wins, Draw
<1>k. k \in Nat
  BY <1>1
<1>4. /\ one \in Int /\ one - elo1 \in -k..k
      /\ result = Agent1Wins => one - elo1 \in 0..k
      /\ result = Agent2Wins => one <= elo1
  BY <1>k, <1>2, NewRatingBounds DEF one
<1>5. /\ two \in Int /\ two - elo2 \in -k..k
      /\ Reverse(result) = Agent1Wins => two - elo2 \in 0..k
      /\ Reverse(result) = Agent2Wins => two <= elo2
  BY <1>k, <1>2, <1>3, NewRatingBounds
<1>6. Agent1Change(elo1, elo2, n, result) = one - elo1
  BY DEF Agent1Change, x, k
<1>7. Agent2Change(elo1, elo2, n, result) = two - elo2
  BY DEF Agent2Change, x, k
<1> HIDE DEF one, two
<1> QED
  BY <1>1, <1>3, <1>4, <1>5, <1>6, <1>7

\* UpdateStats keeps the type of an agents row: the floor keeps ratings in Nat.
LEMMA UpdateStatsType ==
  ASSUME NEW row \in AgentRows, NEW change \in Int,
         NEW won \in BOOLEAN, NEW lost \in BOOLEAN, NEW draw \in BOOLEAN
  PROVE  UpdateStats(row, change, won, lost, draw) \in AgentRows
<1> DEFINE e == IF row.elo + change < 0 THEN 0 ELSE row.elo + change
           v == IF won THEN row.wins + 1 ELSE row.wins
           l == IF ~won /\ lost THEN row.losses + 1 ELSE row.losses
           d == IF ~won /\ ~lost /\ draw THEN row.draws + 1 ELSE row.draws
<1>1. row.elo \in Nat /\ row.wins \in Nat /\ row.losses \in Nat /\ row.draws \in Nat
      /\ row.total \in Nat /\ row.active \in BOOLEAN
  BY DEF AgentRows
<1>2. e \in Nat /\ v \in Nat /\ l \in Nat /\ d \in Nat /\ row.total + 1 \in Nat
  BY <1>1
<1>3. UpdateStats(row, change, won, lost, draw)
        = [row EXCEPT !.elo = e, !.wins = v, !.losses = l, !.draws = d, !.total = row.total + 1]
  BY DEF UpdateStats
<1> HIDE DEF e, v, l, d
<1> QED
  BY <1>2, <1>3 DEF AgentRows

Inv == TypeOK /\ CallShape /\ RowsOwned

\* The invariant holds before the first call.
LEMMA InvInit == Init => Inv
<1> SUFFICES ASSUME Init PROVE Inv
  OBVIOUS
<1> USE MatchExecutionAssumption DEF Init
<1>1. TypeOK
  <2>1. NewAgentRow \in AgentRows
    BY DEF NewAgentRow, AgentRows
  <2>2. NoMatchRow \in MatchRows
    BY DEF NoMatchRow, MatchRows
  <2> QED
    BY <2>1, <2>2, IdleType DEF TypeOK, NotQueued
<1>2. \A w \in Worker : call[w] = Idle
  OBVIOUS
<1>3. CallShape
  BY <1>2 DEF CallShape, At, Idle, HoldsMatch
<1>4. RowsOwned
  BY <1>2 DEF RowsOwned, Idle
<1> QED
  BY <1>1, <1>3, <1>4 DEF Inv

\* A step of one call that leaves the rows of matches alone and takes no match:
\* only the call's own locals have to be looked at.
LEMMA OneCall ==
  ASSUME Inv, NEW w \in Worker, NEW c \in Calls,
         call' = [call EXCEPT ![w] = c],
         matches' = matches,
         c.pc # "idle" => c.agent1 \in Agent,
         c.pc \notin {"idle", "enqueue", "upsert"} => c.agent2 \in Agent /\ c.agent1 # c.agent2,
         c.pc \in HoldsMatch <=> c.match # NoOne,
         c.pc = "save" => c.winner \in {c.agent1, c.agent2, NoOne},
         c.match # NoOne => /\ c.match = call[w].match
                            /\ c.agent1 = call[w].agent1
                            /\ c.agent2 = call[w].agent2,
         c.pc \in {"execute", "save"} => call[w].pc \in {"execute", "save"}
  PROVE  CallShape' /\ RowsOwned' /\ call' \in [Worker -> Calls]
<1> USE DEF Inv
<1>1. call \in [Worker -> Calls]
  BY DEF TypeOK
<1>2. call'[w] = c /\ \A v \in Worker \ {w} : call'[v] = call[v]
  BY <1>1
<1>3. call' \in [Worker -> Calls]
  BY <1>1
<1>4. CallShape'
  <2> SUFFICES ASSUME NEW v \in Worker
               PROVE  /\ call'[v].pc # "idle" => call'[v].agent1 \in Agent
                      /\ call'[v].pc \notin {"idle", "enqueue", "upsert"} =>
                           call'[v].agent2 \in Agent /\ call'[v].agent1 # call'[v].agent2
                      /\ call'[v].pc \in HoldsMatch <=> call'[v].match # NoOne
                      /\ call'[v].pc = "save" =>
                           call'[v].winner \in {call'[v].agent1, call'[v].agent2, NoOne}
    BY DEF CallShape, At
  <2>1. CASE v = w
    BY <2>1, <1>2
  <2>2. CASE v # w
    BY <2>2, <1>2 DEF CallShape, At
  <2> QED
    BY <2>1, <2>2
<1>5. \A v \in Worker : call'[v].match # NoOne => call'[v].match = call[v].match
  BY <1>2
<1>6. \A u, v \in Worker :
        u # v /\ call'[u].match # NoOne => call'[u].match # call'[v].match
  BY <1>5 DEF RowsOwned
<1>7. ASSUME NEW v \in Worker, call'[v].match # NoOne
      PROVE  /\ matches[call'[v].match].status # "none"
             /\ matches[call'[v].match].agent1 = call'[v].agent1
             /\ matches[call'[v].match].agent2 = call'[v].agent2
             /\ call'[v].pc \in {"execute", "save"} =>
                  matches[call'[v].match].status = "pending"
  <2>1. CASE v = w
    BY <2>1, <1>2, <1>7 DEF RowsOwned
  <2>2. CASE v # w
    BY <2>2, <1>2, <1>7 DEF RowsOwned
  <2> QED
    BY <2>1, <2>2
<1>8. RowsOwned'
  BY <1>6, <1>7 DEF RowsOwned
<1> QED
  BY <1>3, <1>4, <1>8

\* The same for a step that returns from the call.
LEMMA ReturnStep ==
  ASSUME Inv, NEW w \in Worker, call' = [call EXCEPT ![w] = Idle], matches' = matches
  PROVE  CallShape' /\ RowsOwned' /\ call' \in [Worker -> Calls]
<1>1. Idle \in Calls /\ Idle.pc = "idle" /\ Idle.match = NoOne
  BY IdleType DEF Idle
<1> QED
  BY <1>1, OneCall DEF HoldsMatch

\* And for one that goes on with the next statement, keeping its locals.
LEMMA GotoStep ==
  ASSUME Inv, NEW w \in Worker, NEW pc \in Statements, NEW n \in Nat,
         call' = [call EXCEPT ![w] = [@ EXCEPT !.pc = pc, !.seen = n]],
         matches' = matches,
         ~At(w, "idle"),
         call[w].pc \in {"enqueue", "upsert"} => pc \in {"enqueue", "upsert"},
         pc \in HoldsMatch <=> call[w].pc \in HoldsMatch,
         pc \notin {"execute", "save"}
  PROVE  CallShape' /\ RowsOwned' /\ call' \in [Worker -> Calls]
<1> DEFINE c == [call[w] EXCEPT !.pc = pc, !.seen = n]
<1>1. call[w] \in Calls
  BY DEF Inv, TypeOK
<1>2. c \in Calls
  BY <1>1 DEF Calls
<1>3. /\ c.pc = pc /\ c.agent1 = call[w].agent1 /\ c.agent2 = call[w].agent2
      /\ c.match = call[w].match
  BY <1>1 DEF Calls
<1>4. /\ call[w].agent1 \in Agent
      /\ call[w].pc \notin {"enqueue", "upsert"} =>
           call[w].agent2 \in Agent /\ call[w].agent1 # call[w].agent2
      /\ call[w].pc \in HoldsMatch <=> call[w].match # NoOne
  BY DEF Inv, CallShape, At
<1>5. call' = [call EXCEPT ![w] = c]
  OBVIOUS
<1>6. pc # "idle"
  BY DEF Statements
<1> HIDE DEF c
<1>7. /\ c.pc # "idle" => c.agent1 \in Agent
      /\ c.pc \notin {"idle", "enqueue", "upsert"} => c.agent2 \in Agent /\ c.agent1 # c.agent2
      /\ c.pc \in HoldsMatch <=> c.match # NoOne
      /\ c.pc \notin {"execute", "save"}
  BY <1>3, <1>4
<1> QED
  BY <1>2, <1>3, <1>5, <1>7, OneCall

\* Where a step goes with Goto.
LEMMA GotoSeen ==
  ASSUME TypeOK, NEW w \in Worker, NEW pc \in Statements, Goto(w, pc)
  PROVE  /\ call[w].seen \in Nat
         /\ call' = [call EXCEPT ![w] = [@ EXCEPT !.pc = pc, !.seen = call[w].seen]]
<1>1. call \in [Worker -> Calls] /\ call[w] \in Calls
  BY DEF TypeOK
<1>2. call[w].seen \in Nat
  BY <1>1 DEF Calls
<1>3. [call[w] EXCEPT !.pc = pc] = [call[w] EXCEPT !.pc = pc, !.seen = call[w].seen]
  BY <1>1 DEF Calls
<1> QED
  BY <1>1, <1>2, <1>3 DEF Goto

-----------------------------------------------------------------------------
(* The steps of CreateAndExecute *)

\* CreateAndExecute starts with locals of its own and no match.
LEMMA BeginStep ==
  ASSUME Inv, NEW w \in Worker, NEW a \in Agent, NEW b \in Agent, Begin(w, a, b)
  PROVE  Inv'
<1> DEFINE c == [Idle EXCEPT !.pc = "find1", !.agent1 = a, !.agent2 = b]
<1>1. c \in Calls
  BY IdleType DEF Idle, Calls, Statements
<1>2. c.pc = "find1" /\ c.agent1 = a /\ c.agent2 = b /\ c.match = NoOne
  BY DEF Idle
<1>3. call' = [call EXCEPT ![w] = c] /\ a # b /\ matches' = matches
  BY DEF Begin
<1> HIDE DEF c
<1>4. CallShape' /\ RowsOwned' /\ call' \in [Worker -> Calls]
  BY <1>1, <1>2, <1>3, OneCall DEF HoldsMatch
<1> QED
  BY <1>4 DEF Begin, Inv, TypeOK

\* The two FindByID calls change a copy only.
LEMMA FindStep ==
  ASSUME Inv, NEW w \in Worker, FindAgent1(w) \/ FindAgent2(w)
  PROVE  Inv'
<1> USE DEF Inv
<1>1. call[w] \in Calls
  BY DEF TypeOK
<1>2. /\ call[w].agent1 \in Agent /\ call[w].agent2 \in Agent
      /\ call[w].agent1 # call[w].agent2 /\ call[w].match = NoOne
  BY DEF CallShape, At, FindAgent1, FindAgent2, HoldsMatch
<1>3. Copy(call[w].agent1) \in Copies /\ Copy(call[w].agent2) \in Copies
  BY <1>2, CopyType
<1>4. PICK c \in Calls :
        /\ call' = [call EXCEPT ![w] = c]
        /\ c.pc \in {"find2", "create"}
        /\ c.agent1 = call[w].agent1 /\ c.agent2 = call[w].agent2 /\ c.match = NoOne
  <2>1. CASE FindAgent1(w)
    <3> DEFINE c == [call[w] EXCEPT !.pc = "find2", !.copy1 = Copy(call[w].agent1)]
    <3>1. c \in Calls
      BY <1>1, <1>3 DEF Calls, Statements
    <3>2. c.pc = "find2" /\ c.agent1 = call[w].agent1 /\ c.agent2 = call[w].agent2
          /\ c.match = NoOne
      BY <1>1, <1>2 DEF Calls
    <3>3. call' = [call EXCEPT ![w] = c]
      BY <2>1 DEF FindAgent1
    <3> HIDE DEF c
    <3> QED
      BY <3>1, <3>2, <3>3
  <2>2. CASE FindAgent2(w)
    <3> DEFINE c == [call[w] EXCEPT !.pc = "create", !.copy2 = Copy(call[w].agent2)]
    <3>1. c \in Calls
      BY <1>1, <1>3 DEF Calls, Statements
    <3>2. c.pc = "create" /\ c.agent1 = call[w].agent1 /\ c.agent2 = call[w].agent2
          /\ c.match = NoOne
      BY <1>1, <1>2 DEF Calls
    <3>3. call' = [call EXCEPT ![w] = c]
      BY <2>2 DEF FindAgent2
    <3> HIDE DEF c
    <3> QED
      BY <3>1, <3>2, <3>3
  <2> QED
    BY <2>1, <2>2
<1>5. UNCHANGED <<agents, matches, counted, queue, faults>>
  BY DEF FindAgent1, FindAgent2
<1>6. CallShape' /\ RowsOwned' /\ call' \in [Worker -> Calls]
  BY <1>2, <1>4, <1>5, OneCall DEF HoldsMatch
<1> QED
  BY <1>5, <1>6 DEF TypeOK

\* The early returns keep the invariant: whoever returns lets go of its match.
LEMMA ReturningStep ==
  ASSUME Inv, NEW w \in Worker, Reject(w) \/ ExecutorFails(w)
  PROVE  Inv'
<1>1. call' = [call EXCEPT ![w] = Idle] /\ UNCHANGED <<agents, matches, counted, queue, faults>>
  BY DEF Reject, ExecutorFails, Return
<1>2. CallShape' /\ RowsOwned' /\ call' \in [Worker -> Calls]
  BY <1>1, ReturnStep
<1> QED
  BY <1>1, <1>2 DEF Inv, TypeOK

\* The row is new, so no call holds it yet.
LEMMA CreateStep ==
  ASSUME Inv, NEW w \in Worker, CreateMatch(w)
  PROVE  Inv'
<1> USE MatchExecutionAssumption DEF Inv
<1>1. PICK m \in MatchId :
        /\ matches[m].status = "none"
        /\ matches' = [matches EXCEPT ![m] =
             [NoMatchRow EXCEPT !.status = "pending",
                                !.agent1 = call[w].agent1, !.agent2 = call[w].agent2]]
        /\ call' = [call EXCEPT ![w].pc = "execute", ![w].match = m]
  BY DEF CreateMatch
<1> DEFINE row == [NoMatchRow EXCEPT !.status = "pending",
                     !.agent1 = call[w].agent1, !.agent2 = call[w].agent2]
           c == [call[w] EXCEPT !.pc = "execute", !.match = m]
<1>2. call \in [Worker -> Calls] /\ call[w] \in Calls /\ matches \in [MatchId -> MatchRows]
  BY DEF TypeOK
<1>3. /\ call[w].agent1 \in Agent /\ call[w].agent2 \in Agent
      /\ call[w].agent1 # call[w].agent2 /\ At(w, "create")
  BY DEF CallShape, At, CreateMatch
<1>4. row \in MatchRows /\ row.status = "pending" /\ row.agent1 = call[w].agent1
      /\ row.agent2 = call[w].agent2
  <2>1. NoMatchRow \in MatchRows
    BY DEF NoMatchRow, MatchRows
  <2> QED
    BY <2>1, <1>3 DEF MatchRows
<1>5. c \in Calls /\ c.pc = "execute" /\ c.match = m /\ c.agent1 = call[w].agent1
      /\ c.agent2 = call[w].agent2
  BY <1>2 DEF Calls, Statements
<1>6. call' = [call EXCEPT ![w] = c] /\ matches' = [matches EXCEPT ![m] = row]
  BY <1>1
<1> HIDE DEF row, c
<1>7. \A v \in Worker : call[v].match # m
  BY <1>1 DEF RowsOwned
<1>8. /\ call' \in [Worker -> Calls] /\ matches' \in [MatchId -> MatchRows]
      /\ call'[w] = c /\ \A v \in Worker \ {w} : call'[v] = call[v]
      /\ matches'[m] = row /\ \A k \in MatchId \ {m} : matches'[k] = matches[k]
  BY <1>2, <1>4, <1>5, <1>6
<1>9. CallShape'
  <2> SUFFICES ASSUME NEW v \in Worker
               PROVE  /\ call'[v].pc # "idle" => call'[v].agent1 \in Agent
                      /\ call'[v].pc \notin {"idle", "enqueue", "upsert"} =>
                           call'[v].agent2 \in Agent /\ call'[v].agent1 # call'[v].agent2
                      /\ call'[v].pc \in HoldsMatch <=> call'[v].match # NoOne
                      /\ call'[v].pc = "save" =>
                           call'[v].winner \in {call'[v].agent1, call'[v].agent2, NoOne}
    BY DEF CallShape, At
  <2>1. CASE v = w
    BY <2>1, <1>3, <1>5, <1>8 DEF HoldsMatch
  <2>2. CASE v # w
    BY <2>2, <1>8 DEF CallShape, At
  <2> QED
    BY <2>1, <2>2
<1>10. \A u, v \in Worker :
         u # v /\ call'[u].match # NoOne => call'[u].match # call'[v].match
  <2> SUFFICES ASSUME NEW u \in Worker, NEW v \in Worker, u # v, call'[u].match # NoOne
               PROVE  call'[u].match # call'[v].match
    OBVIOUS
  <2>1. CASE u = w
    BY <2>1, <1>5, <1>7, <1>8
  <2>2. CASE v = w
    BY <2>2, <1>5, <1>7, <1>8
  <2>3. CASE u # w /\ v # w
    BY <2>3, <1>8 DEF RowsOwned
  <2> QED
    BY <2>1, <2>2, <2>3
<1>11. ASSUME NEW v \in Worker, call'[v].match # NoOne
       PROVE  /\ matches'[call'[v].match].status # "none"
              /\ matches'[call'[v].match].agent1 = call'[v].agent1
              /\ matches'[call'[v].match].agent2 = call'[v].agent2
              /\ call'[v].pc \in {"execute", "save"} =>
                   matches'[call'[v].match].status = "pending"
  <2>1. CASE v = w
    BY <2>1, <1>4, <1>5, <1>8
  <2>2. CASE v # w
    <3>1. call'[v] = call[v] /\ call[v].match \in MatchId \ {m}
      BY <2>2, <1>7, <1>8, <1>11 DEF TypeOK, Calls
    <3> QED
      BY <3>1, <1>8, <1>11 DEF RowsOwned
  <2> QED
    BY <2>1, <2>2
<1>12. RowsOwned'
  BY <1>10, <1>11 DEF RowsOwned
<1> QED
  BY <1>8, <1>9, <1>12 DEF TypeOK, CreateMatch

\* The executor names a winner among the two players, or nobody.
LEMMA SucceedsStep ==
  ASSUME Inv, NEW w \in Worker, ExecutorSucceeds(w)
  PROVE  Inv'
<1> USE DEF Inv
<1>1. PICK winner \in {call[w].agent1, call[w].agent2, NoOne} :
        call' = [call EXCEPT ![w].pc = "save", ![w].winner = winner]
  BY DEF ExecutorSucceeds
<1> DEFINE c == [call[w] EXCEPT !.pc = "save", !.winner = winner]
<1>2. call[w] \in Calls /\ call[w].pc = "execute"
  BY DEF TypeOK, ExecutorSucceeds, At
<1>3. /\ call[w].agent1 \in Agent /\ call[w].agent2 \in Agent
      /\ call[w].agent1 # call[w].agent2 /\ call[w].match # NoOne
  BY <1>2 DEF CallShape, At, HoldsMatch
<1>4. c \in Calls
  BY <1>2, <1>3 DEF Calls, Statements
<1>5. /\ c.pc = "save" /\ c.winner = winner /\ c.match = call[w].match
      /\ c.agent1 = call[w].agent1 /\ c.agent2 = call[w].agent2
  BY <1>2 DEF Calls
<1>6. call' = [call EXCEPT ![w] = c] /\ UNCHANGED <<agents, matches, counted, queue, faults>>
  BY <1>1 DEF ExecutorSucceeds
<1> HIDE DEF c
<1>7. CallShape' /\ RowsOwned' /\ call' \in [Worker -> Calls]
  BY <1>2, <1>3, <1>4, <1>5, <1>6, OneCall DEF HoldsMatch
<1> QED
  BY <1>6, <1>7 DEF TypeOK

-----------------------------------------------------------------------------
(* The steps of processMatchResult *)

\* What SaveResult writes: the row's new state, and nothing of other rows.
LEMMA SavedRow ==
  ASSUME Inv, NEW w \in Worker, SaveResult(w)
  PROVE  LET c == call[w] m == call[w].match
         IN /\ m \in MatchId /\ matches[m].status = "pending"
            /\ c.agent1 \in Agent /\ c.agent2 \in Agent /\ c.agent1 # c.agent2
            /\ c.winner \in {c.agent1, c.agent2, NoOne}
            /\ matches' \in [MatchId -> MatchRows]
            /\ \A k \in MatchId \ {m} : matches'[k] = matches[k]
            /\ matches'[m].status = "completed"
            /\ matches'[m].agent1 = c.agent1 /\ matches'[m].agent2 = c.agent2
            /\ matches'[m].winner = c.winner
            /\ matches'[m].change1 \in -40..40 /\ matches'[m].change2 \in -40..40
            /\ c.winner = c.agent1 =>
                 matches'[m].change1 \in 0..40 /\ matches'[m].change2 <= 0
            /\ c.winner = c.agent2 =>
                 matches'[m].change2 \in 0..40 /\ matches'[m].change1 <= 0
<1> DEFINE c == call[w]
           m == call[w].match
           result == MatchResult(c)
           one == Agent1Change(c.copy1.elo, c.copy2.elo, c.copy1.total, result)
           two == Agent2Change(c.copy1.elo, c.copy2.elo, c.copy2.total, result)
<1> USE MatchExecutionAssumption DEF Inv
<1>1. c \in Calls /\ c.pc = "save" /\ matches \in [MatchId -> MatchRows]
  BY DEF TypeOK, SaveResult, At
<1>2. c.agent1 \in Agent /\ c.agent2 \in Agent /\ c.agent1 # c.agent2
      /\ c.winner \in {c.agent1, c.agent2, NoOne} /\ m # NoOne
  BY <1>1 DEF CallShape, At, HoldsMatch
<1>3. m \in MatchId
  BY <1>1, <1>2 DEF Calls
<1>4. matches[m].status = "pending" /\ matches[m].agent1 = c.agent1 /\ matches[m].agent2 = c.agent2
  BY <1>1, <1>2 DEF RowsOwned
<1>5. /\ result \in Results
      /\ c.winner = c.agent1 => result = Agent1Wins
      /\ c.winner = c.agent2 => result = Agent2Wins
  BY <1>2 DEF MatchResult, Results, Agent1Wins, Agent2Wins, Draw
<1>6. c.copy1.elo \in Nat /\ c.copy2.elo \in Nat /\ c.copy1.total \in Nat /\ c.copy2.total \in Nat
  BY <1>1 DEF Calls, Copies
<1>7. matches' = [matches EXCEPT ![m] =
        [@ EXCEPT !.status = "completed", !.winner = c.winner, !.change1 = one, !.change2 = two]]
  BY <1>1, <1>3 DEF SaveResult
<1> HIDE DEF result
<1>8. /\ one \in -40..40 /\ two \in -40..40
      /\ c.winner = c.agent1 => one \in 0..40 /\ two <= 0
      /\ c.winner = c.agent2 => two \in 0..40 /\ one <= 0
  BY <1>5, <1>6, ChangeTypes
<1> HIDE DEF one, two
<1>9. matches[m] \in MatchRows
  BY <1>1, <1>3
<1> DEFINE row == [matches[m] EXCEPT !.status = "completed", !.winner = c.winner,
                                     !.change1 = one, !.change2 = two]
<1>10. row \in MatchRows
  <2>1. one \in Int /\ two \in Int
    BY <1>8
  <2> QED
    BY <1>2, <1>9, <2>1 DEF MatchRows
<1>11. /\ row.status = "completed" /\ row.winner = c.winner
       /\ row.agent1 = c.agent1 /\ row.agent2 = c.agent2
       /\ row.change1 = one /\ row.change2 = two
  BY <1>4, <1>9 DEF MatchRows
<1>12. matches' = [matches EXCEPT ![m] = row]
  BY <1>7
<1> HIDE DEF row
<1>13. /\ matches' \in [MatchId -> MatchRows] /\ matches'[m] = row
       /\ \A k \in MatchId \ {m} : matches'[k] = matches[k]
  BY <1>1, <1>3, <1>10, <1>12
<1> QED
  BY <1>2, <1>3, <1>4, <1>8, <1>11, <1>13

\* UpdateResult writes the call's own row, so that nobody else's call is disturbed.
LEMMA SaveStep ==
  ASSUME Inv, NEW w \in Worker, SaveResult(w)
  PROVE  Inv'
<1> DEFINE m == call[w].match
           c == [call[w] EXCEPT !.pc = "stats1"]
<1>1. /\ call \in [Worker -> Calls] /\ call[w] \in Calls /\ call[w].pc = "save"
      /\ m # NoOne
  BY DEF Inv, TypeOK, CallShape, SaveResult, At, HoldsMatch
<1>2. /\ c \in Calls /\ c.pc = "stats1" /\ c.match = m
      /\ c.agent1 = call[w].agent1 /\ c.agent2 = call[w].agent2
  BY <1>1 DEF Calls, Statements
<1>3. call' = [call EXCEPT ![w] = c]
  BY DEF SaveResult, Goto
<1> HIDE DEF c
<1>4. /\ call' \in [Worker -> Calls] /\ call'[w] = c
      /\ \A v \in Worker \ {w} : call'[v] = call[v]
  BY <1>1, <1>2, <1>3
<1>5. /\ m \in MatchId /\ call[w].agent1 \in Agent /\ call[w].agent2 \in Agent
      /\ call[w].agent1 # call[w].agent2
      /\ matches' \in [MatchId -> MatchRows]
      /\ \A k \in MatchId \ {m} : matches'[k] = matches[k]
      /\ matches'[m].status = "completed"
      /\ matches'[m].agent1 = call[w].agent1 /\ matches'[m].agent2 = call[w].agent2
  BY SavedRow
<1>6. CallShape'
  <2> SUFFICES ASSUME NEW v \in Worker
               PROVE  /\ call'[v].pc # "idle" => call'[v].agent1 \in Agent
                      /\ call'[v].pc \notin {"idle", "enqueue", "upsert"} =>
                           call'[v].agent2 \in Agent /\ call'[v].agent1 # call'[v].agent2
                      /\ call'[v].pc \in HoldsMatch <=> call'[v].match # NoOne
                      /\ call'[v].pc = "save" =>
                           call'[v].winner \in {call'[v].agent1, call'[v].agent2, NoOne}
    BY DEF CallShape, At
  <2>1. CASE v = w
    BY <2>1, <1>1, <1>2, <1>4, <1>5 DEF HoldsMatch
  <2>2. CASE v # w
    BY <2>2, <1>4 DEF Inv, CallShape, At
  <2> QED
    BY <2>1, <2>2
<1>7. \A u, v \in Worker :
        u # v /\ call'[u].match # NoOne => call'[u].match # call'[v].match
  BY <1>2, <1>4 DEF Inv, RowsOwned
<1>8. ASSUME NEW v \in Worker, call'[v].match # NoOne
      PROVE  /\ matches'[call'[v].match].status # "none"
             /\ matches'[call'[v].match].agent1 = call'[v].agent1
             /\ matches'[call'[v].match].agent2 = call'[v].agent2
             /\ call'[v].pc \in {"execute", "save"} =>
                  matches'[call'[v].match].status = "pending"
  <2>1. CASE v = w
    BY <2>1, <1>2, <1>4, <1>5
  <2>2. CASE v # w
    <3>1. call'[v] = call[v] /\ call[v].match # NoOne /\ call[v].match # m
      BY <2>2, <1>1, <1>4, <1>8 DEF Inv, RowsOwned
    <3>2. call[v].match \in MatchId
      BY <3>1 DEF Inv, TypeOK, Calls
    <3> QED
      BY <3>1, <3>2, <1>5 DEF Inv, RowsOwned
  <2> QED
    BY <2>1, <2>2
<1>9. RowsOwned'
  BY <1>7, <1>8 DEF RowsOwned
<1> QED
  BY <1>4, <1>5, <1>6, <1>9 DEF Inv, TypeOK, SaveResult

\* After its second UPDATE a call lets go of its match.
LEMMA AfterStatsStep ==
  ASSUME Inv, NEW w \in Worker, call[w].pc = "stats2",
         call' = [call EXCEPT ![w] = AfterStats(call[w])], matches' = matches
  PROVE  CallShape' /\ RowsOwned' /\ call' \in [Worker -> Calls]
<1> DEFINE c == AfterStats(call[w])
<1>1. call[w].agent1 \in Agent /\ call[w].agent2 \in Agent /\ call[w].agent1 # call[w].agent2
  BY DEF Inv, CallShape, At
<1>2. c \in Calls
  BY <1>1, IdleType DEF AfterStats, Calls, Statements
<1>3. /\ c.pc = "count1" /\ c.match = NoOne
      /\ c.agent1 = call[w].agent1 /\ c.agent2 = call[w].agent2
  BY DEF AfterStats, Idle
<1>4. call' = [call EXCEPT ![w] = c]
  OBVIOUS
<1> HIDE DEF c
<1> QED
  BY <1>1, <1>2, <1>3, <1>4, OneCall DEF HoldsMatch

\* The two UpdateStats statements leave the rows of matches alone.
LEMMA UpdateAgentStep ==
  ASSUME Inv, NEW w \in Worker, UpdateAgent1(w) \/ UpdateAgent2(w)
  PROVE  Inv'
<1> USE MatchExecutionAssumption DEF Inv
<1>1. /\ call[w] \in Calls /\ call[w].pc \in {"stats1", "stats2"}
      /\ agents \in [Agent -> AgentRows] /\ matches \in [MatchId -> MatchRows]
  BY DEF TypeOK, UpdateAgent1, UpdateAgent2, At
<1>2. /\ call[w].agent1 \in Agent /\ call[w].agent2 \in Agent
      /\ call[w].match \in MatchId
  <2>1. call[w].agent1 \in Agent /\ call[w].agent2 \in Agent /\ call[w].match # NoOne
    BY <1>1 DEF CallShape, At, HoldsMatch
  <2>2. call[w].match \in MatchId \cup {NoOne}
    BY <1>1 DEF Calls
  <2> QED
    BY <2>1, <2>2
<1>3. matches[call[w].match].change1 \in Int /\ matches[call[w].match].change2 \in Int
  BY <1>1, <1>2 DEF MatchRows
<1>4. CASE UpdateAgent1(w)
  <2> DEFINE row == UpdateStats(agents[call[w].agent1], matches[call[w].match].change1,
                                call[w].winner = call[w].agent1,
                                call[w].winner = call[w].agent2, call[w].winner = NoOne)
  <2>1. row \in AgentRows
    BY <1>1, <1>2, <1>3, UpdateStatsType
  <2>2. agents' = [agents EXCEPT ![call[w].agent1] = row]
    BY <1>4 DEF UpdateAgent1
  <2> HIDE DEF row
  <2>3. agents' \in [Agent -> AgentRows]
    BY <1>1, <2>1, <2>2
  <2>4. Goto(w, "stats2") /\ call[w].pc = "stats1" /\ UNCHANGED <<matches, counted, queue, faults>>
    BY <1>4 DEF UpdateAgent1, At
  <2>5. CallShape' /\ RowsOwned' /\ call' \in [Worker -> Calls]
    <3>1. /\ "stats2" \in Statements /\ "stats2" \in HoldsMatch /\ call[w].pc \in HoldsMatch
          /\ "stats2" \notin {"execute", "save"} /\ ~At(w, "idle")
          /\ call[w].pc \notin {"enqueue", "upsert"}
      BY <2>4 DEF Statements, HoldsMatch, At
    <3>2. /\ call[w].seen \in Nat
          /\ call' = [call EXCEPT ![w] = [@ EXCEPT !.pc = "stats2", !.seen = call[w].seen]]
      BY <2>4, <3>1, GotoSeen
    <3> QED
      BY <2>4, <3>1, <3>2, GotoStep
  <2> QED
    BY <2>3, <2>4, <2>5 DEF TypeOK
<1>5. CASE UpdateAgent2(w)
  <2> DEFINE won  == call[w].winner = call[w].agent1
             draw == call[w].winner = NoOne
             row == UpdateStats(agents[call[w].agent2], matches[call[w].match].change2,
                                ~won /\ ~draw, won, draw)
  <2>1. row \in AgentRows
    BY <1>1, <1>2, <1>3, UpdateStatsType
  <2>2. agents' = [agents EXCEPT ![call[w].agent2] = row]
    BY <1>5 DEF UpdateAgent2
  <2> HIDE DEF row
  <2>3. agents' \in [Agent -> AgentRows]
    BY <1>1, <2>1, <2>2
  <2>4. /\ call' = [call EXCEPT ![w] = AfterStats(call[w])]
        /\ call[w].pc = "stats2" /\ UNCHANGED <<matches, counted, queue, faults>>
    BY <1>5 DEF UpdateAgent2, At
  <2>5. CallShape' /\ RowsOwned' /\ call' \in [Worker -> Calls]
    BY <2>4, AfterStatsStep
  <2> QED
    BY <2>3, <2>4, <2>5 DEF TypeOK
<1> QED
  BY <1>4, <1>5

\* The statements that count matches and enqueue agents.
Bookkeeping == {"count1", "new1", "count2", "new2", "enqueue1", "upsert1", "enqueue2", "upsert2"}

\* IncrementMatchCount touches agent_match_stats only.
LEMMA CountStep ==
  ASSUME Inv, NEW w \in Worker,
         CountAgent1(w) \/ InsertAgent1(w) \/ CountAgent2(w) \/ InsertAgent2(w)
  PROVE  Inv'
<1>1. PICK pc \in Bookkeeping : Goto(w, pc)
  BY DEF CountAgent1, InsertAgent1, CountAgent2, InsertAgent2, UpdateCount, InsertCount,
         Bookkeeping
<1>2. call[w].pc \in Bookkeeping
  BY DEF CountAgent1, InsertAgent1, CountAgent2, InsertAgent2, UpdateCount, InsertCount,
         Bookkeeping, At
<1>3. UNCHANGED <<agents, matches, queue, faults>>
  BY DEF CountAgent1, InsertAgent1, CountAgent2, InsertAgent2, UpdateCount, InsertCount
<1>4. counted' \in [Agent -> Nat]
  <2>1. counted \in [Agent -> Nat] /\ call[w].agent1 \in Agent /\ call[w].agent2 \in Agent
    BY <1>2 DEF Inv, TypeOK, CallShape, At, Bookkeeping
  <2> QED
    BY <2>1 DEF CountAgent1, InsertAgent1, CountAgent2, InsertAgent2, UpdateCount, InsertCount
<1>5. CallShape' /\ RowsOwned' /\ call' \in [Worker -> Calls]
  <2>1. pc \in Statements /\ pc \notin HoldsMatch /\ call[w].pc \notin HoldsMatch
        /\ pc \notin {"execute", "save"} /\ call[w].pc \notin {"idle", "enqueue", "upsert"}
    BY <1>2 DEF Bookkeeping, Statements, HoldsMatch
  <2>2. TypeOK
    BY DEF Inv
  <2> QED
    BY <1>1, <1>3, <2>1, <2>2, GotoSeen, GotoStep DEF At
<1> QED
  BY <1>3, <1>4, <1>5 DEF Inv, TypeOK

-----------------------------------------------------------------------------
(* The steps of EnqueueAgent and of the build monitor *)

\* EnqueueAgent's read puts a rating, a natural number, in the locals.
LEMMA ReadRatingStep ==
  ASSUME Inv, NEW w \in Worker, ReadRating1(w) \/ ReadRating2(w) \/ ReadRatingBuilt(w)
  PROVE  Inv'
<1>1. PICK pc \in {"enqueue1", "enqueue2", "enqueue"}, a \in Agent,
           next \in {"upsert1", "upsert2", "upsert"} :
        /\ ReadRating(w, pc, a, next)
        /\ pc = "enqueue" <=> next = "upsert"
  <2>1. CASE ReadRating1(w)
    <3>1. call[w].agent1 \in Agent
      BY <2>1 DEF ReadRating1, ReadRating, Inv, CallShape, At
    <3> QED
      BY <2>1, <3>1 DEF ReadRating1
  <2>2. CASE ReadRating2(w)
    <3>1. call[w].agent2 \in Agent
      BY <2>2 DEF ReadRating2, ReadRating, Inv, CallShape, At
    <3> QED
      BY <2>2, <3>1 DEF ReadRating2
  <2>3. CASE ReadRatingBuilt(w)
    <3>1. call[w].agent1 \in Agent
      BY <2>3 DEF ReadRatingBuilt, ReadRating, Inv, CallShape, At
    <3> QED
      BY <2>3, <3>1 DEF ReadRatingBuilt
  <2> QED
    BY <2>1, <2>2, <2>3
<1>2. call[w].pc = pc
  BY <1>1 DEF ReadRating, At
<1>3. agents[a].elo \in Nat
  BY <1>2 DEF Inv, TypeOK, AgentRows
<1>4. /\ call' = [call EXCEPT ![w] = [@ EXCEPT !.pc = next, !.seen = agents[a].elo]]
      /\ UNCHANGED <<agents, matches, counted, queue, faults>>
  BY <1>1 DEF ReadRating
<1>5. CallShape' /\ RowsOwned' /\ call' \in [Worker -> Calls]
  <2>1. /\ next \in Statements /\ next \notin HoldsMatch /\ call[w].pc \notin HoldsMatch
        /\ next \notin {"execute", "save"} /\ call[w].pc # "idle"
        /\ call[w].pc \in {"enqueue", "upsert"} => next \in {"enqueue", "upsert"}
    BY <1>1, <1>2 DEF Statements, HoldsMatch
  <2> QED
    BY <1>3, <1>4, <2>1, GotoStep DEF At
<1> QED
  BY <1>4, <1>5 DEF Inv, TypeOK

\* EnqueueAgent's upsert puts that number in the queue.
LEMMA UpsertStep ==
  ASSUME Inv, NEW w \in Worker, Upsert1(w) \/ Upsert2(w) \/ UpsertBuilt(w)
  PROVE  Inv'
<1>1. call[w] \in Calls /\ queue \in [Agent -> Nat \cup {NotQueued}]
  BY DEF Inv, TypeOK
<1>2. /\ UNCHANGED <<agents, matches, counted, faults>>
      /\ \E a : queue' = [queue EXCEPT ![a] = call[w].seen]
  BY DEF Upsert1, Upsert2, UpsertBuilt, Upsert
<1>3. queue' \in [Agent -> Nat \cup {NotQueued}]
  <2>1. call[w].seen \in Nat
    BY <1>1 DEF Calls
  <2> QED
    BY <1>1, <1>2, <2>1
<1>4. CallShape' /\ RowsOwned' /\ call' \in [Worker -> Calls]
  <2>1. CASE Upsert1(w)
    <3>1. /\ "enqueue2" \in Statements /\ "enqueue2" \notin HoldsMatch
          /\ "enqueue2" \notin {"execute", "save"} /\ call[w].pc = "upsert1"
          /\ "upsert1" \notin HoldsMatch
      BY <2>1 DEF Upsert1, Upsert, At, Statements, HoldsMatch
    <3>2. call' = [call EXCEPT ![w] = [@ EXCEPT !.pc = "enqueue2", !.seen = 0]]
      BY <2>1 DEF Upsert1
    <3> QED
      BY <1>2, <3>1, <3>2, GotoStep DEF At
  <2>2. CASE Upsert2(w) \/ UpsertBuilt(w)
    BY <1>2, <2>2, ReturnStep DEF Upsert2, UpsertBuilt, Return
  <2> QED
    BY <2>1, <2>2
<1> QED
  BY <1>2, <1>3, <1>4 DEF Inv, TypeOK

\* handleBuildSuccess activates an agent and starts a call without a match.
LEMMA BuildStep ==
  ASSUME Inv, NEW w \in Worker, NEW a \in Agent, BuildSucceeds(w, a)
  PROVE  Inv'
<1> DEFINE c == [Idle EXCEPT !.pc = "enqueue", !.agent1 = a]
<1>1. c \in Calls
  BY IdleType DEF Idle, Calls, Statements
<1>2. c.pc = "enqueue" /\ c.agent1 = a /\ c.match = NoOne
  BY DEF Idle
<1>3. call' = [call EXCEPT ![w] = c] /\ UNCHANGED <<matches, counted, queue, faults>>
  BY DEF BuildSucceeds
<1>4. agents' \in [Agent -> AgentRows]
  BY DEF BuildSucceeds, Inv, TypeOK, AgentRows
<1> HIDE DEF c
<1>5. CallShape' /\ RowsOwned' /\ call' \in [Worker -> Calls]
  BY <1>1, <1>2, <1>3, OneCall DEF HoldsMatch
<1> QED
  BY <1>3, <1>4, <1>5 DEF Inv, TypeOK

-----------------------------------------------------------------------------
(* Faults *)

\* A failed statement skips to a later one or ends the call; either way it takes no match.
LEMMA FailureStep ==
  ASSUME Inv, NEW w \in Worker, StatementFails(w)
  PROVE  Inv'
<1>1. /\ UNCHANGED <<agents, matches, counted, queue>>
      /\ faults' \in 0..MaxFaults /\ ~At(w, "idle")
  BY MatchExecutionAssumption DEF StatementFails, Inv, TypeOK
<1>2. CallShape' /\ RowsOwned' /\ call' \in [Worker -> Calls]
  <2>1. CASE call[w].pc \notin Dropped \cup Logged
    BY <2>1, <1>1, ReturnStep DEF StatementFails
  <2>2. CASE call[w].pc = "stats2"
    <3>1. AfterError(call[w]) = AfterStats(call[w])
      BY <2>2 DEF AfterError
    <3>2. call' = [call EXCEPT ![w] = AfterStats(call[w])]
      BY <2>2, <3>1 DEF StatementFails, Dropped
    <3> QED
      BY <2>2, <3>2, <1>1, AfterStatsStep
  <2>3. CASE call[w].pc \in (Dropped \cup Logged) \ {"stats2"}
    <3>1. PICK pc \in (Dropped \cup Bookkeeping) \ {"stats1"}, n \in {0, call[w].seen} :
            /\ AfterError(call[w]) = [call[w] EXCEPT !.pc = pc, !.seen = n]
            /\ pc = "stats2" <=> call[w].pc = "stats1"
      <4>1. call[w] \in Calls
        BY DEF Inv, TypeOK
      <4>2. ASSUME NEW pc
            PROVE  [call[w] EXCEPT !.pc = pc] = [call[w] EXCEPT !.pc = pc, !.seen = call[w].seen]
        BY <4>1 DEF Calls
      <4>3. CASE call[w].pc = "stats1"
        <5>1. AfterError(call[w]) = [call[w] EXCEPT !.pc = "stats2"]
          BY <4>3 DEF AfterError
        <5> QED
          BY <4>2, <4>3, <5>1 DEF Dropped
      <4>4. CASE call[w].pc \in {"count1", "new1"}
        <5>1. AfterError(call[w]) = [call[w] EXCEPT !.pc = "count2"]
          BY <4>4 DEF AfterError
        <5> QED
          BY <4>2, <4>4, <5>1 DEF Dropped, Bookkeeping
      <4>5. CASE call[w].pc \in {"count2", "new2"}
        <5>1. AfterError(call[w]) = [call[w] EXCEPT !.pc = "enqueue1"]
          BY <4>5 DEF AfterError
        <5> QED
          BY <4>2, <4>5, <5>1 DEF Dropped, Bookkeeping
      <4>6. CASE call[w].pc \in {"enqueue1", "upsert1"}
        <5>1. AfterError(call[w]) = [call[w] EXCEPT !.pc = "enqueue2", !.seen = 0]
          BY <4>6 DEF AfterError
        <5> QED
          BY <4>6, <5>1 DEF Dropped, Bookkeeping
      <4> QED
        BY <2>3, <4>3, <4>4, <4>5, <4>6 DEF Dropped, Logged
    <3>2. call' = [call EXCEPT ![w] = [@ EXCEPT !.pc = pc, !.seen = n]]
      BY <2>3, <3>1 DEF StatementFails
    <3>3. n \in Nat
      BY DEF Inv, TypeOK, Calls
    <3>4. /\ pc \in Statements /\ pc \notin {"execute", "save"}
          /\ call[w].pc \notin {"enqueue", "upsert"}
          /\ pc \in HoldsMatch <=> call[w].pc \in HoldsMatch
      BY <2>3, <3>1 DEF Dropped, Logged, Bookkeeping, Statements, HoldsMatch
    <3> QED
      BY <1>1, <3>2, <3>3, <3>4, GotoStep
  <2> QED
    BY <2>1, <2>2, <2>3
<1> QED
  BY <1>1, <1>2 DEF Inv, TypeOK

\* A crash ends calls, and what is left owns what it owned.
LEMMA CrashStep ==
  ASSUME Inv, NEW S \in SUBSET Worker, ReplicaCrash(S)
  PROVE  Inv'
<1>1. /\ UNCHANGED <<agents, matches, counted, queue>>
      /\ faults' \in 0..MaxFaults
  BY MatchExecutionAssumption DEF ReplicaCrash, Inv, TypeOK
<1>2. call' \in [Worker -> Calls] /\ \A w \in Worker : call'[w] = Idle \/ call'[w] = call[w]
  BY IdleType DEF ReplicaCrash, Inv, TypeOK
<1>3. Idle.pc = "idle" /\ Idle.match = NoOne
  BY DEF Idle
<1>4. CallShape'
  BY <1>2, <1>3 DEF Inv, CallShape, At, HoldsMatch
<1>5. RowsOwned'
  BY <1>1, <1>2, <1>3 DEF Inv, RowsOwned
<1> QED
  BY <1>1, <1>2, <1>4, <1>5 DEF Inv, TypeOK

\* The invariant speaks of the variables only.
LEMMA StutterStep ==
  ASSUME Inv, UNCHANGED vars
  PROVE  Inv'
BY DEF vars, Inv, TypeOK, CallShape, RowsOwned, At

\* Every step keeps the invariant: one lemma per action.
LEMMA InvNext == Inv /\ [Next]_vars => Inv'
<1> SUFFICES ASSUME Inv, [Next]_vars PROVE Inv'
  OBVIOUS
<1>1. ASSUME NEW w \in Worker, ProcessResult(w) PROVE Inv'
  BY <1>1, SaveStep, UpdateAgentStep, CountStep, ReadRatingStep, UpsertStep DEF ProcessResult
<1>2. ASSUME NEW w \in Worker, Run(w) PROVE Inv'
  BY <1>1, <1>2, FindStep, ReturningStep, CreateStep, SucceedsStep, ReadRatingStep, UpsertStep
     DEF Run
<1> QED
  BY <1>2, BeginStep, BuildStep, FailureStep, CrashStep, StutterStep DEF Next

\* The inductive invariant: types, the shape of a call at each statement, and
\* that the rows calls hold are pending and theirs.
THEOREM Invariance == Spec => []Inv
BY InvInit, InvNext, PTL DEF Spec

-----------------------------------------------------------------------------
(* What follows *)

\* Rows and calls keep their types.
THEOREM TypeCorrect == Spec => []TypeOK
<1>1. Inv => TypeOK
  BY DEF Inv
<1> QED
  BY <1>1, Invariance, PTL

\* No two calls hold one match, and a call saves its result in a row that is
\* pending and names its own two players.
THEOREM OneOwner == Spec => []MatchHasOneOwner
<1>1. Inv => MatchHasOneOwner
  BY DEF Inv, CallShape, RowsOwned, MatchHasOneOwner, At, HoldsMatch
<1> QED
  BY <1>1, Invariance, PTL

\* Which steps write match rows.
LEMMA RowWriters ==
  ASSUME Inv, Next
  PROVE  \/ matches' = matches
         \/ \E w \in Worker : CreateMatch(w) \/ SaveResult(w)
BY DEF Next, Run, ProcessResult, Begin, FindAgent1, FindAgent2, Reject, ExecutorSucceeds,
       ExecutorFails, UpdateAgent1, UpdateAgent2, CountAgent1, InsertAgent1, CountAgent2,
       InsertAgent2, UpdateCount, InsertCount, ReadRating1, ReadRating2, ReadRatingBuilt,
       ReadRating, Upsert1, Upsert2, UpsertBuilt, Upsert, BuildSucceeds, StatementFails,
       ReplicaCrash

\* A completed row never changes, and a pending one keeps its players and is
\* never taken back, whatever calls and faults there are.
THEOREM HistoryStays == Spec => HistoryIsFinal
<1>1. Inv /\ [Next]_vars => [RowsOnlyAdvance]_vars
  <2> SUFFICES ASSUME Inv, Next PROVE RowsOnlyAdvance
    OBVIOUS
  <2>1. CASE matches' = matches
    BY <2>1 DEF RowsOnlyAdvance
  <2>2. ASSUME NEW w \in Worker, CreateMatch(w) PROVE RowsOnlyAdvance
    <3>1. PICK m \in MatchId :
            /\ matches[m].status = "none"
            /\ \A k \in MatchId \ {m} : matches'[k] = matches[k]
      BY <2>2 DEF CreateMatch, Inv, TypeOK
    <3> QED
      BY <3>1 DEF RowsOnlyAdvance
  <2>3. ASSUME NEW w \in Worker, SaveResult(w) PROVE RowsOnlyAdvance
    <3>1. call[w].pc = "save" /\ call[w].match # NoOne
      BY <2>3 DEF SaveResult, At, Inv, CallShape, HoldsMatch
    <3>2. /\ matches[call[w].match].agent1 = call[w].agent1
          /\ matches[call[w].match].agent2 = call[w].agent2
      BY <3>1 DEF Inv, RowsOwned
    <3> QED
      BY <2>3, <3>2, SavedRow DEF RowsOnlyAdvance
  <2> QED
    BY <2>1, <2>2, <2>3, RowWriters
<1> QED
  BY <1>1, Invariance, PTL DEF Spec, HistoryIsFinal

\* The changes recorded with a result follow it, however stale the ratings
\* they were computed from: the winner gains 0 to 40 points, the loser none.
THEOREM WinnersGain == Spec => []WinnerGains
<1>1. Init => WinnerGains
  BY DEF Init, NoMatchRow, WinnerGains
<1>2. Inv /\ WinnerGains /\ [Next]_vars => WinnerGains'
  <2> SUFFICES ASSUME Inv, WinnerGains, Next PROVE WinnerGains'
    BY DEF vars, WinnerGains, Players, Change
  <2>1. CASE matches' = matches
    BY <2>1 DEF WinnerGains, Players, Change
  <2>2. ASSUME NEW w \in Worker, CreateMatch(w) PROVE WinnerGains'
    <3>1. PICK m \in MatchId :
            /\ matches'[m].status = "pending"
            /\ \A k \in MatchId \ {m} : matches'[k] = matches[k]
      BY <2>2 DEF CreateMatch, Inv, TypeOK, NoMatchRow
    <3> QED
      BY <3>1 DEF WinnerGains, Players, Change
  <2>3. ASSUME NEW w \in Worker, SaveResult(w) PROVE WinnerGains'
    <3> SUFFICES ASSUME NEW k \in MatchId,
                        matches'[k].status = "completed", matches'[k].winner # NoOne
                 PROVE  /\ matches'[k].winner \in {matches'[k].agent1, matches'[k].agent2}
                        /\ (IF matches'[k].winner = matches'[k].agent1
                              THEN matches'[k].change1 ELSE matches'[k].change2) \in 0..40
                        /\ \A a \in {matches'[k].agent1, matches'[k].agent2} \ {matches'[k].winner} :
                             (IF a = matches'[k].agent1
                                THEN matches'[k].change1 ELSE matches'[k].change2) <= 0
      BY DEF WinnerGains, Players, Change
    <3>1. CASE k = call[w].match
      <4>1. PICK c, row : c = call[w] /\ row = matches'[k]
        OBVIOUS
      <4>2. /\ c.agent1 # c.agent2 /\ c.winner \in {c.agent1, c.agent2, NoOne}
            /\ row.agent1 = c.agent1 /\ row.agent2 = c.agent2 /\ row.winner = c.winner
            /\ c.winner = c.agent1 => row.change1 \in 0..40 /\ row.change2 <= 0
            /\ c.winner = c.agent2 => row.change2 \in 0..40 /\ row.change1 <= 0
        BY <2>3, <3>1, <4>1, SavedRow
      <4>3. CASE c.winner = c.agent1
        BY <4>1, <4>2, <4>3
      <4>4. CASE c.winner = c.agent2
        BY <4>1, <4>2, <4>4
      <4> QED
        BY <4>1, <4>2, <4>3, <4>4
    <3>2. CASE k # call[w].match
      <4>1. matches'[k] = matches[k]
        BY <2>3, <3>2, SavedRow
      <4> QED
        BY <4>1 DEF WinnerGains, Players, Change
    <3> QED
      BY <3>1, <3>2
  <2> QED
    BY <2>1, <2>2, <2>3, RowWriters
<1> QED
  BY <1>1, <1>2, Invariance, PTL DEF Spec

-----------------------------------------------------------------------------
(* The counters *)

\* The pcs at which a call has saved its result and not yet applied it twice.
Applying == {"stats1", "stats2"}

\* A call that applies a result has it in its locals as it is in the row.
Settled ==
  \A w \in Worker : call[w].pc \in Applying =>
    /\ call[w].match \in MatchId
    /\ matches[call[w].match].status = "completed"
    /\ matches[call[w].match].winner = call[w].winner
    /\ call[w].winner \in {call[w].agent1, call[w].agent2, NoOne}

Applied(a) == Completed(a) \ Owed(a)

\* The counters of row say no more than the matches of S, and exactly as many
\* when nothing failed.
Tally(a, S, row) ==
  /\ row.wins   <= Won(a, S)
  /\ row.losses <= Lost(a, S)
  /\ row.draws  <= Drawn(a, S)
  /\ row.total  = row.wins + row.losses + row.draws
  /\ faults = 0 => row.total = Cardinality(S)

History ==
  /\ Settled
  /\ \A a \in Agent : IsFiniteSet(Completed(a)) /\ Tally(a, Applied(a), agents[a])

\* The matches of a finite set are as many as a natural number says.
LEMMA CountTypes ==
  ASSUME NEW a, NEW S, IsFiniteSet(S)
  PROVE  /\ Won(a, S) \in Nat /\ Lost(a, S) \in Nat /\ Drawn(a, S) \in Nat
         /\ Cardinality(S) \in Nat
<1>1. /\ {m \in S : matches[m].winner = a} \subseteq S
      /\ {m \in S : matches[m].winner = NoOne} \subseteq S
      /\ {m \in S : matches[m].winner \notin {a, NoOne}} \subseteq S
  OBVIOUS
<1> QED
  BY <1>1, FS_Subset, FS_CardinalityType DEF Won, Lost, Drawn

\* One more match is one more win, loss or draw.
LEMMA OneMore ==
  ASSUME NEW a \in Agent, NEW S, IsFiniteSet(S), NEW m, m \notin S
  PROVE  /\ Won(a, S \cup {m}) = IF matches[m].winner = a THEN Won(a, S) + 1 ELSE Won(a, S)
         /\ Drawn(a, S \cup {m})
              = IF matches[m].winner = NoOne THEN Drawn(a, S) + 1 ELSE Drawn(a, S)
         /\ Lost(a, S \cup {m})
              = IF matches[m].winner \notin {a, NoOne} THEN Lost(a, S) + 1 ELSE Lost(a, S)
         /\ Cardinality(S \cup {m}) = Cardinality(S) + 1
<1> DEFINE W == {k \in S : matches[k].winner = a}
           D == {k \in S : matches[k].winner = NoOne}
           L == {k \in S : matches[k].winner \notin {a, NoOne}}
<1>1. W \subseteq S /\ D \subseteq S /\ L \subseteq S
  OBVIOUS
<1>2. /\ IsFiniteSet(W) /\ IsFiniteSet(D) /\ IsFiniteSet(L)
      /\ m \notin W /\ m \notin D /\ m \notin L
  BY <1>1, FS_Subset
<1>3. /\ {k \in S \cup {m} : matches[k].winner = a}
           = IF matches[m].winner = a THEN W \cup {m} ELSE W
      /\ {k \in S \cup {m} : matches[k].winner = NoOne}
           = IF matches[m].winner = NoOne THEN D \cup {m} ELSE D
      /\ {k \in S \cup {m} : matches[k].winner \notin {a, NoOne}}
           = IF matches[m].winner \notin {a, NoOne} THEN L \cup {m} ELSE L
  OBVIOUS
<1>4. /\ Cardinality(W \cup {m}) = Cardinality(W) + 1
      /\ Cardinality(D \cup {m}) = Cardinality(D) + 1
      /\ Cardinality(L \cup {m}) = Cardinality(L) + 1
      /\ Cardinality(S \cup {m}) = Cardinality(S) + 1
  BY <1>2, FS_AddElement
<1> HIDE DEF W, D, L
<1>5. /\ Won(a, S) = Cardinality(W) /\ Drawn(a, S) = Cardinality(D) /\ Lost(a, S) = Cardinality(L)
  BY DEF Won, Drawn, Lost, W, D, L
<1> QED
  BY <1>3, <1>4, <1>5 DEF Won, Drawn, Lost

\* No step of the calls applies more, owes more or changes a completed row.
OwesNoMore ==
  /\ \A v \in Worker : call'[v].pc \in Applying =>
       /\ call[v].pc \in Applying
       /\ call'[v].pc = "stats1" => call[v].pc = "stats1"
       /\ call'[v].match = call[v].match
       /\ call'[v].winner = call[v].winner
       /\ call'[v].agent1 = call[v].agent1
       /\ call'[v].agent2 = call[v].agent2
  /\ faults' = 0 =>
       faults = 0 /\ \A v \in Worker : call[v].pc \in Applying => call'[v] = call[v]

RowsKept ==
  \A m \in MatchId :
    /\ matches'[m].status = "completed" <=> matches[m].status = "completed"
    /\ matches[m].status = "completed" => matches'[m] = matches[m]

CountersKept ==
  \A a \in Agent :
    /\ agents'[a].elo = agents[a].elo
    /\ agents'[a].wins = agents[a].wins /\ agents'[a].losses = agents[a].losses
    /\ agents'[a].draws = agents[a].draws /\ agents'[a].total = agents[a].total

\* A larger set of the same matches has no fewer wins, losses and draws.
LEMMA MoreMatches ==
  ASSUME NEW a, NEW S, NEW T, IsFiniteSet(T), S \subseteq T,
         \A m \in S : matches'[m] = matches[m]
  PROVE  /\ Won(a, S) <= Cardinality({m \in T : matches'[m].winner = a})
         /\ Drawn(a, S) <= Cardinality({m \in T : matches'[m].winner = NoOne})
         /\ Lost(a, S) <= Cardinality({m \in T : matches'[m].winner \notin {a, NoOne}})
         /\ Cardinality({m \in T : matches'[m].winner = a}) \in Nat
         /\ Cardinality({m \in T : matches'[m].winner = NoOne}) \in Nat
         /\ Cardinality({m \in T : matches'[m].winner \notin {a, NoOne}}) \in Nat
<1> DEFINE W == {m \in T : matches'[m].winner = a}
           D == {m \in T : matches'[m].winner = NoOne}
           L == {m \in T : matches'[m].winner \notin {a, NoOne}}
<1>1. W \subseteq T /\ D \subseteq T /\ L \subseteq T
  OBVIOUS
<1>2. IsFiniteSet(W) /\ IsFiniteSet(D) /\ IsFiniteSet(L)
  BY <1>1, FS_Subset
<1>3. /\ {m \in S : matches[m].winner = a} \subseteq W
      /\ {m \in S : matches[m].winner = NoOne} \subseteq D
      /\ {m \in S : matches[m].winner \notin {a, NoOne}} \subseteq L
  OBVIOUS
<1> QED
  BY <1>2, <1>3, FS_Subset, FS_CardinalityType DEF Won, Drawn, Lost

\* A step that owes no more and changes no completed row applies none: what a
\* fault leaves unapplied counts as applied from then on.
LEMMA AppliedKept ==
  ASSUME OwesNoMore, RowsKept, NEW a
  PROVE  /\ Completed(a)' = Completed(a)
         /\ \A m \in Completed(a) : matches'[m] = matches[m]
         /\ Applied(a) \subseteq Applied(a)'
         /\ faults' = 0 => faults = 0 /\ Applied(a)' = Applied(a)
<1>1. Completed(a)' = Completed(a)
  BY DEF Completed, Players, RowsKept
<1>2. Owed(a)' \subseteq Owed(a)
  BY <1>1 DEF Owed, At, OwesNoMore, RowsKept, Completed, Applying
<1>3. faults' = 0 => Owed(a)' = Owed(a)
  BY <1>1 DEF Owed, At, OwesNoMore, RowsKept, Completed, Applying
<1>4. \A m \in Completed(a) : matches'[m] = matches[m]
  BY DEF Completed, RowsKept
<1>5. Applied(a) \subseteq Applied(a)'
  BY <1>1, <1>2 DEF Applied
<1>6. faults' = 0 => faults = 0 /\ Applied(a)' = Applied(a)
  BY <1>1, <1>3 DEF OwesNoMore, Applied
<1> QED
  BY <1>1, <1>4, <1>5, <1>6

\* Such a step that changes no counter either keeps the history.
LEMMA HistoryKept ==
  ASSUME Inv, History, OwesNoMore, RowsKept, CountersKept
  PROVE  History'
<1>1. Settled'
  BY DEF History, Settled, OwesNoMore, RowsKept
<1>2. ASSUME NEW a \in Agent PROVE IsFiniteSet(Completed(a)') /\ Tally(a, Applied(a), agents[a])'
  <2>1. IsFiniteSet(Completed(a)) /\ Tally(a, Applied(a), agents[a])
    BY DEF History
  <2>2. Applied(a) \subseteq Applied(a)' /\ Applied(a)' \subseteq Completed(a)
    BY AppliedKept DEF Applied
  <2>3. IsFiniteSet(Applied(a)') /\ IsFiniteSet(Applied(a))
    BY <2>1, <2>2, FS_Subset DEF Applied
  <2>4. \A m \in Applied(a) : matches'[m] = matches[m]
    BY AppliedKept DEF Applied
  <2>5. /\ Won(a, Applied(a)) <= Won(a, Applied(a))'
        /\ Lost(a, Applied(a)) <= Lost(a, Applied(a))'
        /\ Drawn(a, Applied(a)) <= Drawn(a, Applied(a))'
        /\ Won(a, Applied(a))' \in Nat /\ Lost(a, Applied(a))' \in Nat
        /\ Drawn(a, Applied(a))' \in Nat
    BY <2>2, <2>3, <2>4, MoreMatches DEF Won, Lost, Drawn
  <2>6. Won(a, Applied(a)) \in Nat /\ Lost(a, Applied(a)) \in Nat /\ Drawn(a, Applied(a)) \in Nat
    BY <2>3, CountTypes
  <2>7. faults' = 0 => faults = 0 /\ Applied(a)' = Applied(a)
    BY AppliedKept
  <2>8. agents[a] \in AgentRows
    BY DEF Inv, TypeOK
  <2>9. /\ agents'[a].wins = agents[a].wins /\ agents'[a].losses = agents[a].losses
        /\ agents'[a].draws = agents[a].draws /\ agents'[a].total = agents[a].total
    BY DEF CountersKept
  <2>10. Tally(a, Applied(a), agents[a])'
    BY <2>1, <2>5, <2>6, <2>7, <2>8, <2>9 DEF Tally, AgentRows
  <2> QED
    BY AppliedKept, <2>1, <2>10
<1> QED
  BY <1>1, <1>2 DEF History

\* A result that is saved is owed to both players: nothing is applied yet.
LEMMA SaveAppliesNothing ==
  ASSUME Inv, NEW w \in Worker, SaveResult(w), NEW a \in Agent
  PROVE  /\ Completed(a) \subseteq Completed(a)'
         /\ Completed(a)' \subseteq Completed(a) \cup {call[w].match}
         /\ \A k \in Completed(a) : matches'[k] = matches[k]
         /\ Applied(a)' = Applied(a)
<1> DEFINE m == call[w].match
<1>1. /\ m \in MatchId /\ matches[m].status = "pending"
      /\ \A k \in MatchId \ {m} : matches'[k] = matches[k]
      /\ matches'[m].status = "completed"
      /\ matches'[m].agent1 = call[w].agent1 /\ matches'[m].agent2 = call[w].agent2
  BY SavedRow
<1>2. /\ call'[w] = [call[w] EXCEPT !.pc = "stats1"]
      /\ \A v \in Worker \ {w} : call'[v] = call[v]
  BY DEF SaveResult, Goto, Inv, TypeOK
<1>3. call'[w].pc = "stats1" /\ call'[w].match = m
  BY <1>2 DEF Inv, TypeOK, Calls
<1> HIDE DEF m
<1>4. Completed(a)' \subseteq Completed(a) \cup {m}
  BY <1>1 DEF Completed, Players
<1>5. m \notin Completed(a)
  BY <1>1 DEF Completed
<1>6. Completed(a)' \ {m} = Completed(a)
  BY <1>1, <1>5 DEF Completed, Players
<1>7. m \in Completed(a)' => m \in Owed(a)'
  BY <1>3 DEF Owed, At
<1>8. ASSUME NEW k \in Completed(a) PROVE k \in Owed(a)' <=> k \in Owed(a)
  <2>1. k \in Completed(a)' /\ k # m /\ k \in MatchId /\ matches'[k] = matches[k]
    BY <1>1, <1>5, <1>6 DEF Completed
  <2>2. \A v \in Worker : call'[v].match = k => v # w
    BY <1>3, <2>1
  <2>3. \A v \in Worker : call[v].match = k => v # w
    BY <2>1 DEF m
  <2> QED
    BY <1>2, <2>1, <2>2, <2>3 DEF Owed, At
<1>9. Applied(a)' = Applied(a)
  BY <1>5, <1>6, <1>7, <1>8 DEF Applied
<1>10. \A k \in Completed(a) : matches'[k] = matches[k]
  BY <1>1, <1>5 DEF Completed
<1> QED
  BY <1>4, <1>6, <1>9, <1>10 DEF m

LEMMA SaveKeepsHistory ==
  ASSUME Inv, History, NEW w \in Worker, SaveResult(w)
  PROVE  History'
<1> DEFINE m == call[w].match
<1>1. /\ m \in MatchId /\ matches[m].status = "pending"
      /\ call[w].winner \in {call[w].agent1, call[w].agent2, NoOne}
      /\ \A k \in MatchId \ {m} : matches'[k] = matches[k]
      /\ matches'[m].status = "completed" /\ matches'[m].winner = call[w].winner
      /\ matches'[m].agent1 = call[w].agent1 /\ matches'[m].agent2 = call[w].agent2
  BY SavedRow
<1>2. /\ call'[w] = [call[w] EXCEPT !.pc = "stats1"]
      /\ \A v \in Worker \ {w} : call'[v] = call[v]
      /\ call[w].pc = "save"
      /\ agents' = agents /\ faults' = faults
  BY DEF SaveResult, Goto, At, Inv, TypeOK
<1>3. /\ call'[w].pc = "stats1" /\ call'[w].match = m /\ call'[w].winner = call[w].winner
      /\ call'[w].agent1 = call[w].agent1 /\ call'[w].agent2 = call[w].agent2
  BY <1>2 DEF Inv, TypeOK, Calls
<1>4. m # NoOne /\ \A v \in Worker \ {w} : call[v].match # m
  BY <1>1, MatchExecutionAssumption DEF Inv, RowsOwned
<1> HIDE DEF m
<1>5. Settled'
  <2> SUFFICES ASSUME NEW v \in Worker, call'[v].pc \in Applying
               PROVE  /\ call'[v].match \in MatchId
                      /\ matches'[call'[v].match].status = "completed"
                      /\ matches'[call'[v].match].winner = call'[v].winner
                      /\ call'[v].winner \in {call'[v].agent1, call'[v].agent2, NoOne}
    BY DEF Settled
  <2>1. CASE v = w
    BY <1>1, <1>3, <2>1
  <2>2. CASE v # w
    BY <1>1, <1>2, <1>4, <2>2 DEF History, Settled
  <2> QED
    BY <2>1, <2>2
<1>6. ASSUME NEW a \in Agent PROVE IsFiniteSet(Completed(a)') /\ Tally(a, Applied(a), agents[a])'
  <2>1. IsFiniteSet(Completed(a)) /\ Tally(a, Applied(a), agents[a])
    BY DEF History
  <2>2. /\ Completed(a)' \subseteq Completed(a) \cup {m}
        /\ Applied(a)' = Applied(a)
        /\ \A k \in Applied(a) : matches'[k] = matches[k]
    BY SaveAppliesNothing DEF Applied, m
  <2>3. IsFiniteSet(Completed(a)')
    BY <2>1, <2>2, FS_AddElement, FS_Subset
  <2>4. /\ Won(a, Applied(a))' = Won(a, Applied(a))
         /\ Lost(a, Applied(a))' = Lost(a, Applied(a))
         /\ Drawn(a, Applied(a))' = Drawn(a, Applied(a))
    <3>1. /\ {k \in Applied(a) : matches'[k].winner = a} = {k \in Applied(a) : matches[k].winner = a}
          /\ {k \in Applied(a) : matches'[k].winner = NoOne}
               = {k \in Applied(a) : matches[k].winner = NoOne}
          /\ {k \in Applied(a) : matches'[k].winner \notin {a, NoOne}}
               = {k \in Applied(a) : matches[k].winner \notin {a, NoOne}}
      BY <2>2
    <3> QED
      BY <2>2, <3>1 DEF Won, Lost, Drawn
  <2>5. Tally(a, Applied(a), agents[a])'
    BY <1>2, <2>1, <2>2, <2>4 DEF Tally
  <2> QED
    BY <2>3, <2>5
<1> QED
  BY <1>5, <1>6 DEF History

\* The UPDATE of one player's row by the call that holds the match.
Applies(w, a) ==
  LET m == call[w].match
      winner == call[w].winner
  IN /\ call[w].pc \in Applying
     /\ a = IF call[w].pc = "stats1" THEN call[w].agent1 ELSE call[w].agent2
     /\ \A b \in Agent \ {a} : agents'[b] = agents[b]
     /\ agents'[a].elo    = LET elo == agents[a].elo + Change(a, m)
                            IN IF elo < 0 THEN 0 ELSE elo
     /\ agents'[a].wins   = agents[a].wins + (IF winner = a THEN 1 ELSE 0)
     /\ agents'[a].losses = agents[a].losses + (IF winner \notin {a, NoOne} THEN 1 ELSE 0)
     /\ agents'[a].draws  = agents[a].draws + (IF winner = NoOne THEN 1 ELSE 0)
     /\ agents'[a].total  = agents[a].total + 1
     /\ \A v \in Worker \ {w} : call'[v] = call[v]
     /\ IF call[w].pc = "stats1"
          THEN call'[w] = [call[w] EXCEPT !.pc = "stats2"]
          ELSE call'[w].pc \notin Applying
     /\ matches' = matches /\ faults' = faults

\* It is completed, names the two players, and no other call has it.
LEMMA AppliedMatch ==
  ASSUME Inv, History, NEW w \in Worker, NEW a \in Agent, Applies(w, a)
  PROVE  LET m == call[w].match
         IN /\ m \in MatchId /\ m # NoOne
            /\ matches[m].status = "completed" /\ matches[m].winner = call[w].winner
            /\ matches[m].agent1 = call[w].agent1 /\ matches[m].agent2 = call[w].agent2
            /\ call[w].agent1 # call[w].agent2
            /\ \A v \in Worker \ {w} : call[v].match # m
<1> DEFINE m == call[w].match
<1>1. call[w].pc \in {"stats1", "stats2"}
  BY DEF Applies, Applying
<1>2. /\ m \in MatchId /\ matches[m].status = "completed"
      /\ matches[m].winner = call[w].winner
  BY <1>1 DEF History, Settled, Applying
<1>3. m # NoOne
  BY <1>2, MatchExecutionAssumption
<1>4. matches[m].agent1 = call[w].agent1 /\ matches[m].agent2 = call[w].agent2
  BY <1>3 DEF Inv, RowsOwned
<1>5. call[w].agent1 # call[w].agent2
  BY <1>1 DEF Inv, CallShape
<1>6. \A v \in Worker \ {w} : call[v].match # m
  BY <1>3 DEF Inv, RowsOwned
<1> QED
  BY <1>2, <1>3, <1>4, <1>5, <1>6

\* The match goes from the owed ones to the applied ones of that player, once.
LEMMA AppliesOnce ==
  ASSUME Inv, History, NEW w \in Worker, NEW a \in Agent, Applies(w, a)
  PROVE  LET m == call[w].match
         IN /\ m \in Completed(a) /\ m \notin Applied(a)
            /\ matches[m].winner = call[w].winner
            /\ Applied(a)' = Applied(a) \cup {m}
            /\ \A b \in Agent : Completed(b)' = Completed(b)
            /\ \A b \in Agent \ {a} : Applied(b)' = Applied(b)
<1> DEFINE m == call[w].match
<1>1. /\ m \in MatchId /\ m # NoOne
      /\ matches[m].status = "completed" /\ matches[m].winner = call[w].winner
      /\ matches[m].agent1 = call[w].agent1 /\ matches[m].agent2 = call[w].agent2
      /\ call[w].agent1 # call[w].agent2
      /\ \A v \in Worker \ {w} : call[v].match # m
  BY AppliedMatch
<1>2. matches' = matches /\ \A v \in Worker \ {w} : call'[v] = call[v]
  BY DEF Applies
<1>3. call[w] \in Calls
  BY DEF Inv, TypeOK
<1>4. call'[w].pc \in Applying =>
        /\ call'[w].pc = "stats2" /\ call[w].pc = "stats1" /\ call'[w].match = m
        /\ call'[w].winner = call[w].winner
        /\ call'[w].agent1 = call[w].agent1 /\ call'[w].agent2 = call[w].agent2
  BY <1>3 DEF Applies, Calls
<1>5. call[w].pc = "stats1" => call'[w].pc = "stats2" /\ call'[w].match = m
  BY <1>3 DEF Applies, Calls
<1>6. /\ call[w].pc \in Applying
      /\ a = IF call[w].pc = "stats1" THEN call[w].agent1 ELSE call[w].agent2
  BY DEF Applies
<1> HIDE DEF m
<1>8. \A b : Completed(b)' = Completed(b)
  BY <1>2 DEF Completed, Players
<1>9. ASSUME NEW b \in Agent, b # a PROVE Owed(b)' = Owed(b)
  <2>1. ASSUME NEW k \in Completed(b), k # m PROVE k \in Owed(b)' <=> k \in Owed(b)
    <3>1. call[w].match # k /\ (call'[w].pc \in Applying => call'[w].match # k)
      BY <1>4, <2>1 DEF m
    <3>2. k \in Owed(b) <=> \E v \in Worker \ {w} :
            /\ call[v].match = k
            /\ call[v].pc = "stats1" \/ (call[v].pc = "stats2" /\ b = matches[k].agent2)
      BY <3>1 DEF Owed, At
    <3>3. k \in Owed(b)' <=> \E v \in Worker \ {w} :
            /\ call'[v].match = k
            /\ call'[v].pc = "stats1" \/ (call'[v].pc = "stats2" /\ b = matches[k].agent2)
      BY <1>2, <1>8, <3>1 DEF Owed, At, Applying
    <3> QED
      BY <1>2, <3>2, <3>3
  <2>2. ASSUME m \in Completed(b) PROVE m \in Owed(b)' <=> m \in Owed(b)
    <3>1. b \in {call[w].agent1, call[w].agent2}
      BY <1>1, <2>2 DEF Completed, Players
    <3>2. CASE call[w].pc = "stats1"
      <4>1. b = matches[m].agent2
        BY <1>1, <1>6, <1>9, <3>1, <3>2
      <4>2. m \in Owed(b)
        BY <2>2, <3>2 DEF Owed, At, m
      <4>3. m \in Owed(b)'
        BY <1>2, <1>5, <1>8, <2>2, <3>2, <4>1 DEF Owed, At
      <4> QED
        BY <4>2, <4>3
    <3>3. CASE call[w].pc = "stats2"
      <4>1. b # matches[m].agent2 /\ call'[w].pc \notin Applying
        BY <1>1, <1>4, <1>6, <1>9, <3>3
      <4>2. m \notin Owed(b)
        <5>1. \A v \in Worker : call[v].match = m => v = w
          BY <1>1
        <5> QED
          BY <3>3, <4>1, <5>1 DEF Owed, At
      <4>3. m \notin Owed(b)'
        <5>1. \A v \in Worker : call'[v].match = m => v = w
          BY <1>1, <1>2
        <5> QED
          BY <4>1, <5>1 DEF Owed, At, Applying
      <4> QED
        BY <4>2, <4>3
    <3> QED
      BY <1>6, <3>2, <3>3 DEF Applying
  <2> QED
    BY <1>8, <2>1, <2>2 DEF Owed
<1>10. /\ m \in Owed(a) /\ m \notin Owed(a)'
       /\ \A k \in Completed(a) : k # m => (k \in Owed(a)' <=> k \in Owed(a))
  <2>1. m \in Completed(a)
    BY <1>1, <1>6 DEF Completed, Players
  <2>2. m \in Owed(a)
    BY <1>1, <1>6, <2>1 DEF Owed, At, Applying, m
  <2>3. m \notin Owed(a)'
    <3>1. \A v \in Worker : call'[v].match = m => v = w
      BY <1>1, <1>2
    <3>2. call'[w].pc # "stats1"
      BY <1>4 DEF Applying
    <3>3. call'[w].pc = "stats2" => a # matches'[m].agent2
      BY <1>1, <1>2, <1>4, <1>6 DEF Applying
    <3> QED
      BY <3>1, <3>2, <3>3 DEF Owed, At
  <2>4. ASSUME NEW k \in Completed(a), k # m PROVE k \in Owed(a)' <=> k \in Owed(a)
    <3>1. call[w].match # k /\ (call'[w].pc \in Applying => call'[w].match # k)
      BY <1>4, <2>4 DEF m
    <3>2. k \in Owed(a) <=> \E v \in Worker \ {w} :
            /\ call[v].match = k
            /\ call[v].pc = "stats1" \/ (call[v].pc = "stats2" /\ a = matches[k].agent2)
      BY <3>1 DEF Owed, At
    <3>3. k \in Owed(a)' <=> \E v \in Worker \ {w} :
            /\ call'[v].match = k
            /\ call'[v].pc = "stats1" \/ (call'[v].pc = "stats2" /\ a = matches[k].agent2)
      BY <1>2, <1>8, <3>1 DEF Owed, At, Applying
    <3> QED
      BY <1>2, <3>2, <3>3
  <2> QED
    BY <2>2, <2>3, <2>4
<1>11. m \in Completed(a) /\ m \notin Applied(a)
  BY <1>10 DEF Applied, Owed
<1>12. Applied(a)' = Applied(a) \cup {m}
  BY <1>8, <1>10, <1>11 DEF Applied
<1>13. \A b \in Agent \ {a} : Applied(b)' = Applied(b)
  BY <1>8, <1>9 DEF Applied
<1> QED
  BY <1>1, <1>8, <1>11, <1>12, <1>13 DEF m

LEMMA ApplyKeepsHistory ==
  ASSUME Inv, History, NEW w \in Worker, NEW a \in Agent, Applies(w, a)
  PROVE  History'
<1> DEFINE m == call[w].match
<1>1. /\ m \in MatchId /\ m # NoOne
      /\ matches[m].status = "completed" /\ matches[m].winner = call[w].winner
      /\ matches[m].agent1 = call[w].agent1 /\ matches[m].agent2 = call[w].agent2
      /\ call[w].agent1 # call[w].agent2
      /\ \A v \in Worker \ {w} : call[v].match # m
  BY AppliedMatch
<1>2. matches' = matches /\ \A v \in Worker \ {w} : call'[v] = call[v]
  BY DEF Applies
<1>3. call[w] \in Calls
  BY DEF Inv, TypeOK
<1>4. call'[w].pc \in Applying =>
        /\ call'[w].pc = "stats2" /\ call[w].pc = "stats1" /\ call'[w].match = m
        /\ call'[w].winner = call[w].winner
        /\ call'[w].agent1 = call[w].agent1 /\ call'[w].agent2 = call[w].agent2
  BY <1>3 DEF Applies, Calls
<1>5. Settled'
  <2> SUFFICES ASSUME NEW v \in Worker, call'[v].pc \in Applying
               PROVE  /\ call'[v].match \in MatchId
                      /\ matches'[call'[v].match].status = "completed"
                      /\ matches'[call'[v].match].winner = call'[v].winner
                      /\ call'[v].winner \in {call'[v].agent1, call'[v].agent2, NoOne}
    BY DEF Settled
  <2>1. CASE v = w
    BY <1>1, <1>2, <1>4, <2>1 DEF History, Settled, Applying
  <2>2. CASE v # w
    BY <1>2, <2>2 DEF History, Settled
  <2> QED
    BY <2>1, <2>2
<1>6. \A b \in Agent : Completed(b)' = Completed(b)
  BY AppliesOnce
<1> HIDE DEF m
<1>7. ASSUME NEW b \in Agent PROVE IsFiniteSet(Completed(b)') /\ Tally(b, Applied(b), agents[b])'
  <2>1. IsFiniteSet(Completed(b)) /\ Tally(b, Applied(b), agents[b])
    BY DEF History
  <2>2. faults' = faults
    BY DEF Applies
  <2>3. CASE b # a
    <3>1. Applied(b)' = Applied(b) /\ agents'[b] = agents[b]
      BY <2>3, AppliesOnce DEF Applies
    <3>2. Tally(b, Applied(b), agents[b])'
      BY <1>2, <2>1, <2>2, <3>1 DEF Tally, Won, Lost, Drawn
    <3> QED
      BY <1>6, <2>1, <3>2
  <2>4. CASE b = a
    <3> DEFINE S == Applied(a)
    <3>1. S \subseteq Completed(a) /\ m \notin S /\ m \in Completed(a)
      BY AppliesOnce DEF Applied, m
    <3>2. Applied(a)' = S \cup {m}
      BY AppliesOnce DEF m
    <3>3. IsFiniteSet(S)
      BY <2>1, <2>4, <3>1, FS_Subset
    <3> HIDE DEF S
    <3>4. /\ Won(a, S) \in Nat /\ Lost(a, S) \in Nat /\ Drawn(a, S) \in Nat
          /\ Cardinality(S) \in Nat
      BY <3>3, CountTypes
    <3>5. /\ Won(a, S \cup {m}) = IF call[w].winner = a THEN Won(a, S) + 1 ELSE Won(a, S)
          /\ Drawn(a, S \cup {m})
               = IF call[w].winner = NoOne THEN Drawn(a, S) + 1 ELSE Drawn(a, S)
          /\ Lost(a, S \cup {m})
               = IF call[w].winner \notin {a, NoOne} THEN Lost(a, S) + 1 ELSE Lost(a, S)
          /\ Cardinality(S \cup {m}) = Cardinality(S) + 1
      <4>1. PICK k : k = m
        OBVIOUS
      <4>2. k \notin S /\ matches[k].winner = call[w].winner
        BY <1>1, <3>1, <4>1
      <4>3. /\ Won(a, S \cup {k}) = IF matches[k].winner = a THEN Won(a, S) + 1 ELSE Won(a, S)
            /\ Drawn(a, S \cup {k})
                 = IF matches[k].winner = NoOne THEN Drawn(a, S) + 1 ELSE Drawn(a, S)
            /\ Lost(a, S \cup {k})
                 = IF matches[k].winner \notin {a, NoOne} THEN Lost(a, S) + 1 ELSE Lost(a, S)
            /\ Cardinality(S \cup {k}) = Cardinality(S) + 1
        BY <3>3, <4>2, OneMore
      <4> QED
        BY <4>1, <4>2, <4>3
    <3>6. /\ Won(a, Applied(a))' = Won(a, S \cup {m})
          /\ Lost(a, Applied(a))' = Lost(a, S \cup {m})
          /\ Drawn(a, Applied(a))' = Drawn(a, S \cup {m})
      BY <1>2, <3>2 DEF Won, Lost, Drawn
    <3>7. agents[a] \in AgentRows
      BY DEF Inv, TypeOK
    <3>8. Tally(a, S, agents[a])
      BY <2>1, <2>4 DEF S
    <3>9. /\ agents'[a].wins   = agents[a].wins + (IF call[w].winner = a THEN 1 ELSE 0)
          /\ agents'[a].losses = agents[a].losses + (IF call[w].winner \notin {a, NoOne} THEN 1 ELSE 0)
          /\ agents'[a].draws  = agents[a].draws + (IF call[w].winner = NoOne THEN 1 ELSE 0)
          /\ agents'[a].total  = agents[a].total + 1
      BY DEF Applies
    <3>10. a # NoOne
      BY MatchExecutionAssumption
    <3>11. /\ agents'[a].wins   <= Won(a, S \cup {m})
           /\ agents'[a].losses <= Lost(a, S \cup {m})
           /\ agents'[a].draws  <= Drawn(a, S \cup {m})
           /\ agents'[a].total  = agents'[a].wins + agents'[a].losses + agents'[a].draws
           /\ faults' = 0 => agents'[a].total = Cardinality(S \cup {m})
      BY <2>2, <3>4, <3>5, <3>7, <3>8, <3>9, <3>10 DEF Tally, AgentRows
    <3>12. Tally(a, Applied(a), agents[a])'
      BY <3>2, <3>6, <3>11 DEF Tally
    <3> QED
      BY <1>6, <2>1, <2>4, <3>12
  <2> QED
    BY <2>3, <2>4
<1> QED
  BY <1>5, <1>7 DEF History


\* The pcs at which a call has a result to apply or to count.
Settling == Applying \cup {"count1", "new1", "count2", "new2"}

\* A call that is not at the pcs of P, before or after the step.
Elsewhere(w, P) ==
  /\ call[w].pc \notin P /\ call'[w].pc \notin P
  /\ \A v \in Worker \ {w} : call'[v] = call[v]
  /\ faults' = faults

\* Such a call owes nothing.
LEMMA ElsewhereOwesNoMore ==
  ASSUME NEW w \in Worker, Elsewhere(w, Applying) \/ Elsewhere(w, Settling)
  PROVE  OwesNoMore
BY DEF Elsewhere, OwesNoMore, Settling

Counts(w) == CountAgent1(w) \/ InsertAgent1(w) \/ CountAgent2(w) \/ InsertAgent2(w)

\* The statements that neither save, apply nor count a result.
LEMMA OtherStatements ==
  ASSUME Inv, NEW w \in Worker, Run(w),
         ~(SaveResult(w) \/ UpdateAgent1(w) \/ UpdateAgent2(w) \/ Counts(w))
  PROVE  /\ Elsewhere(w, Settling) /\ RowsKept
         /\ UNCHANGED <<agents, counted>>
<1>0. call \in [Worker -> Calls] /\ call[w] \in Calls
  BY DEF Inv, TypeOK
<1>1. UNCHANGED <<agents, counted, faults>>
  BY DEF Run, ProcessResult, FindAgent1, FindAgent2, Reject, CreateMatch,
       ExecutorSucceeds, ExecutorFails, Counts,
       ReadRating1, ReadRating2, ReadRatingBuilt, ReadRating,
       Upsert1, Upsert2, UpsertBuilt, Upsert
<1>2. Idle.pc \notin Settling
  BY DEF Idle, Settling, Applying
<1>3. ASSUME NEW pc, NEW x, pc \notin Settling, call[w].pc \notin Settling,
             \/ call' = [call EXCEPT ![w] = [call[w] EXCEPT !.pc = pc]]
             \/ call' = [call EXCEPT ![w] = [call[w] EXCEPT !.pc = pc, !.seen = x]]
             \/ call' = [call EXCEPT ![w] = [call[w] EXCEPT !.pc = pc, !.copy1 = x]]
             \/ call' = [call EXCEPT ![w] = [call[w] EXCEPT !.pc = pc, !.copy2 = x]]
             \/ call' = [call EXCEPT ![w] = [call[w] EXCEPT !.pc = pc, !.match = x]]
             \/ call' = [call EXCEPT ![w] = [call[w] EXCEPT !.pc = pc, !.winner = x]]
      PROVE  Elsewhere(w, Settling)
  <2>1. \A v \in Worker \ {w} : call'[v] = call[v]
    BY <1>0, <1>3
  <2>2. /\ [call[w] EXCEPT !.pc = pc].pc = pc
        /\ [call[w] EXCEPT !.pc = pc, !.seen = x].pc = pc
        /\ [call[w] EXCEPT !.pc = pc, !.copy1 = x].pc = pc
        /\ [call[w] EXCEPT !.pc = pc, !.copy2 = x].pc = pc
        /\ [call[w] EXCEPT !.pc = pc, !.match = x].pc = pc
        /\ [call[w] EXCEPT !.pc = pc, !.winner = x].pc = pc
    BY <1>0 DEF Calls
  <2>3. ASSUME NEW c, c.pc = pc, call' = [call EXCEPT ![w] = c] PROVE call'[w].pc = pc
    BY <1>0, <2>3
  <2>4. call'[w].pc = pc
    BY <1>3, <2>2, <2>3
  <2> QED
    BY <1>1, <1>3, <2>1, <2>4 DEF Elsewhere
<1>4. Elsewhere(w, Settling)
  <2>1. CASE FindAgent1(w)
    <3>1. call' = [call EXCEPT ![w] = [call[w] EXCEPT !.pc = "find2", !.copy1 = Copy(call[w].agent1)]]
      BY <1>0, <2>1 DEF FindAgent1
    <3>2. "find2" \notin Settling /\ call[w].pc \notin Settling
      BY <2>1 DEF FindAgent1, At, Settling, Applying
    <3> QED
      BY <1>3, <3>1, <3>2
  <2>2. CASE FindAgent2(w)
    <3>1. call' = [call EXCEPT ![w] = [call[w] EXCEPT !.pc = "create", !.copy2 = Copy(call[w].agent2)]]
      BY <1>0, <2>2 DEF FindAgent2
    <3>2. "create" \notin Settling /\ call[w].pc \notin Settling
      BY <2>2 DEF FindAgent2, At, Settling, Applying
    <3> QED
      BY <1>3, <3>1, <3>2
  <2>3. CASE Reject(w) \/ ExecutorFails(w) \/ Upsert2(w) \/ UpsertBuilt(w)
    <3>1. Return(w) /\ call[w].pc \notin Settling
      BY <2>3 DEF Reject, ExecutorFails, Upsert2, UpsertBuilt, Upsert, At, Settling, Applying
    <3>2. call'[w] = Idle /\ \A v \in Worker \ {w} : call'[v] = call[v]
      BY <1>0, <3>1 DEF Return
    <3> QED
      BY <1>1, <1>2, <3>1, <3>2 DEF Elsewhere
  <2>4. CASE CreateMatch(w)
    <3>1. PICK m : call' = [call EXCEPT ![w] = [call[w] EXCEPT !.pc = "execute", !.match = m]]
      BY <1>0, <2>4 DEF CreateMatch
    <3>2. "execute" \notin Settling /\ call[w].pc \notin Settling
      BY <2>4 DEF CreateMatch, At, Settling, Applying
    <3> QED
      BY <1>3, <3>1, <3>2
  <2>5. CASE ExecutorSucceeds(w)
    <3>1. PICK x : call' = [call EXCEPT ![w] = [call[w] EXCEPT !.pc = "save", !.winner = x]]
      BY <1>0, <2>5 DEF ExecutorSucceeds
    <3>2. "save" \notin Settling /\ call[w].pc \notin Settling
      BY <2>5 DEF ExecutorSucceeds, At, Settling, Applying
    <3> QED
      BY <1>3, <3>1, <3>2
  <2>6. CASE ReadRating1(w) \/ ReadRating2(w) \/ ReadRatingBuilt(w) \/ Upsert1(w)
    <3>1. PICK pc, x :
            /\ call' = [call EXCEPT ![w] = [call[w] EXCEPT !.pc = pc, !.seen = x]]
            /\ pc \notin Settling /\ call[w].pc \notin Settling
      <4>1. ASSUME NEW from, NEW b, NEW next, ReadRating(w, from, b, next)
            PROVE  /\ call' = [call EXCEPT ![w] = [call[w] EXCEPT !.pc = next, !.seen = agents[b].elo]]
                   /\ call[w].pc = from
        BY <1>0, <4>1 DEF ReadRating, At
      <4>2. {"enqueue1", "upsert1", "enqueue2", "upsert2", "enqueue", "upsert"} \cap Settling = {}
        BY DEF Settling, Applying
      <4>3. CASE ReadRating1(w)
        <5>1. ReadRating(w, "enqueue1", call[w].agent1, "upsert1")
          BY <4>3 DEF ReadRating1
        <5>2. /\ call' = [call EXCEPT ![w] = [call[w] EXCEPT !.pc = "upsert1",
                                                             !.seen = agents[call[w].agent1].elo]]
              /\ call[w].pc = "enqueue1"
          BY <4>1, <5>1
        <5> QED
          BY <4>2, <5>2
      <4>4. CASE ReadRating2(w)
        <5>1. ReadRating(w, "enqueue2", call[w].agent2, "upsert2")
          BY <4>4 DEF ReadRating2
        <5>2. /\ call' = [call EXCEPT ![w] = [call[w] EXCEPT !.pc = "upsert2",
                                                             !.seen = agents[call[w].agent2].elo]]
              /\ call[w].pc = "enqueue2"
          BY <4>1, <5>1
        <5> QED
          BY <4>2, <5>2
      <4>5. CASE ReadRatingBuilt(w)
        <5>1. ReadRating(w, "enqueue", call[w].agent1, "upsert")
          BY <4>5 DEF ReadRatingBuilt
        <5>2. /\ call' = [call EXCEPT ![w] = [call[w] EXCEPT !.pc = "upsert",
                                                             !.seen = agents[call[w].agent1].elo]]
              /\ call[w].pc = "enqueue"
          BY <4>1, <5>1
        <5> QED
          BY <4>2, <5>2
      <4>6. CASE Upsert1(w)
        <5>1. /\ call' = [call EXCEPT ![w] = [call[w] EXCEPT !.pc = "enqueue2", !.seen = 0]]
              /\ call[w].pc = "upsert1"
          BY <1>0, <4>6 DEF Upsert1, Upsert, At
        <5> QED
          BY <4>2, <5>1
      <4> QED
        BY <2>6, <4>3, <4>4, <4>5, <4>6
    <3> QED
      BY <1>3, <3>1
  <2> QED
    BY <2>1, <2>2, <2>3, <2>4, <2>5, <2>6 DEF Run, ProcessResult, Counts
<1>5. RowsKept
  <2>1. CASE matches' = matches
    BY <2>1 DEF RowsKept
  <2>2. CASE CreateMatch(w)
    <3>1. PICK m \in MatchId :
            /\ matches[m].status = "none" /\ matches'[m].status = "pending"
            /\ \A k \in MatchId \ {m} : matches'[k] = matches[k]
      BY <2>2 DEF CreateMatch, Inv, TypeOK, NoMatchRow
    <3> QED
      BY <3>1 DEF RowsKept
  <2>3. matches' = matches \/ CreateMatch(w)
    BY DEF Run, ProcessResult, FindAgent1, FindAgent2, Reject,
         ExecutorSucceeds, ExecutorFails, Counts,
       ReadRating1, ReadRating2, ReadRatingBuilt, ReadRating,
         Upsert1, Upsert2, UpsertBuilt, Upsert
  <2> QED
    BY <2>1, <2>2, <2>3
<1> QED
  BY <1>1, <1>4, <1>5

\* The row a call applies has the call's two players.
LEMMA RowOfCall ==
  ASSUME Inv, NEW w \in Worker, call[w].pc \in Applying
  PROVE  /\ matches[call[w].match].agent1 = call[w].agent1
         /\ matches[call[w].match].agent2 = call[w].agent2
BY DEF Inv, CallShape, RowsOwned, HoldsMatch, Applying

\* UpdateStats applies the result to one player.
LEMMA UpdateApplies ==
  ASSUME Inv, History, NEW w \in Worker, UpdateAgent1(w) \/ UpdateAgent2(w)
  PROVE  \E a \in Agent : Applies(w, a)
<1>1. call \in [Worker -> Calls] /\ call[w] \in Calls /\ agents \in [Agent -> AgentRows]
  BY DEF Inv, TypeOK
<1>2. CASE UpdateAgent1(w)
  <2> DEFINE a == call[w].agent1
             change == matches[call[w].match].change1
  <2>1. /\ call[w].pc = "stats1" /\ a \in Agent /\ a # call[w].agent2 /\ a # NoOne
        /\ call[w].winner \in {a, call[w].agent2, NoOne}
        /\ call[w].agent2 \in Agent
    BY <1>2, MatchExecutionAssumption
       DEF UpdateAgent1, At, Inv, CallShape, History, Settled, Applying
  <2>2. /\ agents' = [agents EXCEPT ![a] =
              UpdateStats(@, change, call[w].winner = a,
                          call[w].winner = call[w].agent2, call[w].winner = NoOne)]
        /\ call' = [call EXCEPT ![w].pc = "stats2"]
        /\ matches' = matches /\ faults' = faults
    BY <1>2 DEF UpdateAgent1, Goto
  <2>3. /\ agents'[a].wins   = agents[a].wins + (IF call[w].winner = a THEN 1 ELSE 0)
        /\ agents'[a].losses = agents[a].losses + (IF call[w].winner \notin {a, NoOne} THEN 1 ELSE 0)
        /\ agents'[a].draws  = agents[a].draws + (IF call[w].winner = NoOne THEN 1 ELSE 0)
        /\ agents'[a].total  = agents[a].total + 1
        /\ agents'[a].elo = IF agents[a].elo + change < 0 THEN 0 ELSE agents[a].elo + change
    BY <1>1, <2>1, <2>2, MatchExecutionAssumption DEF UpdateStats, AgentRows
  <2>4. /\ \A b \in Agent \ {a} : agents'[b] = agents[b]
        /\ \A v \in Worker \ {w} : call'[v] = call[v]
        /\ call'[w] = [call[w] EXCEPT !.pc = "stats2"]
    BY <1>1, <2>2
  <2>5. Change(a, call[w].match) = change
    BY <2>1, RowOfCall DEF Change, Applying
  <2> HIDE DEF change
  <2>6. Applies(w, a)
    BY <2>1, <2>2, <2>3, <2>4, <2>5 DEF Applies, Applying
  <2> QED
    BY <2>1, <2>6
<1>3. CASE UpdateAgent2(w)
  <2> DEFINE a == call[w].agent2
             change == matches[call[w].match].change2
             won == call[w].winner = call[w].agent1
             draw == call[w].winner = NoOne
  <2>1. /\ call[w].pc = "stats2" /\ a \in Agent /\ a # call[w].agent1 /\ a # NoOne
        /\ call[w].winner \in {call[w].agent1, a, NoOne}
        /\ call[w].agent1 \in Agent
    BY <1>3, MatchExecutionAssumption
       DEF UpdateAgent2, At, Inv, CallShape, History, Settled, Applying
  <2>2. /\ agents' = [agents EXCEPT ![a] =
              UpdateStats(@, change, ~won /\ ~draw, won, draw)]
        /\ call' = [call EXCEPT ![w] = AfterStats(call[w])]
        /\ matches' = matches /\ faults' = faults
    BY <1>3 DEF UpdateAgent2
  <2>3. /\ agents'[a].wins   = agents[a].wins + (IF call[w].winner = a THEN 1 ELSE 0)
        /\ agents'[a].losses = agents[a].losses + (IF call[w].winner \notin {a, NoOne} THEN 1 ELSE 0)
        /\ agents'[a].draws  = agents[a].draws + (IF call[w].winner = NoOne THEN 1 ELSE 0)
        /\ agents'[a].total  = agents[a].total + 1
        /\ agents'[a].elo = IF agents[a].elo + change < 0 THEN 0 ELSE agents[a].elo + change
    BY <1>1, <2>1, <2>2, MatchExecutionAssumption DEF UpdateStats, AgentRows
  <2>4. AfterStats(call[w]).pc = "count1"
    BY DEF AfterStats, Idle
  <2>5. /\ \A b \in Agent \ {a} : agents'[b] = agents[b]
        /\ \A v \in Worker \ {w} : call'[v] = call[v]
        /\ call'[w].pc \notin Applying
    BY <1>1, <2>2, <2>4 DEF Applying
  <2>6. Change(a, call[w].match) = change
    BY <2>1, RowOfCall DEF Change, Applying
  <2> HIDE DEF change
  <2>7. Applies(w, a)
    BY <2>1, <2>2, <2>3, <2>5, <2>6 DEF Applies, Applying
  <2> QED
    BY <2>1, <2>7
<1> QED
  BY <1>2, <1>3

\* A step that neither saves a result nor applies one.
Quiet == OwesNoMore /\ RowsKept /\ CountersKept

\* The statements of a call around the two UPDATEs of agents.
LEMMA RunStep ==
  ASSUME Inv, NEW w \in Worker, Run(w)
  PROVE  Quiet \/ SaveResult(w) \/ UpdateAgent1(w) \/ UpdateAgent2(w)
<1>1. call \in [Worker -> Calls] /\ call[w] \in Calls
  BY DEF Inv, TypeOK
<1>2. CASE Counts(w)
  <2>1. PICK pc : Goto(w, pc) /\ pc \notin Applying /\ call[w].pc \notin Applying
    BY <1>2 DEF Counts, CountAgent1, InsertAgent1, CountAgent2, InsertAgent2, UpdateCount,
                InsertCount, At, Applying
  <2>2. UNCHANGED <<agents, matches, faults>>
    BY <1>2 DEF Counts, CountAgent1, InsertAgent1, CountAgent2, InsertAgent2, UpdateCount,
                InsertCount
  <2>3. Elsewhere(w, Applying)
    BY <1>1, <2>1, <2>2 DEF Elsewhere, Goto, Calls
  <2>4. RowsKept /\ CountersKept
    BY <2>2 DEF RowsKept, CountersKept
  <2> QED
    BY <2>3, <2>4, ElsewhereOwesNoMore DEF Quiet
<1>3. CASE ~(SaveResult(w) \/ UpdateAgent1(w) \/ UpdateAgent2(w) \/ Counts(w))
  <2>1. Elsewhere(w, Settling) /\ RowsKept /\ agents' = agents
    BY <1>3, OtherStatements
  <2>2. CountersKept
    BY <2>1 DEF CountersKept
  <2> QED
    BY <2>1, <2>2, ElsewhereOwesNoMore DEF Quiet
<1> QED
  BY <1>2, <1>3

\* A call that starts applies nothing yet, and a build changes no counter.
LEMMA StartStep ==
  ASSUME Inv, NEW w \in Worker, NEW a \in Agent,
         (\E b \in Agent : Begin(w, a, b)) \/ BuildSucceeds(w, a)
  PROVE  /\ Elsewhere(w, Settling) /\ RowsKept /\ CountersKept
         /\ counted' = counted
<1>1. /\ \E c : c.pc \notin Settling /\ call' = [call EXCEPT ![w] = c]
      /\ call[w].pc \notin Settling /\ matches' = matches /\ faults' = faults
  <2>1. CASE BuildSucceeds(w, a)
    <3> DEFINE c == [Idle EXCEPT !.pc = "enqueue", !.agent1 = a]
    <3>1. c.pc = "enqueue" /\ "enqueue" \notin Settling
      BY DEF Idle, Settling, Applying
    <3>2. /\ call' = [call EXCEPT ![w] = c] /\ call[w].pc = "idle"
          /\ matches' = matches /\ faults' = faults
      BY <2>1 DEF BuildSucceeds, At
    <3> HIDE DEF c
    <3> QED
      BY <3>1, <3>2 DEF Settling, Applying
  <2>2. ASSUME NEW b \in Agent, Begin(w, a, b)
        PROVE  /\ \E c : c.pc \notin Settling /\ call' = [call EXCEPT ![w] = c]
               /\ call[w].pc \notin Settling /\ matches' = matches /\ faults' = faults
    <3> DEFINE c == [Idle EXCEPT !.pc = "find1", !.agent1 = a, !.agent2 = b]
    <3>1. c.pc = "find1" /\ "find1" \notin Settling
      BY DEF Idle, Settling, Applying
    <3>2. /\ call' = [call EXCEPT ![w] = c] /\ call[w].pc = "idle"
          /\ matches' = matches /\ faults' = faults
      BY <2>2 DEF Begin, At
    <3> HIDE DEF c
    <3> QED
      BY <3>1, <3>2 DEF Settling, Applying
  <2> QED
    BY <2>1, <2>2
<1>2. Elsewhere(w, Settling)
  <2>1. call \in [Worker -> Calls]
    BY DEF Inv, TypeOK
  <2> QED
    BY <1>1, <2>1 DEF Elsewhere
<1>3. RowsKept
  BY <1>1 DEF RowsKept
<1>4. CountersKept
  <2>1. CASE BuildSucceeds(w, a)
    BY <2>1 DEF BuildSucceeds, CountersKept, Inv, TypeOK, AgentRows
  <2>2. CASE agents' = agents
    BY <2>2 DEF CountersKept
  <2> QED
    BY <2>1, <2>2 DEF Begin
<1> QED
  BY <1>2, <1>3, <1>4 DEF Begin, BuildSucceeds

\* A failed statement or a crash drops results for good, and applies none.
LEMMA FaultStep ==
  ASSUME Inv,
         (\E w \in Worker : StatementFails(w)) \/ (\E S \in SUBSET Worker : ReplicaCrash(S))
  PROVE  Quiet
<1>1. UNCHANGED <<agents, matches, counted, queue>> /\ faults' = faults + 1
  BY DEF StatementFails, ReplicaCrash
<1>2. RowsKept /\ CountersKept
  BY <1>1 DEF RowsKept, CountersKept
<1>3. faults' # 0
  BY <1>1 DEF Inv, TypeOK
<1>4. Idle.pc \notin Applying
  BY DEF Idle, Applying
<1>5. OwesNoMore
  <2>1. ASSUME NEW w \in Worker, StatementFails(w) PROVE OwesNoMore
    <3>1. /\ call[w] \in Calls
          /\ \A v \in Worker \ {w} : call'[v] = call[v]
          /\ call'[w] = IF call[w].pc \in Dropped \cup Logged THEN AfterError(call[w]) ELSE Idle
      BY <2>1 DEF StatementFails, Inv, TypeOK
    <3>2. CASE call[w].pc = "stats1"
      <4>1. call'[w] = [call[w] EXCEPT !.pc = "stats2"]
        BY <3>1, <3>2 DEF AfterError, Dropped
      <4>2. /\ call'[w].pc = "stats2" /\ call'[w].match = call[w].match
            /\ call'[w].winner = call[w].winner
            /\ call'[w].agent1 = call[w].agent1 /\ call'[w].agent2 = call[w].agent2
        BY <3>1, <4>1 DEF Calls
      <4> QED
        BY <1>3, <3>1, <3>2, <4>2 DEF OwesNoMore, Applying
    <3>3. CASE call[w].pc # "stats1"
      <4>1. call'[w].pc \notin Applying
        <5>1. CASE call[w].pc = "stats2"
          BY <3>1, <5>1 DEF AfterError, Dropped, AfterStats, Idle, Applying
        <5>2. CASE call[w].pc \in Logged
          <6>1. CASE call[w].pc \in {"count1", "new1"}
            <7>1. call'[w] = [call[w] EXCEPT !.pc = "count2"]
              BY <3>1, <5>2, <6>1 DEF AfterError
            <7> QED
              BY <3>1, <7>1 DEF Calls, Applying
          <6>2. CASE call[w].pc \in {"count2", "new2"}
            <7>1. call'[w] = [call[w] EXCEPT !.pc = "enqueue1"]
              BY <3>1, <5>2, <6>2 DEF AfterError
            <7> QED
              BY <3>1, <7>1 DEF Calls, Applying
          <6>3. CASE call[w].pc \in {"enqueue1", "upsert1"}
            <7>1. call'[w] = [call[w] EXCEPT !.pc = "enqueue2", !.seen = 0]
              BY <3>1, <5>2, <6>3 DEF AfterError
            <7> QED
              BY <3>1, <7>1 DEF Calls, Applying
          <6> QED
            BY <5>2, <6>1, <6>2, <6>3 DEF Logged
        <5>3. CASE call[w].pc \notin Dropped \cup Logged
          BY <1>4, <3>1, <5>3
        <5> QED
          BY <3>3, <5>1, <5>2, <5>3 DEF Dropped
      <4> QED
        BY <1>3, <3>1, <4>1 DEF OwesNoMore
    <3> QED
      BY <3>2, <3>3
  <2>2. ASSUME NEW S \in SUBSET Worker, ReplicaCrash(S) PROVE OwesNoMore
    <3>1. \A v \in Worker : call'[v] = call[v] \/ call'[v] = Idle
      BY <2>2 DEF ReplicaCrash
    <3> QED
      BY <1>3, <1>4, <3>1 DEF OwesNoMore
  <2> QED
    BY <2>1, <2>2
<1> QED
  BY <1>2, <1>5 DEF Quiet

\* Every step is quiet, saves one result or applies one to one player.
LEMMA AnyStep ==
  ASSUME Inv, [Next]_vars
  PROVE  \/ Quiet
         \/ \E w \in Worker : SaveResult(w)
         \/ \E w \in Worker : UpdateAgent1(w) \/ UpdateAgent2(w)
<1>1. CASE UNCHANGED vars
  BY <1>1 DEF vars, Quiet, OwesNoMore, RowsKept, CountersKept
<1>2. CASE \E w \in Worker, a, b \in Agent : Begin(w, a, b)
  BY <1>2, StartStep, ElsewhereOwesNoMore DEF Quiet
<1>3. CASE \E w \in Worker, a \in Agent : BuildSucceeds(w, a)
  BY <1>3, StartStep, ElsewhereOwesNoMore DEF Quiet
<1> QED
  BY <1>1, <1>2, <1>3, RunStep, FaultStep DEF Next

\* Before the first match all counters are zero, and no step applies a result
\* twice or, without a fault, drops one.
LEMMA HistoryAlways == Spec => []History
<1>1. Init => History
  <2> SUFFICES ASSUME Init PROVE History
    OBVIOUS
  <2>1. Settled
    BY DEF Init, Settled, Idle, Applying
  <2>2. ASSUME NEW a \in Agent PROVE Completed(a) = {}
    BY DEF Init, NoMatchRow, Completed
  <2>3. IsFiniteSet({}) /\ Cardinality({}) = 0
    BY FS_EmptySet
  <2>4. ASSUME NEW a \in Agent PROVE Tally(a, {}, agents[a])
    <3>1. /\ {m \in {} : matches[m].winner = a} = {} /\ {m \in {} : matches[m].winner = NoOne} = {}
          /\ {m \in {} : matches[m].winner \notin {a, NoOne}} = {}
      OBVIOUS
    <3>2. Won(a, {}) = 0 /\ Lost(a, {}) = 0 /\ Drawn(a, {}) = 0
      BY <2>3, <3>1 DEF Won, Lost, Drawn
    <3> QED
      BY <2>3, <3>2 DEF Init, NewAgentRow, Tally
  <2>5. \A a \in Agent : Applied(a) = {}
    BY <2>2 DEF Applied
  <2> QED
    BY <2>1, <2>2, <2>3, <2>4, <2>5 DEF History
<1>2. Inv /\ History /\ [Next]_vars => History'
  BY AnyStep, HistoryKept, SaveKeepsHistory, UpdateApplies, ApplyKeepsHistory DEF Quiet
<1> QED
  BY <1>1, <1>2, Invariance, PTL DEF Spec

\* No result is lost or applied twice, for any number of agents, calls and
\* faults, whichever way the statements of the calls interleave.
THEOREM CountersMatch == Spec => []CountersMatchHistory
<1>1. History => CountersMatchHistory
  BY DEF History, Tally, Applied, CountersMatchHistory
<1> QED
  BY <1>1, HistoryAlways, PTL

-----------------------------------------------------------------------------
(* The rate limiter's count *)

\* A call that has saved a result and not yet counted it for player a.
ToCount(c, a) ==
  \/ c.pc \in {"stats1", "stats2", "count1", "new1"} /\ a \in {c.agent1, c.agent2}
  \/ c.pc \in {"count2", "new2"} /\ a = c.agent2

Uncounted(a) == {w \in Worker : ToCount(call[w], a)}

\* What is counted and what is to be counted are no more than the completed
\* matches; without a fault the last INSERT race leaves a row.
Counted(a) ==
  /\ IsFiniteSet(Uncounted(a))
  /\ IsFiniteSet(Completed(a))
  /\ counted[a] + Cardinality(Uncounted(a)) <= Cardinality(Completed(a))
  /\ faults = 0 /\ Completed(a) # {} /\ Uncounted(a) = {} => counted[a] > 0

\* A step that counts nothing: a fault may drop a match that was to be counted.
CountsNothing ==
  /\ \A v \in Worker, a \in Agent : ToCount(call'[v], a) => ToCount(call[v], a)
  /\ faults' = 0 =>
       faults = 0 /\ \A v \in Worker, a \in Agent : ToCount(call[v], a) => ToCount(call'[v], a)
  /\ counted' = counted

LEMMA CountedKept ==
  ASSUME Inv, RowsKept, CountsNothing, NEW a \in Agent, Counted(a)
  PROVE  Counted(a)'
<1>1. Completed(a)' = Completed(a)
  BY DEF Completed, Players, RowsKept
<1>2. Uncounted(a)' \subseteq Uncounted(a)
  BY DEF Uncounted, CountsNothing
<1>3. faults' = 0 => faults = 0 /\ Uncounted(a)' = Uncounted(a)
  BY DEF Uncounted, CountsNothing
<1>4. IsFiniteSet(Uncounted(a)) /\ Cardinality(Uncounted(a)) \in Nat
  BY FS_CardinalityType DEF Counted
<1>5. /\ IsFiniteSet(Uncounted(a)') /\ Cardinality(Uncounted(a)') \in Nat
      /\ Cardinality(Uncounted(a)') <= Cardinality(Uncounted(a))
  BY <1>2, <1>4, FS_Subset, FS_CardinalityType
<1>6. Cardinality(Completed(a)) \in Nat /\ counted[a] \in Nat /\ counted'[a] = counted[a]
  BY FS_CardinalityType DEF Counted, CountsNothing, Inv, TypeOK
<1> QED
  BY <1>1, <1>3, <1>4, <1>5, <1>6 DEF Counted

\* A call that settles nothing counts nothing.
LEMMA ElsewhereCountsNothing ==
  ASSUME NEW w \in Worker, Elsewhere(w, Settling), counted' = counted
  PROVE  CountsNothing
<1>1. \A a : ~ToCount(call[w], a) /\ ~ToCount(call'[w], a)
  BY DEF Elsewhere, ToCount, Settling, Applying
<1> QED
  BY <1>1 DEF Elsewhere, CountsNothing

\* A saved result is to be counted for both players.
LEMMA SaveCounted ==
  ASSUME Inv, NEW w \in Worker, SaveResult(w), NEW a \in Agent, Counted(a)
  PROVE  Counted(a)'
<1> DEFINE m == call[w].match
<1>1. /\ m \in MatchId /\ matches[m].status = "pending"
      /\ \A k \in MatchId \ {m} : matches'[k] = matches[k]
      /\ matches'[m].status = "completed"
      /\ matches'[m].agent1 = call[w].agent1 /\ matches'[m].agent2 = call[w].agent2
  BY SavedRow
<1>2. /\ call'[w] = [call[w] EXCEPT !.pc = "stats1"]
      /\ \A v \in Worker \ {w} : call'[v] = call[v]
      /\ call[w].pc = "save" /\ call[w] \in Calls
      /\ counted' = counted /\ faults' = faults
  BY DEF SaveResult, Goto, At, Inv, TypeOK
<1>3. /\ call'[w].pc = "stats1"
      /\ call'[w].agent1 = call[w].agent1 /\ call'[w].agent2 = call[w].agent2
  BY <1>2 DEF Calls
<1> HIDE DEF m
<1>4. /\ IsFiniteSet(Uncounted(a)) /\ Cardinality(Uncounted(a)) \in Nat
      /\ IsFiniteSet(Completed(a)) /\ Cardinality(Completed(a)) \in Nat
      /\ counted[a] \in Nat
  BY FS_CardinalityType DEF Counted, Inv, TypeOK
<1>5. w \notin Uncounted(a) /\ m \notin Completed(a)
  BY <1>1, <1>2 DEF Uncounted, ToCount, Completed
<1>6. CASE a \in {call[w].agent1, call[w].agent2}
  <2>1. Uncounted(a)' = Uncounted(a) \cup {w}
    BY <1>2, <1>3, <1>6 DEF Uncounted, ToCount
  <2>2. Completed(a)' = Completed(a) \cup {m}
    BY <1>1, <1>6 DEF Completed, Players
  <2>3. /\ Cardinality(Uncounted(a)') = Cardinality(Uncounted(a)) + 1
        /\ Cardinality(Completed(a)') = Cardinality(Completed(a)) + 1
        /\ IsFiniteSet(Uncounted(a)') /\ IsFiniteSet(Completed(a)')
    BY <1>4, <1>5, <2>1, <2>2, FS_AddElement
  <2> QED
    BY <1>2, <1>4, <2>1, <2>3 DEF Counted
<1>7. CASE a \notin {call[w].agent1, call[w].agent2}
  <2>1. Uncounted(a)' = Uncounted(a)
    BY <1>2, <1>3, <1>7 DEF Uncounted, ToCount
  <2>2. Completed(a)' = Completed(a)
    BY <1>1, <1>7 DEF Completed, Players
  <2> QED
    BY <1>2, <2>1, <2>2 DEF Counted
<1> QED
  BY <1>6, <1>7

\* Of a call that counts, only the match of that agent is counted, at most once.
CountedBy(w, b) ==
  /\ ToCount(call[w], b)
  /\ \A a \in Agent \ {b} : (ToCount(call'[w], a) <=> ToCount(call[w], a)) /\ counted'[a] = counted[a]
  /\ \/ ~ToCount(call'[w], b) /\ counted'[b] \in Nat /\ counted'[b] > 0
        /\ counted'[b] <= counted[b] + 1
     \/ ToCount(call'[w], b) /\ counted'[b] = counted[b]
  /\ \A v \in Worker \ {w} : call'[v] = call[v]
  /\ UNCHANGED <<matches, faults>>

LEMMA CountingCounted ==
  ASSUME Inv, NEW w \in Worker, NEW b \in Agent, CountedBy(w, b), NEW a \in Agent, Counted(a)
  PROVE  Counted(a)'
<1>1. Completed(a)' = Completed(a) /\ faults' = faults
  BY DEF CountedBy, Completed, Players
<1>2. /\ IsFiniteSet(Uncounted(a)) /\ Cardinality(Uncounted(a)) \in Nat
      /\ IsFiniteSet(Completed(a)) /\ Cardinality(Completed(a)) \in Nat
      /\ counted[a] \in Nat
  BY FS_CardinalityType DEF Counted, Inv, TypeOK
<1>3. CASE a # b \/ ToCount(call'[w], b)
  <2>1. Uncounted(a)' = Uncounted(a) /\ counted'[a] = counted[a]
    BY <1>3 DEF CountedBy, Uncounted
  <2> QED
    BY <1>1, <2>1 DEF Counted
<1>4. CASE a = b /\ ~ToCount(call'[w], b)
  <2>1. Uncounted(a)' = Uncounted(a) \ {w} /\ w \in Uncounted(a)
    BY <1>4 DEF CountedBy, Uncounted
  <2>2. /\ Cardinality(Uncounted(a)') = Cardinality(Uncounted(a)) - 1
        /\ IsFiniteSet(Uncounted(a)')
    BY <1>2, <2>1, FS_RemoveElement
  <2>3. counted'[a] \in Nat /\ counted'[a] > 0 /\ counted'[a] <= counted[a] + 1
    BY <1>4 DEF CountedBy
  <2> QED
    BY <1>1, <1>2, <2>2, <2>3 DEF Counted
<1> QED
  BY <1>3, <1>4

\* IncrementMatchCount is such a step.
LEMMA CountsCount ==
  ASSUME Inv, NEW w \in Worker, Counts(w)
  PROVE  \E b \in Agent : CountedBy(w, b)
<1>1. /\ call[w] \in Calls /\ call \in [Worker -> Calls] /\ counted \in [Agent -> Nat]
      /\ call[w].agent1 \in Agent /\ call[w].agent2 \in Agent
      /\ call[w].agent1 # call[w].agent2
  BY DEF Counts, CountAgent1, InsertAgent1, CountAgent2, InsertAgent2, UpdateCount, InsertCount,
         At, Inv, TypeOK, CallShape
<1>2. ASSUME NEW pc, Goto(w, pc)
      PROVE  /\ call'[w].pc = pc
             /\ call'[w].agent1 = call[w].agent1 /\ call'[w].agent2 = call[w].agent2
             /\ \A v \in Worker \ {w} : call'[v] = call[v]
  BY <1>1, <1>2 DEF Goto, Calls
<1>3. UNCHANGED <<matches, faults>>
  BY DEF Counts, CountAgent1, InsertAgent1, CountAgent2, InsertAgent2, UpdateCount, InsertCount
<1>4. CASE CountAgent1(w)
  <2>1. /\ call[w].pc = "count1"
        /\ \/ /\ counted' = [counted EXCEPT ![call[w].agent1] = @ + 1] /\ Goto(w, "count2")
           \/ counted' = counted /\ Goto(w, "new1")
    BY <1>4 DEF CountAgent1, UpdateCount, At
  <2>2. CountedBy(w, call[w].agent1)
    BY <1>1, <1>2, <1>3, <2>1 DEF CountedBy, ToCount
  <2> QED
    BY <1>1, <2>2
<1>5. CASE InsertAgent1(w)
  <2>1. /\ call[w].pc = "new1"
        /\ counted' = [counted EXCEPT ![call[w].agent1] = IF @ = 0 THEN 1 ELSE @]
        /\ Goto(w, "count2")
    BY <1>5 DEF InsertAgent1, InsertCount, At
  <2>2. CountedBy(w, call[w].agent1)
    BY <1>1, <1>2, <1>3, <2>1 DEF CountedBy, ToCount
  <2> QED
    BY <1>1, <2>2
<1>6. CASE CountAgent2(w)
  <2>1. /\ call[w].pc = "count2"
        /\ \/ /\ counted' = [counted EXCEPT ![call[w].agent2] = @ + 1] /\ Goto(w, "enqueue1")
           \/ counted' = counted /\ Goto(w, "new2")
    BY <1>6 DEF CountAgent2, UpdateCount, At
  <2>2. CountedBy(w, call[w].agent2)
    BY <1>1, <1>2, <1>3, <2>1 DEF CountedBy, ToCount
  <2> QED
    BY <1>1, <2>2
<1>7. CASE InsertAgent2(w)
  <2>1. /\ call[w].pc = "new2"
        /\ counted' = [counted EXCEPT ![call[w].agent2] = IF @ = 0 THEN 1 ELSE @]
        /\ Goto(w, "enqueue1")
    BY <1>7 DEF InsertAgent2, InsertCount, At
  <2>2. CountedBy(w, call[w].agent2)
    BY <1>1, <1>2, <1>3, <2>1 DEF CountedBy, ToCount
  <2> QED
    BY <1>1, <2>2
<1> QED
  BY <1>4, <1>5, <1>6, <1>7 DEF Counts

\* Applying a result to the agents counts nothing.
LEMMA UpdateCountsNothing ==
  ASSUME Inv, NEW w \in Worker, UpdateAgent1(w) \/ UpdateAgent2(w)
  PROVE  CountsNothing /\ RowsKept
<1>1. call[w] \in Calls /\ call \in [Worker -> Calls]
  BY DEF Inv, TypeOK
<1>2. UNCHANGED <<matches, counted, faults>>
  BY DEF UpdateAgent1, UpdateAgent2
<1>3. /\ call'[w].pc \in {"stats2", "count1"} /\ call[w].pc \in {"stats1", "stats2"}
      /\ call'[w].agent1 = call[w].agent1 /\ call'[w].agent2 = call[w].agent2
      /\ \A v \in Worker \ {w} : call'[v] = call[v]
  <2>1. CASE UpdateAgent1(w)
    BY <1>1, <2>1 DEF UpdateAgent1, Goto, At, Calls
  <2>2. CASE UpdateAgent2(w)
    <3>1. call' = [call EXCEPT ![w] = AfterStats(call[w])] /\ call[w].pc = "stats2"
      BY <2>2 DEF UpdateAgent2, At
    <3>2. /\ AfterStats(call[w]).pc = "count1"
          /\ AfterStats(call[w]).agent1 = call[w].agent1
          /\ AfterStats(call[w]).agent2 = call[w].agent2
      BY DEF AfterStats, Idle
    <3> QED
      BY <1>1, <3>1, <3>2
  <2> QED
    BY <2>1, <2>2
<1>4. \A a : ToCount(call'[w], a) <=> ToCount(call[w], a)
  BY <1>3 DEF ToCount
<1> QED
  BY <1>2, <1>3, <1>4 DEF CountsNothing, RowsKept

\* A fault may drop a match that was to be counted, but brings none.
LEMMA FaultCountsNothing ==
  ASSUME Inv,
         (\E w \in Worker : StatementFails(w)) \/ (\E S \in SUBSET Worker : ReplicaCrash(S))
  PROVE  CountsNothing /\ RowsKept
<1>1. UNCHANGED <<agents, matches, counted, queue>> /\ faults' = faults + 1
  BY DEF StatementFails, ReplicaCrash
<1>2. faults' # 0 /\ RowsKept
  BY <1>1 DEF Inv, TypeOK, RowsKept
<1>3. \A a : ~ToCount(Idle, a)
  BY DEF Idle, ToCount
<1>4. ASSUME NEW w \in Worker, StatementFails(w) PROVE CountsNothing
  <2>1. /\ call[w] \in Calls
        /\ \A v \in Worker \ {w} : call'[v] = call[v]
        /\ call'[w] = IF call[w].pc \in Dropped \cup Logged THEN AfterError(call[w]) ELSE Idle
    BY <1>4 DEF StatementFails, Inv, TypeOK
  <2>2. \A a \in Agent : ToCount(call'[w], a) => ToCount(call[w], a)
    <3>1. CASE call[w].pc = "stats1"
      <4>1. call'[w] = [call[w] EXCEPT !.pc = "stats2"]
        BY <2>1, <3>1 DEF AfterError, Dropped
      <4> QED
        BY <2>1, <3>1, <4>1 DEF Calls, ToCount
    <3>2. CASE call[w].pc = "stats2"
      <4>1. call'[w] = AfterStats(call[w])
        BY <2>1, <3>2 DEF AfterError, Dropped
      <4> QED
        BY <3>2, <4>1 DEF AfterStats, Idle, ToCount
    <3>3. CASE call[w].pc \in {"count1", "new1"}
      <4>1. call'[w] = [call[w] EXCEPT !.pc = "count2"]
        BY <2>1, <3>3 DEF AfterError, Logged
      <4> QED
        BY <2>1, <3>3, <4>1 DEF Calls, ToCount
    <3>4. CASE call[w].pc \in {"count2", "new2"}
      <4>1. call'[w] = [call[w] EXCEPT !.pc = "enqueue1"]
        BY <2>1, <3>4 DEF AfterError, Logged
      <4> QED
        BY <2>1, <4>1 DEF Calls, ToCount
    <3>5. CASE call[w].pc \in {"enqueue1", "upsert1"}
      <4>1. call'[w] = [call[w] EXCEPT !.pc = "enqueue2", !.seen = 0]
        BY <2>1, <3>5 DEF AfterError, Logged
      <4> QED
        BY <2>1, <4>1 DEF Calls, ToCount
    <3>6. CASE call[w].pc \notin Dropped \cup Logged
      BY <1>3, <2>1, <3>6
    <3> QED
      BY <3>1, <3>2, <3>3, <3>4, <3>5, <3>6 DEF Dropped, Logged
  <2> QED
    BY <1>1, <1>2, <2>1, <2>2 DEF CountsNothing
<1>5. ASSUME NEW S \in SUBSET Worker, ReplicaCrash(S) PROVE CountsNothing
  <2>1. \A v \in Worker : call'[v] = call[v] \/ call'[v] = Idle
    BY <1>5 DEF ReplicaCrash
  <2> QED
    BY <1>1, <1>2, <1>3, <2>1 DEF CountsNothing
<1> QED
  BY <1>2, <1>4, <1>5

\* The count of the rate limiter never exceeds the matches an agent completed,
\* for any interleaving of its UPDATEs and INSERTs, and an agent that played
\* has a row once the calls have returned without a fault.
THEOREM CountsNeverAhead == Spec => []CountNeverAhead
<1> DEFINE All == \A a \in Agent : Counted(a)
<1>1. Init => All
  <2> SUFFICES ASSUME Init, NEW a \in Agent PROVE Counted(a)
    OBVIOUS
  <2>1. Completed(a) = {} /\ Uncounted(a) = {} /\ counted[a] = 0
    BY DEF Init, NoMatchRow, Completed, Uncounted, Idle, ToCount
  <2> QED
    BY <2>1, FS_EmptySet DEF Counted
<1>2. Inv /\ All /\ [Next]_vars => All'
  <2> SUFFICES ASSUME Inv, All, [Next]_vars, NEW a \in Agent PROVE Counted(a)'
    OBVIOUS
  <2>0. Counted(a)
    OBVIOUS
  <2> HIDE DEF All
  <2>1. ASSUME NEW w \in Worker, Run(w) PROVE Counted(a)'
    <3>1. CASE SaveResult(w)
      BY <2>0, <3>1, SaveCounted
    <3>2. CASE UpdateAgent1(w) \/ UpdateAgent2(w)
      BY <2>0, <3>2, UpdateCountsNothing, CountedKept
    <3>3. CASE Counts(w)
      BY <2>0, <3>3, CountsCount, CountingCounted
    <3>4. CASE ~(SaveResult(w) \/ UpdateAgent1(w) \/ UpdateAgent2(w) \/ Counts(w))
      BY <2>0, <2>1, <3>4, OtherStatements, ElsewhereCountsNothing, CountedKept
    <3> QED
      BY <3>1, <3>2, <3>3, <3>4
  <2>2. ASSUME NEW w \in Worker, NEW b \in Agent,
               (\E c \in Agent : Begin(w, b, c)) \/ BuildSucceeds(w, b)
        PROVE  Counted(a)'
    BY <2>0, <2>2, StartStep, ElsewhereCountsNothing, CountedKept
  <2>3. CASE (\E w \in Worker : StatementFails(w)) \/ (\E S \in SUBSET Worker : ReplicaCrash(S))
    BY <2>0, <2>3, FaultCountsNothing, CountedKept
  <2>4. CASE UNCHANGED vars
    <3>1. RowsKept /\ CountsNothing
      BY <2>4 DEF vars, RowsKept, CountsNothing
    <3> QED
      BY <2>0, <3>1, CountedKept
  <2> QED
    BY <2>1, <2>2, <2>3, <2>4 DEF Next
<1>3. Inv /\ All => CountNeverAhead
  <2> SUFFICES ASSUME Inv, All, NEW a \in Agent
               PROVE  /\ counted[a] <= Cardinality(Completed(a))
                      /\ (faults = 0 /\ Completed(a) # {}
                          /\ \A w \in Worker : At(w, "idle")) => counted[a] > 0
    BY DEF CountNeverAhead
  <2>1. Counted(a)
    OBVIOUS
  <2>2. /\ Cardinality(Uncounted(a)) \in Nat /\ Cardinality(Completed(a)) \in Nat
        /\ counted[a] \in Nat
    BY <2>1, FS_CardinalityType DEF Counted, Inv, TypeOK
  <2>3. (\A w \in Worker : At(w, "idle")) => Uncounted(a) = {}
    BY DEF At, Uncounted, ToCount
  <2> QED
    BY <2>1, <2>2, <2>3 DEF Counted
<1> HIDE DEF All
<1> QED
  BY <1>1, <1>2, <1>3, Invariance, PTL DEF Spec

-----------------------------------------------------------------------------
(* The ratings *)

\* The changes of a completed match are at most 40 points either way.
ChangesBounded ==
  \A m \in MatchId : matches[m].status = "completed" =>
    matches[m].change1 \in -40..40 /\ matches[m].change2 \in -40..40

LEMMA BoundedAlways == Spec => []ChangesBounded
<1>1. Init => ChangesBounded
  BY DEF Init, NoMatchRow, ChangesBounded
<1>2. Inv /\ ChangesBounded /\ [Next]_vars => ChangesBounded'
  <2> SUFFICES ASSUME Inv, ChangesBounded, [Next]_vars PROVE ChangesBounded'
    OBVIOUS
  <2>1. CASE \E w \in Worker : SaveResult(w)
    <3>1. PICK w \in Worker : SaveResult(w)
      BY <2>1
    <3>2. /\ \A k \in MatchId \ {call[w].match} : matches'[k] = matches[k]
          /\ matches'[call[w].match].change1 \in -40..40
          /\ matches'[call[w].match].change2 \in -40..40
      BY <3>1, SavedRow
    <3> QED
      BY <3>2 DEF ChangesBounded
  <2>2. CASE \E w \in Worker : UpdateAgent1(w) \/ UpdateAgent2(w)
    BY <2>2 DEF UpdateAgent1, UpdateAgent2, ChangesBounded
  <2>3. CASE Quiet
    BY <2>3 DEF Quiet, RowsKept, ChangesBounded
  <2> QED
    BY <2>1, <2>2, <2>3, AnyStep
<1> QED
  BY <1>1, <1>2, Invariance, PTL DEF Spec

\* What a step does to the matches that are applied to one agent, and to its rating.
LEMMA RatingStep ==
  ASSUME Inv, History, [Next]_vars, NEW a \in Agent
  PROVE  /\ Completed(a) \subseteq Completed(a)'
         /\ \A m \in Completed(a) : matches'[m] = matches[m]
         /\ \/ /\ agents'[a].elo = agents[a].elo
               /\ Applied(a) \subseteq Applied(a)'
               /\ faults' = 0 => faults = 0 /\ Applied(a)' = Applied(a)
            \/ \E m \in Completed(a) \ Applied(a) :
                 /\ agents'[a].elo = LET elo == agents[a].elo + Change(a, m)
                                     IN IF elo < 0 THEN 0 ELSE elo
                 /\ Applied(a)' = Applied(a) \cup {m}
                 /\ faults' = faults
<1>1. CASE Quiet
  BY <1>1, AppliedKept DEF Quiet, CountersKept
<1>2. ASSUME NEW w \in Worker, SaveResult(w)
      PROVE  /\ Completed(a) \subseteq Completed(a)'
             /\ \A m \in Completed(a) : matches'[m] = matches[m]
             /\ agents' = agents /\ faults' = faults /\ Applied(a)' = Applied(a)
  BY <1>2, SaveAppliesNothing DEF SaveResult
<1>3. ASSUME NEW w \in Worker, NEW b \in Agent, Applies(w, b), matches' = matches
      PROVE  /\ Completed(a)' = Completed(a) /\ faults' = faults
             /\ \/ agents'[a] = agents[a] /\ Applied(a)' = Applied(a)
                \/ \E m \in Completed(a) \ Applied(a) :
                     /\ agents'[a].elo = LET elo == agents[a].elo + Change(a, m)
                                         IN IF elo < 0 THEN 0 ELSE elo
                     /\ Applied(a)' = Applied(a) \cup {m}
  <2>1. CASE a = b
    <3>1. PICK m : m = call[w].match
      OBVIOUS
    <3>2. agents'[a].elo = LET elo == agents[a].elo + Change(a, m)
                           IN IF elo < 0 THEN 0 ELSE elo
      BY <1>3, <2>1, <3>1 DEF Applies
    <3>3. m \in Completed(a) \ Applied(a) /\ Applied(a)' = Applied(a) \cup {m}
      BY <1>3, <2>1, <3>1, AppliesOnce
    <3>4. Completed(a)' = Completed(a) /\ faults' = faults
      BY <1>3, AppliesOnce DEF Applies
    <3> QED
      BY <3>2, <3>3, <3>4
  <2>2. CASE a # b
    <3>1. agents'[a] = agents[a] /\ faults' = faults
      BY <1>3, <2>2 DEF Applies
    <3>2. Completed(a)' = Completed(a) /\ Applied(a)' = Applied(a)
      BY <1>3, <2>2, AppliesOnce
    <3> QED
      BY <3>1, <3>2
  <2> QED
    BY <2>1, <2>2
<1>4. ASSUME NEW w \in Worker, UpdateAgent1(w) \/ UpdateAgent2(w)
      PROVE  matches' = matches /\ \E b \in Agent : Applies(w, b)
  BY <1>4, UpdateApplies DEF UpdateAgent1, UpdateAgent2
<1> QED
  BY <1>1, <1>2, <1>3, <1>4, AnyStep

\* The changes of completed matches sum to an integer that is not too negative.
LEMMA ChangesSum ==
  ASSUME ChangesBounded, NEW a, NEW S \in SUBSET Completed(a), IsFiniteSet(S)
  PROVE  /\ \A m \in S : Change(a, m) \in -40..40
         /\ SumChanges(a, S) \in Int
         /\ SumChanges(a, S) >= -(40 * Cardinality(S))
<1> DEFINE f == [m \in MatchId |-> Change(a, m)]
<1>1. \A m \in S : Change(a, m) \in -40..40
  BY DEF ChangesBounded, Completed, Change
<1>2. \A m \in S : f[m] \in -40..40
  BY <1>1 DEF Completed
<1>3. SumChanges(a, S) = SumFunctionOnSet(f, S)
  BY DEF SumChanges
<1> HIDE DEF f
<1>4. SumFunctionOnSet(f, S) \in Int /\ -(40 * Cardinality(S)) <= SumFunctionOnSet(f, S)
  BY <1>2, SumBounds
<1>5. Cardinality(S) \in Nat
  BY FS_CardinalityType
<1> QED
  BY <1>1, <1>3, <1>4, <1>5

\* One more match adds its change.
LEMMA OneMoreChange ==
  ASSUME ChangesBounded, NEW a, NEW S \in SUBSET Completed(a), IsFiniteSet(S),
         NEW m \in Completed(a), m \notin S
  PROVE  SumChanges(a, S \cup {m}) = SumChanges(a, S) + Change(a, m)
<1> DEFINE f == [k \in MatchId |-> Change(a, k)]
<1>1. \A k \in Completed(a) : f[k] \in Int
  BY DEF ChangesBounded, Completed, Change
<1>2. /\ SumChanges(a, S) = SumFunctionOnSet(f, S)
      /\ SumChanges(a, S \cup {m}) = SumFunctionOnSet(f, S \cup {m})
      /\ f[m] = Change(a, m)
  BY DEF SumChanges, Completed
<1> HIDE DEF f
<1>3. SumFunctionOnSet(f, S \cup {m}) = SumFunctionOnSet(f, S) + f[m]
  BY <1>1, SumAdd
<1> QED
  BY <1>2, <1>3

\* The recorded changes stay, so that their sums do.
LEMMA SumStays ==
  ASSUME NEW a, NEW S \in SUBSET Completed(a), IsFiniteSet(S),
         \A m \in S : matches'[m] = matches[m]
  PROVE  SumChanges(a, S)' = SumChanges(a, S)
<1>1. \A m \in S : Change(a, m)' = Change(a, m) /\ m \in MatchId
  BY DEF Change, Completed
<1>2. PICK f : f = [m \in MatchId |-> Change(a, m)]
  OBVIOUS
<1>3. PICK g : g = [m \in MatchId |-> Change(a, m)']
  OBVIOUS
<1>4. \A m \in S : f[m] = g[m]
  BY <1>1, <1>2, <1>3
<1>5. SumFunctionOnSet(f, S) = SumFunctionOnSet(g, S)
  BY <1>4, SumSame
<1>6. SumChanges(a, S) = SumFunctionOnSet(f, S)
  BY <1>2 DEF SumChanges
<1>7. SumChanges(a, S)' = SumFunctionOnSet(g, S)
  BY <1>3 DEF SumChanges
<1> QED
  BY <1>5, <1>6, <1>7

\* r is a rating that some of the completed matches of a make.
Real(a, r) == \E S \in SUBSET Completed(a) : r = InitialElo + SumChanges(a, S)

\* As long as the floor is out of reach, the rating of an agent is made of the
\* matches applied to it: of all of them when nothing failed.
Entry(a) ==
  \E S \in SUBSET Applied(a) :
    /\ agents[a].elo = InitialElo + SumChanges(a, S)
    /\ faults = 0 => S = Applied(a)

Ledger == NoFloor => \A a \in Agent : Entry(a)

\* A floor that is out of reach after a step was out of reach before it.
LEMMA FloorStays ==
  ASSUME Inv, History, History', [Next]_vars, NoFloor'
  PROVE  NoFloor
<1> SUFFICES ASSUME NEW a \in Agent PROVE InitialElo >= 40 * Cardinality(Completed(a))
  BY DEF NoFloor
<1>1. IsFiniteSet(Completed(a)') /\ InitialElo >= 40 * Cardinality(Completed(a)')
  BY DEF History, NoFloor
<1>2. Completed(a) \subseteq Completed(a)'
  BY RatingStep
<1>3. /\ Cardinality(Completed(a)) \in Nat /\ Cardinality(Completed(a)') \in Nat
      /\ Cardinality(Completed(a)) <= Cardinality(Completed(a)')
  BY <1>1, <1>2, FS_Subset, FS_CardinalityType
<1> QED
  BY <1>1, <1>3, MatchExecutionAssumption

\* A rating that was real stays real: completed matches never change.
LEMMA RealStays ==
  ASSUME Inv, History, [Next]_vars, NEW a \in Agent, NEW r, Real(a, r)
  PROVE  Real(a, r)'
<1>1. PICK S \in SUBSET Completed(a) : r = InitialElo + SumChanges(a, S)
  BY DEF Real
<1>2. IsFiniteSet(S)
  BY FS_Subset DEF History
<1>3. Completed(a) \subseteq Completed(a)' /\ \A m \in S : matches'[m] = matches[m]
  BY RatingStep
<1>4. SumChanges(a, S)' = SumChanges(a, S)
  BY <1>2, <1>3, SumStays
<1>5. S \in SUBSET Completed(a)' /\ r = InitialElo + SumChanges(a, S)'
  BY <1>1, <1>3, <1>4
<1> QED
  BY <1>5 DEF Real

\* The relative UPDATE keeps the ledger: it adds the change of the match that
\* becomes applied to whatever the rating is by then.
LEMMA EntryStep ==
  ASSUME Inv, History, History', ChangesBounded, [Next]_vars, NoFloor',
         NEW a \in Agent, Entry(a)
  PROVE  Entry(a)'
<1>1. PICK S \in SUBSET Applied(a) :
        /\ agents[a].elo = InitialElo + SumChanges(a, S)
        /\ faults = 0 => S = Applied(a)
  BY DEF Entry
<1>2. /\ S \in SUBSET Completed(a) /\ IsFiniteSet(S)
      /\ \A m \in S : matches'[m] = matches[m]
      /\ SumChanges(a, S) \in Int
  <2>1. S \in SUBSET Completed(a)
    BY DEF Applied
  <2>2. IsFiniteSet(S)
    BY <2>1, FS_Subset DEF History
  <2> QED
    BY <2>1, <2>2, RatingStep, ChangesSum
<1>3. SumChanges(a, S)' = SumChanges(a, S)
  BY <1>2, SumStays
<1>4. CASE /\ agents'[a].elo = agents[a].elo
           /\ Applied(a) \subseteq Applied(a)'
           /\ faults' = 0 => faults = 0 /\ Applied(a)' = Applied(a)
  <2>1. /\ S \in SUBSET Applied(a)'
        /\ agents'[a].elo = InitialElo + SumChanges(a, S)'
        /\ faults' = 0 => S = Applied(a)'
    BY <1>1, <1>3, <1>4
  <2> QED
    BY <2>1 DEF Entry
<1>5. ASSUME NEW m \in Completed(a) \ Applied(a),
             agents'[a].elo = LET elo == agents[a].elo + Change(a, m)
                              IN IF elo < 0 THEN 0 ELSE elo,
             Applied(a)' = Applied(a) \cup {m},
             faults' = faults
      PROVE  Entry(a)'
  <2>1. PICK T : T = S \cup {m}
    OBVIOUS
  <2>2. m \notin S /\ T \in SUBSET Completed(a)
    BY <1>2, <1>5, <2>1
  <2>3. IsFiniteSet(T)
    BY <2>2, FS_Subset DEF History
  <2>4. SumChanges(a, T) = SumChanges(a, S) + Change(a, m)
    BY <1>2, <2>1, <2>2, OneMoreChange
  <2>5. /\ Change(a, m) \in Int /\ SumChanges(a, T) \in Int
        /\ SumChanges(a, T) >= -(40 * Cardinality(T))
    <3>1. \A k \in T : Change(a, k) \in -40..40
      BY <2>2, <2>3, ChangesSum
    <3>2. Change(a, m) \in Int
      BY <2>1, <3>1
    <3> QED
      BY <2>2, <2>3, <3>2, ChangesSum
  <2>6. /\ Completed(a) \subseteq Completed(a)' /\ IsFiniteSet(Completed(a)')
        /\ \A k \in T : matches'[k] = matches[k]
    BY <2>2, RatingStep DEF History
  <2>7. /\ Cardinality(T) \in Nat /\ Cardinality(Completed(a)') \in Nat
        /\ Cardinality(T) <= Cardinality(Completed(a)')
    BY <2>2, <2>3, <2>6, FS_Subset, FS_CardinalityType
  <2>8. InitialElo >= 40 * Cardinality(Completed(a)')
    BY DEF NoFloor
  <2>9. InitialElo + SumChanges(a, T) >= 0
    BY <2>5, <2>7, <2>8, MatchExecutionAssumption
  <2>10. agents[a].elo + Change(a, m) = InitialElo + SumChanges(a, T)
    BY <1>1, <1>2, <2>4, <2>5, MatchExecutionAssumption
  <2>11. agents'[a].elo = InitialElo + SumChanges(a, T)
    BY <1>5, <2>5, <2>9, <2>10, MatchExecutionAssumption
  <2>12. SumChanges(a, T)' = SumChanges(a, T)
    BY <2>2, <2>3, <2>6, SumStays
  <2>13. /\ T \in SUBSET Applied(a)'
         /\ agents'[a].elo = InitialElo + SumChanges(a, T)'
         /\ faults' = 0 => T = Applied(a)'
    BY <1>1, <1>5, <2>1, <2>11, <2>12
  <2> QED
    BY <2>13 DEF Entry
<1> QED
  BY <1>4, <1>5, RatingStep

LEMMA LedgerAlways == Spec => []Ledger
<1>1. Init => Ledger
  <2> SUFFICES ASSUME Init, NEW a \in Agent PROVE Entry(a)
    BY DEF Ledger
  <2>1. Applied(a) = {} /\ agents[a].elo = InitialElo
    BY DEF Init, NoMatchRow, NewAgentRow, Completed, Applied
  <2>2. SumChanges(a, {}) = 0
    BY SumStep, FS_EmptySet DEF SumChanges
  <2>3. InitialElo = InitialElo + SumChanges(a, {})
    BY <2>2, MatchExecutionAssumption
  <2> QED
    BY <2>1, <2>3 DEF Entry
<1>2. Inv /\ History /\ History' /\ ChangesBounded /\ Ledger /\ [Next]_vars => Ledger'
  <2> SUFFICES ASSUME Inv, History, History', ChangesBounded, Ledger, [Next]_vars, NoFloor',
                      NEW a \in Agent
               PROVE  Entry(a)'
    BY DEF Ledger
  <2>1. Entry(a)
    BY FloorStays DEF Ledger
  <2> QED
    BY <2>1, EntryStep
<1> QED
  BY <1>1, <1>2, Invariance, HistoryAlways, BoundedAlways, PTL DEF Spec

\* No rating change is lost to a concurrent match of the same agent, for any
\* number of agents, workers and matches: as long as no rating can have met the
\* floor, and nothing failed, the rating is the initial one plus the changes of
\* exactly the completed matches already applied.
THEOREM RatingsAreLedger == Spec => []RatingIsLedger
<1>1. Ledger => RatingIsLedger
  BY DEF Ledger, Entry, Applied, RatingIsLedger
<1> QED
  BY <1>1, LedgerAlways, PTL

-----------------------------------------------------------------------------
(* The queue's ratings *)

Upserting == {"upsert1", "upsert2", "upsert"}

\* The agent that a call is about to put in the queue.
Enqueued(c) == IF c.pc = "upsert2" THEN c.agent2 ELSE c.agent1

\* A call about to put a rating in the queue has just read it, or has it still.
LEMMA SeenStep ==
  ASSUME Inv, [Next]_vars, NEW v \in Worker, call'[v].pc \in Upserting
  PROVE  /\ Enqueued(call'[v]) \in Agent
         /\ \/ call'[v] = call[v]
            \/ call'[v].seen = agents[Enqueued(call'[v])].elo
<1>0. call \in [Worker -> Calls] /\ \A w \in Worker : call[w] \in Calls
  BY DEF Inv, TypeOK
<1>1. CASE call'[v] = call[v]
  BY <1>1 DEF Inv, CallShape, At, Upserting, Enqueued
<1>2. SUFFICES ASSUME call'[v] # call[v], Next
               PROVE  /\ Enqueued(call'[v]) \in Agent
                      /\ call'[v].seen = agents[Enqueued(call'[v])].elo
  BY <1>1 DEF vars
<1>3. Idle.pc \notin Upserting
  BY DEF Idle, Upserting
<1>4. ASSUME NEW w \in Worker, NEW c, call' = [call EXCEPT ![w] = c]
      PROVE  w = v /\ call'[v] = c
  BY <1>0, <1>2, <1>4
<1>5. ASSUME NEW w \in Worker, NEW pc, NEW x, pc \notin Upserting,
             \/ call' = [call EXCEPT ![w] = [call[w] EXCEPT !.pc = pc]]
             \/ call' = [call EXCEPT ![w] = [call[w] EXCEPT !.pc = pc, !.seen = x]]
             \/ call' = [call EXCEPT ![w] = [call[w] EXCEPT !.pc = pc, !.copy1 = x]]
             \/ call' = [call EXCEPT ![w] = [call[w] EXCEPT !.pc = pc, !.copy2 = x]]
             \/ call' = [call EXCEPT ![w] = [call[w] EXCEPT !.pc = pc, !.match = x]]
             \/ call' = [call EXCEPT ![w] = [call[w] EXCEPT !.pc = pc, !.winner = x]]
      PROVE  FALSE
  <2>1. /\ [call[w] EXCEPT !.pc = pc].pc = pc
        /\ [call[w] EXCEPT !.pc = pc, !.seen = x].pc = pc
        /\ [call[w] EXCEPT !.pc = pc, !.copy1 = x].pc = pc
        /\ [call[w] EXCEPT !.pc = pc, !.copy2 = x].pc = pc
        /\ [call[w] EXCEPT !.pc = pc, !.match = x].pc = pc
        /\ [call[w] EXCEPT !.pc = pc, !.winner = x].pc = pc
    BY <1>0 DEF Calls
  <2>2. \E c : call' = [call EXCEPT ![w] = c] /\ c.pc = pc
    BY <1>5, <2>1
  <2> QED
    BY <1>4, <1>5, <2>2
<1>6. ASSUME NEW w \in Worker, NEW c, c.pc \notin Upserting, call' = [call EXCEPT ![w] = c]
      PROVE  FALSE
  BY <1>4, <1>6
<1>7. ASSUME NEW w \in Worker, NEW pc \in Upserting, NEW from, NEW a,
             ReadRating(w, from, a, pc)
      PROVE  /\ call'[v].pc = pc /\ call'[v].seen = agents[a].elo /\ w = v
             /\ call'[v].agent1 = call[v].agent1 /\ call'[v].agent2 = call[v].agent2
             /\ call[v].pc = from
  <2>1. /\ call' = [call EXCEPT ![w] = [call[w] EXCEPT !.pc = pc, !.seen = agents[a].elo]]
        /\ call[w].pc = from
    BY <1>0, <1>7 DEF ReadRating, At
  <2>2. w = v /\ call'[v] = [call[v] EXCEPT !.pc = pc, !.seen = agents[a].elo]
    BY <1>4, <2>1
  <2> QED
    BY <1>0, <2>1, <2>2 DEF Calls
<1>8. ASSUME NEW w \in Worker, Run(w)
      PROVE  /\ Enqueued(call'[v]) \in Agent
             /\ call'[v].seen = agents[Enqueued(call'[v])].elo
  <2>1. CASE FindAgent1(w) \/ FindAgent2(w)
    <3>1. \/ call' = [call EXCEPT ![w] = [call[w] EXCEPT !.pc = "find2", !.copy1 = Copy(call[w].agent1)]]
          \/ call' = [call EXCEPT ![w] = [call[w] EXCEPT !.pc = "create", !.copy2 = Copy(call[w].agent2)]]
      BY <1>0, <2>1 DEF FindAgent1, FindAgent2
    <3>2. "find2" \notin Upserting /\ "create" \notin Upserting
      BY DEF Upserting
    <3> QED
      BY <1>5, <3>1, <3>2
  <2>2. CASE Reject(w) \/ ExecutorFails(w) \/ Upsert2(w) \/ UpsertBuilt(w)
    <3>1. call' = [call EXCEPT ![w] = Idle]
      BY <2>2 DEF Reject, ExecutorFails, Upsert2, UpsertBuilt, Return
    <3> QED
      BY <1>3, <1>6, <3>1
  <2>3. CASE CreateMatch(w)
    <3>1. PICK m : call' = [call EXCEPT ![w] = [call[w] EXCEPT !.pc = "execute", !.match = m]]
      BY <1>0, <2>3 DEF CreateMatch
    <3>2. "execute" \notin Upserting
      BY DEF Upserting
    <3> QED
      BY <1>5, <3>1, <3>2
  <2>4. CASE ExecutorSucceeds(w)
    <3>1. PICK x : call' = [call EXCEPT ![w] = [call[w] EXCEPT !.pc = "save", !.winner = x]]
      BY <1>0, <2>4 DEF ExecutorSucceeds
    <3>2. "save" \notin Upserting
      BY DEF Upserting
    <3> QED
      BY <1>5, <3>1, <3>2
  <2>5. CASE SaveResult(w) \/ UpdateAgent1(w) \/ Counts(w)
    <3>0. {"stats1", "stats2", "count2", "new1", "new2", "enqueue1"} \cap Upserting = {}
      BY DEF Upserting
    <3>a. ASSUME SaveResult(w) \/ UpdateAgent1(w)
          PROVE  \E pc : Goto(w, pc) /\ pc \notin Upserting
      <4>1. Goto(w, "stats1") \/ Goto(w, "stats2")
        BY <3>a DEF SaveResult, UpdateAgent1
      <4> QED
        BY <3>0, <4>1
    <3>b. ASSUME CountAgent1(w) \/ InsertAgent1(w)
          PROVE  \E pc : Goto(w, pc) /\ pc \notin Upserting
      <4>1. Goto(w, "count2") \/ Goto(w, "new1")
        BY <3>b DEF CountAgent1, InsertAgent1, UpdateCount, InsertCount
      <4> QED
        BY <3>0, <4>1
    <3>c. ASSUME CountAgent2(w) \/ InsertAgent2(w)
          PROVE  \E pc : Goto(w, pc) /\ pc \notin Upserting
      <4>1. Goto(w, "enqueue1") \/ Goto(w, "new2")
        BY <3>c DEF CountAgent2, InsertAgent2, UpdateCount, InsertCount
      <4> QED
        BY <3>0, <4>1
    <3>1. PICK pc : Goto(w, pc) /\ pc \notin Upserting
      BY <2>5, <3>a, <3>b, <3>c DEF Counts
    <3>2. call' = [call EXCEPT ![w] = [call[w] EXCEPT !.pc = pc]]
      BY <1>0, <3>1 DEF Goto
    <3> QED
      BY <1>5, <3>1, <3>2
  <2>6. CASE UpdateAgent2(w)
    <3>1. call' = [call EXCEPT ![w] = AfterStats(call[w])]
      BY <2>6 DEF UpdateAgent2
    <3>2. AfterStats(call[w]).pc \notin Upserting
      BY DEF AfterStats, Idle, Upserting
    <3> QED
      BY <1>6, <3>1, <3>2
  <2>7. CASE Upsert1(w)
    <3>1. call' = [call EXCEPT ![w] = [call[w] EXCEPT !.pc = "enqueue2", !.seen = 0]]
      BY <1>0, <2>7 DEF Upsert1
    <3>2. "enqueue2" \notin Upserting
      BY DEF Upserting
    <3> QED
      BY <1>5, <3>1, <3>2
  <2>8. CASE ReadRating1(w)
    <3>1. /\ call'[v].pc = "upsert1" /\ call'[v].seen = agents[call[w].agent1].elo /\ w = v
          /\ call'[v].agent1 = call[v].agent1 /\ call[v].pc = "enqueue1"
      BY <1>7, <2>8 DEF ReadRating1, Upserting
    <3>2. call[v].agent1 \in Agent
      BY <3>1 DEF Inv, CallShape, At
    <3> QED
      BY <3>1, <3>2 DEF Enqueued
  <2>9. CASE ReadRating2(w)
    <3>1. /\ call'[v].pc = "upsert2" /\ call'[v].seen = agents[call[w].agent2].elo /\ w = v
          /\ call'[v].agent2 = call[v].agent2 /\ call[v].pc = "enqueue2"
      BY <1>7, <2>9 DEF ReadRating2, Upserting
    <3>2. call[v].agent2 \in Agent
      BY <3>1 DEF Inv, CallShape
    <3> QED
      BY <3>1, <3>2 DEF Enqueued
  <2>10. CASE ReadRatingBuilt(w)
    <3>1. /\ call'[v].pc = "upsert" /\ call'[v].seen = agents[call[w].agent1].elo /\ w = v
          /\ call'[v].agent1 = call[v].agent1 /\ call[v].pc = "enqueue"
      BY <1>7, <2>10 DEF ReadRatingBuilt, Upserting
    <3>2. call[v].agent1 \in Agent
      BY <3>1 DEF Inv, CallShape, At
    <3> QED
      BY <3>1, <3>2 DEF Enqueued
  <2> QED
    BY <1>8, <2>1, <2>2, <2>3, <2>4, <2>5, <2>6, <2>7, <2>8, <2>9, <2>10
       DEF Run, ProcessResult, Counts
<1>9. ASSUME NEW w \in Worker, NEW a \in Agent,
             (\E b \in Agent : Begin(w, a, b)) \/ BuildSucceeds(w, a)
      PROVE  FALSE
  <2>1. "find1" \notin Upserting /\ "enqueue" \notin Upserting
    BY DEF Upserting
  <2>2. ASSUME NEW b, Begin(w, a, b) PROVE FALSE
    <3>1. PICK c : c = [Idle EXCEPT !.pc = "find1", !.agent1 = a, !.agent2 = b]
      OBVIOUS
    <3>2. c.pc = "find1"
      BY <3>1 DEF Idle
    <3>3. call' = [call EXCEPT ![w] = c]
      BY <2>2, <3>1 DEF Begin
    <3> QED
      BY <1>6, <2>1, <3>2, <3>3
  <2>3. ASSUME BuildSucceeds(w, a) PROVE FALSE
    <3>1. PICK c : c = [Idle EXCEPT !.pc = "enqueue", !.agent1 = a]
      OBVIOUS
    <3>2. c.pc = "enqueue"
      BY <3>1 DEF Idle
    <3>3. call' = [call EXCEPT ![w] = c]
      BY <2>3, <3>1 DEF BuildSucceeds
    <3> QED
      BY <1>6, <2>1, <3>2, <3>3
  <2> QED
    BY <1>9, <2>2, <2>3
<1>10. ASSUME NEW w \in Worker, StatementFails(w) PROVE FALSE
  <2>1. call' = [call EXCEPT ![w] =
                   IF call[w].pc \in Dropped \cup Logged THEN AfterError(call[w]) ELSE Idle]
    BY <1>0, <1>10 DEF StatementFails
  <2>2. CASE call[w].pc \notin Dropped \cup Logged
    BY <1>3, <1>6, <2>1, <2>2
  <2>3. CASE call[w].pc \in Dropped \cup Logged
    <3>1. call' = [call EXCEPT ![w] = AfterError(call[w])]
      BY <2>1, <2>3
    <3>2. AfterError(call[w]).pc \notin Upserting
      <4>1. CASE call[w].pc = "stats1"
        BY <1>0, <4>1 DEF AfterError, Upserting, Calls
      <4>2. CASE call[w].pc = "stats2"
        BY <4>2 DEF AfterError, AfterStats, Idle, Upserting
      <4>3. CASE call[w].pc \in {"count1", "new1"}
        <5>1. AfterError(call[w]) = [call[w] EXCEPT !.pc = "count2"]
          BY <4>3 DEF AfterError
        <5> QED
          BY <1>0, <5>1 DEF Upserting, Calls
      <4>4. CASE call[w].pc \in {"count2", "new2"}
        <5>1. AfterError(call[w]) = [call[w] EXCEPT !.pc = "enqueue1"]
          BY <4>4 DEF AfterError
        <5> QED
          BY <1>0, <5>1 DEF Upserting, Calls
      <4>5. CASE call[w].pc \in {"enqueue1", "upsert1"}
        <5>1. AfterError(call[w]) = [call[w] EXCEPT !.pc = "enqueue2", !.seen = 0]
          BY <4>5 DEF AfterError
        <5> QED
          BY <1>0, <5>1 DEF Upserting, Calls
      <4> QED
        BY <2>3, <4>1, <4>2, <4>3, <4>4, <4>5 DEF Dropped, Logged
    <3> QED
      BY <1>6, <3>1, <3>2
  <2> QED
    BY <2>2, <2>3
<1>11. ASSUME NEW S \in SUBSET Worker, ReplicaCrash(S) PROVE FALSE
  BY <1>2, <1>3, <1>11 DEF ReplicaCrash
<1> QED
  BY <1>2, <1>8, <1>9, <1>10, <1>11 DEF Next

\* A rating enters the queue only from the call that read it for that agent.
LEMMA QueueStep ==
  ASSUME Inv, [Next]_vars, NEW a \in Agent, queue'[a] # queue[a]
  PROVE  \E w \in Worker : /\ call[w].pc \in Upserting
                           /\ Enqueued(call[w]) = a
                           /\ queue'[a] = call[w].seen
<1>1. queue \in [Agent -> Nat \cup {NotQueued}]
  BY DEF Inv, TypeOK
<1>2. \E w \in Worker : Upsert1(w) \/ Upsert2(w) \/ UpsertBuilt(w)
  <2> SUFFICES ASSUME ~\E w \in Worker : Upsert1(w) \/ Upsert2(w) \/ UpsertBuilt(w)
               PROVE  queue' = queue
    OBVIOUS
  <2>1. ASSUME NEW w \in Worker,
               \/ FindAgent1(w) \/ FindAgent2(w) \/ Reject(w) \/ CreateMatch(w)
               \/ ExecutorSucceeds(w) \/ ExecutorFails(w)
        PROVE  queue' = queue
    BY <2>1 DEF FindAgent1, FindAgent2, Reject, CreateMatch, ExecutorSucceeds, ExecutorFails
  <2>2. ASSUME NEW w \in Worker, SaveResult(w) \/ UpdateAgent1(w) \/ UpdateAgent2(w)
        PROVE  queue' = queue
    BY <2>2 DEF SaveResult, UpdateAgent1, UpdateAgent2
  <2>3. ASSUME NEW w \in Worker, Counts(w)
        PROVE  queue' = queue
    BY <2>3 DEF Counts, CountAgent1, InsertAgent1, CountAgent2, InsertAgent2, UpdateCount,
                InsertCount
  <2>4. ASSUME NEW w \in Worker, ReadRating1(w) \/ ReadRating2(w) \/ ReadRatingBuilt(w)
        PROVE  queue' = queue
    BY <2>4 DEF ReadRating1, ReadRating2, ReadRatingBuilt, ReadRating
  <2>5. ASSUME NEW w \in Worker, Run(w) PROVE queue' = queue
    BY <2>1, <2>2, <2>3, <2>4, <2>5 DEF Run, ProcessResult, Counts
  <2>6. CASE \/ \E w \in Worker, b, c \in Agent : Begin(w, b, c)
             \/ \E w \in Worker, b \in Agent : BuildSucceeds(w, b)
             \/ UNCHANGED vars
    BY <2>6 DEF Begin, BuildSucceeds, vars
  <2>7. CASE \/ \E w \in Worker : StatementFails(w)
             \/ \E S \in SUBSET Worker : ReplicaCrash(S)
    BY <2>7 DEF StatementFails, ReplicaCrash
  <2> QED
    BY <2>5, <2>6, <2>7 DEF Next
<1>3. PICK w \in Worker : Upsert1(w) \/ Upsert2(w) \/ UpsertBuilt(w)
  BY <1>2
<1>4. /\ call[w].pc \in Upserting
      /\ queue' = [queue EXCEPT ![Enqueued(call[w])] = call[w].seen]
  BY <1>3 DEF Upsert1, Upsert2, UpsertBuilt, Upsert, At, Upserting, Enqueued
<1> QED
  BY <1>1, <1>4

\* What the queue holds, and what a call is about to put there, was real.
Seen ==
  NoFloor =>
    /\ \A w \in Worker : call[w].pc \in Upserting => Real(Enqueued(call[w]), call[w].seen)
    /\ \A a \in Agent : queue[a] # NotQueued => Real(a, queue[a])

\* EnqueueAgent may queue a rating that is out of date, but always one that the
\* agent had or will have had: the initial one and some of its matches, for any
\* interleaving of the calls and whichever of their statements fail.
THEOREM QueueRatingsWereReal == Spec => []QueueRatingWasReal
<1>1. Init => Seen
  BY DEF Init, Seen, Idle, Upserting, NotQueued
<1>2. Inv /\ History /\ History' /\ Ledger /\ Seen /\ [Next]_vars => Seen'
  <2> SUFFICES ASSUME Inv, History, History', Ledger, Seen, [Next]_vars, NoFloor'
               PROVE  /\ \A w \in Worker : call'[w].pc \in Upserting =>
                           Real(Enqueued(call[w]), call[w].seen)'
                      /\ \A a \in Agent : queue'[a] # NotQueued => Real(a, queue[a])'
    BY DEF Seen
  <2>1. NoFloor
    BY FloorStays
  <2>2. ASSUME NEW a \in Agent, NEW r, Real(a, r) \/ r = agents[a].elo
        PROVE  Real(a, r)'
    <3>1. Real(a, r)
      BY <2>1, <2>2 DEF Ledger, Entry, Real, Applied
    <3> QED
      BY <3>1, RealStays
  <2>3. ASSUME NEW w \in Worker, call'[w].pc \in Upserting
        PROVE  Real(Enqueued(call[w]), call[w].seen)'
    <3>1. PICK a : a = Enqueued(call'[w])
      OBVIOUS
    <3>2. PICK r : r = call'[w].seen
      OBVIOUS
    <3>3. a \in Agent /\ (call'[w] = call[w] \/ r = agents[a].elo)
      BY <2>3, <3>1, <3>2, SeenStep
    <3>4. Real(a, r) \/ r = agents[a].elo
      BY <2>1, <2>3, <3>1, <3>2, <3>3 DEF Seen
    <3>5. Real(a, r)'
      BY <2>2, <3>3, <3>4
    <3> QED
      BY <3>1, <3>2, <3>5 DEF Real
  <2>4. ASSUME NEW a \in Agent, queue'[a] # NotQueued PROVE Real(a, queue[a])'
    <3>1. PICK r : r = queue'[a]
      OBVIOUS
    <3>2. Real(a, r)
      <4>1. CASE queue'[a] = queue[a]
        BY <2>1, <2>4, <3>1, <4>1 DEF Seen
      <4>2. CASE queue'[a] # queue[a]
        BY <2>1, <3>1, <4>2, QueueStep DEF Seen
      <4> QED
        BY <4>1, <4>2
    <3>3. Real(a, r)'
      BY <2>2, <3>2
    <3> QED
      BY <3>1, <3>3 DEF Real
  <2> QED
    BY <2>3, <2>4
<1>3. Seen => QueueRatingWasReal
  BY DEF Seen, Real, QueueRatingWasReal
<1> QED
  BY <1>1, <1>2, <1>3, Invariance, HistoryAlways, LedgerAlways, PTL DEF Spec
=============================================================================
