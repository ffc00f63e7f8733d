-------------------------- MODULE Matchmaking_proofs --------------------------
(***************************************************************************)
(* The rounds of Matchmaking for any agents, instances, handlers and       *)
(* limits.  RoundsInv is inductive: the properties LockedOutOnlyByMatch    *)
(* and MatchedOncePerRound, the shape of a player's record, and that a     *)
(* match has two different players, without which its end would give one   *)
(* of them back twice.  The types rest on lists from which rows are taken.  *)
(***************************************************************************)
EXTENDS Matchmaking, FiniteSums

Fields == {"pc", "agent", "opponent", "range", "todo", "processed"}

\* A player's record has its fields, whatever is in them.
Shape ==
  /\ DOMAIN play = Player
  /\ \A p \in Player : play[p] = [f \in Fields |-> play[p][f]]

\* A call that has an opponent has two different players.
TwoPlayers ==
  \A p \in Player : ~At(p, "idle") /\ ~At(p, "search") => play[p].agent # play[p].opponent

Counted ==
  /\ open \in [Agent -> Int]
  /\ faults \in Nat

-----------------------------------------------------------------------------
(* What the steps do to the record of a player *)

\* Only the record of p changes, and keeps its shape.
Moves(p) ==
  /\ play' = [play EXCEPT ![p] = play'[p]]
  /\ play'[p] = [f \in Fields |-> play'[p][f]]

Apart(p) == ({play[p].agent, play[p].opponent} \ {NoOne}) \cap play[p].processed = {}

LEMMA Idles ==
  ASSUME Shape, NEW p \in Player, play' = [play EXCEPT ![p] = Idle]
  PROVE  Moves(p) /\ play'[p].pc = "idle" /\ Apart(p)'
<1>1. play'[p] = Idle
  BY DEF Shape
<1>2. Idle = [f \in Fields |-> Idle[f]]
  BY DEF Idle, Fields
<1>3. Moves(p)
  BY <1>1, <1>2 DEF Moves
<1>4. play'[p].pc = "idle" /\ play'[p].processed = {}
  BY <1>1 DEF Idle
<1> QED
  BY <1>3, <1>4 DEF Apart

LEMMA Continues ==
  ASSUME Shape, NEW p \in Player, NEW todo, NEW processed, Continue(p, todo, processed)
  PROVE  Moves(p) /\ play'[p].pc \in {"idle", "search"} /\ Apart(p)'
<1>1. CASE play' = [play EXCEPT ![p] = Idle]
  BY <1>1, Idles
<1>2. ASSUME NEW n, todo[n] \notin processed, NEW rest,
             play' = [play EXCEPT ![p] =
               [Idle EXCEPT !.pc = "search", !.agent = todo[n], !.range = EloRange,
                            !.todo = rest, !.processed = processed]]
      PROVE  Moves(p) /\ play'[p].pc = "search" /\ Apart(p)'
  <2> DEFINE c == [Idle EXCEPT !.pc = "search", !.agent = todo[n], !.range = EloRange,
                               !.todo = rest, !.processed = processed]
  <2>1. play'[p] = c
    BY <1>2 DEF Shape
  <2>2. /\ c = [f \in Fields |-> c[f]]
        /\ c.pc = "search" /\ c.agent = todo[n] /\ c.opponent = NoOne /\ c.processed = processed
    BY DEF Idle, Fields
  <2> HIDE DEF c
  <2>3. Moves(p)
    BY <1>2, <2>1, <2>2 DEF Moves, c
  <2>4. Apart(p)'
    BY <1>2, <2>1, <2>2 DEF Apart
  <2> QED
    BY <2>1, <2>2, <2>3, <2>4
<1> QED
  BY <1>1, <1>2 DEF Continue

\* A player whose pc alone changes.
LEMMA Goes ==
  ASSUME Shape, NEW p \in Player, NEW pc, Goto(p, pc)
  PROVE  /\ Moves(p) /\ play'[p].pc = pc
         /\ play'[p].agent = play[p].agent /\ play'[p].opponent = play[p].opponent
         /\ play'[p].processed = play[p].processed
<1>1. play'[p] = [play[p] EXCEPT !.pc = pc]
  BY DEF Goto, Shape
<1>2. play[p] = [f \in Fields |-> play[p][f]]
  BY DEF Shape
<1>3. play' = [play EXCEPT ![p] = play'[p]]
  BY <1>1 DEF Goto, Shape
<1> QED
  BY <1>1, <1>2, <1>3 DEF Moves, Fields

LEMMA Widens ==
  ASSUME Shape, NEW p \in Player, At(p, "search"), Widen(p)
  PROVE  Moves(p) /\ play'[p].pc \in {"idle", "search"} /\ (Apart(p) => Apart(p)')
<1>1. CASE Skip(p)
  BY <1>1, Continues DEF Skip
<1>2. CASE play' = [play EXCEPT ![p].range = @ + RangeStep]
  <2>1. play'[p] = [play[p] EXCEPT !.range = play[p].range + RangeStep]
    BY <1>2 DEF Shape
  <2>2. play[p] = [f \in Fields |-> play[p][f]]
    BY DEF Shape
  <2>3. play' = [play EXCEPT ![p] = play'[p]]
    BY <1>2, <2>1 DEF Shape
  <2> QED
    BY <2>1, <2>2, <2>3 DEF Moves, Fields, Apart, At
<1> QED
  BY <1>1, <1>2 DEF Widen

\* A player that has found its opponent.
LEMMA Meets ==
  ASSUME Shape, NEW p \in Player, NEW b, Meet(p, b)
  PROVE  /\ Moves(p) /\ play'[p].pc = "create"
         /\ play'[p].agent = play[p].agent /\ play'[p].opponent = b
         /\ play'[p].processed = play[p].processed
<1>1. play'[p] = [play[p] EXCEPT !.pc = "create", !.opponent = b]
  BY DEF Meet, Shape
<1>2. play[p] = [f \in Fields |-> play[p][f]]
  BY DEF Shape
<1>3. play' = [play EXCEPT ![p] = play'[p]]
  BY <1>1 DEF Meet, Shape
<1> QED
  BY <1>1, <1>2, <1>3 DEF Moves, Fields

LEMMA Matches ==
  ASSUME Shape, NEW p \in Player, Matched(p)
  PROVE  Moves(p) /\ play'[p].pc \in {"idle", "search"} /\ Apart(p)'
BY Idles, Continues DEF Matched
-----------------------------------------------------------------------------
(* What becomes of the others, and of the matches in execution *)

LEMMA Others ==
  ASSUME Shape, NEW p \in Player, Moves(p), NEW q \in Player, q # p
  PROVE  play'[q] = play[q]
BY DEF Moves, Shape

LEMMA ShapeStays ==
  ASSUME Shape, NEW p \in Player, Moves(p)
  PROVE  Shape'
<1>1. DOMAIN play' = Player
  BY DEF Moves, Shape
<1>2. ASSUME NEW q \in Player PROVE play'[q] = [f \in Fields |-> play'[q][f]]
  <2>1. CASE q = p
    BY <2>1 DEF Moves
  <2>2. CASE q # p
    BY <2>2, Others DEF Shape
  <2> QED
    BY <2>1, <2>2
<1> QED
  BY <1>1, <1>2 DEF Shape

LEMMA ApartStays ==
  ASSUME Shape, NEW p \in Player, Moves(p), Apart(p)', \A q \in Player : Apart(q)
  PROVE  \A q \in Player : Apart(q)'
<1> SUFFICES ASSUME NEW q \in Player, q # p PROVE Apart(q)'
  OBVIOUS
<1> QED
  BY Others DEF Apart

LEMMA TwoPlayersStays ==
  ASSUME Shape, TwoPlayers, NEW p \in Player, Moves(p),
         play'[p].pc \in {"idle", "search"} \/ play'[p].agent # play'[p].opponent
  PROVE  TwoPlayers'
<1> SUFFICES ASSUME NEW q \in Player, play'[q].pc # "idle", play'[q].pc # "search"
             PROVE  play'[q].agent # play'[q].opponent
  BY DEF TwoPlayers, At
<1>1. CASE q = p
  BY <1>1
<1>2. CASE q # p
  BY <1>2, Others DEF TwoPlayers, At
<1> QED
  BY <1>1, <1>2

Executes(p, a) == At(p, "execute") /\ (play[p].agent = a \/ play[p].opponent = a)

LEMMA InProgressIs ==
  ASSUME NEW a \in Agent
  PROVE  InProgress(a) = {p \in Player : Executes(p, a)}
BY MatchmakingAssumption DEF InProgress, Pair, Executes

LEMMA FiniteProgress ==
  ASSUME NEW a \in Agent
  PROVE  IsFiniteSet(InProgress(a)) /\ Cardinality(InProgress(a)) \in Nat
<1>1. IsFiniteSet(Player)
  BY MatchmakingAssumption, FS_Union DEF Player
<1> QED
  BY <1>1, FS_Subset, FS_CardinalityType DEF InProgress

LEMMA Unconcerned ==
  ASSUME Shape, NEW p \in Player, Moves(p), NEW a \in Agent,
         Executes(p, a)' <=> Executes(p, a)
  PROVE  InProgress(a)' = InProgress(a)
<1>1. \A q \in Player : Executes(q, a)' <=> Executes(q, a)
  <2> SUFFICES ASSUME NEW q \in Player, q # p PROVE Executes(q, a)' <=> Executes(q, a)
    OBVIOUS
  <2> QED
    BY Others DEF Executes, At
<1> QED
  BY <1>1, InProgressIs DEF InProgress, Pair, Executes, At, Player

LEMMA Enters ==
  ASSUME Shape, NEW p \in Player, Moves(p), NEW a \in Agent,
         ~Executes(p, a), Executes(p, a)'
  PROVE  Cardinality(InProgress(a)') = Cardinality(InProgress(a)) + 1
<1>1. InProgress(a)' = InProgress(a) \cup {p} /\ p \notin InProgress(a)
  <2>1. \A q \in Player : q # p => (Executes(q, a)' <=> Executes(q, a))
    BY Others DEF Executes, At
  <2> QED
    BY <2>1, InProgressIs, MatchmakingAssumption DEF InProgress, Pair, Executes, At, Player
<1> QED
  BY <1>1, FiniteProgress, FS_AddElement

LEMMA Exits ==
  ASSUME Shape, NEW p \in Player, Moves(p), NEW a \in Agent,
         Executes(p, a), ~Executes(p, a)'
  PROVE  Cardinality(InProgress(a)') = Cardinality(InProgress(a)) - 1
<1>1. InProgress(a)' = InProgress(a) \ {p} /\ p \in InProgress(a)
  <2>1. \A q \in Player : q # p => (Executes(q, a)' <=> Executes(q, a))
    BY Others DEF Executes, At
  <2> QED
    BY <2>1, InProgressIs, MatchmakingAssumption DEF InProgress, Pair, Executes, At, Player
<1> QED
  BY <1>1, FiniteProgress, FS_RemoveElement
-----------------------------------------------------------------------------
(* The inductive invariant, and how the steps keep it *)

RoundsInv ==
  /\ Shape /\ TwoPlayers /\ Counted
  /\ LockedOutOnlyByMatch
  /\ \A p \in Player : Apart(p)

\* A step of a player who is executing no match before or after it.
LEMMA QuietStep ==
  ASSUME RoundsInv, NEW p \in Player, Moves(p), Apart(p)',
         ~At(p, "execute"), play'[p].pc # "execute",
         play'[p].pc \in {"idle", "search"} \/ play'[p].agent # play'[p].opponent,
         open' = open, faults' \in Nat, faults' >= faults
  PROVE  RoundsInv'
<1>1. Shape' /\ TwoPlayers' /\ \A q \in Player : Apart(q)'
  BY ShapeStays, TwoPlayersStays, ApartStays DEF RoundsInv
<1>2. Counted'
  BY DEF RoundsInv, Counted
<1>3. ASSUME NEW a \in Agent PROVE InProgress(a)' = InProgress(a)
  <2>1. ~Executes(p, a) /\ ~Executes(p, a)'
    BY DEF Executes, At
  <2> QED
    BY <2>1, Unconcerned DEF RoundsInv
<1>4. LockedOutOnlyByMatch'
  <2> SUFFICES ASSUME NEW a \in Agent
               PROVE  /\ open[a] >= Cardinality(InProgress(a))
                      /\ open[a] <= Cardinality(InProgress(a)) + faults'
    BY <1>3 DEF LockedOutOnlyByMatch
  <2>1. /\ open[a] >= Cardinality(InProgress(a))
        /\ open[a] <= Cardinality(InProgress(a)) + faults
        /\ open[a] \in Int /\ faults \in Nat
    BY DEF RoundsInv, LockedOutOnlyByMatch, Counted
  <2> QED
    BY <2>1, FiniteProgress
<1> QED
  BY <1>1, <1>2, <1>4 DEF RoundsInv

\* A match that is given up: its row stays open, and a fault is to blame.
LEMMA GivenUp ==
  ASSUME RoundsInv, NEW p \in Player, Moves(p), Apart(p)', At(p, "execute"),
         play'[p].pc \in {"idle", "search"}, open' = open, faults' = faults + 1
  PROVE  RoundsInv'
<1>1. Shape' /\ TwoPlayers' /\ \A q \in Player : Apart(q)'
  BY ShapeStays, TwoPlayersStays, ApartStays DEF RoundsInv
<1>2. Counted'
  BY DEF RoundsInv, Counted
<1>3. ASSUME NEW a \in Agent
      PROVE  /\ open'[a] >= Cardinality(InProgress(a)')
             /\ open'[a] <= Cardinality(InProgress(a)') + faults'
  <2>1. /\ open[a] >= Cardinality(InProgress(a))
        /\ open[a] <= Cardinality(InProgress(a)) + faults
        /\ open[a] \in Int /\ faults \in Nat
    BY DEF RoundsInv, LockedOutOnlyByMatch, Counted
  <2>2. ~Executes(p, a)'
    BY DEF Executes, At
  <2>3. CASE Executes(p, a)
    BY <2>1, <2>2, <2>3, Exits, FiniteProgress DEF RoundsInv
  <2>4. CASE ~Executes(p, a)
    BY <2>1, <2>2, <2>4, Unconcerned, FiniteProgress DEF RoundsInv
  <2> QED
    BY <2>3, <2>4
<1> QED
  BY <1>1, <1>2, <1>3 DEF RoundsInv, LockedOutOnlyByMatch

LEMMA InsertMatchKeeps ==
  ASSUME RoundsInv, NEW p \in Player, InsertMatch(p)
  PROVE  RoundsInv'
<1>1. /\ Moves(p) /\ play'[p].pc = "execute"
      /\ play'[p].agent = play[p].agent /\ play'[p].opponent = play[p].opponent
      /\ play'[p].processed = play[p].processed
  BY Goes DEF InsertMatch, RoundsInv
<1>2. /\ At(p, "create") /\ faults' = faults
      /\ open' = [open EXCEPT ![play[p].agent] = @ + 1, ![play[p].opponent] = @ + 1]
  BY DEF InsertMatch
<1>3. play[p].agent # play[p].opponent
  BY <1>2 DEF RoundsInv, TwoPlayers, At
<1>4. Shape' /\ TwoPlayers' /\ \A q \in Player : Apart(q)'
  <2>1. Apart(p)'
    BY <1>1 DEF RoundsInv, Apart
  <2> QED
    BY <1>1, <1>3, <2>1, ShapeStays, TwoPlayersStays, ApartStays DEF RoundsInv
<1>5. Counted'
  <2>1. open \in [Agent -> Int] /\ faults \in Nat
    BY DEF RoundsInv, Counted
  <2>2. DOMAIN open' = Agent /\ open' = [a \in Agent |-> open'[a]]
    BY <1>2, <2>1
  <2>3. ASSUME NEW a \in Agent PROVE open'[a] \in Int
    <3>1. CASE a = play[p].agent
      BY <1>2, <1>3, <2>1, <3>1
    <3>2. CASE a = play[p].opponent
      BY <1>2, <1>3, <2>1, <3>2
    <3>3. CASE a # play[p].agent /\ a # play[p].opponent
      BY <1>2, <2>1, <3>3
    <3> QED
      BY <3>1, <3>2, <3>3
  <2>4. open' \in [Agent -> Int]
    BY <2>2, <2>3
  <2> QED
    BY <1>2, <2>1, <2>4 DEF Counted
<1>6. ASSUME NEW a \in Agent
      PROVE  /\ open'[a] >= Cardinality(InProgress(a)')
             /\ open'[a] <= Cardinality(InProgress(a)') + faults'
  <2>1. /\ open[a] >= Cardinality(InProgress(a))
        /\ open[a] <= Cardinality(InProgress(a)) + faults
        /\ open[a] \in Int /\ faults \in Nat
    BY DEF RoundsInv, LockedOutOnlyByMatch, Counted
  <2>2. ~Executes(p, a)
    BY <1>2 DEF Executes, At
  <2>3. CASE a = play[p].agent \/ a = play[p].opponent
    <3>1. Executes(p, a)'
      BY <1>1, <2>3 DEF Executes, At
    <3>2. open'[a] = open[a] + 1
      BY <1>2, <1>3, <2>1, <2>3 DEF RoundsInv, Counted
    <3> QED
      BY <1>1, <1>2, <2>1, <2>2, <3>1, <3>2, Enters, FiniteProgress DEF RoundsInv
  <2>4. CASE ~(a = play[p].agent \/ a = play[p].opponent)
    <3>1. ~Executes(p, a)'
      BY <1>1, <2>4 DEF Executes, At
    <3>2. open'[a] = open[a]
      BY <1>2, <2>4 DEF RoundsInv, Counted
    <3> QED
      BY <1>1, <1>2, <2>1, <2>2, <3>1, <3>2, Unconcerned, FiniteProgress DEF RoundsInv
  <2> QED
    BY <2>3, <2>4
<1> QED
  BY <1>4, <1>5, <1>6 DEF RoundsInv, LockedOutOnlyByMatch

LEMMA CompleteKeeps ==
  ASSUME RoundsInv, NEW p \in Player, Complete(p)
  PROVE  RoundsInv'
<1>1. /\ Moves(p) /\ play'[p].pc = "count1"
      /\ play'[p].agent = play[p].agent /\ play'[p].opponent = play[p].opponent
      /\ play'[p].processed = play[p].processed
  BY Goes DEF Complete, RoundsInv
<1>2. /\ At(p, "execute") /\ faults' = faults
      /\ open' = [open EXCEPT ![play[p].agent] = @ - 1, ![play[p].opponent] = @ - 1]
  BY DEF Complete
<1>3. play[p].agent # play[p].opponent
  BY <1>2 DEF RoundsInv, TwoPlayers, At
<1>4. Shape' /\ TwoPlayers' /\ \A q \in Player : Apart(q)'
  <2>1. Apart(p)'
    BY <1>1 DEF RoundsInv, Apart
  <2> QED
    BY <1>1, <1>3, <2>1, ShapeStays, TwoPlayersStays, ApartStays DEF RoundsInv
<1>5. Counted'
  <2>1. open \in [Agent -> Int] /\ faults \in Nat
    BY DEF RoundsInv, Counted
  <2>2. DOMAIN open' = Agent /\ open' = [a \in Agent |-> open'[a]]
    BY <1>2, <2>1
  <2>3. ASSUME NEW a \in Agent PROVE open'[a] \in Int
    <3>1. CASE a = play[p].agent
      BY <1>2, <1>3, <2>1, <3>1
    <3>2. CASE a = play[p].opponent
      BY <1>2, <1>3, <2>1, <3>2
    <3>3. CASE a # play[p].agent /\ a # play[p].opponent
      BY <1>2, <2>1, <3>3
    <3> QED
      BY <3>1, <3>2, <3>3
  <2>4. open' \in [Agent -> Int]
    BY <2>2, <2>3
  <2> QED
    BY <1>2, <2>1, <2>4 DEF Counted
<1>6. ASSUME NEW a \in Agent
      PROVE  /\ open'[a] >= Cardinality(InProgress(a)')
             /\ open'[a] <= Cardinality(InProgress(a)') + faults'
  <2>1. /\ open[a] >= Cardinality(InProgress(a))
        /\ open[a] <= Cardinality(InProgress(a)) + faults
        /\ open[a] \in Int /\ faults \in Nat
    BY DEF RoundsInv, LockedOutOnlyByMatch, Counted
  <2>2. ~Executes(p, a)'
    BY <1>1 DEF Executes, At
  <2>3. CASE a = play[p].agent \/ a = play[p].opponent
    <3>1. Executes(p, a)
      BY <1>2, <2>3 DEF Executes
    <3>2. open'[a] = open[a] - 1
      BY <1>2, <1>3, <2>1, <2>3 DEF RoundsInv, Counted
    <3> QED
      BY <1>1, <1>2, <2>1, <2>2, <3>1, <3>2, Exits, FiniteProgress DEF RoundsInv
  <2>4. CASE ~(a = play[p].agent \/ a = play[p].opponent)
    <3>1. ~Executes(p, a)
      BY <2>4 DEF Executes
    <3>2. open'[a] = open[a]
      BY <1>2, <2>4 DEF RoundsInv, Counted
    <3> QED
      BY <1>1, <1>2, <2>1, <2>2, <3>1, <3>2, Unconcerned, FiniteProgress DEF RoundsInv
  <2> QED
    BY <2>3, <2>4
<1> QED
  BY <1>4, <1>5, <1>6 DEF RoundsInv, LockedOutOnlyByMatch
\* Whom the search finds is another agent, not yet matched in the round.
LEMMA SearchKeeps ==
  ASSUME RoundsInv, NEW p \in Player, Search(p)
  PROVE  RoundsInv'
<1>0. Shape /\ Apart(p) /\ faults \in Nat /\ At(p, "search")
      /\ open' = open /\ faults' = faults
  BY DEF RoundsInv, Counted, Search
<1>1. CASE Widen(p)
  BY <1>0, <1>1, Widens, QuietStep DEF At
<1>2. ASSUME NEW b \in Found(p), b \notin play[p].processed, Meet(p, b) PROVE RoundsInv'
  <2>1. /\ Moves(p) /\ play'[p].pc = "create"
        /\ play'[p].agent = play[p].agent /\ play'[p].opponent = b
        /\ play'[p].processed = play[p].processed
    BY <1>0, <1>2, Meets
  <2>2. b # play[p].agent
    BY <1>2 DEF Found, FindOpponent
  <2>3. Apart(p)'
    BY <1>0, <1>2, <2>1 DEF Apart
  <2> QED
    BY <1>0, <2>1, <2>2, <2>3, QuietStep DEF At
<1> QED
  BY <1>1, <1>2 DEF Search

LEMMA CallKeeps ==
  ASSUME RoundsInv, NEW p \in Player,
         \/ Refuse(p) \/ Count1(p) \/ Count2(p) \/ Requeue1(p) \/ Requeue2(p)
  PROVE  RoundsInv'
<1>0. /\ Shape /\ Apart(p) /\ faults \in Nat
      /\ open' = open /\ faults' = faults
  BY DEF RoundsInv, Counted, Refuse, Count1, Count2, Count, Requeue1, Requeue2
<1>1. CASE Refuse(p)
  <2>1. Moves(p) /\ play'[p].pc \in {"idle", "search"} /\ Apart(p)'
    BY <1>0, <1>1, Continues DEF Refuse, Skip
  <2> QED
    BY <1>0, <1>1, <2>1, QuietStep DEF Refuse, At
<1>2. ASSUME NEW pc \in {"count2", "requeue1", "requeue2"}, Goto(p, pc),
             At(p, "count1") \/ At(p, "count2") \/ At(p, "requeue1")
      PROVE  RoundsInv'
  <2>1. /\ Moves(p) /\ play'[p].pc = pc
        /\ play'[p].agent = play[p].agent /\ play'[p].opponent = play[p].opponent
        /\ play'[p].processed = play[p].processed
    BY <1>0, <1>2, Goes
  <2>2. play[p].agent # play[p].opponent /\ ~At(p, "execute")
    BY <1>2 DEF RoundsInv, TwoPlayers, At
  <2>3. Apart(p)'
    BY <1>0, <2>1 DEF Apart
  <2> QED
    BY <1>0, <1>2, <2>1, <2>2, <2>3, QuietStep
<1>3. CASE Requeue2(p)
  <2>1. Moves(p) /\ play'[p].pc \in {"idle", "search"} /\ Apart(p)'
    BY <1>0, <1>3, Matches DEF Requeue2
  <2> QED
    BY <1>0, <1>3, <2>1, QuietStep DEF Requeue2, At
<1>4. CASE Count1(p) \/ Count2(p) \/ Requeue1(p)
  BY <1>2, <1>4 DEF Count1, Count2, Count, Requeue1
<1> QED
  BY <1>1, <1>3, <1>4

\* Steps of nobody: builds, time, expiry.
LEMMA ElsewhereKeeps ==
  ASSUME RoundsInv, UNCHANGED <<open, play, faults>>
  PROVE  RoundsInv'
BY DEF RoundsInv, Shape, TwoPlayers, Counted, LockedOutOnlyByMatch, InProgress, Pair, Apart, At

LEMMA BeginKeeps ==
  ASSUME RoundsInv
  PROVE  /\ \A i \in Instance : StartRound(i) \/ RunMatchmaking(i) => RoundsInv'
         /\ \A h \in Handler, a, b \in Agent : Challenge(h, a, b) => RoundsInv'
<1>1. ASSUME NEW i \in Instance, StartRound(i) \/ RunMatchmaking(i) PROVE RoundsInv'
  <2>0. i \in Player /\ Shape /\ faults \in Nat /\ open' = open /\ faults' = faults
    BY <1>1 DEF Player, RoundsInv, Counted, StartRound, RunMatchmaking
  <2>1. CASE \E rows : MatchEnvironment(i, rows)
    <3>1. PICK waiting : Continue(i, waiting, {}) /\ At(i, "idle")
      BY <2>1 DEF MatchEnvironment
    <3>2. Moves(i) /\ play'[i].pc \in {"idle", "search"} /\ Apart(i)'
      BY <2>0, <3>1, Continues
    <3> QED
      BY <2>0, <3>1, <3>2, QuietStep DEF At
  <2>2. CASE UNCHANGED play
    BY <2>0, <2>2, ElsewhereKeeps
  <2> QED
    BY <1>1, <2>1, <2>2 DEF StartRound, RunMatchmaking
<1>2. ASSUME NEW h \in Handler, NEW a \in Agent, NEW b \in Agent, Challenge(h, a, b)
      PROVE  RoundsInv'
  <2>0. h \in Player /\ Shape /\ faults \in Nat /\ open' = open /\ faults' = faults
    BY <1>2 DEF Player, RoundsInv, Counted, Challenge
  <2> DEFINE c == [Idle EXCEPT !.pc = "create", !.agent = a, !.opponent = b]
  <2>1. play'[h] = c /\ play' = [play EXCEPT ![h] = c]
    BY <1>2, <2>0 DEF Challenge, Shape
  <2>2. /\ c = [f \in Fields |-> c[f]]
        /\ c.pc = "create" /\ c.agent = a /\ c.opponent = b /\ c.processed = {}
    BY DEF Idle, Fields
  <2> HIDE DEF c
  <2>3. Moves(h) /\ Apart(h)'
    <3>1. Moves(h)
      BY <2>1, <2>2 DEF Moves
    <3>2. Apart(h)'
      BY <2>1, <2>2 DEF Apart
    <3> QED
      BY <3>1, <3>2
  <2> QED
    BY <1>2, <2>0, <2>1, <2>2, <2>3, QuietStep DEF Challenge, At
<1> QED
  BY <1>1, <1>2

LEMMA FaultKeeps ==
  ASSUME RoundsInv, NEW p \in Player,
         ExecutorError(p) \/ NotCompleted(p) \/ StatementFails(p) \/ Crash(p)
  PROVE  RoundsInv'
<1>0. /\ Shape /\ Apart(p) /\ faults \in Nat
      /\ open' = open /\ faults' = faults + 1 /\ faults' \in Nat /\ faults' >= faults
  BY DEF RoundsInv, Counted, ExecutorError, NotCompleted, StatementFails, Crash, Fault
<1>1. CASE ExecutorError(p) \/ NotCompleted(p)
  <2>1. Moves(p) /\ play'[p].pc \in {"idle", "search"} /\ Apart(p)'
    BY <1>0, <1>1, Continues, Matches DEF ExecutorError, NotCompleted, Skip
  <2> QED
    BY <1>0, <1>1, <2>1, GivenUp DEF ExecutorError, NotCompleted
<1>2. CASE Crash(p)
  <2>1. Moves(p) /\ play'[p].pc = "idle" /\ Apart(p)'
    BY <1>0, <1>2, Idles DEF Crash
  <2>2. CASE At(p, "execute")
    BY <1>0, <2>1, <2>2, GivenUp
  <2>3. CASE ~At(p, "execute")
    BY <1>0, <2>1, <2>3, QuietStep
  <2> QED
    BY <2>2, <2>3
<1>3. CASE At(p, "search") /\ Widen(p)
  BY <1>0, <1>3, Widens, QuietStep DEF At
<1>6. CASE MatchEnvironment(p, queue)
  BY <1>0, <1>6, Continues, QuietStep DEF MatchEnvironment, At
<1>7. CASE At(p, "create") /\ Skip(p)
  BY <1>0, <1>7, Continues, QuietStep DEF Skip, At
<1>4. CASE At(p, "requeue2") /\ Matched(p)
  BY <1>0, <1>4, Matches, QuietStep DEF At
<1>5. ASSUME NEW pc \in {"count2", "requeue1", "requeue2"}, Goto(p, pc),
             At(p, "count1") \/ At(p, "count2") \/ At(p, "requeue1")
      PROVE  RoundsInv'
  <2>1. /\ Moves(p) /\ play'[p].pc = pc
        /\ play'[p].agent = play[p].agent /\ play'[p].opponent = play[p].opponent
        /\ play'[p].processed = play[p].processed
    BY <1>0, <1>5, Goes
  <2>2. play[p].agent # play[p].opponent /\ ~At(p, "execute")
    BY <1>5 DEF RoundsInv, TwoPlayers, At
  <2>3. Apart(p)'
    BY <1>0, <2>1 DEF Apart
  <2> QED
    BY <1>0, <1>5, <2>1, <2>2, <2>3, QuietStep
<1> QED
  BY <1>1, <1>2, <1>3, <1>4, <1>5, <1>6, <1>7 DEF StatementFails

LEMMA InitRounds == Init => RoundsInv
<1> SUFFICES ASSUME Init PROVE RoundsInv
  OBVIOUS
<1>1. \A p \in Player : play[p] = Idle
  BY DEF Init
<1>2. Shape
  BY DEF Init, Shape, Idle, Fields
<1>3. TwoPlayers /\ \A p \in Player : Apart(p)
  BY <1>1 DEF TwoPlayers, Apart, At, Idle
<1>4. Counted
  BY DEF Init, Counted
<1>5. ASSUME NEW a \in Agent PROVE open[a] = 0 /\ faults = 0 /\ Cardinality(InProgress(a)) = 0
  <2>1. InProgress(a) = {}
    BY <1>1 DEF InProgress, At, Idle
  <2> QED
    BY <2>1, FS_EmptySet DEF Init
<1> QED
  BY <1>2, <1>3, <1>4, <1>5 DEF RoundsInv, LockedOutOnlyByMatch

LEMMA NextRounds == RoundsInv /\ [Next]_vars => RoundsInv'
<1> SUFFICES ASSUME RoundsInv, [Next]_vars PROVE RoundsInv'
  OBVIOUS
<1>1. ASSUME NEW p \in Player, Step(p) PROVE RoundsInv'
  BY <1>1, SearchKeeps, InsertMatchKeeps, CompleteKeeps, CallKeeps DEF Step
<1>2. ASSUME NEW a \in Agent, BuildEnqueues(a) \/ GrowOld(a) PROVE RoundsInv'
  BY <1>2, ElsewhereKeeps DEF BuildEnqueues, GrowOld
<1>3. CASE Tick \/ Midnight \/ CleanupExpired
  BY <1>3, ElsewhereKeeps DEF Tick, Midnight, CleanupExpired
<1>4. CASE UNCHANGED vars
  BY <1>4, ElsewhereKeeps DEF vars
<1> QED
  BY <1>1, <1>2, <1>3, <1>4, BeginKeeps, FaultKeeps DEF Next

\* In the distributed mode a call that is under way, and nobody else, is
\* changed by its steps.
LEMMA OneMoves ==
  ASSUME Distributed, Shape, NEW p \in Player,
         Step(p) \/ ExecutorError(p) \/ NotCompleted(p) \/ StatementFails(p) \/ Crash(p)
  PROVE  Moves(p) /\ ~At(p, "idle")
<1>1. CASE Search(p)
  BY <1>1, Widens, Meets DEF Search, At
<1>2. CASE InsertMatch(p) \/ Complete(p)
  BY <1>2, Goes DEF InsertMatch, Complete, At
<1>3. CASE Count1(p) \/ Count2(p) \/ Requeue1(p)
  BY <1>3, Goes DEF Count1, Count2, Count, Requeue1, At
<1>4. CASE Refuse(p) \/ Requeue2(p)
  BY <1>4, Continues, Matches DEF Refuse, Skip, Requeue2, At
<1>5. CASE ExecutorError(p) \/ NotCompleted(p)
  BY <1>5, Continues, Matches DEF ExecutorError, NotCompleted, Skip, At
<1>6. CASE StatementFails(p)
  BY <1>6, Widens, Continues, Goes, Matches DEF StatementFails, Skip, At
<1>7. CASE Crash(p)
  BY <1>7, Idles DEF Crash
<1> QED
  BY <1>1, <1>2, <1>3, <1>4, <1>5, <1>6, <1>7 DEF Step

\* Nor is anybody else by the beginning of a round or of a challenge.
LEMMA OneBegins ==
  ASSUME Shape
  PROVE  /\ \A i \in Instance : StartRound(i) => Moves(i)
         /\ \A h \in Handler, a, b \in Agent : Challenge(h, a, b) => Moves(h)
<1>1. ASSUME NEW i \in Instance, StartRound(i) PROVE Moves(i)
  BY <1>1, Continues DEF StartRound, MatchEnvironment, Player
<1>2. ASSUME NEW h \in Handler, NEW a \in Agent, NEW b \in Agent, Challenge(h, a, b)
      PROVE  Moves(h)
  <2> DEFINE c == [Idle EXCEPT !.pc = "create", !.agent = a, !.opponent = b]
  <2>1. play'[h] = c /\ play' = [play EXCEPT ![h] = c] /\ c = [f \in Fields |-> c[f]]
    BY <1>2 DEF Challenge, Shape, Player, Idle, Fields
  <2> HIDE DEF c
  <2> QED
    BY <2>1 DEF Moves
<1> QED
  BY <1>1, <1>2

-----------------------------------------------------------------------------
\* An agent is kept out of the lists by the matches in execution, and by at
\* most one more for each fault.
THEOREM LockedOut == Spec => []LockedOutOnlyByMatch
<1>1. RoundsInv => LockedOutOnlyByMatch
  BY DEF RoundsInv
<1> QED
  BY <1>1, InitRounds, NextRounds, PTL DEF Spec

\* No agent is matched twice in a round.
THEOREM MatchedOnce == Spec => []MatchedOncePerRound
<1>1. RoundsInv => MatchedOncePerRound
  BY DEF RoundsInv, MatchedOncePerRound, Apart, Pair, Player
<1> QED
  BY <1>1, InitRounds, NextRounds, PTL DEF Spec

-----------------------------------------------------------------------------
(* Rows taken out of a list: what Without leaves                           *)

\* kept holds, for each n to k, what is left of the first n rows of s.
IsKept(kept, s, S, k) ==
  kept = [n \in 0..k |-> IF n = 0 THEN <<>>
                         ELSE IF s[n] \in S THEN kept[n - 1] ELSE Append(kept[n - 1], s[n])]

\* There is such a function: one for the rows before the least n without one
\* has the value that one for n needs.
LEMMA KeptExists ==
  ASSUME NEW s, NEW S, NEW k \in Nat
  PROVE  \E kept : IsKept(kept, s, S, k)
<1> DEFINE N == {n \in Nat : ~\E kept : IsKept(kept, s, S, n)}
<1> SUFFICES ASSUME N # {} PROVE FALSE
  OBVIOUS
<1>1. PICK n \in N : \A m \in N : n <= m
  <2>1. N \in SUBSET Nat
    OBVIOUS
  <2> HIDE DEF N
  <2> QED
    BY <2>1, LeastNumber
<1>2. n # 0
  <2> DEFINE none == [m \in 0..0 |-> <<>>]
  <2>1. \A m \in 0..0 : m = 0
    OBVIOUS
  <2>2. IsKept(none, s, S, 0)
    BY <2>1 DEF IsKept
  <2> QED
    BY <2>2
<1>3. n - 1 \in Nat /\ ~(n <= n - 1)
  BY <1>2
<1>4. PICK g : IsKept(g, s, S, n - 1)
  BY <1>1, <1>3
<1> DEFINE last == IF s[n] \in S THEN g[n - 1] ELSE Append(g[n - 1], s[n])
           f == [m \in 0..n |-> IF m = n THEN last ELSE g[m]]
<1>5. \A m \in 0..(n - 1) : f[m] = g[m]
  BY <1>3
<1>6. ASSUME NEW m \in 0..n
      PROVE  f[m] = IF m = 0 THEN <<>>
                    ELSE IF s[m] \in S THEN f[m - 1] ELSE Append(f[m - 1], s[m])
  <2>1. CASE m = n
    <3>1. f[m] = last /\ f[n - 1] = g[n - 1]
      BY <1>3, <1>5, <2>1
    <3> QED
      BY <1>2, <2>1, <3>1
  <2>2. CASE m # n
    <3>1. m \in 0..(n - 1) /\ (m # 0 => m - 1 \in 0..(n - 1))
      BY <1>3, <2>2
    <3>2. f[m] = g[m] /\ (m # 0 => f[m - 1] = g[m - 1])
      BY <1>5, <3>1
    <3>3. g[m] = IF m = 0 THEN <<>>
                 ELSE IF s[m] \in S THEN g[m - 1] ELSE Append(g[m - 1], s[m])
      BY <1>4, <3>1 DEF IsKept
    <3> QED
      BY <3>2, <3>3
  <2> QED
    BY <2>1, <2>2
<1>7. IsKept(f, s, S, n)
  <2>1. f = [m \in 0..n |-> f[m]]
    OBVIOUS
  <2> HIDE DEF f
  <2> QED
    BY <1>6, <2>1 DEF IsKept
<1> QED
  BY <1>7

\* k is what is left of the first n rows of s: the rows of those not in S, and
\* nobody twice who was not there twice.
Left(k, s, S, n, T) ==
  /\ k \in Seq(T)
  /\ \A i \in DOMAIN k : \E j \in 1..n : s[j] = k[i] /\ s[j] \notin S
  /\ \A j \in 1..n : s[j] \notin S => \E i \in DOMAIN k : k[i] = s[j]
  /\ IsInjective(s) => IsInjective(k)

LEMMA LeftStep ==
  ASSUME NEW T, NEW s \in Seq(T), NEW S, NEW n \in 1..Len(s), NEW k, Left(k, s, S, n - 1, T)
  PROVE  Left(IF s[n] \in S THEN k ELSE Append(k, s[n]), s, S, n, T)
<1>1. n - 1 \in Nat /\ 1..n = 1..(n - 1) \cup {n} /\ s[n] \in T /\ n \notin 1..(n - 1)
  OBVIOUS
<1>2. CASE s[n] \in S
  BY <1>1, <1>2 DEF Left
<1>3. CASE s[n] \notin S
  <2> DEFINE l == Append(k, s[n])
  <2>1. k \in Seq(T) /\ Len(k) \in Nat /\ DOMAIN k = 1..Len(k)
    BY DEF Left
  <2>2. /\ l \in Seq(T) /\ Len(l) = Len(k) + 1 /\ DOMAIN l = 1..Len(l)
        /\ l[Len(k) + 1] = s[n] /\ \A i \in 1..Len(k) : l[i] = k[i]
    BY <1>1, <2>1
  <2> HIDE DEF l
  <2>3. DOMAIN l = DOMAIN k \cup {Len(k) + 1} /\ Len(k) + 1 \notin DOMAIN k
    BY <2>1, <2>2
  <2>4. \A i \in DOMAIN l : \E j \in 1..n : s[j] = l[i] /\ s[j] \notin S
    <3> SUFFICES ASSUME NEW i \in DOMAIN l PROVE \E j \in 1..n : s[j] = l[i] /\ s[j] \notin S
      OBVIOUS
    <3>1. CASE i \in DOMAIN k
      BY <1>1, <2>1, <2>2, <3>1 DEF Left
    <3>2. CASE i = Len(k) + 1
      BY <1>1, <1>3, <2>2, <3>2
    <3> QED
      BY <2>3, <3>1, <3>2
  <2>5. \A j \in 1..n : s[j] \notin S => \E i \in DOMAIN l : l[i] = s[j]
    <3> SUFFICES ASSUME NEW j \in 1..n, s[j] \notin S PROVE \E i \in DOMAIN l : l[i] = s[j]
      OBVIOUS
    <3>1. CASE j \in 1..(n - 1)
      <4>1. PICK i \in DOMAIN k : k[i] = s[j]
        BY <3>1 DEF Left
      <4> QED
        BY <2>1, <2>2, <2>3, <4>1
    <3>2. CASE j = n
      BY <2>2, <2>3, <3>2
    <3> QED
      BY <1>1, <3>1, <3>2
  <2>6. ASSUME IsInjective(s) PROVE IsInjective(l)
    <3>1. \A i \in DOMAIN k : k[i] # s[n]
      <4> SUFFICES ASSUME NEW i \in DOMAIN k, k[i] = s[n] PROVE FALSE
        OBVIOUS
      <4>1. PICK j \in 1..(n - 1) : s[j] = k[i]
        BY DEF Left
      <4>2. j \in DOMAIN s /\ n \in DOMAIN s /\ j # n
        BY <1>1
      <4> QED
        BY <2>6, <4>1, <4>2 DEF IsInjective
    <3>2. \A i, j \in DOMAIN k : k[i] = k[j] => i = j
      BY <2>6 DEF Left, IsInjective
    <3> SUFFICES ASSUME NEW i \in DOMAIN l, NEW j \in DOMAIN l, l[i] = l[j] PROVE i = j
      BY DEF IsInjective
    <3>3. CASE i \in DOMAIN k /\ j \in DOMAIN k
      BY <2>1, <2>2, <3>2, <3>3
    <3>4. CASE i \in DOMAIN k /\ j = Len(k) + 1
      BY <2>1, <2>2, <3>1, <3>4
    <3>5. CASE i = Len(k) + 1 /\ j \in DOMAIN k
      BY <2>1, <2>2, <3>1, <3>5
    <3> QED
      BY <2>3, <3>3, <3>4, <3>5
  <2>7. Left(l, s, S, n, T)
    BY <2>2, <2>4, <2>5, <2>6 DEF Left
  <2> QED
    BY <1>3, <2>7 DEF l
<1> QED
  BY <1>2, <1>3

\* What Without leaves of a list: the rows of agents not in S.
LEMMA WithoutLeaves ==
  ASSUME NEW T, NEW s \in Seq(T), NEW S
  PROVE  Left(Without(s, S), s, S, Len(s), T)
<1>1. Len(s) \in Nat
  OBVIOUS
<1>2. PICK kept : IsKept(kept, s, S, Len(s)) /\ Without(s, S) = kept[Len(s)]
  <2>1. \E kept : IsKept(kept, s, S, Len(s))
    BY <1>1, KeptExists
  <2> QED
    BY <2>1 DEF IsKept, Without
<1> DEFINE N == {n \in 0..Len(s) : ~Left(kept[n], s, S, n, T)}
<1>3. SUFFICES ASSUME N # {} PROVE FALSE
  BY <1>1, <1>2
<1>4. PICK n \in N : \A m \in N : n <= m
  <2>1. N \in SUBSET Nat
    OBVIOUS
  <2> HIDE DEF N
  <2> QED
    BY <1>3, <2>1, LeastNumber
<1>5. n # 0
  <2>1. kept[0] = <<>>
    BY <1>1, <1>2 DEF IsKept
  <2>2. Left(<<>>, s, S, 0, T)
    BY DEF Left, IsInjective
  <2> QED
    BY <2>1, <2>2
<1>6. n \in 1..Len(s) /\ n - 1 \in 0..Len(s) /\ ~(n <= n - 1)
  BY <1>1, <1>5
<1>7. Left(kept[n - 1], s, S, n - 1, T)
  BY <1>4, <1>6
<1>8. kept[n] = IF s[n] \in S THEN kept[n - 1] ELSE Append(kept[n - 1], s[n])
  BY <1>2, <1>5, <1>6 DEF IsKept
<1> QED
  BY <1>6, <1>7, <1>8, LeftStep

-----------------------------------------------------------------------------
(* Types: the rows, the players' records, the counts                       *)

RowsOK ==
  /\ queue \in Seq(Agent) /\ IsInjective(queue)
  /\ old \subseteq {a \in Aging : Waiting(a)}

\* Who searches has an agent, and from then on it has an opponent.
PlayOK(c) ==
  /\ c \in Plays /\ IsInjective(c.todo)
  /\ c.pc # "idle" => c.agent \in Agent
  /\ c.pc \notin {"idle", "search"} => c.opponent \in Agent /\ c.agent # c.opponent

PlaysOK ==
  /\ play \in [Player -> Plays]
  /\ \A p \in Player : PlayOK(play[p])

CountsOK ==
  /\ open \in [Agent -> Nat]
  /\ cool \in [Agent -> 0..Cooldown]
  /\ today \in [Agent -> 0..DailyLimit]
  /\ faults \in 0..MaxFaults

LEMMA TypeParts == RowsOK /\ PlaysOK /\ CountsOK => TypeOK
BY MatchmakingAssumption DEF RowsOK, PlaysOK, PlayOK, CountsOK, TypeOK, At

\* The rows of the others stay when an agent's row goes to the end.
LEMMA EnqueueRows ==
  ASSUME RowsOK, NEW a \in Agent, Enqueue(a)
  PROVE  RowsOK'
<1> DEFINE k == Without(queue, {a})
           l == Append(k, a)
<1>1. queue \in Seq(Agent) /\ IsInjective(queue) /\ Left(k, queue, {a}, Len(queue), Agent)
  BY WithoutLeaves DEF RowsOK
<1>2. queue' = l /\ old' = old \ {a}
  BY DEF Enqueue
<1> HIDE DEF k
<1>3. k \in Seq(Agent) /\ Len(k) \in Nat /\ DOMAIN k = 1..Len(k) /\ DOMAIN queue = 1..Len(queue)
  BY <1>1 DEF Left
<1>4. /\ l \in Seq(Agent) /\ DOMAIN l = DOMAIN k \cup {Len(k) + 1}
      /\ l[Len(k) + 1] = a /\ \A i \in DOMAIN k : l[i] = k[i]
  BY <1>3
<1> HIDE DEF l
<1>5. \A i \in DOMAIN k : k[i] # a
  BY <1>1 DEF Left
<1>6. \A i, j \in DOMAIN k : k[i] = k[j] => i = j
  BY <1>1 DEF Left, IsInjective
<1>7. IsInjective(l)
  BY <1>4, <1>5, <1>6 DEF IsInjective
<1>8. ASSUME NEW b \in old, b # a PROVE b \in Aging /\ \E i \in DOMAIN l : l[i] = b
  <2>1. b \in Aging
    BY DEF RowsOK
  <2>2. PICK j \in DOMAIN queue : queue[j] = b
    BY DEF RowsOK, Waiting
  <2>3. PICK i \in DOMAIN k : k[i] = b
    BY <1>1, <1>3, <1>8, <2>2 DEF Left
  <2> QED
    BY <1>4, <2>1, <2>3
<1> QED
  BY <1>2, <1>4, <1>7, <1>8 DEF RowsOK, Waiting

LEMMA ExpireRows ==
  ASSUME RowsOK, Expire
  PROVE  RowsOK'
<1>1. Left(queue', queue, old, Len(queue), Agent) /\ IsInjective(queue) /\ old' = {}
  BY WithoutLeaves DEF RowsOK, Expire
<1> QED
  BY <1>1 DEF RowsOK, Left

\* One record changes, to a good one.
LEMMA OnePlay ==
  ASSUME PlaysOK, NEW p \in Player, Moves(p), PlayOK(play'[p])
  PROVE  PlaysOK'
<1>1. \A q \in Player : q # p => play'[q] = play[q]
  BY DEF Moves, PlaysOK
<1>2. play'[p] \in Plays
  BY DEF PlayOK
<1>3. play' \in [Player -> Plays]
  BY <1>2 DEF Moves, PlaysOK
<1> QED
  BY <1>1, <1>3 DEF PlaysOK

LEMMA IdlePlay == PlayOK(Idle)
<1>1. Idle \in Plays
  BY MatchmakingAssumption DEF Idle, Plays
<1>2. Idle.pc = "idle" /\ Idle.todo = <<>>
  BY DEF Idle
<1> QED
  BY <1>1, <1>2 DEF PlayOK, IsInjective

\* What is left of a list without repetition has none.
LEMMA RestOfList ==
  ASSUME NEW todo \in Seq(Agent), IsInjective(todo), NEW n \in DOMAIN todo
  PROVE  /\ todo[n] \in Agent
         /\ SubSeq(todo, n + 1, Len(todo)) \in Seq(Agent)
         /\ IsInjective(SubSeq(todo, n + 1, Len(todo)))
         /\ \A k \in DOMAIN SubSeq(todo, n + 1, Len(todo)) :
              /\ n + k \in DOMAIN todo /\ n + k # n
              /\ SubSeq(todo, n + 1, Len(todo))[k] = todo[n + k]
<1> DEFINE rest == SubSeq(todo, n + 1, Len(todo))
<1>1. /\ rest \in Seq(Agent) /\ DOMAIN rest = 1..(Len(todo) - n)
      /\ \A k \in DOMAIN rest : rest[k] = todo[n + k]
  OBVIOUS
<1> HIDE DEF rest
<1>2. \A k \in DOMAIN rest : n + k \in DOMAIN todo /\ n + k # n
  BY <1>1
<1>3. ASSUME NEW i \in DOMAIN rest, NEW j \in DOMAIN rest, rest[i] = rest[j] PROVE i = j
  <2>1. todo[n + i] = todo[n + j]
    BY <1>1, <1>3
  <2>2. n + i = n + j
    BY <1>2, <2>1 DEF IsInjective
  <2> QED
    BY <1>1, <2>2
<1>4. IsInjective(rest)
  BY <1>3 DEF IsInjective
<1>5. todo[n] \in Agent
  OBVIOUS
<1> QED
  BY <1>1, <1>2, <1>4, <1>5 DEF rest

LEMMA ContinuePlay ==
  ASSUME PlaysOK, NEW p \in Player, NEW todo \in Seq(Agent), IsInjective(todo),
         NEW processed \in SUBSET Agent, Continue(p, todo, processed)
  PROVE  PlayOK(play'[p])
<1>1. CASE play' = [play EXCEPT ![p] = Idle]
  BY <1>1, IdlePlay DEF PlaysOK
<1>2. ASSUME NEW n \in DOMAIN todo,
             play' = [play EXCEPT ![p] =
               [Idle EXCEPT !.pc = "search", !.agent = todo[n], !.range = EloRange,
                            !.todo = SubSeq(todo, n + 1, Len(todo)), !.processed = processed]]
      PROVE  PlayOK(play'[p])
  <2>1. PICK rest \in Seq(Agent) : rest = SubSeq(todo, n + 1, Len(todo)) /\ IsInjective(rest)
    BY RestOfList
  <2>2. todo[n] \in Agent /\ EloRange \in 0..MaxEloRange
    BY RestOfList, MatchmakingAssumption
  <2>3. play'[p] = [pc |-> "search", agent |-> todo[n], opponent |-> NoOne, range |-> EloRange,
                    todo |-> rest, processed |-> processed]
    BY <1>2, <2>1 DEF Idle, PlaysOK
  <2> QED
    BY <2>1, <2>2, <2>3 DEF PlayOK, Plays
<1> QED
  BY <1>1, <1>2 DEF Continue

\* The call goes on with the next agent of its own list.
LEMMA GoesOn ==
  ASSUME PlaysOK, NEW p \in Player, \/ Skip(p)
                                    \/ Matched(p) /\ ~At(p, "idle") /\ ~At(p, "search")
  PROVE  PlayOK(play'[p])
<1>1. play[p].todo \in Seq(Agent) /\ IsInjective(play[p].todo) /\ play[p].processed \in SUBSET Agent
  BY DEF PlaysOK, PlayOK, Plays
<1>2. CASE Skip(p)
  BY <1>1, <1>2, ContinuePlay DEF Skip
<1>3. CASE play' = [play EXCEPT ![p] = Idle]
  BY <1>3, IdlePlay DEF PlaysOK
<1>4. CASE /\ Continue(p, play[p].todo, play[p].processed \cup {play[p].agent, play[p].opponent})
           /\ ~At(p, "idle") /\ ~At(p, "search")
  <2>1. play[p].processed \cup {play[p].agent, play[p].opponent} \in SUBSET Agent
    BY <1>1, <1>4 DEF PlaysOK, PlayOK, At
  <2> QED
    BY <1>1, <1>4, <2>1, ContinuePlay
<1> QED
  BY <1>2, <1>3, <1>4 DEF Matched

LEMMA GotoPlay ==
  ASSUME PlaysOK, NEW p \in Player, ~At(p, "idle"), ~At(p, "search"),
         NEW pc \in {"execute", "count1", "count2", "requeue1", "requeue2"}, Goto(p, pc)
  PROVE  PlayOK(play'[p])
<1>1. play'[p] = [play[p] EXCEPT !.pc = pc]
  BY DEF Goto, PlaysOK
<1> QED
  BY <1>1 DEF PlaysOK, PlayOK, Plays, At

LEMMA WidenPlay ==
  ASSUME PlaysOK, NEW p \in Player, At(p, "search"), Widen(p)
  PROVE  PlayOK(play'[p])
<1>1. CASE Skip(p)
  BY <1>1, GoesOn
<1>2. CASE /\ play[p].range + RangeStep <= MaxEloRange
           /\ play' = [play EXCEPT ![p].range = @ + RangeStep]
  <2>1. play'[p] = [play[p] EXCEPT !.range = play[p].range + RangeStep]
    BY <1>2 DEF PlaysOK
  <2>2. play[p].range + RangeStep \in 0..MaxEloRange
    BY <1>2, MatchmakingAssumption DEF PlaysOK, Plays
  <2> QED
    BY <2>1, <2>2 DEF PlaysOK, PlayOK, Plays, At
<1> QED
  BY <1>1, <1>2 DEF Widen

\* A round begins with a list of agents that wait.
LEMMA BeginPlay ==
  ASSUME PlaysOK, NEW i \in Player, NEW rows \in Seq(Agent), IsInjective(rows),
         MatchEnvironment(i, rows)
  PROVE  PlayOK(play'[i])
<1>1. WaitingAgents(rows) \in Seq(Agent) /\ IsInjective(WaitingAgents(rows))
  BY WithoutLeaves DEF Left, WaitingAgents
<1> QED
  BY <1>1, ContinuePlay DEF MatchEnvironment

-----------------------------------------------------------------------------
(* Every step keeps the types                                              *)

TypesOK == RowsOK /\ PlaysOK /\ CountsOK

LEMMA SearchTypes ==
  ASSUME RoundsInv, TypesOK, NEW p \in Player, Search(p)
  PROVE  TypesOK'
<1>1. UNCHANGED <<queue, old, open, cool, today, faults>> /\ At(p, "search")
  BY DEF Search
<1>2. Moves(p) /\ PlayOK(play'[p])
  <2>1. CASE Widen(p)
    BY <1>1, <2>1, Widens, WidenPlay DEF RoundsInv, TypesOK
  <2>2. ASSUME NEW b \in Found(p), Meet(p, b) PROVE Moves(p) /\ PlayOK(play'[p])
    <3>1. Moves(p)
      BY <2>2, Meets DEF RoundsInv
    <3>2. b \in Agent /\ b # play[p].agent
      BY <2>2 DEF Found, FindOpponent, TypesOK, RowsOK
    <3>3. play'[p] = [play[p] EXCEPT !.pc = "create", !.opponent = b]
      BY <2>2 DEF Meet, TypesOK, PlaysOK
    <3>4. PlayOK(play'[p])
      BY <1>1, <3>2, <3>3 DEF TypesOK, PlaysOK, PlayOK, Plays, At
    <3> QED
      BY <3>1, <3>4
  <2> QED
    BY <2>1, <2>2 DEF Search
<1>3. PlaysOK'
  BY <1>2, OnePlay DEF TypesOK
<1>4. RowsOK' /\ CountsOK'
  BY <1>1 DEF TypesOK, RowsOK, CountsOK, Waiting
<1> QED
  BY <1>3, <1>4 DEF TypesOK

\* The statements of a match after the search.  That a count of open matches
\* does not become negative is LockedOutOnlyByMatch.
LEMMA MatchTypes ==
  ASSUME RoundsInv, TypesOK, NEW p \in Player,
         InsertMatch(p) \/ Complete(p) \/ Count1(p) \/ Count2(p)
  PROVE  TypesOK'
<1>1. PICK pc \in {"execute", "count1", "count2", "requeue1"} : Goto(p, pc)
  BY DEF InsertMatch, Complete, Count1, Count2, Count
<1>2. ~At(p, "idle") /\ ~At(p, "search") /\ UNCHANGED <<queue, old, faults>>
  BY DEF InsertMatch, Complete, Count1, Count2, Count, At
<1>3. Moves(p) /\ PlayOK(play'[p])
  BY <1>1, <1>2, Goes, GotoPlay DEF RoundsInv, TypesOK
<1>4. PlaysOK' /\ RowsOK'
  BY <1>2, <1>3, OnePlay DEF TypesOK, RowsOK, Waiting
<1>5. /\ play[p].agent \in Agent /\ play[p].opponent \in Agent
      /\ play[p].agent # play[p].opponent
  BY <1>2 DEF TypesOK, PlaysOK, PlayOK, At
<1>6. open' \in [Agent -> Nat]
  <2>1. open \in [Agent -> Nat]
    BY DEF TypesOK, CountsOK
  <2>2. CASE UNCHANGED open
    BY <2>1, <2>2
  <2>3. CASE InsertMatch(p)
    BY <1>5, <2>1, <2>3 DEF InsertMatch
  <2>4. CASE Complete(p)
    <3>1. ASSUME NEW a \in {play[p].agent, play[p].opponent} PROVE open[a] - 1 \in Nat
      <4>1. p \in InProgress(a) /\ a \in Agent
        BY <1>5, <2>4, MatchmakingAssumption DEF Complete, InProgress, Pair
      <4>2. PICK n \in Nat : n = Cardinality(InProgress(a))
        BY <4>1, FiniteProgress
      <4>3. n # 0
        BY <4>1, <4>2, FiniteProgress, FS_EmptySet
      <4>4. open[a] >= n /\ open[a] \in Nat
        BY <2>1, <4>1, <4>2 DEF RoundsInv, LockedOutOnlyByMatch
      <4> QED
        BY <4>3, <4>4
    <3>2. open' = [open EXCEPT ![play[p].agent] = @ - 1, ![play[p].opponent] = @ - 1]
      BY <2>4 DEF Complete
    <3> QED
      BY <1>5, <2>1, <3>1, <3>2
  <2> QED
    BY <2>2, <2>3, <2>4 DEF Count1, Count2, Count
<1>7. cool' \in [Agent -> 0..Cooldown] /\ today' \in [Agent -> 0..DailyLimit]
  <2>1. cool \in [Agent -> 0..Cooldown] /\ today \in [Agent -> 0..DailyLimit]
    BY DEF TypesOK, CountsOK
  <2>2. CASE UNCHANGED <<cool, today>>
    BY <2>1, <2>2
  <2>3. ASSUME NEW a \in Agent, cool' = [cool EXCEPT ![a] = Cooldown],
               today' = [today EXCEPT ![a] = IF @ < DailyLimit THEN @ + 1 ELSE @]
        PROVE  cool' \in [Agent -> 0..Cooldown] /\ today' \in [Agent -> 0..DailyLimit]
    <3>1. (IF today[a] < DailyLimit THEN today[a] + 1 ELSE today[a]) \in 0..DailyLimit
      BY <2>1, MatchmakingAssumption
    <3>2. Cooldown \in 0..Cooldown
      BY MatchmakingAssumption
    <3> QED
      BY <2>1, <2>3, <3>1, <3>2
  <2> QED
    BY <1>5, <2>2, <2>3 DEF InsertMatch, Complete, Count1, Count2, Count
<1> QED
  BY <1>2, <1>4, <1>6, <1>7 DEF TypesOK, CountsOK

\* The call goes on with the next agent, or puts a player back.
LEMMA CallTypes ==
  ASSUME RoundsInv, TypesOK, NEW p \in Player, Refuse(p) \/ Requeue1(p) \/ Requeue2(p)
  PROVE  TypesOK'
<1>1. UNCHANGED <<open, cool, today, faults>> /\ ~At(p, "idle") /\ ~At(p, "search")
  BY DEF Refuse, Requeue1, Requeue2, At
<1>2. Moves(p)
  BY Goes, Continues, Matches DEF Refuse, Skip, Requeue1, Requeue2, RoundsInv
<1>3. PlayOK(play'[p])
  BY <1>1, GoesOn, GotoPlay DEF Refuse, Requeue1, Requeue2, TypesOK
<1>4. PlaysOK'
  BY <1>2, <1>3, OnePlay DEF TypesOK
<1>5. play[p].agent \in Agent /\ play[p].opponent \in Agent
  BY <1>1 DEF TypesOK, PlaysOK, PlayOK, At
<1>6. RowsOK'
  <2>1. CASE UNCHANGED <<queue, old>>
    BY <2>1 DEF TypesOK, RowsOK, Waiting
  <2>2. CASE Enqueue(play[p].agent) \/ Enqueue(play[p].opponent)
    BY <1>5, <2>2, EnqueueRows DEF TypesOK
  <2> QED
    BY <2>1, <2>2 DEF Refuse, Requeue1, Requeue2
<1> QED
  BY <1>1, <1>4, <1>6 DEF TypesOK, CountsOK

LEMMA BeginTypes ==
  ASSUME RoundsInv, TypesOK
  PROVE  /\ \A i \in Instance : StartRound(i) \/ RunMatchmaking(i) => TypesOK'
         /\ \A h \in Handler, a, b \in Agent : Challenge(h, a, b) => TypesOK'
<1>1. ASSUME NEW i \in Instance, StartRound(i) \/ RunMatchmaking(i) PROVE TypesOK'
  <2>1. RowsOK' /\ CountsOK'
    BY <1>1, ExpireRows DEF StartRound, RunMatchmaking, TypesOK, RowsOK, CountsOK, Waiting
  <2>2. ASSUME NEW rows \in Seq(Agent), IsInjective(rows), MatchEnvironment(i, rows) PROVE PlaysOK'
    <3>1. i \in Player
      BY DEF Player
    <3>2. Moves(i)
      BY <2>2, <3>1, Continues DEF MatchEnvironment, RoundsInv
    <3> QED
      BY <2>2, <3>1, <3>2, BeginPlay, OnePlay DEF TypesOK
  <2>3. ASSUME UNCHANGED play PROVE PlaysOK'
    BY <2>3 DEF TypesOK, PlaysOK
  <2>4. PlaysOK'
    <3>1. queue \in Seq(Agent) /\ IsInjective(queue) /\ queue' \in Seq(Agent) /\ IsInjective(queue')
      BY <2>1 DEF TypesOK, RowsOK
    <3> QED
      BY <1>1, <2>2, <2>3, <3>1 DEF StartRound, RunMatchmaking
  <2> QED
    BY <2>1, <2>4 DEF TypesOK
<1>2. ASSUME NEW h \in Handler, NEW a \in Agent, NEW b \in Agent, Challenge(h, a, b)
      PROVE  TypesOK'
  <2>1. Moves(h) /\ h \in Player
    BY <1>2, OneBegins DEF RoundsInv, Player
  <2>2. play'[h] = [Idle EXCEPT !.pc = "create", !.agent = a, !.opponent = b]
    BY <1>2, <2>1 DEF Challenge, TypesOK, PlaysOK
  <2>a. play'[h] = [pc |-> "create", agent |-> a, opponent |-> b, range |-> 0, todo |-> <<>>,
                    processed |-> {}]
    BY <2>2 DEF Idle
  <2>b. 0 \in 0..MaxEloRange /\ a # b /\ <<>> \in Seq(Agent) /\ IsInjective(<<>>)
    BY <1>2, MatchmakingAssumption DEF Challenge, IsInjective
  <2>3. PlayOK(play'[h])
    BY <2>a, <2>b DEF PlayOK, Plays
  <2>4. UNCHANGED <<queue, old, open, cool, today, faults>>
    BY <1>2 DEF Challenge
  <2> QED
    BY <2>1, <2>3, <2>4, OnePlay DEF TypesOK, RowsOK, CountsOK, Waiting
<1> QED
  BY <1>1, <1>2

\* Builds, time and expiry.
LEMMA ElsewhereTypes ==
  ASSUME TypesOK, \/ \E a \in Agent : BuildEnqueues(a) \/ GrowOld(a)
                  \/ Tick \/ Midnight \/ CleanupExpired \/ UNCHANGED vars
  PROVE  TypesOK'
<1>1. PlaysOK'
  BY DEF TypesOK, PlaysOK, BuildEnqueues, GrowOld, Tick, Midnight, CleanupExpired, vars
<1>2. RowsOK'
  <2>1. CASE UNCHANGED <<queue, old>>
    BY <2>1 DEF TypesOK, RowsOK, Waiting
  <2>2. ASSUME NEW a \in Agent, BuildEnqueues(a) PROVE RowsOK'
    BY <2>2, EnqueueRows DEF BuildEnqueues, TypesOK
  <2>3. ASSUME NEW a \in Agent, GrowOld(a) PROVE RowsOK'
    BY <2>3 DEF GrowOld, TypesOK, RowsOK, Waiting
  <2>4. CASE CleanupExpired
    BY <2>4, ExpireRows DEF CleanupExpired, TypesOK
  <2> QED
    BY <2>1, <2>2, <2>3, <2>4 DEF Tick, Midnight, vars
<1>3. CountsOK'
  <2>1. CASE UNCHANGED <<open, cool, today, faults>>
    BY <2>1 DEF TypesOK, CountsOK
  <2>2. CASE Tick
    <3>1. \A a \in Agent : (IF cool[a] > 0 THEN cool[a] - 1 ELSE 0) \in 0..Cooldown
      BY MatchmakingAssumption DEF TypesOK, CountsOK
    <3> QED
      BY <2>2, <3>1 DEF Tick, TypesOK, CountsOK
  <2>3. CASE Midnight
    BY <2>3, MatchmakingAssumption DEF Midnight, TypesOK, CountsOK
  <2> QED
    BY <2>1, <2>2, <2>3 DEF BuildEnqueues, GrowOld, CleanupExpired, vars
<1> QED
  BY <1>1, <1>2, <1>3 DEF TypesOK

LEMMA FaultTypes ==
  ASSUME RoundsInv, TypesOK, NEW p \in Player,
         ExecutorError(p) \/ NotCompleted(p) \/ StatementFails(p) \/ Crash(p)
  PROVE  TypesOK'
<1>1. UNCHANGED <<queue, old, open, cool, today>> /\ Fault
  BY DEF ExecutorError, NotCompleted, StatementFails, Crash
<1>2. CountsOK' /\ RowsOK'
  BY <1>1, MatchmakingAssumption DEF Fault, TypesOK, CountsOK, RowsOK, Waiting
<1>3. PlaysOK /\ Shape
  BY DEF TypesOK, RoundsInv
<1>4. CASE ExecutorError(p) \/ NotCompleted(p)
  <2>1. Moves(p)
    BY <1>3, <1>4, Continues, Matches DEF ExecutorError, NotCompleted, Skip
  <2>2. PlayOK(play'[p])
    BY <1>3, <1>4, GoesOn DEF ExecutorError, NotCompleted, At
  <2> QED
    BY <1>2, <1>3, <2>1, <2>2, OnePlay DEF TypesOK
<1>5. CASE Crash(p)
  BY <1>2, <1>3, <1>5, Idles, IdlePlay, OnePlay DEF Crash, TypesOK, PlaysOK
<1>6. CASE MatchEnvironment(p, queue)
  <2>1. Moves(p)
    BY <1>3, <1>6, Continues DEF MatchEnvironment
  <2>2. PlayOK(play'[p])
    BY <1>6, BeginPlay DEF TypesOK, RowsOK
  <2> QED
    BY <1>2, <1>3, <2>1, <2>2, OnePlay DEF TypesOK
<1>7. CASE At(p, "search") /\ Widen(p)
  BY <1>2, <1>3, <1>7, Widens, WidenPlay, OnePlay DEF TypesOK
<1>8. CASE At(p, "requeue2") /\ Matched(p)
  BY <1>2, <1>3, <1>8, Matches, GoesOn, OnePlay DEF TypesOK, At
<1>9. ASSUME NEW pc \in {"count2", "requeue1", "requeue2"}, Goto(p, pc),
             At(p, "count1") \/ At(p, "count2") \/ At(p, "requeue1")
      PROVE  TypesOK'
  <2>1. Moves(p) /\ PlayOK(play'[p])
    BY <1>3, <1>9, Goes, GotoPlay DEF At
  <2> QED
    BY <1>2, <1>3, <2>1, OnePlay DEF TypesOK
<1>10. CASE At(p, "create") /\ Skip(p)
  <2>1. Moves(p)
    BY <1>3, <1>10, Continues DEF Skip
  <2>2. PlayOK(play'[p])
    BY <1>3, <1>10, GoesOn DEF At
  <2> QED
    BY <1>2, <1>3, <2>1, <2>2, OnePlay DEF TypesOK
<1> QED
  BY <1>4, <1>5, <1>6, <1>7, <1>8, <1>9, <1>10 DEF StatementFails

LEMMA InitTypes == Init => TypesOK
<1> SUFFICES ASSUME Init PROVE TypesOK
  OBVIOUS
<1>1. RowsOK
  BY DEF Init, RowsOK, IsInjective
<1>2. PlaysOK
  BY IdlePlay DEF Init, PlaysOK, PlayOK
<1>3. CountsOK
  BY MatchmakingAssumption DEF Init, CountsOK
<1> QED
  BY <1>1, <1>2, <1>3 DEF TypesOK

LEMMA NextTypes == RoundsInv /\ TypesOK /\ [Next]_vars => TypesOK'
BY SearchTypes, MatchTypes, CallTypes, BeginTypes, ElsewhereTypes, FaultTypes DEF Next, Step

LEMMA TypesAlways == Spec => [](RoundsInv /\ TypesOK)
BY InitRounds, NextRounds, InitTypes, NextTypes, PTL DEF Spec

\* An agent has one row, whoever enqueues it and whatever expires; a round's
\* list holds nobody twice; players are two agents; counts stay in bounds.
THEOREM RowsAreTyped == Spec => []TypeOK
<1>1. TypesOK => TypeOK
  BY TypeParts DEF TypesOK
<1> QED
  BY <1>1, TypesAlways, PTL
=============================================================================
