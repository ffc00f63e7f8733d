----------------------------- MODULE Matchmaking -----------------------------
(***************************************************************************)
(* MatchmakingService.matchEnvironment over the matchmaking_queue table:   *)
(* rounds of matches run by the instances, while HTTP handlers play the    *)
(* matches users ask for (POST /matches) and the build monitor enqueues    *)
(* agents.  One SQL statement is one step.                                 *)
(*                                                                         *)
(* In the single-instance mode a ticker starts the rounds; replicas that   *)
(* find no Redis when they start run in it side by side.  The distributed  *)
(* mode of several instances is what happens once the lock no longer       *)
(* excludes (see MatchmakingCoordinator); with the lock it is              *)
(* DistributedMatchmaking.  What a match does to ratings and statistics is *)
(* MatchExecution's subject: here a rating is a constant, and an agent has *)
(* open matches, a cooldown and a count of matches played today.           *)
(***************************************************************************)
EXTENDS Integers, Sequences, FiniteSets, SequencesExt

CONSTANTS
  Agent,
  Instance,      \* goroutines that run rounds, one per replica
  Distributed,   \* useDistributed: events start the rounds, not a ticker
  Handler,       \* requests that play a match outside the rounds
  Rating,        \* matchmaking_queue.elo_rating of each agent
  EloRange,      \* the first range searched for an opponent (100)
  RangeStep,     \* how much the range grows (100)
  MaxEloRange,   \* the last range searched (500)
  Cooldown,      \* ticks between an agent's matches (5 minutes)
  DailyLimit,    \* matches an agent may play a day (100)
  Ready,         \* agents with an active submission
  Aging,         \* agents whose rows may get a day old; a bound
  NoOne,
  MaxFaults      \* a bound on failed calls and crashes

ASSUME MatchmakingAssumption ==
  /\ Distributed \in BOOLEAN
  /\ Instance \cap Handler = {}
  /\ IsFiniteSet(Instance) /\ IsFiniteSet(Handler)
  /\ NoOne \notin Agent
  /\ Rating \in [Agent -> Nat]
  /\ EloRange \in Nat /\ RangeStep \in Nat \ {0} /\ MaxEloRange \in Nat
  /\ EloRange <= MaxEloRange
  /\ Cooldown \in Nat /\ DailyLimit \in Nat \ {0}
  /\ Ready \subseteq Agent /\ Aging \subseteq Agent
  /\ MaxFaults \in Nat

VARIABLES
  queue,   \* the agents with a waiting row, by queued_at (all have priority 5)
  old,     \* those of them whose queued_at is more than 24 hours ago
  open,    \* matches of an agent whose row is 'pending'
  cool,    \* ticks until last_match_at is a cooldown ago
  today,   \* matches_today, up to the limit; 0 once daily_reset_at has passed
  play,    \* what each instance or handler is doing
  faults   \* faults so far

vars == <<queue, old, open, cool, today, play, faults>>

Player == Instance \cup Handler

\* pc names the next statement; todo is what is left of a round's list, and
\* processed the agents already matched in it.
Idle == [pc |-> "idle", agent |-> NoOne, opponent |-> NoOne,
         range |-> 0, todo |-> <<>>, processed |-> {}]

At(p, pc) == play[p].pc = pc
Goto(p, pc) == play' = [play EXCEPT ![p].pc = pc]
Waiting(a) == \E n \in DOMAIN queue : queue[n] = a

\* The rows of s but those of the agents in S, in their order: SelectSeq in a
\* form that can be reasoned about.
Without(s, S) ==
  LET kept[n \in 0..Len(s)] ==
        IF n = 0 THEN <<>>
        ELSE IF s[n] \in S THEN kept[n - 1] ELSE Append(kept[n - 1], s[n])
  IN kept[Len(s)]

Init ==
  /\ queue  = <<>>
  /\ old    = {}
  /\ open   = [a \in Agent |-> 0]
  /\ cool   = [a \in Agent |-> 0]
  /\ today  = [a \in Agent |-> 0]
  /\ play   = [p \in Player |-> Idle]
  /\ faults = 0

-----------------------------------------------------------------------------
(* The loop over the list of a round *)

\* The call goes on with the first agent of todo that was not matched
\* meanwhile, or is over.
Continue(p, todo, processed) ==
  LET left == {n \in DOMAIN todo : todo[n] \notin processed}
  IN
  \/ left = {} /\ play' = [play EXCEPT ![p] = Idle]
  \/ \E n \in left :
       /\ \A m \in left : n <= m
       /\ play' = [play EXCEPT ![p] =
            [Idle EXCEPT !.pc = "search", !.agent = todo[n], !.range = EloRange,
                         !.todo = SubSeq(todo, n + 1, Len(todo)), !.processed = processed]]

\* continue: no opponent, or createMatch failed; nobody is marked.
Skip(p) == Continue(p, play[p].todo, play[p].processed)

\* createMatch returned: both are processed.  A handler is done.
Matched(p) ==
  IF p \in Handler THEN play' = [play EXCEPT ![p] = Idle]
  ELSE Continue(p, play[p].todo, play[p].processed \cup {play[p].agent, play[p].opponent})

\* GetWaitingAgents: no match in progress, rested, under the daily limit.
Eligible(a) == open[a] = 0 /\ cool[a] = 0 /\ today[a] < DailyLimit
WaitingAgents(rows) == Without(rows, {a \in Agent : ~Eligible(a)})

\* Mutant: the query without its NOT EXISTS and without its limits.
MatchEnvironmentUnlimited(i, rows) ==
  /\ At(i, "idle")
  /\ Len(rows) >= 2
  /\ Continue(i, rows, {})

\* The list of a round, out of the rows that wait.
MatchEnvironment(i, rows) ==
  /\ At(i, "idle")
  /\ Len(WaitingAgents(rows)) >= 2         \* else nothing is done
  /\ Continue(i, WaitingAgents(rows), {})

\* The handler of an event.
StartRound(i) ==
  /\ Distributed
  /\ MatchEnvironment(i, queue)
  /\ UNCHANGED <<queue, old, open, cool, today, faults>>

\* Rows that are too old become 'expired'.
Expire ==
  /\ queue' = Without(queue, old)
  /\ old' = {}

\* The ticker of the single-instance mode: CleanupExpired, then the round.
RunMatchmaking(i) ==
  /\ ~Distributed
  /\ At(i, "idle")
  /\ Expire
  /\ \/ MatchEnvironment(i, queue')
     \/ old # {} /\ Len(WaitingAgents(queue')) < 2 /\ UNCHANGED play
  /\ UNCHANGED <<open, cool, today, faults>>

Abs(x) == IF x < 0 THEN -x ELSE x
Distance(a, b) == Abs(Rating[a] - Rating[b])

\* FindOpponent: of the others waiting within the range, the nearest; of
\* these the one that has waited longest (LIMIT 1: one row, or none).  Their
\* limits are not looked at.
FindOpponent(a, range) ==
  LET near == {n \in DOMAIN queue : queue[n] # a /\ Distance(a, queue[n]) <= range}
      nearest == {n \in near : \A m \in near :
                    Distance(a, queue[n]) <= Distance(a, queue[m])}
  IN {queue[n] : n \in {k \in nearest : \A m \in nearest : k <= m}}

Found(i) == FindOpponent(play[i].agent, play[i].range)

Meet(i, b) == play' = [play EXCEPT ![i].pc = "create", ![i].opponent = b]

\* Nobody suitable: the next range, or the next agent.
Widen(i) ==
  IF play[i].range + RangeStep <= MaxEloRange
    THEN play' = [play EXCEPT ![i].range = @ + RangeStep]
    ELSE Skip(i)

\* Mutant: an opponent already matched in this round is taken again.
SearchAnyone(i) ==
  /\ At(i, "search")
  /\ IF Found(i) # {} THEN \E b \in Found(i) : Meet(i, b) ELSE Widen(i)
  /\ UNCHANGED <<queue, old, open, cool, today, faults>>

\* Mutant: the range does not grow past the first.
SearchForever(i) ==
  /\ At(i, "search")
  /\ \E b \in Found(i) \ play[i].processed : Meet(i, b)
  /\ UNCHANGED <<queue, old, open, cool, today, faults>>

\* One query of findOpponentWithExpandingRange.
Search(i) ==
  /\ At(i, "search")
  /\ \/ Found(i) \subseteq play[i].processed /\ Widen(i)
     \/ \E b \in Found(i) \ play[i].processed : Meet(i, b)
  /\ UNCHANGED <<queue, old, open, cool, today, faults>>

\* A user asks for a match; no limit is checked.
Challenge(h, a, b) ==
  /\ At(h, "idle")
  /\ a # b
  /\ play' = [play EXCEPT ![h] = [Idle EXCEPT !.pc = "create", !.agent = a, !.opponent = b]]
  /\ UNCHANGED <<queue, old, open, cool, today, faults>>

-----------------------------------------------------------------------------
(* CreateAndExecute, as far as the queue is concerned *)

Playable(c) == c.agent \in Ready /\ c.opponent \in Ready

\* ErrNoActiveSubmission: nobody is marked, the round goes on.
Refuse(p) ==
  /\ At(p, "create")
  /\ ~Playable(play[p])
  /\ Skip(p)
  /\ UNCHANGED <<queue, old, open, cool, today, faults>>

InsertMatch(p) ==
  LET c == play[p]
  IN
  /\ At(p, "create")
  /\ Playable(c)
  /\ open' = [open EXCEPT ![c.agent] = @ + 1, ![c.opponent] = @ + 1]
  /\ Goto(p, "execute")
  /\ UNCHANGED <<queue, old, cool, today, faults>>

\* Mutant: the status of the match row is left as it was.
CompleteLeavingOpen(p) ==
  /\ At(p, "execute")
  /\ Goto(p, "count1")
  /\ UNCHANGED <<queue, old, open, cool, today, faults>>

\* The executor answers "success" and UpdateResult completes the row.
Complete(p) ==
  LET c == play[p]
  IN
  /\ At(p, "execute")
  /\ open' = [open EXCEPT ![c.agent] = @ - 1, ![c.opponent] = @ - 1]
  /\ Goto(p, "count1")
  /\ UNCHANGED <<queue, old, cool, today, faults>>

\* IncrementMatchCount
Count(p, pc, a, next) ==
  /\ At(p, pc)
  /\ cool'  = [cool EXCEPT ![a] = Cooldown]
  /\ today' = [today EXCEPT ![a] = IF @ < DailyLimit THEN @ + 1 ELSE @]
  /\ Goto(p, next)
  /\ UNCHANGED <<queue, old, open, faults>>

Count1(p) == Count(p, "count1", play[p].agent, "count2")
Count2(p) == Count(p, "count2", play[p].opponent, "requeue1")

\* Mutant: a plain INSERT.
EnqueueAgain(a) ==
  /\ queue' = Append(queue, a)
  /\ old' = old \ {a}

\* The upsert of EnqueueAgent: queued_at = NOW(), status = 'waiting'.
Enqueue(a) ==
  /\ queue' = Append(Without(queue, {a}), a)
  /\ old' = old \ {a}

\* Mutant: ON CONFLICT DO UPDATE without queued_at = NOW().
EnqueueInPlace(a) ==
  /\ queue' = IF Waiting(a) THEN queue ELSE Append(queue, a)
  /\ old' = old \ {a}

Requeue1Late(p) ==
  /\ At(p, "requeue1")
  /\ EnqueueInPlace(play[p].agent)
  /\ Goto(p, "requeue2")
  /\ UNCHANGED <<open, cool, today, faults>>

\* Mutant: the players are not enqueued again after the match.
Requeue1Missing(p) ==
  /\ At(p, "requeue1")
  /\ Goto(p, "requeue2")
  /\ UNCHANGED <<queue, old, open, cool, today, faults>>

Requeue1(p) ==
  /\ At(p, "requeue1")
  /\ Enqueue(play[p].agent)
  /\ Goto(p, "requeue2")
  /\ UNCHANGED <<open, cool, today, faults>>

Requeue2(p) ==
  /\ At(p, "requeue2")
  /\ Enqueue(play[p].opponent)
  /\ Matched(p)
  /\ UNCHANGED <<open, cool, today, faults>>

-----------------------------------------------------------------------------
(* Builds, time and expiry *)

\* handleBuildSuccess: an agent that waits already goes to the end.
BuildEnqueues(a) ==
  /\ Enqueue(a)
  /\ UNCHANGED <<open, cool, today, play, faults>>

Tick ==
  /\ \E a \in Agent : cool[a] > 0
  /\ cool' = [a \in Agent |-> IF cool[a] > 0 THEN cool[a] - 1 ELSE 0]
  /\ UNCHANGED <<queue, old, open, today, play, faults>>

\* daily_reset_at passes.
Midnight ==
  /\ \E a \in Agent : today[a] > 0
  /\ today' = [a \in Agent |-> 0]
  /\ UNCHANGED <<queue, old, open, cool, play, faults>>

GrowOld(a) ==
  /\ Waiting(a)
  /\ a \in Aging \ old
  /\ old' = old \cup {a}
  /\ UNCHANGED <<queue, open, cool, today, play, faults>>

\* By the periodic trigger of any instance, beside the rounds.
CleanupExpired ==
  /\ Distributed
  /\ old # {}
  /\ Expire
  /\ UNCHANGED <<open, cool, today, play, faults>>

-----------------------------------------------------------------------------
(* Faults *)

Fault == faults < MaxFaults /\ faults' = faults + 1

\* An RPC error: createMatch fails.  The match row stays 'pending'.
ExecutorError(p) ==
  /\ Fault
  /\ At(p, "execute")
  /\ Skip(p)
  /\ UNCHANGED <<queue, old, open, cool, today>>

\* The executor answers with another status, or UpdateResult fails: the row
\* stays 'pending' as well, but createMatch returns without an error.
NotCompleted(p) ==
  /\ Fault
  /\ At(p, "execute")
  /\ Matched(p)
  /\ UNCHANGED <<queue, old, open, cool, today>>

\* CleanupExpired fails, and the round works with the old rows; a query of the
\* search fails, and counts as finding nobody; one of createMatch fails before
\* there is a row, and nobody is marked; one after the match fails, and is
\* logged.
StatementFails(p) ==
  /\ Fault
  /\ \/ ~Distributed /\ p \in Instance /\ MatchEnvironment(p, queue)
     \/ At(p, "search") /\ Widen(p)
     \/ At(p, "create") /\ Skip(p)
     \/ At(p, "count1")   /\ Goto(p, "count2")
     \/ At(p, "count2")   /\ Goto(p, "requeue1")
     \/ At(p, "requeue1") /\ Goto(p, "requeue2")
     \/ At(p, "requeue2") /\ Matched(p)
  /\ UNCHANGED <<queue, old, open, cool, today>>

Crash(p) ==
  /\ Fault
  /\ ~At(p, "idle")
  /\ play' = [play EXCEPT ![p] = Idle]
  /\ UNCHANGED <<queue, old, open, cool, today>>

-----------------------------------------------------------------------------
Step(p) ==
  \/ Search(p) \/ Refuse(p) \/ InsertMatch(p) \/ Complete(p)
  \/ Count1(p) \/ Count2(p) \/ Requeue1(p) \/ Requeue2(p)

Next ==
  \/ \E i \in Instance : StartRound(i) \/ RunMatchmaking(i)
  \/ \E h \in Handler, a, b \in Agent : Challenge(h, a, b)
  \/ \E p \in Player : Step(p)
  \/ \E a \in Agent : BuildEnqueues(a) \/ GrowOld(a)
  \/ Tick \/ Midnight \/ CleanupExpired
  \/ \E p \in Player : ExecutorError(p) \/ NotCompleted(p) \/ StatementFails(p) \/ Crash(p)

\* Tickers and events start rounds, calls return, time passes.  Nothing else
\* is due.
Fairness ==
  /\ WF_vars(Tick) /\ WF_vars(Midnight)
  /\ \A i \in Instance : WF_vars(StartRound(i)) /\ WF_vars(RunMatchmaking(i))
  /\ \A p \in Player : WF_vars(Step(p))

Spec == Init /\ [][Next]_vars /\ Fairness

-----------------------------------------------------------------------------
(* Properties *)

Pair(p) == {play[p].agent, play[p].opponent} \ {NoOne}

Plays == [pc: {"idle", "search", "create", "execute", "count1", "count2",
               "requeue1", "requeue2"},
          agent: Agent \cup {NoOne}, opponent: Agent \cup {NoOne},
          range: 0..MaxEloRange, todo: Seq(Agent), processed: SUBSET Agent]

\* An agent has one row; only waiting rows grow old; a round's list holds
\* nobody twice; two different agents play.
TypeOK ==
  /\ queue \in Seq(Agent) /\ IsInjective(queue)
  /\ old \subseteq {a \in Aging : Waiting(a)}
  /\ open \in [Agent -> Nat]
  /\ cool \in [Agent -> 0..Cooldown]
  /\ today \in [Agent -> 0..DailyLimit]
  /\ play \in [Player -> Plays]
  /\ \A p \in Player : IsInjective(play[p].todo)
  /\ \A p \in Player : ~At(p, "idle") /\ ~At(p, "search") =>
       NoOne \notin {play[p].agent, play[p].opponent} /\ play[p].agent # play[p].opponent
  /\ faults \in 0..MaxFaults

InProgress(a) == {p \in Player : At(p, "execute") /\ a \in Pair(p)}

(***************************************************************************)
(* GetWaitingAgents leaves out the agents that are playing.  An agent is   *)
(* left out for no other reason than a match that some caller is executing *)
(* or one that a fault left 'pending': every completed match, of whichever *)
(* caller and however calls overlap, gives its players back.               *)
(***************************************************************************)
LockedOutOnlyByMatch ==
  \A a \in Agent :
    /\ open[a] >= Cardinality(InProgress(a))
    /\ open[a] <= Cardinality(InProgress(a)) + faults

(***************************************************************************)
(* No agent is matched again in a round in which it was processed, neither *)
(* as the next of the list nor as the nearest of somebody else.            *)
(***************************************************************************)
MatchedOncePerRound ==
  \A i \in Instance : Pair(i) \cap play[i].processed = {}

(***************************************************************************)
(* A row may expire while its agent plays; the agent is put back after the *)
(* match all the same, so that it does not drop out of the matchmaking.    *)
(***************************************************************************)
PlayersReturn ==
  \A i \in Instance, a \in Agent : At(i, "count1") /\ a \in Pair(i) ~> Waiting(a)

Inserts(i) == At(i, "create") /\ play'[i].pc = "execute"

(***************************************************************************)
(* The agent a match is searched for is free, rested and under the daily   *)
(* limit when the match row is inserted, and not only when the list was    *)
(* read, although the matches of a round follow one another for minutes.   *)
(* With one instance, no other caller and no fault.                        *)
(***************************************************************************)
SearcherWithinLimits ==
  [][\A i \in Instance : Inserts(i) => Eligible(play[i].agent)]_vars

Fresh(a) == Waiting(a) /\ a \notin old
HasOpponent(a) ==
  \E b \in Agent \ {a} : Fresh(b) /\ Distance(a, b) <= MaxEloRange
Playing(a) == \E p \in Player : At(p, "execute") /\ a \in Pair(p)

\* From some moment on, no build moves an agent that waits to the end.
BuildsLeaveQueue ==
  <>[][\A a \in Agent : Waiting(a) => ~BuildEnqueues(a)]_vars

(***************************************************************************)
(* Nobody starves: an agent that stays in the queue with somebody else in  *)
(* range plays again, although the nearest opponent may already be taken   *)
(* in each round.  With one instance, everyone ready, no fault, and no     *)
(* more rebuilds of agents that wait: each of them makes an agent the last *)
(* again, whom the others may leave without an opponent.                   *)
(***************************************************************************)
NobodyStarves ==
  BuildsLeaveQueue =>
    \A a \in Agent :
      Fresh(a) /\ HasOpponent(a) ~> Playing(a) \/ ~Fresh(a) \/ ~HasOpponent(a)
=============================================================================
