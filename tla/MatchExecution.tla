--------------------------- MODULE MatchExecution ---------------------------
(***************************************************************************)
(* MatchService.CreateAndExecute and processMatchResult, run by several    *)
(* goroutines at once: the matchmaking loop of each replica and the HTTP   *)
(* handler of POST /matches.  Nothing spans more than one SQL statement,   *)
(* so every statement is a step of its own, and the steps of different     *)
(* calls interleave.  EnqueueAgent is also called by the build monitor.    *)
(*                                                                         *)
(* The tables are functions; a call's local variables are a record.        *)
(***************************************************************************)
EXTENDS Elo, FiniteSets, Functions

CONSTANTS
  Agent,          \* agents with a row in the agents table
  Worker,         \* goroutines that may be inside one of the calls
  MatchId,        \* ids the matches table may hand out: bounds the matches
  EnvironmentOf,  \* the environment each agent was created for
  InitialElo,     \* the column default of agents.elo
  NoOne,          \* a NULL winner, a nil pointer
  MaxFaults       \* bound on failed statements and crashes

ASSUME MatchExecutionAssumption ==
  /\ NoOne \notin Agent /\ NoOne \notin MatchId
  /\ InitialElo \in Nat
  /\ MaxFaults \in Nat

VARIABLES
  agents,    \* agents: rating, counters and whether a submission is active
  matches,   \* matches: the row of each id
  counted,   \* agent_match_stats.total_matches, 0 when there is no row
  queue,     \* matchmaking_queue: elo_rating of the waiting row
  call,      \* the call each worker is in
  faults     \* faults so far

vars == <<agents, matches, counted, queue, call, faults>>

-----------------------------------------------------------------------------
NotQueued == -1     \* no waiting row; rows leave the queue in Matchmaking

NewAgentRow == [elo |-> InitialElo, wins |-> 0, losses |-> 0, draws |-> 0,
                total |-> 0, active |-> FALSE]

NoMatchRow == [status |-> "none", agent1 |-> NoOne, agent2 |-> NoOne,
               winner |-> NoOne, change1 |-> 0, change2 |-> 0]

\* What FindByID returned: the columns the call uses later.
NoCopy == [elo |-> 0, total |-> 0, active |-> FALSE]
Copy(a) == [elo |-> agents[a].elo, total |-> agents[a].total, active |-> agents[a].active]

\* pc names the statement the call executes next.
Idle == [pc |-> "idle", agent1 |-> NoOne, agent2 |-> NoOne, copy1 |-> NoCopy,
         copy2 |-> NoCopy, match |-> NoOne, winner |-> NoOne, seen |-> 0]

Statements == {"find1", "find2", "create", "execute", "save", "stats1", "stats2",
               "count1", "new1", "count2", "new2", "enqueue1", "upsert1",
               "enqueue2", "upsert2", "enqueue", "upsert"}

At(w, pc) == call[w].pc = pc
Goto(w, pc) == call' = [call EXCEPT ![w].pc = pc]
Return(w) == call' = [call EXCEPT ![w] = Idle]

Init ==
  /\ agents  = [a \in Agent |-> NewAgentRow]
  /\ matches = [m \in MatchId |-> NoMatchRow]
  /\ counted = [a \in Agent |-> 0]
  /\ queue   = [a \in Agent |-> NotQueued]
  /\ call    = [w \in Worker |-> Idle]
  /\ faults  = 0

-----------------------------------------------------------------------------
(* CreateAndExecute *)

Begin(w, a, b) ==
  /\ At(w, "idle")
  /\ a # b                                  \* ErrSameAgent
  /\ \E m \in MatchId : matches[m].status = "none"        \* a bound
  /\ call' = [call EXCEPT ![w] = [Idle EXCEPT !.pc = "find1", !.agent1 = a, !.agent2 = b]]
  /\ UNCHANGED <<agents, matches, counted, queue, faults>>

FindAgent1(w) ==
  /\ At(w, "find1")
  /\ call' = [call EXCEPT ![w].pc = "find2", ![w].copy1 = Copy(call[w].agent1)]
  /\ UNCHANGED <<agents, matches, counted, queue, faults>>

FindAgent2(w) ==
  /\ At(w, "find2")
  /\ call' = [call EXCEPT ![w].pc = "create", ![w].copy2 = Copy(call[w].agent2)]
  /\ UNCHANGED <<agents, matches, counted, queue, faults>>

\* Both in one environment, both with an active submission, as last read.
Playable(c) ==
  /\ EnvironmentOf[c.agent1] = EnvironmentOf[c.agent2]
  /\ c.copy1.active
  /\ c.copy2.active

Reject(w) ==
  /\ At(w, "create")
  /\ ~Playable(call[w])
  /\ Return(w)
  /\ UNCHANGED <<agents, matches, counted, queue, faults>>

\* Mutant: an open match of the same two agents is taken over.
CreateMatchOrReuse(w) ==
  /\ At(w, "create")
  /\ Playable(call[w])
  /\ \E m \in MatchId :
       /\ \/ matches[m].status = "none"
          \/ matches[m].status = "pending" /\ matches[m].agent1 = call[w].agent1
       /\ matches' = [matches EXCEPT ![m] =
            [NoMatchRow EXCEPT !.status = "pending",
                               !.agent1 = call[w].agent1, !.agent2 = call[w].agent2]]
       /\ call' = [call EXCEPT ![w].pc = "execute", ![w].match = m]
  /\ UNCHANGED <<agents, counted, queue, faults>>

\* Mutant: the row is created in state 'running'.
CreateMatchRunning(w) ==
  /\ At(w, "create")
  /\ Playable(call[w])
  /\ \E m \in MatchId :
       /\ matches[m].status = "none"
       /\ matches' = [matches EXCEPT ![m] = [NoMatchRow EXCEPT !.status = "running"]]
       /\ call' = [call EXCEPT ![w].pc = "execute", ![w].match = m]
  /\ UNCHANGED <<agents, counted, queue, faults>>

CreateMatch(w) ==
  /\ At(w, "create")
  /\ Playable(call[w])
  /\ \E m \in MatchId :
       /\ matches[m].status = "none"
       /\ matches' = [matches EXCEPT ![m] =
            [NoMatchRow EXCEPT !.status = "pending",
                               !.agent1 = call[w].agent1, !.agent2 = call[w].agent2]]
       /\ call' = [call EXCEPT ![w].pc = "execute", ![w].match = m]
  /\ UNCHANGED <<agents, counted, queue, faults>>

\* The executor answers "success" with a winner, or without one for a draw.
ExecutorSucceeds(w) ==
  /\ At(w, "execute")
  /\ \E winner \in {call[w].agent1, call[w].agent2, NoOne} :
       call' = [call EXCEPT ![w].pc = "save", ![w].winner = winner]
  /\ UNCHANGED <<agents, matches, counted, queue, faults>>

\* An RPC error, or another status: the row stays as it was created.
ExecutorFails(w) ==
  /\ At(w, "execute")
  /\ Return(w)
  /\ UNCHANGED <<agents, matches, counted, queue, faults>>

-----------------------------------------------------------------------------
(* processMatchResult *)

MatchResult(c) ==
  IF c.winner = NoOne THEN Draw
  ELSE IF c.winner = c.agent1 THEN Agent1Wins ELSE Agent2Wins

\* Mutant: agent2's change is computed from agent1's side of the result.
SaveResultUnreversed(w) ==
  LET c == call[w]
      result == MatchResult(c)
  IN
  /\ At(w, "save")
  /\ matches' = [matches EXCEPT
       ![c.match].status  = "completed",
       ![c.match].winner  = c.winner,
       ![c.match].change1 = Agent1Change(c.copy1.elo, c.copy2.elo, c.copy1.total, result),
       ![c.match].change2 = Agent1Change(c.copy2.elo, c.copy1.elo, c.copy2.total, result)]
  /\ Goto(w, "stats1")
  /\ UNCHANGED <<agents, counted, queue, faults>>

\* UpdateResult, with changes computed from the rows read before the match.
SaveResult(w) ==
  LET c == call[w]
      result == MatchResult(c)
  IN
  /\ At(w, "save")
  /\ matches' = [matches EXCEPT
       ![c.match].status  = "completed",
       ![c.match].winner  = c.winner,
       ![c.match].change1 = Agent1Change(c.copy1.elo, c.copy2.elo, c.copy1.total, result),
       ![c.match].change2 = Agent2Change(c.copy1.elo, c.copy2.elo, c.copy2.total, result)]
  /\ Goto(w, "stats1")
  /\ UNCHANGED <<agents, counted, queue, faults>>

\* One UPDATE of the agents row: relative, and floored at zero.
UpdateStats(row, change, won, lost, draw) ==
  [row EXCEPT
     !.elo    = IF @ + change < 0 THEN 0 ELSE @ + change,
     !.wins   = IF won THEN @ + 1 ELSE @,
     !.losses = IF ~won /\ lost THEN @ + 1 ELSE @,
     !.draws  = IF ~won /\ ~lost /\ draw THEN @ + 1 ELSE @,
     !.total  = @ + 1]

\* Mutant: the row read before the match is written back with the change.
UpdateAgent1Absolute(w) ==
  LET c == call[w]
      stale == [agents[c.agent1] EXCEPT !.elo = c.copy1.elo]
  IN
  /\ At(w, "stats1")
  /\ agents' = [agents EXCEPT
       ![c.agent1] = UpdateStats(stale, matches[c.match].change1, c.winner = c.agent1,
                                 c.winner = c.agent2, c.winner = NoOne)]
  /\ Goto(w, "stats2")
  /\ UNCHANGED <<matches, counted, queue, faults>>

UpdateAgent1(w) ==
  LET c == call[w]
      won  == c.winner = c.agent1
      lost == c.winner = c.agent2
      draw == c.winner = NoOne
  IN
  /\ At(w, "stats1")
  /\ agents' = [agents EXCEPT
       ![c.agent1] = UpdateStats(@, matches[c.match].change1, won, lost, draw)]
  /\ Goto(w, "stats2")
  /\ UNCHANGED <<matches, counted, queue, faults>>

\* The match is no longer needed after the second UPDATE.
AfterStats(c) == [Idle EXCEPT !.pc = "count1", !.agent1 = c.agent1, !.agent2 = c.agent2]

\* Mutant: agent2 gets agent1's outcome.
UpdateAgent2Swapped(w) ==
  LET c == call[w]
      won  == c.winner = c.agent1
      draw == c.winner = NoOne
  IN
  /\ At(w, "stats2")
  /\ agents' = [agents EXCEPT
       ![c.agent2] = UpdateStats(@, matches[c.match].change2, won, ~won /\ ~draw, draw)]
  /\ call' = [call EXCEPT ![w] = AfterStats(c)]
  /\ UNCHANGED <<matches, counted, queue, faults>>

UpdateAgent2(w) ==
  LET c == call[w]
      won  == c.winner = c.agent1
      draw == c.winner = NoOne
  IN
  /\ At(w, "stats2")
  /\ agents' = [agents EXCEPT
       ![c.agent2] = UpdateStats(@, matches[c.match].change2, ~won /\ ~draw, won, draw)]
  /\ call' = [call EXCEPT ![w] = AfterStats(c)]
  /\ UNCHANGED <<matches, counted, queue, faults>>

-----------------------------------------------------------------------------
(* IncrementMatchCount: an UPDATE and, if it met no row, an INSERT *)

UpdateCount(w, pc, a, inserting, next) ==
  /\ At(w, pc)
  /\ \/ /\ counted[a] > 0
        /\ counted' = [counted EXCEPT ![a] = @ + 1]
        /\ Goto(w, next)
     \/ /\ counted[a] = 0
        /\ UNCHANGED counted
        /\ Goto(w, inserting)
  /\ UNCHANGED <<agents, matches, queue, faults>>

\* The primary key refuses a second row; the error is logged.
InsertCount(w, pc, a, next) ==
  /\ At(w, pc)
  /\ counted' = [counted EXCEPT ![a] = IF @ = 0 THEN 1 ELSE @]
  /\ Goto(w, next)
  /\ UNCHANGED <<agents, matches, queue, faults>>

CountAgent1(w)  == UpdateCount(w, "count1", call[w].agent1, "new1", "count2")
InsertAgent1(w) == InsertCount(w, "new1", call[w].agent1, "count2")
\* Mutant: agent1 is counted twice.
CountAgent1Again(w) == UpdateCount(w, "count2", call[w].agent1, "new2", "enqueue1")
CountAgent2(w)  == UpdateCount(w, "count2", call[w].agent2, "new2", "enqueue1")
InsertAgent2(w) == InsertCount(w, "new2", call[w].agent2, "enqueue1")

-----------------------------------------------------------------------------
(* MatchmakingService.EnqueueAgent: read the rating, then upsert the row *)

ReadRating(w, pc, a, next) ==
  /\ At(w, pc)
  /\ call' = [call EXCEPT ![w].pc = next, ![w].seen = agents[a].elo]
  /\ UNCHANGED <<agents, matches, counted, queue, faults>>

Upsert(w, pc, a) ==
  /\ At(w, pc)
  /\ queue' = [queue EXCEPT ![a] = call[w].seen]
  /\ UNCHANGED <<agents, matches, counted, faults>>

ReadRating1(w) == ReadRating(w, "enqueue1", call[w].agent1, "upsert1")
Upsert1(w)     == /\ Upsert(w, "upsert1", call[w].agent1)
                  /\ call' = [call EXCEPT ![w].pc = "enqueue2", ![w].seen = 0]
ReadRating2(w) == ReadRating(w, "enqueue2", call[w].agent2, "upsert2")
\* Mutant: agent1 is enqueued twice, with agent2's rating.
Upsert1Again(w) == Upsert(w, "upsert2", call[w].agent1) /\ Return(w)
Upsert2(w)     == Upsert(w, "upsert2", call[w].agent2) /\ Return(w)

\* BuildMonitor.handleBuildSuccess: activate the submission, then enqueue.
BuildSucceeds(w, a) ==
  /\ At(w, "idle")
  /\ ~agents[a].active                      \* a bound: one build per agent
  /\ agents' = [agents EXCEPT ![a].active = TRUE]
  /\ call' = [call EXCEPT ![w] = [Idle EXCEPT !.pc = "enqueue", !.agent1 = a]]
  /\ UNCHANGED <<matches, counted, queue, faults>>

ReadRatingBuilt(w) == ReadRating(w, "enqueue", call[w].agent1, "upsert")
UpsertBuilt(w)     == Upsert(w, "upsert", call[w].agent1) /\ Return(w)

-----------------------------------------------------------------------------
(* Faults *)

\* The errors of UpdateStats are dropped, those of IncrementMatchCount and
\* EnqueueAgent are logged: the call goes on, without what failed.
Dropped == {"stats1", "stats2"}
Logged  == {"count1", "new1", "count2", "new2", "enqueue1", "upsert1"}

AfterError(c) ==
  CASE c.pc = "stats1" -> [c EXCEPT !.pc = "stats2"]
    [] c.pc = "stats2" -> AfterStats(c)
    [] c.pc \in {"count1", "new1"} -> [c EXCEPT !.pc = "count2"]
    [] c.pc \in {"count2", "new2"} -> [c EXCEPT !.pc = "enqueue1"]
    [] c.pc \in {"enqueue1", "upsert1"} -> [c EXCEPT !.pc = "enqueue2", !.seen = 0]

StatementFails(w) ==
  /\ ~At(w, "idle") /\ ~At(w, "execute")
  /\ faults < MaxFaults
  /\ call' = [call EXCEPT ![w] = IF @.pc \in Dropped \cup Logged THEN AfterError(@) ELSE Idle]
  /\ faults' = faults + 1
  /\ UNCHANGED <<agents, matches, counted, queue>>

\* A replica dies with the calls it was running.
ReplicaCrash(S) ==
  /\ faults < MaxFaults
  /\ \E w \in S : ~At(w, "idle")
  /\ call' = [w \in Worker |-> IF w \in S THEN Idle ELSE call[w]]
  /\ faults' = faults + 1
  /\ UNCHANGED <<agents, matches, counted, queue>>

-----------------------------------------------------------------------------
ProcessResult(w) ==
  \/ SaveResult(w) \/ UpdateAgent1(w) \/ UpdateAgent2(w)
  \/ CountAgent1(w) \/ InsertAgent1(w) \/ CountAgent2(w) \/ InsertAgent2(w)
  \/ ReadRating1(w) \/ Upsert1(w) \/ ReadRating2(w) \/ Upsert2(w)

Run(w) ==
  \/ FindAgent1(w) \/ FindAgent2(w) \/ Reject(w) \/ CreateMatch(w)
  \/ ExecutorSucceeds(w) \/ ExecutorFails(w)
  \/ ProcessResult(w)
  \/ ReadRatingBuilt(w) \/ UpsertBuilt(w)

Next ==
  \/ \E w \in Worker : Run(w) \/ StatementFails(w)
  \/ \E w \in Worker, a, b \in Agent : Begin(w, a, b)
  \/ \E w \in Worker, a \in Agent : BuildSucceeds(w, a)
  \/ \E S \in SUBSET Worker : ReplicaCrash(S)

Spec == Init /\ [][Next]_vars

-----------------------------------------------------------------------------
(* Properties *)

AgentRows == [elo: Nat, wins: Nat, losses: Nat, draws: Nat, total: Nat, active: BOOLEAN]
MatchRows == [status: {"none", "pending", "completed"},
              agent1: Agent \cup {NoOne}, agent2: Agent \cup {NoOne},
              winner: Agent \cup {NoOne}, change1: Int, change2: Int]
Copies    == [elo: Nat, total: Nat, active: BOOLEAN]
Calls     == [pc: Statements \cup {"idle"}, agent1: Agent \cup {NoOne},
              agent2: Agent \cup {NoOne}, copy1: Copies, copy2: Copies,
              match: MatchId \cup {NoOne}, winner: Agent \cup {NoOne}, seen: Nat]

\* Rows and calls have the shape of the tables and of the functions' locals.
TypeOK ==
  /\ agents  \in [Agent -> AgentRows]
  /\ matches \in [MatchId -> MatchRows]
  /\ counted \in [Agent -> Nat]
  /\ queue   \in [Agent -> Nat \cup {NotQueued}]
  /\ call    \in [Worker -> Calls]
  /\ faults  \in 0..MaxFaults

Players(m) == {matches[m].agent1, matches[m].agent2}
Completed(a) == {m \in MatchId : matches[m].status = "completed" /\ a \in Players(m)}

\* The completed matches whose UPDATE of a's row some call has still to run.
Owed(a) ==
  {m \in Completed(a) : \E w \in Worker :
     /\ call[w].match = m
     /\ \/ At(w, "stats1")
        \/ At(w, "stats2") /\ a = matches[m].agent2}

Change(a, m) == IF a = matches[m].agent1 THEN matches[m].change1 ELSE matches[m].change2

\* The history of a says so many wins, losses and draws.
Won(a, S)  == Cardinality({m \in S : matches[m].winner = a})
Drawn(a, S) == Cardinality({m \in S : matches[m].winner = NoOne})
Lost(a, S) == Cardinality({m \in S : matches[m].winner \notin {a, NoOne}})

(***************************************************************************)
(* No result is lost or applied twice, whichever way the calls interleave: *)
(* each counter of an agents row equals what the completed matches say,    *)
(* less the results still on their way; after a fault it may lag behind    *)
(* but never runs ahead.  Relates processMatchResult's two tables.         *)
(***************************************************************************)
CountersMatchHistory ==
  \A a \in Agent :
    LET applied == Completed(a) \ Owed(a)
        row == agents[a]
    IN /\ row.wins   <= Won(a, applied)
       /\ row.losses <= Lost(a, applied)
       /\ row.draws  <= Drawn(a, applied)
       /\ row.total  = row.wins + row.losses + row.draws
       /\ faults = 0 => row.total = Cardinality(applied)

SumChanges(a, S) == SumFunctionOnSet([m \in MatchId |-> Change(a, m)], S)

\* No agent has completed so many matches that a rating could have reached the
\* floor: K is at most 40.
NoFloor == \A a \in Agent : InitialElo >= 40 * Cardinality(Completed(a))

(***************************************************************************)
(* No rating change is lost to a concurrent match of the same agent: the   *)
(* rating is the initial one plus the changes recorded in the completed    *)
(* matches already applied.  The changes are computed from stale rows but  *)
(* applied by a relative UPDATE; an absolute one would fail here.          *)
(***************************************************************************)
RatingIsLedger ==
  NoFloor /\ faults = 0 =>
    \A a \in Agent :
      agents[a].elo = InitialElo + SumChanges(a, Completed(a) \ Owed(a))

(***************************************************************************)
(* The rate limiter's count never exceeds the matches an agent completed,  *)
(* and once its calls have returned without a fault an agent that played   *)
(* has a row: lost INSERT races lower the count but never to nothing.      *)
(***************************************************************************)
CountNeverAhead ==
  \A a \in Agent :
    /\ counted[a] <= Cardinality(Completed(a))
    /\ (faults = 0 /\ Completed(a) # {}
        /\ \A w \in Worker : At(w, "idle")) => counted[a] > 0

(***************************************************************************)
(* A match row is written by the one call that created it: no two calls    *)
(* hold the same match, and a call about to save its result finds the row  *)
(* pending with its own two agents.                                        *)
(***************************************************************************)
MatchHasOneOwner ==
  /\ \A v, w \in Worker : v # w /\ call[v].match # NoOne => call[v].match # call[w].match
  /\ \A w \in Worker :
       At(w, "execute") \/ At(w, "save") =>
         /\ call[w].match # NoOne
         /\ matches[call[w].match].status = "pending"
         /\ matches[call[w].match].agent1 = call[w].agent1
         /\ matches[call[w].match].agent2 = call[w].agent2

(***************************************************************************)
(* However stale the two rows read before the match, the recorded changes  *)
(* follow its result: the winner gains at most K = 40 points and loses     *)
(* none, and the loser gains none.  Relates UpdateResult's winner to       *)
(* calculateNewRating's rounding.                                          *)
(***************************************************************************)
WinnerGains ==
  \A m \in MatchId :
    matches[m].status = "completed" /\ matches[m].winner # NoOne =>
      /\ matches[m].winner \in Players(m)
      /\ Change(matches[m].winner, m) \in 0..40
      /\ \A a \in Players(m) \ {matches[m].winner} : Change(a, m) <= 0

\* What a step may do to the rows of matches.
RowsOnlyAdvance ==
  \A m \in MatchId :
    /\ matches[m].status = "completed" => matches'[m] = matches[m]
    /\ matches[m].status = "pending" =>
         /\ matches'[m].status \in {"pending", "completed"}
         /\ matches'[m].agent1 = matches[m].agent1
         /\ matches'[m].agent2 = matches[m].agent2

(***************************************************************************)
(* A completed match is history: no later step of any call, and no fault,  *)
(* changes its winner or its recorded changes, and no row ever goes back.  *)
(***************************************************************************)
HistoryIsFinal == [][RowsOnlyAdvance]_vars

(***************************************************************************)
(* EnqueueAgent reads the rating and writes it to the queue in a later     *)
(* statement, so the row may be out of date when calls overlap.  It is     *)
(* nevertheless always a rating of that same agent: the initial one and    *)
(* the changes of some of the matches it has completed.                    *)
(***************************************************************************)
QueueRatingWasReal ==
  NoFloor =>
    \A a \in Agent : queue[a] # NotQueued =>
      \E S \in SUBSET Completed(a) : queue[a] = InitialElo + SumChanges(a, S)
=============================================================================
