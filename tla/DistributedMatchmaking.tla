------------------------ MODULE DistributedMatchmaking ------------------------
(***************************************************************************)
(* The distributed mode of MatchmakingService: the rounds of Matchmaking   *)
(* as the handler of the events of MatchmakingCoordinator.  An event is    *)
(* handled under the lock, and its handler is one round; whoever is put    *)
(* into the queue is announced by an event, and the periodic trigger of    *)
(* every instance asks for a round as well.                                *)
(*                                                                         *)
(* Every step is a step of one of the two modules, or one of each taken    *)
(* together.  A process that dies takes its round and its place at the     *)
(* coordinator with it; what Redis and PostgreSQL hold stays.              *)
(***************************************************************************)
EXTENDS MatchmakingCoordinator, Sequences, SequencesExt

CONSTANTS   \* of Matchmaking
  Agent, Handler, Rating, EloRange, RangeStep, MaxEloRange, Cooldown,
  DailyLimit, Ready, Aging, NoOne, MaxFaults

VARIABLES
  queue, old, open, cool, today, play, faults,      \* of Matchmaking
  begun,     \* the instances whose handler has read its list
  outages,   \* calls that failed so far: lost messages, replies and commands
             \* of Redis, clean-ups, and queries for a list
  unseen     \* history: agents enqueued since a list was last read

Rounds == INSTANCE Matchmaking WITH Distributed <- TRUE

ASSUME RoundsAssumption == Rounds!MatchmakingAssumption

roundVars == <<queue, old, open, cool, today, play, faults>>
systemVars == <<owner, ttl, inbox, state, tries, running,
                queue, old, open, cool, today, play, faults,
                begun, outages, unseen>>

SystemInit ==
  /\ Init
  /\ Rounds!Init
  /\ begun = {}
  /\ outages = 0
  /\ unseen = {}

\* MaxFaults bounds all faults together.
MayFail == faults + outages < MaxFaults
Outage == MayFail /\ outages' = outages + 1

-----------------------------------------------------------------------------
(* Events *)

\* A message reaches those of the instances R that listen and have room.
Reach(R) ==
  IF \E i \in R : Hears(i) THEN Publish(R) ELSE UNCHANGED vars

\* PublishEvent: every instance subscribes.  Some miss the message, or all do
\* when PUBLISH fails, which is only logged.
PublishEvent ==
  \/ Reach(Instance) /\ UNCHANGED outages
  \/ Outage /\ \E R \in SUBSET Instance : R # Instance /\ Reach(R)

\* NotifyAgentEnqueued, after the row was written.  The two are one step here:
\* a list read between them has the row already, and for the others a process
\* that dies between them is one whose message reached nobody.
Announce(a) ==
  /\ PublishEvent
  /\ unseen' = unseen \cup {a}
  /\ UNCHANGED begun

\* Mutant: an instance does not hear the events it publishes itself.
AnnounceToOthers(p, a) ==
  /\ Reach(Instance \ {p})
  /\ unseen' = unseen \cup {a}
  /\ UNCHANGED <<begun, outages>>

RequeueUnheard(p) ==
  \/ Rounds!Requeue1(p) /\ AnnounceToOthers(p, play[p].agent)
  \/ Rounds!Requeue2(p) /\ AnnounceToOthers(p, play[p].opponent)

\* EnqueueAgent, for the players of a match and for a build's agent.
Requeue(p) ==
  \/ Rounds!Requeue1(p) /\ Announce(play[p].agent)
  \/ Rounds!Requeue2(p) /\ Announce(play[p].opponent)

BuildEnqueues(a) == Rounds!BuildEnqueues(a) /\ Announce(a)

\* Mutant: only agents that are enqueued cause a round.
TriggerNever == FALSE /\ UNCHANGED systemVars

\* triggerMatching: CleanupExpired, whose error is only logged, and the event
\* matching_requested.  With full buffers and nothing too old it is no step.
Trigger ==
  /\ old # {} \/ \E i \in Instance : Hears(i)
  /\ \/ PublishEvent /\ (Rounds!CleanupExpired \/ (old = {} /\ UNCHANGED roundVars))
     \/ Outage /\ Reach(Instance) /\ UNCHANGED roundVars
  /\ UNCHANGED <<begun, unseen>>

-----------------------------------------------------------------------------
(* handleEventWithLock *)

HandleEvent(i) ==
  /\ Receive(i) \/ Acquire(i) \/ Refused(i) \/ Release(i)
  /\ UNCHANGED <<roundVars, begun, outages, unseen>>

\* A subscription fails, a command of the lock, or GetWaitingAgents, so that
\* the handler returns without a list.
CallFails(i) ==
  /\ Outage
  /\ SubscribeFails(i) \/ LockError(i) \/ ReleaseError(i) \/ (i \notin begun /\ Finish(i))
  /\ UNCHANGED <<roundVars, begun, unseen>>

\* matchEnvironment reads its list; with fewer than two agents it is done.
ReadList(i) ==
  /\ state[i] = "matching" /\ i \notin begun
  /\ \/ Rounds!StartRound(i)
     \/ Len(Rounds!WaitingAgents(queue)) < 2 /\ UNCHANGED roundVars
  /\ begun' = begun \cup {i}
  /\ unseen' = {}
  /\ UNCHANGED <<vars, outages>>

\* The round is over and the handler returns.
EndRound(i) ==
  /\ i \in begun
  /\ Rounds!At(i, "idle")
  /\ Finish(i)
  /\ begun' = begun \ {i}
  /\ UNCHANGED <<roundVars, outages, unseen>>

-----------------------------------------------------------------------------
(* What concerns one of the two modules only *)

Play(p) ==
  /\ \/ Rounds!Search(p) \/ Rounds!Refuse(p) \/ Rounds!InsertMatch(p)
     \/ Rounds!Complete(p) \/ Rounds!Count1(p) \/ Rounds!Count2(p)
  /\ UNCHANGED <<vars, begun, outages, unseen>>

Challenge(h, a, b) ==
  /\ Rounds!Challenge(h, a, b)
  /\ UNCHANGED <<vars, begun, outages, unseen>>

MatchFails(p) ==
  /\ MayFail
  /\ Rounds!ExecutorError(p) \/ Rounds!NotCompleted(p) \/ Rounds!StatementFails(p)
  /\ UNCHANGED <<vars, begun, outages, unseen>>

LockTime == Tick /\ UNCHANGED <<roundVars, begun, outages, unseen>>

QueueTime ==
  /\ Rounds!Tick \/ Rounds!Midnight \/ \E a \in Agent : Rounds!GrowOld(a)
  /\ UNCHANGED <<vars, begun, outages, unseen>>

-----------------------------------------------------------------------------
(* Processes and requests that die *)

InstanceDies(i) ==
  /\ MayFail
  /\ faults' = faults + 1
  /\ Crash(i)
  /\ play' = [play EXCEPT ![i] = Rounds!Idle]
  /\ begun' = begun \ {i}
  /\ UNCHANGED <<queue, old, open, cool, today, outages, unseen>>

RequestDies(h) ==
  /\ MayFail
  /\ Rounds!Crash(h)
  /\ UNCHANGED <<vars, begun, outages, unseen>>

-----------------------------------------------------------------------------
Goroutine(i) == HandleEvent(i) \/ ReadList(i) \/ EndRound(i)
Match(p) == Play(p) \/ Requeue(p)

SystemNext ==
  \/ \E i \in Instance : Goroutine(i) \/ CallFails(i) \/ InstanceDies(i)
  \/ \E p \in Rounds!Player : Match(p) \/ MatchFails(p)
  \/ \E h \in Handler : RequestDies(h)
  \/ \E h \in Handler, a, b \in Agent : Challenge(h, a, b)
  \/ \E a \in Agent : BuildEnqueues(a)
  \/ Trigger \/ LockTime \/ QueueTime

\* Goroutines go on, the executor answers, tickers tick and time passes.
SystemFairness ==
  /\ WF_systemVars(Trigger) /\ WF_systemVars(LockTime)
  /\ \A i \in Instance : WF_systemVars(Goroutine(i))
  /\ \A p \in Rounds!Player : WF_systemVars(Match(p))

SystemSpec == SystemInit /\ [][SystemNext]_systemVars /\ SystemFairness

-----------------------------------------------------------------------------
(* Properties *)

Pending(i) ==
  inbox[i] > 0 \/ state[i] = "locking" \/ (state[i] = "matching" /\ i \notin begun)

(***************************************************************************)
(* No wake-up is lost.  An event that is refused the lock three times is   *)
(* dropped for good, and one that comes while a round is running finds a   *)
(* list read before.  Still, as long as nothing fails, somebody enqueued   *)
(* since the last list was read is known to an instance that is going to   *)
(* read the list again: the holder of the lock has the event too, unread.  *)
(***************************************************************************)
NoLostWakeup ==
  faults + outages = 0 /\ unseen # {} => \E i \in Instance : Pending(i)

(***************************************************************************)
(* An agent that is enqueued is looked at by a round sooner or later,      *)
(* although its event may be lost, dropped or die with the process that    *)
(* received it, and a key may be left behind: the periodic trigger and the *)
(* expiry of the key see to it.  Only once no instance listens any more,   *)
(* all subscriptions having failed, do triggers help nobody.               *)
(***************************************************************************)
EnqueuedIsSeen ==
  \A a \in Agent :
    a \in unseen ~> a \notin unseen \/ \A i \in Instance : state[i] = "off"

(***************************************************************************)
(* A round comes to its end, although rounds of two replicas overlap once  *)
(* one of them is late, take agents from each other's lists and range, and *)
(* calls fail in them: a replica that starts a round is not lost to        *)
(* matchmaking, nor is its event loop, which waits for the round.          *)
(***************************************************************************)
RoundEnds == \A i \in Instance : i \in begun ~> i \notin begun

\* Whoever executes a match of a without being kept apart from the others: a
\* round whose lock has expired, or a user's request.
Unlocked(a) == {p \in Late \cup Handler : p \in Rounds!InProgress(a)}

(***************************************************************************)
(* What the lock is for: an agent plays one match at a time, and one more  *)
(* for each round that outlives its key and each user that takes the       *)
(* agent at that moment.  Each fault may leave one more of its matches     *)
(* open, and failed calls none: not a lost reply to SETNX, a key nobody    *)
(* releases, or a release too late.                                        *)
(***************************************************************************)
OneMatchAtATime ==
  \A a \in Agent : open[a] <= 1 + Cardinality(Unlocked(a)) + faults
=============================================================================
