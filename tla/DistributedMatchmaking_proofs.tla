-------------------- MODULE DistributedMatchmaking_proofs --------------------
(***************************************************************************)
(* The distributed mode, for any agents, instances, times and limits.      *)
(*                                                                         *)
(* First the lock alone (MatchmakingCoordinator): TypeOK and               *)
(* KeyCoversHandler together are inductive; mutual exclusion, the fate of  *)
(* keys and the refinement of OneMatcher follow.  Then the mode as a       *)
(* whole: its steps are steps of MatchmakingCoordinator and of             *)
(* Matchmaking, so that the invariants of both carry over; what relates    *)
(* the two gives the properties of the composition.                        *)
(***************************************************************************)
EXTENDS DistributedMatchmaking, FiniteSetTheorems, TLAPS

-----------------------------------------------------------------------------
(* The lock                                                                 *)

\* The types are inductive by themselves.
LEMMA TypeStep == TypeOK /\ [Next]_vars => TypeOK'
<1> SUFFICES ASSUME TypeOK, [Next]_vars PROVE TypeOK'
  OBVIOUS
<1> USE CoordinatorAssumption DEF TypeOK
<1>1. ASSUME NEW R \in SUBSET Instance, Publish(R) PROVE TypeOK'
  BY <1>1 DEF Publish, Hears
<1>2. ASSUME NEW i \in Instance, Receive(i) PROVE TypeOK'
  BY <1>2 DEF Receive
<1>3. ASSUME NEW i \in Instance, Acquire(i) PROVE TypeOK'
  BY <1>3 DEF Acquire
<1>4. ASSUME NEW i \in Instance, Refused(i) PROVE TypeOK'
  BY <1>4 DEF Refused
<1>5. ASSUME NEW i \in Instance, LockError(i) PROVE TypeOK'
  BY <1>5 DEF LockError
<1>6. ASSUME NEW i \in Instance, Finish(i) PROVE TypeOK'
  BY <1>6 DEF Finish
<1>7. ASSUME NEW i \in Instance, Release(i) PROVE TypeOK'
  BY <1>7 DEF Release
<1>8. ASSUME NEW i \in Instance, ReleaseError(i) PROVE TypeOK'
  BY <1>8 DEF ReleaseError
<1>9. ASSUME NEW i \in Instance, Crash(i) PROVE TypeOK'
  BY <1>9 DEF Crash
<1>10. CASE Tick
  BY <1>10 DEF Tick
<1>11. CASE UNCHANGED vars
  BY <1>11 DEF vars
<1>12. ASSUME NEW i \in Instance, SubscribeFails(i) PROVE TypeOK'
  BY <1>12 DEF SubscribeFails
<1> QED
  BY <1>1, <1>2, <1>3, <1>4, <1>5, <1>6, <1>7, <1>8, <1>9, <1>10, <1>11, <1>12
     DEF Next, Work

\* The key, its expiry and the goroutines' places keep their types.
THEOREM TypeCorrect == Spec => []TypeOK
<1>1. Init => TypeOK
  BY CoordinatorAssumption DEF Init, TypeOK
<1> QED
  BY <1>1, TypeStep, PTL DEF Spec

-----------------------------------------------------------------------------
\* With the types, so is the hold on its key of a handler that is in time.
LEMMA KeyStep == TypeOK /\ KeyCoversHandler /\ [Next]_vars => KeyCoversHandler'
<1> SUFFICES ASSUME TypeOK, KeyCoversHandler, [Next]_vars,
                    NEW j \in Instance, state'[j] = "matching", running'[j] < TTL
             PROVE  owner' = j /\ ttl' + running'[j] = TTL
  BY CoordinatorAssumption, TypeStep DEF KeyCoversHandler, Matching, Late, TypeOK
<1> USE CoordinatorAssumption DEF TypeOK
<1>0. state[j] = "matching" /\ running[j] < TTL => owner = j /\ ttl + running[j] = TTL
  BY DEF KeyCoversHandler, Matching, Late
<1>1. ASSUME NEW R \in SUBSET Instance, Publish(R) PROVE owner' = j /\ ttl' + running'[j] = TTL
  BY <1>0, <1>1 DEF Publish
<1>2. ASSUME NEW i \in Instance, Receive(i) PROVE owner' = j /\ ttl' + running'[j] = TTL
  BY <1>0, <1>2 DEF Receive
<1>3. ASSUME NEW i \in Instance, Acquire(i) PROVE owner' = j /\ ttl' + running'[j] = TTL
  BY <1>0, <1>3 DEF Acquire
<1>4. ASSUME NEW i \in Instance, Refused(i) PROVE owner' = j /\ ttl' + running'[j] = TTL
  BY <1>0, <1>4 DEF Refused
<1>5. ASSUME NEW i \in Instance, LockError(i) PROVE owner' = j /\ ttl' + running'[j] = TTL
  BY <1>0, <1>5 DEF LockError
<1>6. ASSUME NEW i \in Instance, Finish(i) PROVE owner' = j /\ ttl' + running'[j] = TTL
  BY <1>0, <1>6 DEF Finish
<1>7. ASSUME NEW i \in Instance, Release(i) PROVE owner' = j /\ ttl' + running'[j] = TTL
  BY <1>0, <1>7 DEF Release
<1>8. ASSUME NEW i \in Instance, ReleaseError(i) PROVE owner' = j /\ ttl' + running'[j] = TTL
  BY <1>0, <1>8 DEF ReleaseError
<1>9. ASSUME NEW i \in Instance, Crash(i) PROVE owner' = j /\ ttl' + running'[j] = TTL
  BY <1>0, <1>9 DEF Crash
<1>10. CASE Tick
  <2>1. state[j] = "matching" /\ running[j] + 1 < TTL /\ running[j] \in Nat
    BY <1>10 DEF Tick
  <2>2. ttl > 1
    BY <2>1, <1>0
  <2> QED
    BY <2>1, <2>2, <1>0, <1>10 DEF Tick
<1>11. CASE UNCHANGED vars
  BY <1>0, <1>11 DEF vars
<1>12. ASSUME NEW i \in Instance, SubscribeFails(i) PROVE owner' = j /\ ttl' + running'[j] = TTL
  BY <1>0, <1>12 DEF SubscribeFails
<1> QED
  BY <1>1, <1>2, <1>3, <1>4, <1>5, <1>6, <1>7, <1>8, <1>9, <1>10, <1>11, <1>12
     DEF Next, Work

\* Until its time is up, the key of a handler that runs is its own and has as
\* long to live as TTL less the handler's time, however long handlers run.
THEOREM KeyHeld == Spec => []KeyCoversHandler
<1>1. Init => KeyCoversHandler
  BY DEF Init, KeyCoversHandler, Matching
<1> QED
  BY <1>1, KeyStep, TypeCorrect, PTL DEF Spec

\* Of the instances that match, at most one has not outlived its key; if two
\* match at once, it is for no other reason.
THEOREM MutualExclusion == Spec => []AtMostOneInTime
<1>1. KeyCoversHandler => AtMostOneInTime
  BY DEF KeyCoversHandler, AtMostOneInTime
<1> QED
  BY <1>1, KeyHeld, PTL

-----------------------------------------------------------------------------
LEMMA GoneWhenDone == TypeOK /\ [Next]_vars => [GoesWhenDone]_vars
<1> SUFFICES ASSUME TypeOK, Next, NEW j \in Instance, owner = j, owner' # j
             PROVE  /\ owner' = Nobody
                    /\ ttl = 1 \/ (state[j] = "releasing" /\ state'[j] = "receiving")
  BY DEF GoesWhenDone
<1> USE CoordinatorAssumption DEF TypeOK
<1>1. CASE Tick
  BY <1>1 DEF Tick
<1>2. ASSUME NEW i \in Instance, Release(i)
      PROVE  owner' = Nobody /\ state[j] = "releasing" /\ state'[j] = "receiving"
  BY <1>2 DEF Release
<1>3. ASSUME NEW i \in Instance, Acquire(i) \/ LockError(i) PROVE FALSE
  BY <1>3 DEF Acquire, LockError
<1>4. ASSUME NEW i \in Instance,
             \/ Receive(i) \/ Refused(i) \/ Finish(i) \/ ReleaseError(i) \/ Crash(i)
             \/ SubscribeFails(i)
      PROVE  FALSE
  BY <1>4 DEF Receive, Refused, Finish, ReleaseError, Crash, SubscribeFails
<1>5. ASSUME NEW R \in SUBSET Instance, Publish(R) PROVE FALSE
  BY <1>5 DEF Publish
<1> QED
  BY <1>1, <1>2, <1>3, <1>4, <1>5 DEF Next, Work

\* A key goes when its time is up or when its own instance releases it,
\* however long handlers run.
THEOREM KeysGoProperly == Spec => KeyGoesOnlyWhenDone
BY GoneWhenDone, TypeCorrect, PTL DEF Spec, KeyGoesOnlyWhenDone

-----------------------------------------------------------------------------
\* A step of the coordinator starts or ends one handler, makes one late, or is
\* a stutter: of the handlers that become late with a tick, one was in time.
LEMMA AbstractStep ==
  TypeOK /\ KeyCoversHandler /\ [Next]_vars => [Abstract!Next]_<<Matching, Late>>
<1> SUFFICES ASSUME TypeOK, KeyCoversHandler, Next
             PROVE  Abstract!Next \/ UNCHANGED <<Matching, Late>>
  BY DEF Matching, Late, vars
<1> USE CoordinatorAssumption DEF TypeOK
<1>1. ASSUME NEW i \in Instance, Acquire(i) PROVE Abstract!Start(i)
  <2>1. Matching \subseteq Late
    BY <1>1 DEF KeyCoversHandler, Acquire, Matching
  <2>2. i \notin Matching /\ Matching' = Matching \cup {i}
    BY <1>1 DEF Acquire, Matching
  <2>3. Late' = Late
    BY <1>1, <2>2 DEF Acquire, Late, Matching
  <2> QED
    BY <2>1, <2>2, <2>3 DEF Abstract!Start
<1>2. ASSUME NEW i \in Instance, Finish(i) PROVE Abstract!Stop(i)
  <2>1. i \in Matching /\ Matching' = Matching \ {i}
    BY <1>2 DEF Finish, Matching
  <2>2. Late' = Late \ {i}
    BY <1>2 DEF Finish, Late, Matching
  <2> QED
    BY <2>1, <2>2 DEF Abstract!Stop
<1>3. ASSUME NEW i \in Instance, Crash(i)
      PROVE  Abstract!Stop(i) \/ UNCHANGED <<Matching, Late>>
  <2>1. Matching' = Matching \ {i}
    BY <1>3 DEF Crash, Matching
  <2>2. Late' = Late \ {i}
    BY <1>3 DEF Crash, Late, Matching
  <2>3. Late \subseteq Matching
    BY DEF Late
  <2> QED
    BY <2>1, <2>2, <2>3 DEF Abstract!Stop
<1>4. ASSUME NEW i \in Instance,
             \/ Receive(i) \/ Refused(i) \/ LockError(i) \/ Release(i) \/ ReleaseError(i)
             \/ SubscribeFails(i)
      PROVE  UNCHANGED <<Matching, Late>>
  <2>1. Matching' = Matching /\ running' = running
    BY <1>4 DEF Receive, Refused, LockError, Release, ReleaseError, SubscribeFails, Matching
  <2> QED
    BY <2>1 DEF Late
<1>5. ASSUME NEW R \in SUBSET Instance, Publish(R) PROVE UNCHANGED <<Matching, Late>>
  BY <1>5 DEF Publish, Matching, Late
<1>6. CASE Tick
  <2>1. /\ Matching' = Matching
        /\ \A i \in Matching : running'[i] = running[i] + 1 /\ running[i] \in Nat
    BY <1>6 DEF Tick, Matching
  <2>2. Late \subseteq Late' /\ Late' \subseteq Matching
    BY <2>1 DEF Late
  <2>3. CASE Late' = Late
    BY <2>1, <2>3
  <2>4. CASE Late' # Late
    <3>1. PICK i \in Late' : i \notin Late
      BY <2>2, <2>4
    <3>2. i \in Matching \ Late /\ i \in Instance
      BY <2>2, <3>1 DEF Matching
    <3>3. \A j \in Matching \ Late : j = i
      BY <3>2 DEF KeyCoversHandler
    <3>4. Late' = Late \cup {i}
      BY <2>2, <3>1, <3>3
    <3> QED
      BY <2>1, <3>2, <3>4 DEF Abstract!Overrun, Abstract!Next
  <2> QED
    BY <2>3, <2>4
<1> QED
  BY <1>1, <1>2, <1>3, <1>4, <1>5, <1>6 DEF Next, Work, Abstract!Next

\* The coordinator implements OneMatcher, for handlers of any length.
THEOREM ImplementsOneMatcher == Spec => OneMatcherSpec
<1>1. Init => Abstract!Init
  BY DEF Init, Abstract!Init, Matching, Late
<1> QED
  BY <1>1, AbstractStep, TypeCorrect, KeyHeld, PTL DEF Spec, OneMatcherSpec, Abstract!Spec

-----------------------------------------------------------------------------
(* The rounds of the instances                                              *)

RP == INSTANCE Matchmaking_proofs WITH Distributed <- TRUE

\* The assumptions of Matchmaking, as its proofs have them.
LEMMA Assumed == RP!MatchmakingAssumption
BY RoundsAssumption DEF RP!MatchmakingAssumption, Rounds!MatchmakingAssumption,
   RP!IsFiniteSet, Rounds!IsFiniteSet

LEMMA SamePlayers == Rounds!Player = RP!Player /\ RP!Player = Instance \cup Handler
BY DEF Rounds!Player, RP!Player

-----------------------------------------------------------------------------
(* The module as it is used here, and as it was proved about: the same text *)

LEMMA SameRows ==
  /\ \A s, S : Rounds!Without(s, S) = RP!Without(s, S)
  /\ \A rows : Rounds!WaitingAgents(rows) = RP!WaitingAgents(rows)
<1>1. ASSUME NEW s, NEW S PROVE Rounds!Without(s, S) = RP!Without(s, S)
  BY DEF Rounds!Without, RP!Without
<1>2. ASSUME NEW rows PROVE Rounds!WaitingAgents(rows) = RP!WaitingAgents(rows)
  BY <1>1 DEF Rounds!WaitingAgents, RP!WaitingAgents, Rounds!Eligible, RP!Eligible
<1> QED
  BY <1>1, <1>2

LEMMA SameStep ==
  ASSUME NEW p \in RP!Player
  PROVE  /\ Rounds!At(p, "idle") <=> RP!At(p, "idle")
         /\ \/ Rounds!Search(p) \/ Rounds!Refuse(p) \/ Rounds!InsertMatch(p)
            \/ Rounds!Complete(p) \/ Rounds!Count1(p) \/ Rounds!Count2(p)
            \/ Rounds!Requeue1(p) \/ Rounds!Requeue2(p)
            => RP!Step(p)
         /\ Rounds!ExecutorError(p) => RP!ExecutorError(p)
         /\ Rounds!NotCompleted(p) => RP!NotCompleted(p)
         /\ Rounds!StatementFails(p) => RP!StatementFails(p)
         /\ Rounds!Crash(p) => RP!Crash(p)
<1> USE DEF Rounds!At, RP!At, Rounds!Goto, RP!Goto, Rounds!Idle, RP!Idle,
            Rounds!Continue, RP!Continue, Rounds!Skip, RP!Skip, Rounds!Matched,
            RP!Matched, Rounds!Eligible, RP!Eligible, Rounds!Abs, RP!Abs,
            Rounds!Distance, RP!Distance, Rounds!FindOpponent, RP!FindOpponent,
            Rounds!Found, RP!Found, Rounds!Meet, RP!Meet, Rounds!Widen, RP!Widen,
            Rounds!Playable, RP!Playable, Rounds!Count, RP!Count, Rounds!Enqueue,
            RP!Enqueue, Rounds!Waiting, RP!Waiting, Rounds!Fault, RP!Fault
<1>1. Rounds!Search(p) => RP!Search(p)
  BY DEF Rounds!Search, RP!Search
<1>2. Rounds!Refuse(p) => RP!Refuse(p)
  BY DEF Rounds!Refuse, RP!Refuse
<1>3. Rounds!InsertMatch(p) => RP!InsertMatch(p)
  BY DEF Rounds!InsertMatch, RP!InsertMatch
<1>4. Rounds!Complete(p) => RP!Complete(p)
  BY DEF Rounds!Complete, RP!Complete
<1>5. Rounds!Count1(p) => RP!Count1(p)
  BY DEF Rounds!Count1, RP!Count1
<1>6. Rounds!Count2(p) => RP!Count2(p)
  BY DEF Rounds!Count2, RP!Count2
<1>7. Rounds!Requeue1(p) => RP!Requeue1(p)
  BY SameRows DEF Rounds!Requeue1, RP!Requeue1
<1>8. Rounds!Requeue2(p) => RP!Requeue2(p)
  BY SameRows DEF Rounds!Requeue2, RP!Requeue2
<1>9. Rounds!ExecutorError(p) => RP!ExecutorError(p)
  BY DEF Rounds!ExecutorError, RP!ExecutorError
<1>10. Rounds!NotCompleted(p) => RP!NotCompleted(p)
  BY DEF Rounds!NotCompleted, RP!NotCompleted
<1>11. Rounds!StatementFails(p) => RP!StatementFails(p)
  BY DEF Rounds!StatementFails, RP!StatementFails
<1>12. Rounds!Crash(p) => RP!Crash(p)
  BY DEF Rounds!Crash, RP!Crash
<1> QED
  BY <1>1, <1>2, <1>3, <1>4, <1>5, <1>6, <1>7, <1>8, <1>9, <1>10, <1>11, <1>12 DEF RP!Step

LEMMA SameElsewhere ==
  /\ \A i \in Instance : Rounds!StartRound(i) => RP!StartRound(i)
  /\ \A h \in Handler, a, b \in Agent : Rounds!Challenge(h, a, b) => RP!Challenge(h, a, b)
  /\ \A a \in Agent : Rounds!BuildEnqueues(a) \/ Rounds!GrowOld(a) =>
                     RP!BuildEnqueues(a) \/ RP!GrowOld(a)
  /\ Rounds!Tick \/ Rounds!Midnight \/ Rounds!CleanupExpired =>
       RP!Tick \/ RP!Midnight \/ RP!CleanupExpired
<1> USE DEF Rounds!At, RP!At, Rounds!Idle, RP!Idle, Rounds!Continue, RP!Continue,
            Rounds!Eligible, RP!Eligible, Rounds!Enqueue, RP!Enqueue, Rounds!Waiting,
            RP!Waiting
<1>1. ASSUME NEW i \in Instance, Rounds!StartRound(i) PROVE RP!StartRound(i)
  BY <1>1, SameRows
     DEF Rounds!StartRound, RP!StartRound, Rounds!MatchEnvironment, RP!MatchEnvironment
<1>2. ASSUME NEW h \in Handler, NEW a \in Agent, NEW b \in Agent, Rounds!Challenge(h, a, b)
      PROVE  RP!Challenge(h, a, b)
  BY <1>2 DEF Rounds!Challenge, RP!Challenge
<1>3. ASSUME NEW a \in Agent, Rounds!BuildEnqueues(a) PROVE RP!BuildEnqueues(a)
  BY <1>3, SameRows DEF Rounds!BuildEnqueues, RP!BuildEnqueues
<1>4. ASSUME NEW a \in Agent, Rounds!GrowOld(a) PROVE RP!GrowOld(a)
  BY <1>4 DEF Rounds!GrowOld, RP!GrowOld
<1>5. Rounds!Tick => RP!Tick
  BY DEF Rounds!Tick, RP!Tick
<1>6. Rounds!Midnight => RP!Midnight
  BY DEF Rounds!Midnight, RP!Midnight
<1>7. Rounds!CleanupExpired => RP!CleanupExpired
  BY SameRows DEF Rounds!CleanupExpired, RP!CleanupExpired, Rounds!Expire, RP!Expire
<1> QED
  BY <1>1, <1>2, <1>3, <1>4, <1>5, <1>6, <1>7

-----------------------------------------------------------------------------
(* What each of the two modules sees of a step of the system *)

LEMMA CoordinatorStep == SystemNext => [Next]_vars
<1> SUFFICES ASSUME SystemNext PROVE Next \/ UNCHANGED vars
  OBVIOUS
<1>1. ASSUME PublishEvent PROVE Next \/ UNCHANGED vars
  BY <1>1 DEF PublishEvent, Reach, Next
<1>2. ASSUME NEW i \in Instance, Goroutine(i) \/ CallFails(i) \/ InstanceDies(i)
      PROVE  Next \/ UNCHANGED vars
  BY <1>2 DEF Goroutine, CallFails, InstanceDies, HandleEvent, ReadList, EndRound, Next, Work
<1>3. ASSUME NEW p \in Rounds!Player, Match(p) \/ MatchFails(p) PROVE Next \/ UNCHANGED vars
  BY <1>1, <1>3 DEF Match, Play, Requeue, Announce, MatchFails
<1>4. ASSUME NEW h \in Handler, RequestDies(h) PROVE UNCHANGED vars
  BY <1>4 DEF RequestDies
<1>5. ASSUME NEW h \in Handler, NEW a \in Agent, NEW b \in Agent, Challenge(h, a, b)
      PROVE  UNCHANGED vars
  BY <1>5 DEF Challenge
<1>6. ASSUME NEW a \in Agent, BuildEnqueues(a) PROVE Next \/ UNCHANGED vars
  BY <1>1, <1>6 DEF BuildEnqueues, Announce
<1>7. CASE Trigger \/ LockTime \/ QueueTime
  BY <1>1, <1>7 DEF Trigger, LockTime, QueueTime, Next, Reach
<1> QED
  BY <1>2, <1>3, <1>4, <1>5, <1>6, <1>7 DEF SystemNext

\* A process that dies may have been running no round; otherwise the rounds of
\* the system are those of Matchmaking.
LEMMA RoundsStep ==
  SystemNext =>
    \/ RP!Next \/ UNCHANGED roundVars
    \/ \E i \in Instance : InstanceDies(i)
<1> SUFFICES ASSUME SystemNext, ~\E i \in Instance : InstanceDies(i)
             PROVE  RP!Next \/ UNCHANGED roundVars
  OBVIOUS
<1>1. ASSUME NEW i \in Instance, Goroutine(i) \/ CallFails(i)
      PROVE  RP!Next \/ UNCHANGED roundVars
  BY <1>1, SameElsewhere DEF Goroutine, CallFails, HandleEvent, ReadList, EndRound, RP!Next
<1>2. ASSUME NEW p \in Rounds!Player, Match(p) \/ MatchFails(p) PROVE RP!Next
  BY <1>2, SamePlayers, SameStep DEF Match, Play, Requeue, MatchFails, RP!Next
<1>3. ASSUME NEW h \in Handler, RequestDies(h) PROVE RP!Next
  BY <1>3, SamePlayers, SameStep DEF RequestDies, RP!Next
<1>4. ASSUME NEW h \in Handler, NEW a \in Agent, NEW b \in Agent, Challenge(h, a, b)
      PROVE  RP!Next
  BY <1>4, SameElsewhere DEF Challenge, RP!Next
<1>5. ASSUME NEW a \in Agent, BuildEnqueues(a) PROVE RP!Next
  BY <1>5, SameElsewhere DEF BuildEnqueues, RP!Next
<1>6. CASE Trigger \/ LockTime \/ QueueTime
  BY <1>6, SameElsewhere DEF Trigger, LockTime, QueueTime, RP!Next
<1> QED
  BY <1>1, <1>2, <1>3, <1>4, <1>5, <1>6 DEF SystemNext
-----------------------------------------------------------------------------
(* The invariant of the rounds in the system *)

LEMMA InitSystem == SystemInit => Init /\ RP!RoundsInv
<1>1. Rounds!Init => RP!Init
  BY DEF Rounds!Init, RP!Init, Rounds!Idle, RP!Idle, Rounds!Player, RP!Player
<1>2. RP!Init => RP!RoundsInv
  BY RP!InitRounds, RoundsAssumption
     DEF Rounds!MatchmakingAssumption, RP!IsFiniteSet, Rounds!IsFiniteSet
<1> QED
  BY <1>1, <1>2 DEF SystemInit

LEMMA RoundsKept == RP!RoundsInv /\ [SystemNext]_systemVars => RP!RoundsInv'
<1> SUFFICES ASSUME RP!RoundsInv, [SystemNext]_systemVars PROVE RP!RoundsInv'
  OBVIOUS
<1> USE RoundsAssumption DEF Rounds!MatchmakingAssumption, RP!IsFiniteSet, Rounds!IsFiniteSet
<1>1. CASE RP!Next \/ UNCHANGED roundVars
  BY <1>1, RP!NextRounds DEF RP!vars, roundVars
<1>2. ASSUME NEW i \in Instance, InstanceDies(i) PROVE RP!RoundsInv'
  <2>1. /\ i \in RP!Player
        /\ play' = [play EXCEPT ![i] = RP!Idle]
        /\ open' = open /\ faults' = faults + 1
    BY <1>2 DEF RP!Player, InstanceDies, RP!Idle, Rounds!Idle
  <2>2. RP!Shape /\ faults \in Nat /\ faults' \in Nat /\ faults' >= faults
    BY <2>1 DEF RP!RoundsInv, RP!Counted
  <2>3. RP!Moves(i) /\ play'[i].pc = "idle" /\ RP!Apart(i)'
    BY <2>1, <2>2, RP!Idles
  <2>4. CASE RP!At(i, "execute")
    BY <2>1, <2>3, <2>4, RP!GivenUp
  <2>5. CASE ~RP!At(i, "execute")
    BY <2>1, <2>2, <2>3, <2>5, RP!QuietStep
  <2> QED
    BY <2>4, <2>5
<1>3. CASE UNCHANGED systemVars
  BY <1>1, <1>3 DEF systemVars, roundVars
<1> QED
  BY <1>1, <1>2, <1>3, RoundsStep
-----------------------------------------------------------------------------
(* How the coordinator and the rounds belong together *)

\* An instance in a round is handling an event; the others run no match.
Linked ==
  /\ begun \subseteq Instance
  /\ \A i \in begun : state[i] = "matching"
  /\ \A i \in Instance : i \notin begun => RP!At(i, "idle")

\* A step of p in its own record only, p being in a round or a request.
LEMMA LinkedMove ==
  ASSUME RP!Shape, Linked, NEW p \in RP!Player, RP!Moves(p), p \in Instance => p \in begun',
         state' = state, begun \subseteq begun', begun' \subseteq Instance,
         \A i \in begun' : state[i] = "matching"
  PROVE  Linked'
<1>1. ASSUME NEW i \in Instance, i \notin begun' PROVE play'[i] = play[i] /\ RP!At(i, "idle")
  BY <1>1, Assumed, RP!Others DEF Linked, RP!Player
<1> QED
  BY <1>1 DEF Linked, RP!At

\* A step of the coordinator alone, which touches no handler in a round.
LEMMA LinkedEvent ==
  ASSUME TypeOK, Linked, begun' = begun, play' = play,
         \A i \in begun : state'[i] = state[i]
  PROVE  Linked'
BY DEF Linked, RP!At

\* Events are published without anybody's state changing.
LEMMA AnnounceOnly ==
  /\ PublishEvent => state' = state
  /\ Trigger => UNCHANGED <<state, begun, play, faults, unseen>>
  /\ \A a : Announce(a) => state' = state /\ begun' = begun
<1>1. \A R : Reach(R) => state' = state
  BY DEF Reach, Publish, vars
<1>2. PublishEvent => state' = state
  BY <1>1 DEF PublishEvent
<1> QED
  BY <1>1, <1>2 DEF Announce, Trigger, Rounds!CleanupExpired, roundVars

LEMMA LinkedStep == TypeOK /\ RP!RoundsInv /\ Linked /\ [SystemNext]_systemVars => Linked'
<1> SUFFICES ASSUME TypeOK, RP!Shape, Linked, [SystemNext]_systemVars PROVE Linked'
  BY DEF RP!RoundsInv
<1>1. ASSUME NEW i \in Instance, HandleEvent(i) \/ CallFails(i) PROVE Linked'
  <2>1. \A j \in begun : state'[j] = state[j]
    BY <1>1 DEF HandleEvent, CallFails, Receive, Acquire, Refused, Release, LockError,
                ReleaseError, SubscribeFails, Finish, TypeOK, Linked
  <2> QED
    BY <1>1, <2>1, LinkedEvent DEF HandleEvent, CallFails, roundVars
<1>2. ASSUME NEW i \in Instance, ReadList(i) PROVE Linked'
  <2>1. /\ begun' = begun \cup {i} /\ state[i] = "matching" /\ state' = state
    BY <1>2 DEF ReadList, vars
  <2>2. CASE Rounds!StartRound(i)
    <3>1. i \in RP!Player /\ RP!Moves(i)
      BY <2>2, SameElsewhere, Assumed, RP!OneBegins DEF RP!Player
    <3> QED
      BY <2>1, <3>1, LinkedMove DEF Linked
  <2>3. CASE UNCHANGED roundVars
    BY <2>1, <2>3 DEF roundVars, Linked, RP!At
  <2> QED
    BY <1>2, <2>2, <2>3 DEF ReadList
<1>3. ASSUME NEW i \in Instance, EndRound(i) PROVE Linked'
  BY <1>3 DEF EndRound, Finish, roundVars, Rounds!At, RP!At, Linked, TypeOK
<1>4. ASSUME NEW i \in Instance, InstanceDies(i) PROVE Linked'
  BY <1>4 DEF InstanceDies, Crash, Rounds!Idle, RP!At, Linked, TypeOK, RP!Shape, RP!Player
<1>5. ASSUME NEW p \in Rounds!Player, Match(p) \/ MatchFails(p) PROVE Linked'
  <2>1. p \in RP!Player /\ RP!Moves(p) /\ ~RP!At(p, "idle")
    <3>1. p \in RP!Player
      BY SamePlayers
    <3>2. \/ RP!Step(p) \/ RP!ExecutorError(p) \/ RP!NotCompleted(p) \/ RP!StatementFails(p)
      BY <1>5, <3>1, SameStep DEF Match, MatchFails, Play, Requeue
    <3> QED
      BY <3>1, <3>2, Assumed, RP!OneMoves
  <2>2. state' = state /\ begun' = begun
    BY <1>5, AnnounceOnly DEF Match, MatchFails, Play, Requeue, vars
  <2>3. p \in Instance => p \in begun
    BY <2>1 DEF Linked
  <2> QED
    BY <2>1, <2>2, <2>3, LinkedMove DEF Linked
<1>6. ASSUME NEW h \in Handler,
             RequestDies(h) \/ \E a, b \in Agent : Challenge(h, a, b)
      PROVE  Linked'
  <2>1. h \in RP!Player /\ h \notin Instance
    BY Assumed DEF RP!Player, RP!MatchmakingAssumption
  <2>2. CASE RequestDies(h)
    <3>1. RP!Moves(h)
      BY <2>1, <2>2, SameStep, Assumed, RP!OneMoves DEF RequestDies
    <3> QED
      BY <2>1, <2>2, <3>1, LinkedMove DEF RequestDies, Linked, vars
  <2>3. CASE \E a, b \in Agent : Challenge(h, a, b)
    <3>1. RP!Moves(h)
      BY <2>3, SameElsewhere, Assumed, RP!OneBegins DEF Challenge
    <3> QED
      BY <2>1, <2>3, <3>1, LinkedMove DEF Challenge, Linked, vars
  <2> QED
    BY <1>6, <2>2, <2>3
<1>7. ASSUME NEW a \in Agent, BuildEnqueues(a) PROVE Linked'
  BY <1>7, AnnounceOnly, LinkedEvent DEF BuildEnqueues, Rounds!BuildEnqueues
<1>8. CASE Trigger \/ LockTime
  BY <1>8, AnnounceOnly, LinkedEvent DEF LockTime, Tick, roundVars
<1>9. CASE QueueTime
  BY <1>9, LinkedEvent
     DEF QueueTime, Rounds!Tick, Rounds!Midnight, Rounds!GrowOld, vars
<1>10. CASE UNCHANGED systemVars
  BY <1>10, LinkedEvent DEF systemVars
<1> QED
  BY <1>1, <1>2, <1>3, <1>4, <1>5, <1>6, <1>7, <1>8, <1>9, <1>10 DEF SystemNext, Goroutine

-----------------------------------------------------------------------------
(* The theorems that rest on the two modules and their link *)

\* The state of the system as the two modules and their link describe it.
SystemInv == TypeOK /\ KeyCoversHandler /\ RP!RoundsInv /\ Linked

LEMMA SystemInvariant == SystemSpec => []SystemInv
<1>1. SystemInit => SystemInv
  <2> SUFFICES ASSUME SystemInit PROVE SystemInv
    OBVIOUS
  <2>1. TypeOK /\ KeyCoversHandler
    BY InitSystem, CoordinatorAssumption DEF Init, TypeOK, KeyCoversHandler, Matching
  <2>2. Linked
    BY DEF SystemInit, Rounds!Init, Linked, RP!At, Rounds!Idle, Rounds!Player
  <2> QED
    BY <2>1, <2>2, InitSystem DEF SystemInv
<1>2. SystemInv /\ [SystemNext]_systemVars => SystemInv'
  <2> SUFFICES ASSUME SystemInv, [SystemNext]_systemVars PROVE SystemInv'
    OBVIOUS
  <2>1. [Next]_vars
    BY CoordinatorStep DEF systemVars, vars
  <2> QED
    BY <2>1, TypeStep, KeyStep, RoundsKept, LinkedStep DEF SystemInv
<1> QED
  BY <1>1, <1>2, PTL DEF SystemSpec

\* The lock does its part under the rounds of the system as well: until its time
\* is up, the key of a running round is its own.
THEOREM KeyHeldInSystem == SystemSpec => [](TypeOK /\ KeyCoversHandler)
<1>1. SystemInv => TypeOK /\ KeyCoversHandler
  BY DEF SystemInv
<1> QED
  BY <1>1, SystemInvariant, PTL

\* Hence the rounds of all the instances behave as those of one matcher, but for
\* rounds that outlive their key.
THEOREM SystemImplementsOneMatcher == SystemSpec => OneMatcherSpec
<1>1. SystemInit => Abstract!Init
  BY InitSystem DEF Init, Abstract!Init, Matching, Late
<1>2. SystemInv /\ [SystemNext]_systemVars => [Abstract!Next]_<<Matching, Late>>
  <2> SUFFICES ASSUME SystemInv, [SystemNext]_systemVars
               PROVE  [Abstract!Next]_<<Matching, Late>>
    OBVIOUS
  <2>1. [Next]_vars
    BY CoordinatorStep DEF systemVars, vars
  <2> QED
    BY <2>1, AbstractStep DEF SystemInv
<1> QED
  BY <1>1, <1>2, SystemInvariant, PTL DEF SystemSpec, OneMatcherSpec, Abstract!Spec

\* Whoever plays an agent's match plays it under the lock, which is one, or is
\* late, or is a user.
LEMMA OneLocked ==
  ASSUME SystemInv, NEW a \in Agent
  PROVE  LET u == Cardinality(Unlocked(a))
             m == Cardinality(Rounds!InProgress(a))
         IN  u \in Nat /\ m \in Nat /\ m <= 1 + u
<1> DEFINE U == Unlocked(a)
           M == Rounds!InProgress(a)
<1>1. U \subseteq M /\ M \subseteq Instance \cup Handler
  BY DEF Unlocked, Rounds!InProgress, Rounds!Player
<1>2. IsFiniteSet(Instance \cup Handler)
  <2>1. IsFiniteSet(Instance) /\ IsFiniteSet(Handler)
    BY Assumed DEF RP!MatchmakingAssumption, RP!IsFiniteSet, IsFiniteSet
  <2> QED
    BY <2>1, FS_Union
<1>3. IsFiniteSet(U) /\ IsFiniteSet(M)
  BY <1>1, <1>2, FS_Subset
<1>4. \A p \in M \ U : p = owner
  <2> SUFFICES ASSUME NEW p \in M, p \notin U PROVE p = owner
    OBVIOUS
  <2>1. p \in Instance /\ p \notin Late /\ Rounds!At(p, "execute")
    BY <1>1 DEF Unlocked, Rounds!InProgress
  <2>2. p \in Matching
    BY <2>1 DEF SystemInv, Linked, RP!At, Rounds!At, Matching
  <2> QED
    BY <2>1, <2>2 DEF SystemInv, KeyCoversHandler
<1>5. M \subseteq U \cup {owner}
  BY <1>4
<1>6. IsFiniteSet(U \cup {owner}) /\ Cardinality(U \cup {owner}) \in {Cardinality(U), Cardinality(U) + 1}
  BY <1>3, FS_AddElement
<1>7. Cardinality(M) <= Cardinality(U \cup {owner})
  BY <1>5, <1>6, FS_Subset
<1>8. Cardinality(U) \in Nat /\ Cardinality(M) \in Nat
  BY <1>3, FS_CardinalityType
<1> HIDE DEF U, M
<1>9. Cardinality(M) <= 1 + Cardinality(U)
  BY <1>6, <1>7, <1>8
<1> QED
  BY <1>8, <1>9 DEF U, M

\* And an agent plays one match at a time, but for those of late rounds and of
\* users: each of its other open matches is a fault's.
THEOREM OneMatch == SystemSpec => []OneMatchAtATime
<1>1. SystemInv => OneMatchAtATime
  <2> SUFFICES ASSUME SystemInv, NEW a \in Agent
               PROVE  open[a] <= 1 + Cardinality(Unlocked(a)) + faults
    BY DEF OneMatchAtATime
  <2>1. RP!Counted /\ RP!LockedOutOnlyByMatch
    BY DEF SystemInv, RP!RoundsInv
  <2>2. open[a] \in Int /\ faults \in Nat
    BY <2>1 DEF RP!Counted
  <2>3. open[a] <= RP!Cardinality(RP!InProgress(a)) + faults
    BY <2>1 DEF RP!LockedOutOnlyByMatch
  <2>4. RP!InProgress(a) = Rounds!InProgress(a)
    BY DEF RP!InProgress, Rounds!InProgress, RP!At, Rounds!At, RP!Player, Rounds!Player,
           RP!Pair, Rounds!Pair
  <2>5. RP!Cardinality(RP!InProgress(a)) = Cardinality(Rounds!InProgress(a))
    BY <2>4 DEF RP!Cardinality, Cardinality
  <2> DEFINE u == Cardinality(Unlocked(a))
             m == Cardinality(Rounds!InProgress(a))
  <2>7. m <= 1 + u /\ open[a] <= m + faults /\ u \in Nat /\ m \in Nat
    BY <2>3, <2>5, OneLocked
  <2> HIDE DEF u, m
  <2>8. open[a] <= 1 + u + faults
    BY <2>2, <2>7
  <2> QED
    BY <2>8 DEF u
<1> QED
  BY <1>1, SystemInvariant, PTL

-----------------------------------------------------------------------------
(* No wake-up is lost *)

\* As long as nothing failed, everybody listens, the instance that has the key is
\* at work, and one that has read its list has the events since then in its buffer.
AllAtWork ==
  /\ \A i \in Instance : state[i] # "off"
  /\ owner # Nobody => state[owner] \in {"matching", "releasing"}
HolderHears ==
  unseen # {} => \A i \in Instance : state[i] = "releasing" \/ i \in begun => inbox[i] > 0
SomebodyKnows == unseen # {} => \E i \in Instance : Pending(i)

Wake ==
  /\ faults \in Nat /\ outages \in Nat
  /\ faults + outages = 0 => AllAtWork /\ HolderHears /\ SomebodyKnows

\* Faults are counted, and never forgotten.
LEMMA FaultsCounted ==
  ASSUME faults \in Nat, outages \in Nat, [SystemNext]_systemVars
  PROVE  /\ faults' \in {faults, faults + 1}
         /\ outages' \in {outages, outages + 1}
<1>1. ASSUME PublishEvent PROVE outages' \in {outages, outages + 1}
  BY <1>1 DEF PublishEvent, Outage
<1>2. ASSUME NEW i \in Instance, Goroutine(i) \/ CallFails(i) \/ InstanceDies(i)
      PROVE  faults' \in {faults, faults + 1} /\ outages' \in {outages, outages + 1}
  BY <1>2 DEF Goroutine, CallFails, InstanceDies, HandleEvent, ReadList, EndRound, Outage,
              roundVars, Rounds!StartRound
<1>3. ASSUME NEW p \in Rounds!Player, Match(p)
      PROVE  faults' = faults /\ outages' \in {outages, outages + 1}
  BY <1>1, <1>3 DEF Match, Play, Requeue, Announce, Rounds!Search, Rounds!Refuse,
         Rounds!InsertMatch, Rounds!Complete, Rounds!Count1, Rounds!Count2, Rounds!Count,
         Rounds!Requeue1, Rounds!Requeue2
<1>4. ASSUME NEW p \in Rounds!Player, MatchFails(p) \/ Rounds!Crash(p) PROVE faults' = faults + 1
  BY <1>4 DEF MatchFails, Rounds!ExecutorError, Rounds!NotCompleted, Rounds!StatementFails,
              Rounds!Crash, Rounds!Fault
<1>5. ASSUME NEW p \in Rounds!Player, MatchFails(p) PROVE outages' = outages
  BY <1>5 DEF MatchFails
<1>6. ASSUME NEW h \in Handler, RequestDies(h) \/ \E a, b \in Agent : Challenge(h, a, b)
      PROVE  faults' \in {faults, faults + 1} /\ outages' = outages
  BY <1>4, <1>6 DEF RequestDies, Challenge, Rounds!Challenge, Rounds!Player
<1>7. ASSUME NEW a \in Agent, BuildEnqueues(a)
      PROVE  faults' = faults /\ outages' \in {outages, outages + 1}
  BY <1>1, <1>7 DEF BuildEnqueues, Rounds!BuildEnqueues, Announce
<1>8. CASE Trigger \/ LockTime \/ QueueTime
  <2>1. CASE Trigger
    BY <1>1, <2>1, AnnounceOnly DEF Trigger, Outage
  <2>2. CASE LockTime \/ QueueTime
    BY <2>2 DEF LockTime, QueueTime, roundVars, Rounds!Tick, Rounds!Midnight, Rounds!GrowOld
  <2> QED
    BY <1>8, <2>1, <2>2
<1>9. CASE UNCHANGED systemVars
  BY <1>9 DEF systemVars
<1> QED
  BY <1>2, <1>3, <1>4, <1>5, <1>6, <1>7, <1>8, <1>9 DEF SystemNext

\* A message that is not lost is in every buffer, which may be full.
LEMMA EverybodyHears ==
  ASSUME TypeOK, outages \in Nat, outages' = outages, PublishEvent, InboxSize > 0,
         \A i \in Instance : state[i] # "off"
  PROVE  /\ \A i \in Instance : inbox'[i] > 0 /\ inbox'[i] >= inbox[i]
         /\ UNCHANGED <<owner, state>>
<1>1. Reach(Instance)
  BY DEF PublishEvent, Outage
<1>2. inbox \in [Instance -> 0..InboxSize] /\ InboxSize \in Nat
  BY CoordinatorAssumption DEF TypeOK
<1> QED
  BY <1>1, <1>2 DEF Reach, Publish, Hears, vars

\* A step of no consequence for a wake-up: buffers only fill, nobody is enqueued.
LEMMA Undisturbed ==
  ASSUME TypeOK, AllAtWork, HolderHears, SomebodyKnows,
         UNCHANGED <<owner, state, begun, unseen>>,
         \A i \in Instance : inbox'[i] >= inbox[i] /\ inbox'[i] \in Nat
  PROVE  AllAtWork' /\ HolderHears' /\ SomebodyKnows'
<1>1. \A i \in Instance : inbox[i] \in Nat
  BY CoordinatorAssumption DEF TypeOK
<1>2. \A i \in Instance : inbox[i] > 0 => inbox'[i] > 0
  BY <1>1
<1> QED
  BY <1>2 DEF AllAtWork, HolderHears, SomebodyKnows, Pending

\* Whoever is enqueued, everybody hears of it.
LEMMA Woken ==
  ASSUME TypeOK, outages \in Nat, outages' = outages, PublishEvent, InboxSize > 0,
         Instance # {}, AllAtWork
  PROVE  AllAtWork' /\ HolderHears' /\ SomebodyKnows'
BY EverybodyHears DEF AllAtWork, HolderHears, SomebodyKnows, Pending

\* The steps of the goroutine that handles events.
LEMMA HandlerWake ==
  ASSUME TypeOK, TypeOK', Linked, AllAtWork, HolderHears, SomebodyKnows,
         NEW i \in Instance, Goroutine(i)
  PROVE  AllAtWork' /\ HolderHears' /\ SomebodyKnows'
<1> USE CoordinatorAssumption DEF TypeOK, AllAtWork, HolderHears
<1>0. /\ \A j \in begun : j \in Instance /\ state[j] = "matching"
      /\ \A j \in Instance : inbox[j] \in Nat
  BY DEF Linked
<1>1. CASE HandleEvent(i) /\ Receive(i)
  BY <1>0, <1>1 DEF HandleEvent, Receive, SomebodyKnows, Pending
<1>2. CASE HandleEvent(i) /\ Acquire(i)
  BY <1>0, <1>2 DEF HandleEvent, Acquire, SomebodyKnows, Pending
<1>3. CASE HandleEvent(i) /\ Refused(i)
  <2>1. UNCHANGED <<owner, inbox, begun, unseen>>
    BY <1>3 DEF HandleEvent, Refused
  <2>2. /\ owner \in Instance /\ state[owner] \in {"matching", "releasing"}
        /\ owner # i /\ state'[owner] = state[owner]
        /\ \A j \in Instance : j # i => state'[j] = state[j]
        /\ state'[i] \in {"locking", "receiving"} /\ state[i] = "locking"
    BY <1>3 DEF Refused
  <2>3. unseen # {} => Pending(owner)'
    BY <2>1, <2>2 DEF Pending
  <2>4. AllAtWork'
    BY <2>1, <2>2
  <2>5. HolderHears'
    BY <1>0, <2>1, <2>2
  <2> QED
    BY <2>1, <2>2, <2>3, <2>4, <2>5 DEF SomebodyKnows
<1>4. CASE HandleEvent(i) /\ Release(i)
  BY <1>0, <1>4 DEF HandleEvent, Release, SomebodyKnows, Pending
<1>5. CASE ReadList(i)
  BY <1>0, <1>5 DEF ReadList, SomebodyKnows, vars
<1>6. CASE EndRound(i)
  BY <1>0, <1>6 DEF EndRound, Finish, SomebodyKnows, Pending
<1> QED
  BY <1>1, <1>2, <1>3, <1>4, <1>5, <1>6 DEF Goroutine, HandleEvent

\* Counters whose sum is still zero have not moved.
LEMMA NothingFailed ==
  ASSUME NEW f \in Nat, NEW o \in Nat, NEW f1 \in {f, f + 1}, NEW o1 \in {o, o + 1},
         f1 + o1 = 0
  PROVE  f = 0 /\ o = 0 /\ f1 = 0 /\ o1 = 0
OBVIOUS

LEMMA WakeStep ==
  ASSUME Instance # {}, InboxSize > 0
  PROVE  SystemInv /\ SystemInv' /\ Wake /\ [SystemNext]_systemVars => Wake'
<1> SUFFICES ASSUME TypeOK, TypeOK', Linked, Wake, [SystemNext]_systemVars
             PROVE  Wake'
  BY DEF SystemInv
<1>0. /\ faults' \in {faults, faults + 1} /\ outages' \in {outages, outages + 1}
      /\ faults \in Nat /\ outages \in Nat
  BY FaultsCounted DEF Wake
<1>a. faults' \in Nat /\ outages' \in Nat
  BY <1>0
<1> SUFFICES ASSUME faults' + outages' = 0
             PROVE  AllAtWork' /\ HolderHears' /\ SomebodyKnows'
  BY <1>a, Zenon DEF Wake
<1>b. faults = 0 /\ outages = 0 /\ faults' = 0 /\ outages' = 0
  BY <1>0, <1>a, NothingFailed
<1>c. faults + outages = 0
  BY <1>b
<1>1. /\ faults' = faults /\ outages' = outages
      /\ faults = 0 /\ outages = 0
      /\ AllAtWork /\ HolderHears /\ SomebodyKnows
  BY <1>b, <1>c, Zenon DEF Wake
<1>2. \A i \in Instance : inbox[i] \in Nat /\ inbox'[i] \in Nat
  BY CoordinatorAssumption DEF TypeOK
<1>3. ASSUME UNCHANGED <<owner, inbox, state, begun, unseen>>
      PROVE  AllAtWork' /\ HolderHears' /\ SomebodyKnows'
  BY <1>1, <1>2, <1>3, Undisturbed
<1>4. ASSUME PublishEvent PROVE AllAtWork' /\ HolderHears' /\ SomebodyKnows'
  BY <1>1, <1>4, Woken
<1>5. ASSUME NEW i \in Instance, Goroutine(i)
      PROVE  AllAtWork' /\ HolderHears' /\ SomebodyKnows'
  BY <1>1, <1>5, HandlerWake
<1>6. ASSUME NEW i \in Instance, CallFails(i) \/ InstanceDies(i) PROVE FALSE
  BY <1>1, <1>6 DEF CallFails, InstanceDies, Outage
<1>7. ASSUME NEW p \in Rounds!Player, Match(p) \/ MatchFails(p)
      PROVE  AllAtWork' /\ HolderHears' /\ SomebodyKnows'
  BY <1>3, <1>4, <1>7 DEF Match, Play, Requeue, Announce, MatchFails, vars
<1>8. ASSUME NEW h \in Handler, RequestDies(h) \/ \E a, b \in Agent : Challenge(h, a, b)
      PROVE  AllAtWork' /\ HolderHears' /\ SomebodyKnows'
  BY <1>3, <1>8 DEF RequestDies, Challenge, vars
<1>9. ASSUME NEW a \in Agent, BuildEnqueues(a)
      PROVE  AllAtWork' /\ HolderHears' /\ SomebodyKnows'
  BY <1>4, <1>9 DEF BuildEnqueues, Announce
<1>10. CASE Trigger
  BY <1>1, <1>4, <1>10 DEF Trigger, Outage
<1>11. CASE LockTime
  <2>1. UNCHANGED <<inbox, state, begun, unseen>> /\ owner' \in {owner, Nobody}
    BY <1>11 DEF LockTime, Tick
  <2> QED
    BY <1>1, <2>1 DEF AllAtWork, HolderHears, SomebodyKnows, Pending
<1>12. CASE QueueTime
  BY <1>3, <1>12 DEF QueueTime, vars
<1>13. CASE UNCHANGED systemVars
  BY <1>3, <1>13 DEF systemVars
<1> QED
  BY <1>5, <1>6, <1>7, <1>8, <1>9, <1>10, <1>11, <1>12, <1>13 DEF SystemNext

\* An agent enqueued since the last list was read is known to an instance that
\* is going to read it again, for any number of instances and refusals.
THEOREM WakeupKept ==
  ASSUME Instance # {}, InboxSize > 0
  PROVE  SystemSpec => []NoLostWakeup
<1>1. SystemInit => Wake
  BY DEF SystemInit, Init, Rounds!Init, Wake, AllAtWork, HolderHears, SomebodyKnows
<1>2. Wake => NoLostWakeup
  BY DEF Wake, SomebodyKnows, NoLostWakeup
<1> QED
  BY <1>1, <1>2, SystemInvariant, WakeStep, PTL DEF SystemSpec
-----------------------------------------------------------------------------
(* What was proved of each module alone holds of it in the system           *)

\* A key still goes when its time is up or its own instance releases it: the
\* rounds, builds and requests around the coordinator do nothing it could not.
THEOREM KeysGoProperlyInSystem == SystemSpec => KeyGoesOnlyWhenDone
<1>1. SystemInv => TypeOK
  BY DEF SystemInv
<1>2. TypeOK /\ [SystemNext]_systemVars => [GoesWhenDone]_vars
  <2>1. [SystemNext]_systemVars => [Next]_vars
    BY CoordinatorStep DEF systemVars, vars
  <2> QED
    BY <2>1, GoneWhenDone
<1> QED
  BY <1>1, <1>2, SystemInvariant, PTL DEF SystemSpec, KeyGoesOnlyWhenDone

\* The rows, lists and counts of the rounds stay well-formed, also when a
\* process dies that was running no round, and with the calls of Redis that
\* fail counted against the same bound.
LEMMA RoundTypesKept ==
  SystemInv /\ outages \in Nat /\ RP!TypesOK /\ [SystemNext]_systemVars => RP!TypesOK'
<1> SUFFICES ASSUME RP!RoundsInv, outages \in Nat, RP!TypesOK, [SystemNext]_systemVars
             PROVE  RP!TypesOK'
  BY DEF SystemInv
<1> USE RoundsAssumption DEF Rounds!MatchmakingAssumption, RP!IsFiniteSet, Rounds!IsFiniteSet
<1>1. CASE RP!Next \/ UNCHANGED roundVars
  BY <1>1, RP!NextTypes DEF RP!vars, roundVars
<1>2. ASSUME NEW i \in Instance, InstanceDies(i) PROVE RP!TypesOK'
  <2>1. /\ i \in RP!Player
        /\ play' = [play EXCEPT ![i] = RP!Idle]
        /\ UNCHANGED <<queue, old, open, cool, today>>
        /\ faults' = faults + 1 /\ faults + outages < MaxFaults
    BY <1>2 DEF RP!Player, InstanceDies, MayFail, RP!Idle, Rounds!Idle
  <2>2. RP!RowsOK'
    BY <2>1 DEF RP!TypesOK, RP!RowsOK, RP!Waiting
  <2>3. RP!CountsOK'
    BY <2>1 DEF RP!TypesOK, RP!CountsOK
  <2>4. RP!PlaysOK'
    <3>1. RP!Shape /\ RP!PlaysOK
      BY DEF RP!RoundsInv, RP!TypesOK
    <3>2. RP!Moves(i)
      BY <2>1, <3>1, RP!Idles
    <3>3. play'[i] = RP!Idle
      BY <2>1 DEF RP!TypesOK, RP!PlaysOK
    <3> QED
      BY <2>1, <3>1, <3>2, <3>3, RP!IdlePlay, RP!OnePlay
  <2> QED
    BY <2>2, <2>3, <2>4 DEF RP!TypesOK
<1>3. CASE UNCHANGED systemVars
  BY <1>1, <1>3 DEF systemVars, roundVars
<1> QED
  BY <1>1, <1>2, <1>3, RoundsStep

\* What Matchmaking promises of its state holds in the system, with the lock,
\* the events and the failures of Redis around it: well-formed rows, nobody kept
\* out but by a match or a fault, nobody matched twice in a round.
THEOREM RoundsInSystem ==
  SystemSpec => [](Rounds!TypeOK /\ Rounds!LockedOutOnlyByMatch /\ Rounds!MatchedOncePerRound)
<1> DEFINE Counts == faults \in Nat /\ outages \in Nat
<1>1. SystemInit => Counts /\ RP!TypesOK
  <2>1. SystemInit => Counts
    BY DEF SystemInit, Rounds!Init
  <2>2. Rounds!Init => RP!Init
    BY DEF Rounds!Init, RP!Init, Rounds!Idle, RP!Idle, Rounds!Player, RP!Player
  <2>3. RP!Init => RP!TypesOK
    BY RP!InitTypes, RoundsAssumption
       DEF Rounds!MatchmakingAssumption, RP!IsFiniteSet, Rounds!IsFiniteSet
  <2> QED
    BY <2>1, <2>2, <2>3 DEF SystemInit
<1>2. Counts /\ [SystemNext]_systemVars => Counts'
  BY FaultsCounted
<1>3. Counts /\ SystemInv /\ RP!TypesOK /\ [SystemNext]_systemVars => RP!TypesOK'
  BY RoundTypesKept
<1>4. SystemInv /\ RP!TypesOK =>
        Rounds!TypeOK /\ Rounds!LockedOutOnlyByMatch /\ Rounds!MatchedOncePerRound
  <2> SUFFICES ASSUME RP!RoundsInv, RP!TypesOK
               PROVE  Rounds!TypeOK /\ Rounds!LockedOutOnlyByMatch /\ Rounds!MatchedOncePerRound
    BY DEF SystemInv
  <2>1. Rounds!TypeOK
    <3>1. RP!TypeOK
      BY RP!TypeParts, RoundsAssumption
         DEF Rounds!MatchmakingAssumption, RP!IsFiniteSet, Rounds!IsFiniteSet, RP!TypesOK
    <3> QED
      BY <3>1 DEF RP!TypeOK, Rounds!TypeOK, RP!IsInjective, Rounds!IsInjective, RP!Plays,
                  Rounds!Plays, RP!At, Rounds!At, RP!Player, Rounds!Player, RP!Waiting,
                  Rounds!Waiting
  <2>2. Rounds!LockedOutOnlyByMatch
    <3>1. RP!LockedOutOnlyByMatch
      BY DEF RP!RoundsInv
    <3>2. \A a : RP!InProgress(a) = Rounds!InProgress(a)
      BY DEF RP!InProgress, Rounds!InProgress, RP!At, Rounds!At, RP!Player, Rounds!Player,
             RP!Pair, Rounds!Pair
    <3> QED
      BY <3>1, <3>2 DEF RP!LockedOutOnlyByMatch, Rounds!LockedOutOnlyByMatch,
             RP!Cardinality, Rounds!Cardinality
  <2>3. Rounds!MatchedOncePerRound
    BY DEF RP!RoundsInv, RP!Apart, Rounds!MatchedOncePerRound, Rounds!Pair, RP!Pair, RP!Player
  <2> QED
    BY <2>1, <2>2, <2>3
<1> QED
  BY <1>1, <1>2, <1>3, <1>4, SystemInvariant, PTL DEF SystemSpec
=============================================================================
