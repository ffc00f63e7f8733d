----------------------- MODULE MatchmakingCoordinator -----------------------
(***************************************************************************)
(* pkg/distributed: the matchmaking events published over Redis and the    *)
(* lock under which an instance handles one.                               *)
(*                                                                         *)
(* Redis runs one command at a time, so a command is one step.  Time is    *)
(* counted in ticks; the key expires TTL ticks after it was set, and       *)
(* nobody extends it.  An instance handles one event at a time, in the     *)
(* goroutine that receives them.  All events name one environment, so      *)
(* they use one key, and a message is worth no more than its number.       *)
(***************************************************************************)
EXTENDS Integers, FiniteSets

CONSTANTS
  Instance,     \* the server's replicas; instanceID is the lock's value
  Nobody,       \* the key does not exist
  TTL,          \* ticks the key lives (5 seconds)
  MaxRetries,   \* SETNX attempts per event (3)
  HandlerTime,  \* the longest a handler runs, in ticks
  InboxSize     \* messages a subscriber buffers; a bound

ASSUME CoordinatorAssumption ==
  /\ Nobody \notin Instance
  /\ TTL \in Nat \ {0}
  /\ MaxRetries \in Nat \ {0}
  /\ HandlerTime \in Nat
  /\ InboxSize \in Nat

VARIABLES
  owner,    \* the value of matchmaking:lock:<environment>, or Nobody
  ttl,      \* ticks until the key expires
  inbox,    \* messages buffered for each subscriber
  state,    \* what the receiving goroutine of each instance is doing; "off" is
            \* one that has ended
  tries,    \* refused SETNX attempts for the current event
  running   \* ticks the current handler has been running

vars == <<owner, ttl, inbox, state, tries, running>>

Init ==
  /\ owner   = Nobody
  /\ ttl     = 0
  /\ inbox   = [i \in Instance |-> 0]
  /\ state   = [i \in Instance |-> "receiving"]
  /\ tries   = [i \in Instance |-> 0]
  /\ running = [i \in Instance |-> 0]

-----------------------------------------------------------------------------
\* A subscriber with room for one more message.
Hears(i) == state[i] # "off" /\ inbox[i] < InboxSize

\* PublishEvent: fire and forget.  R are the subscribers it reaches.
Publish(R) ==
  /\ inbox' = [i \in Instance |-> IF i \in R /\ Hears(i) THEN inbox[i] + 1 ELSE inbox[i]]
  /\ inbox' # inbox
  /\ UNCHANGED <<owner, ttl, state, tries, running>>

\* The process starts, for the first time or again while it had nothing to do,
\* and cannot subscribe: the loop is never entered.  Nobody tries again.
SubscribeFails(i) ==
  /\ state[i] = "receiving"
  /\ inbox[i] = 0
  /\ state' = [state EXCEPT ![i] = "off"]
  /\ UNCHANGED <<owner, ttl, inbox, tries, running>>

Receive(i) ==
  /\ state[i] = "receiving"
  /\ inbox[i] > 0
  /\ inbox' = [inbox EXCEPT ![i] = @ - 1]
  /\ state' = [state EXCEPT ![i] = "locking"]
  /\ UNCHANGED <<owner, ttl, tries, running>>

-----------------------------------------------------------------------------
(* TryLockWithRetry *)

\* Mutant: the key is set whether or not it exists (SET without NX).
AcquireAnyway(i) ==
  /\ state[i] = "locking"
  /\ owner' = i
  /\ ttl' = TTL
  /\ state' = [state EXCEPT ![i] = "matching"]
  /\ tries' = [tries EXCEPT ![i] = 0]
  /\ UNCHANGED <<inbox, running>>

\* SETNX finds no key: the handler starts.
Acquire(i) ==
  /\ state[i] = "locking"
  /\ owner = Nobody
  /\ owner' = i
  /\ ttl' = TTL
  /\ state' = [state EXCEPT ![i] = "matching"]
  /\ tries' = [tries EXCEPT ![i] = 0]
  /\ UNCHANGED <<inbox, running>>

\* Mutant: an event is never given up.
RefusedForever(i) ==
  /\ state[i] = "locking"
  /\ owner # Nobody
  /\ tries' = [tries EXCEPT ![i] = @ + 1]
  /\ UNCHANGED <<owner, ttl, inbox, state, running>>

\* SETNX finds a key: wait and try again, or give the event up.
Refused(i) ==
  /\ state[i] = "locking"
  /\ owner # Nobody
  /\ IF tries[i] + 1 < MaxRetries
       THEN tries' = [tries EXCEPT ![i] = @ + 1] /\ UNCHANGED state
       ELSE /\ tries' = [tries EXCEPT ![i] = 0]
            /\ state' = [state EXCEPT ![i] = "receiving"]
  /\ UNCHANGED <<owner, ttl, inbox, running>>

\* The command fails or the ten seconds of the context are over.  Redis may
\* have set the key all the same; then nobody is going to release it.
LockError(i) ==
  /\ state[i] = "locking"
  /\ state' = [state EXCEPT ![i] = "receiving"]
  /\ \/ UNCHANGED <<owner, ttl>>
     \/ owner = Nobody /\ owner' = i /\ ttl' = TTL
  /\ tries' = [tries EXCEPT ![i] = 0]
  /\ UNCHANGED <<inbox, running>>

-----------------------------------------------------------------------------
\* The handler returns; the deferred Release is still to run.
Finish(i) ==
  /\ state[i] = "matching"
  /\ state' = [state EXCEPT ![i] = "releasing"]
  /\ running' = [running EXCEPT ![i] = 0]
  /\ UNCHANGED <<owner, ttl, inbox, tries>>

\* Mutant: the key is deleted whoever set it.
ReleaseAny(i) ==
  /\ state[i] = "releasing"
  /\ owner' = Nobody
  /\ ttl' = 0
  /\ state' = [state EXCEPT ![i] = "receiving"]
  /\ UNCHANGED <<inbox, tries, running>>

\* Release: the script deletes the key if it still has this instance's value.
Release(i) ==
  /\ state[i] = "releasing"
  /\ IF owner = i THEN owner' = Nobody /\ ttl' = 0 ELSE UNCHANGED <<owner, ttl>>
  /\ state' = [state EXCEPT ![i] = "receiving"]
  /\ UNCHANGED <<inbox, tries, running>>

\* The script never reaches Redis; the error is logged.  (A reply lost after
\* the script ran is a Release.)
ReleaseError(i) ==
  /\ state[i] = "releasing"
  /\ state' = [state EXCEPT ![i] = "receiving"]
  /\ UNCHANGED <<owner, ttl, inbox, tries, running>>

\* The process dies, starts again and subscribes: what it had received is gone,
\* and its key stays.  The new process has another instanceID; the old one's key can
\* only be waited for, which is what happens here to a key nobody releases.
Crash(i) ==
  /\ state[i] # "receiving" \/ inbox[i] > 0
  /\ state' = [state EXCEPT ![i] = "receiving"]
  /\ inbox' = [inbox EXCEPT ![i] = 0]
  /\ tries' = [tries EXCEPT ![i] = 0]
  /\ running' = [running EXCEPT ![i] = 0]
  /\ UNCHANGED <<owner, ttl>>

\* Time passes; no handler runs longer than HandlerTime.
Tick ==
  /\ \A i \in Instance : state[i] = "matching" => running[i] < HandlerTime
  /\ owner # Nobody \/ \E i \in Instance : state[i] = "matching"
  /\ ttl' = IF ttl > 0 THEN ttl - 1 ELSE 0
  /\ owner' = IF ttl <= 1 THEN Nobody ELSE owner
  /\ running' = [i \in Instance |-> IF state[i] = "matching" THEN running[i] + 1 ELSE running[i]]
  /\ UNCHANGED <<inbox, state, tries>>

-----------------------------------------------------------------------------
Work(i) ==
  \/ Receive(i) \/ Acquire(i) \/ Refused(i) \/ Finish(i) \/ Release(i)

Next ==
  \/ \E R \in SUBSET Instance : Publish(R)
  \/ \E i \in Instance :
       \/ Work(i)
       \/ SubscribeFails(i) \/ LockError(i) \/ ReleaseError(i) \/ Crash(i)
  \/ Tick

\* The goroutine is scheduled, Redis answers, handlers return, time passes.
Fairness == WF_vars(Tick) /\ \A i \in Instance : WF_vars(Work(i))

Spec == Init /\ [][Next]_vars /\ Fairness

-----------------------------------------------------------------------------
(* Properties *)

Matching == {i \in Instance : state[i] = "matching"}

\* Handlers that have outlived their key.  Nothing tells them, or keeps them
\* from it: nobody extends a key.
Late == {i \in Matching : running[i] >= TTL}

\* The key, its time to live and the goroutines' places; an event is given up
\* at the attempt that makes MaxRetries refusals; a clock runs while its
\* handler does.
TypeOK ==
  /\ owner \in Instance \cup {Nobody}
  /\ ttl \in 0..TTL
  /\ ttl = 0 <=> owner = Nobody
  /\ inbox \in [Instance -> 0..InboxSize]
  /\ state \in [Instance -> {"off", "receiving", "locking", "matching", "releasing"}]
  /\ tries \in [Instance -> 0..(MaxRetries - 1)]
  /\ running \in [Instance -> 0..HandlerTime]
  /\ \A i \in Instance : state[i] # "matching" => running[i] = 0

(***************************************************************************)
(* The comment in handleEventWithLock, for one environment: "동시에 하나의   *)
(* 인스턴스만 매칭 처리", only one instance matches at a time.              *)
(***************************************************************************)
AtMostOneMatcher == \A i, j \in Matching : i = j

(***************************************************************************)
(* What there is of it, however long handlers run: of the instances that   *)
(* match, all but those that have outlived their key are one.              *)
(***************************************************************************)
AtMostOneInTime == \A i, j \in Matching \ Late : i = j

(***************************************************************************)
(* Why: until its time is up, the key of a handler that runs is there and  *)
(* is the handler's own, whatever lost replies, crashes, expiries, late    *)
(* handlers and late releases there were before or are beside it.          *)
(***************************************************************************)
KeyCoversHandler ==
  \A i \in Matching \ Late : owner = i /\ ttl + running[i] = TTL

\* A key that goes has had its time, or its own instance is releasing it.
GoesWhenDone ==
  \A i \in Instance :
    owner = i /\ owner' # i =>
      /\ owner' = Nobody
      /\ ttl = 1 \/ (state[i] = "releasing" /\ state'[i] = "receiving")

(***************************************************************************)
(* Release deletes no other instance's key, however late it comes, and     *)
(* nobody takes a key that exists: a key only goes when its time is up or  *)
(* when its own instance releases it.                                      *)
(***************************************************************************)
KeyGoesOnlyWhenDone == [][GoesWhenDone]_vars

(***************************************************************************)
(* The instances running the handler behave as the abstract OneMatcher:    *)
(* only a handler that has outlived its key lets another one start.        *)
(***************************************************************************)
Abstract == INSTANCE OneMatcher WITH matching <- Matching, late <- Late
OneMatcherSpec == Abstract!Spec
=============================================================================
