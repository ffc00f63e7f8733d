------------------------------ MODULE RedisQueue ------------------------------
(***************************************************************************)
(* pkg/distributed/redis_queue.go: a priority queue in Redis.  Waiting     *)
(* tasks are members of a sorted set; a task that is handed out has an     *)
(* entry in the hash "processing", and beside it the time it was handed    *)
(* out; tasks that failed too often go to a list, the dead letter queue.   *)
(*                                                                         *)
(* Redis runs a command or a script at a time: each is one step, also      *)
(* those of the pipeline in Complete, which is no transaction.  Nothing in *)
(* this repository uses the queue but its tests.  Its callers are modelled *)
(* as any of them may be: a process is one goroutine that adds a task,     *)
(* works on one, or recovers stale ones.  Each reads the clock of its own  *)
(* machine: the time a task was handed out is the worker's, and who        *)
(* recovers compares it with another (time.Now() in Dequeue and in         *)
(* RecoverStale).  Times are whole seconds.                                *)
(***************************************************************************)
EXTENDS Integers, FiniteSets, Functions

CONSTANTS
  Task,        \* ids, as numbers in the order of their text
  Process,     \* goroutines
  Priority,    \* QueueItem.Priority of each task when it is added
  MaxSize,     \* maxSize, 0 for no limit
  MaxRetries,  \* QueueItem.MaxRetries
  Ahead,       \* how far the clock of each goroutine is ahead of the slowest
  Timeout,     \* the staleTimeout each of them calls RecoverStale with
  Horizon,     \* a bound on the ages that are told apart
  None,
  MaxFaults    \* a bound on failed commands and dead goroutines

ASSUME QueueAssumption ==
  /\ Task \subseteq Nat /\ IsFiniteSet(Task)
  /\ IsFiniteSet(Process)
  /\ None \notin Process \cup Nat /\ None \notin [retries : Nat, by : Process]
  /\ Ahead \in [Process -> Nat] /\ Timeout \in [Process -> Nat] /\ Horizon \in Nat
  /\ \A r, w \in Process : Timeout[r] + Ahead[w] - Ahead[r] < Horizon
  /\ Priority \in [Task -> Int]
  /\ MaxSize \in Nat /\ MaxRetries \in Nat /\ MaxFaults \in Nat

VARIABLES
  queue,     \* the sorted set: how many members there are of each item
  held,      \* processing: the entry <id>, or None
  stamp,     \* processing: how long ago <id>:timestamp was written, or None
  dlq,       \* tasks in the dead letter queue
  call,      \* what each goroutine is doing
  accepted,  \* tasks the queue was given
  settled,   \* history: tasks that were done, or were put in the DLQ
  dropped,   \* history: tasks that Retry lost, see NothingLost
  outrun,    \* history: tasks retried by who no longer found the entry it read
  faults     \* faults so far

vars == <<queue, held, stamp, dlq, call, accepted, settled, dropped, outrun, faults>>
redis == <<queue, held, stamp, dlq>>
history == <<accepted, settled, dropped, outrun>>

\* What the JSON of a QueueItem says, up to the time it was written: members
\* of the sorted set differ by UpdatedAt, so that equal items do not merge.
Counts == {0} \cup 0..(MaxRetries - 1)
Item == [task : Task, retries : Counts]

\* after is what follows Complete; by is the goroutine the copy was handed to;
\* todo are the stale entries a recovery still has to retry; spent is how
\* long a worker has had its task.
Idle == [pc |-> "idle", task |-> None, retries |-> 0, by |-> None,
         after |-> "end", todo |-> {}, spent |-> 0]

At(p, pc) == call[p].pc = pc
Goto(p, pc) == call' = [call EXCEPT ![p].pc = pc]
Copy(p) == [task |-> call[p].task, retries |-> call[p].retries]

Init ==
  /\ queue = [x \in Item |-> 0]
  /\ held  = [t \in Task |-> None]
  /\ stamp = [t \in Task |-> None]
  /\ dlq   = {}
  /\ call  = [p \in Process |-> Idle]
  /\ accepted = {} /\ settled = {} /\ dropped = {} /\ outrun = {}
  /\ faults = 0

-----------------------------------------------------------------------------
(* Enqueue: for a new task, and at the end of Retry *)

Size == SumFunction(queue)

\* Of the members with the lowest score, the first by its text, that is by id.
\* A retry lowers the priority by 10.
Score(x) == 10 * x.retries - Priority[x.task]
Before(x, y) ==
  Score(x) < Score(y) \/ (Score(x) = Score(y) /\ x.task < y.task)

Add(p, t) ==
  /\ At(p, "idle")
  /\ t \notin accepted
  /\ \A q \in Process : call[q].task # t          \* ids are UUIDs
  /\ call' = [call EXCEPT ![p] = [Idle EXCEPT !.pc = "size", !.task = t, !.after = "add"]]
  /\ UNCHANGED <<redis, history, faults>>

\* Mutant: one retry more.
RetryingLate(t, e, todo) ==
  LET last == e.retries + 1 > MaxRetries
  IN [pc |-> IF last THEN "bury" ELSE "delete", task |-> t,
      retries |-> e.retries + 1, by |-> e.by,
      after |-> IF last THEN "end" ELSE "requeue", todo |-> todo, spent |-> 0]

\* The retry of an entry read before.
Retrying(t, e, todo) ==
  LET last == e.retries + 1 >= MaxRetries
  IN [pc |-> IF last THEN "bury" ELSE "delete", task |-> t,
      retries |-> e.retries + 1, by |-> e.by,
      after |-> IF last THEN "end" ELSE "requeue", todo |-> todo, spent |-> 0]

\* The call returns; RecoverStale goes on with its next entry, in any order.
Return(p) ==
  IF call[p].todo = {} THEN call' = [call EXCEPT ![p] = Idle]
  ELSE \E e \in call[p].todo :
         call' = [call EXCEPT ![p] = Retrying(e.task, e, call[p].todo \ {e})]

\* A retried task that was removed and does not come back.
InFlight(p) == call[p].after = "requeue" /\ call[p].pc \in {"unstamp", "size", "add"}
Drop(p) == dropped' = IF InFlight(p) THEN dropped \cup {call[p].task} ELSE dropped

\* Mutant: one too many.
ReadSizeLate(p) ==
  /\ At(p, "size")
  /\ IF MaxSize = 0 \/ Size <= MaxSize
       THEN Goto(p, "add") /\ UNCHANGED dropped
       ELSE Return(p) /\ Drop(p)
  /\ UNCHANGED <<redis, accepted, settled, outrun, faults>>

\* ZCARD; ErrQueueFull.
ReadSize(p) ==
  /\ At(p, "size")
  /\ IF MaxSize = 0 \/ Size < MaxSize
       THEN Goto(p, "add") /\ UNCHANGED dropped
       ELSE Return(p) /\ Drop(p)
  /\ UNCHANGED <<redis, accepted, settled, outrun, faults>>

\* ZADD
AddMember(p) ==
  /\ At(p, "add")
  /\ queue' = [queue EXCEPT ![Copy(p)] = @ + 1]
  /\ accepted' = accepted \cup {call[p].task}
  /\ Return(p)
  /\ UNCHANGED <<held, stamp, dlq, settled, dropped, outrun, faults>>

-----------------------------------------------------------------------------
(* Dequeue, Complete, Retry, MoveToDLQ *)

\* The script: ZPOPMIN, and the two HSETs.
Dequeue(p) ==
  \E x \in Item :
    /\ At(p, "idle")
    /\ queue[x] > 0
    /\ \A y \in Item : queue[y] > 0 => ~Before(y, x)
    /\ queue' = [queue EXCEPT ![x] = @ - 1]
    /\ held' = [held EXCEPT ![x.task] = [retries |-> x.retries, by |-> p]]
    /\ stamp' = [stamp EXCEPT ![x.task] = 0]
    /\ call' = [call EXCEPT ![p] = [Idle EXCEPT !.pc = "working", !.task = x.task,
                                                !.retries = x.retries, !.by = p]]
    /\ UNCHANGED <<dlq, history, faults>>

Leave(p, pc) == call' = [call EXCEPT ![p].pc = pc, ![p].spent = 0]

\* The worker has done its task and calls Complete.
Complete(p) ==
  /\ At(p, "working")
  /\ settled' = settled \cup {call[p].task}
  /\ Leave(p, "delete")
  /\ UNCHANGED <<redis, accepted, dropped, outrun, faults>>

\* The worker has failed and calls Retry.
Retry(p) ==
  /\ At(p, "working")
  /\ call' = [call EXCEPT ![p] = Retrying(@.task, @, {})]
  /\ UNCHANGED <<redis, history, faults>>

\* The worker gives its task up and calls MoveToDLQ.
GiveUp(p) ==
  /\ At(p, "working")
  /\ Leave(p, "bury")
  /\ UNCHANGED <<redis, history, faults>>

\* Mutant: MoveToDLQ removes the entry first.
BuryLast(p) ==
  /\ At(p, "bury")
  /\ IF held[call[p].task] # None
       THEN held' = [held EXCEPT ![call[p].task] = None] /\ UNCHANGED <<dlq, settled, call>>
       ELSE /\ dlq' = dlq \cup {call[p].task}
            /\ settled' = settled \cup {call[p].task}
            /\ Goto(p, "delete") /\ UNCHANGED held
  /\ UNCHANGED <<queue, stamp, accepted, dropped, outrun, faults>>

\* LPUSH
Bury(p) ==
  /\ At(p, "bury")
  /\ dlq' = dlq \cup {call[p].task}
  /\ settled' = settled \cup {call[p].task}
  /\ Goto(p, "delete")
  /\ UNCHANGED <<queue, held, stamp, accepted, dropped, outrun, faults>>

\* The first HDEL of Complete; whose entry it deletes, if any, is not looked at.
Delete(p) ==
  LET c == call[p]
      read == [retries |-> c.retries - 1, by |-> c.by]
  IN
  /\ At(p, "delete")
  /\ held' = [held EXCEPT ![c.task] = None]
  /\ outrun' = IF c.after = "requeue" /\ held[c.task] # read THEN outrun \cup {c.task} ELSE outrun
  /\ Goto(p, "unstamp")
  /\ UNCHANGED <<queue, stamp, dlq, accepted, settled, dropped, faults>>

\* The second HDEL.
Unstamp(p) ==
  /\ At(p, "unstamp")
  /\ stamp' = [stamp EXCEPT ![call[p].task] = None]
  /\ IF call[p].after = "requeue" THEN Goto(p, "size") ELSE Return(p)
  /\ UNCHANGED <<queue, held, dlq, history, faults>>

-----------------------------------------------------------------------------
(* Time, RecoverStale, ClearDLQ *)

Later(n) == IF n < Horizon THEN n + 1 ELSE n

\* A second passes on every clock.
Tick ==
  /\ stamp' = [t \in Task |-> IF stamp[t] = None THEN None ELSE Later(stamp[t])]
  /\ call' = [p \in Process |->
       IF At(p, "working") THEN [call[p] EXCEPT !.spent = Later(@)] ELSE call[p]]
  /\ UNCHANGED <<queue, held, dlq, history, faults>>

\* now - timestamp > staleTimeout, when w wrote the timestamp and r reads its
\* own clock.
TimeIsUp(age, w, r) == age + Ahead[r] - Ahead[w] > Timeout[r]

Stale(t, r) == held[t] # None /\ stamp[t] # None /\ TimeIsUp(stamp[t], held[t].by, r)

Entry(t) == [task |-> t, retries |-> held[t].retries, by |-> held[t].by]

\* Mutant: an entry is stale as soon as its time is reached.
RecoverSooner(p) ==
  LET stale == {Entry(t) : t \in {u \in Task :
        held[u] # None /\ stamp[u] # None /\ TimeIsUp(stamp[u] + 1, held[u].by, p)}}
  IN
  /\ At(p, "idle")
  /\ \E e \in stale : call' = [call EXCEPT ![p] = Retrying(e.task, e, stale \ {e})]
  /\ UNCHANGED <<redis, history, faults>>

\* HGETALL: the entries that are stale on the clock of p; one without a
\* timestamp is passed over.
RecoverStale(p) ==
  LET stale == {Entry(t) : t \in {u \in Task : Stale(u, p)}}
  IN
  /\ At(p, "idle")
  /\ \E e \in stale : call' = [call EXCEPT ![p] = Retrying(e.task, e, stale \ {e})]
  /\ UNCHANGED <<redis, history, faults>>

ClearDLQ ==
  /\ dlq # {}
  /\ dlq' = {}
  /\ UNCHANGED <<queue, held, stamp, call, history, faults>>

-----------------------------------------------------------------------------
(* Faults *)

Fault == faults < MaxFaults /\ faults' = faults + 1

\* A command fails: the call returns an error, a recovery goes on.  Of the
\* pipeline in Complete the second command runs although the first failed:
\* an entry that stays loses its timestamp, and is never found stale.
CommandFails(p) ==
  /\ Fault
  /\ \/ /\ call[p].pc \in {"size", "add", "bury", "delete", "unstamp"}
        /\ Return(p)
        /\ Drop(p)
     \/ /\ At(p, "delete")
        /\ call' = [call EXCEPT ![p].pc = "unstamp", ![p].after = "end"]
        /\ dropped' = IF call[p].after = "requeue" THEN dropped \cup {call[p].task} ELSE dropped
  /\ UNCHANGED <<redis, accepted, settled, outrun>>

Dies(p) ==
  /\ Fault
  /\ ~At(p, "idle")
  /\ call' = [call EXCEPT ![p] = Idle]
  /\ Drop(p)
  /\ UNCHANGED <<redis, accepted, settled, outrun>>

-----------------------------------------------------------------------------
Step(p) ==
  \/ ReadSize(p) \/ AddMember(p) \/ Dequeue(p)
  \/ Complete(p) \/ Retry(p) \/ GiveUp(p) \/ Bury(p)
  \/ Delete(p) \/ Unstamp(p) \/ RecoverStale(p)

Next ==
  \/ \E p \in Process : Step(p) \/ CommandFails(p) \/ Dies(p)
  \/ \E p \in Process, t \in Task : Add(p, t)
  \/ Tick
  \/ ClearDLQ

Spec == Init /\ [][Next]_vars

-----------------------------------------------------------------------------
(* Properties *)

Held == [retries : Counts, by : Process]
Calls == [pc : {"idle", "size", "add", "working", "bury", "delete", "unstamp"},
          task : Task \cup {None}, retries : Nat, by : Process \cup {None},
          after : {"end", "add", "requeue"},
          todo : SUBSET [task : Task, retries : Counts, by : Process],
          spent : Nat]

\* Whoever adds a task, or has not yet decided on it, has retries left; who
\* works on a task was handed it; only accepted tasks are settled or lost.
TypeOK ==
  /\ queue \in [Item -> Nat]
  /\ held \in [Task -> Held \cup {None}]
  /\ stamp \in [Task -> Nat \cup {None}]
  /\ call \in [Process -> Calls]
  /\ \A p \in Process : ~At(p, "idle") => call[p].task \in Task
  /\ \A p \in Process : At(p, "working") => call[p].by = p
  /\ \A p \in Process :
       At(p, "size") \/ At(p, "add") \/ At(p, "working") \/ call[p].after = "requeue" =>
         Copy(p) \in Item
  /\ accepted \subseteq Task
  /\ dlq \cup settled \cup dropped \cup outrun \subseteq accepted
  /\ faults \in 0..MaxFaults

Waits(t) == \E x \in Item : x.task = t /\ queue[x] > 0
Recoverable(t) == held[t] # None /\ stamp[t] # None

(***************************************************************************)
(* No task is lost: one that was accepted and is not settled waits, or has *)
(* an entry RecoverStale will find, with its timestamp, although late and  *)
(* doubled calls delete each other's entries and half of them.  There is   *)
(* one exception, Retry: it removes the entry before it adds the task      *)
(* again, and a full queue, an error or the end of the process between the *)
(* two lose the task, or half of the removal fails.                        *)
(***************************************************************************)
NothingLost ==
  \A t \in accepted :
    \/ Waits(t) \/ Recoverable(t)
    \/ \E p \in Process : InFlight(p) /\ call[p].task = t
    \/ t \in settled \/ t \in dropped

\* On the clock of somebody who may recover it, the time of a worker's task is up.
Up(c) == \E r \in Process : TimeIsUp(c.spent, c.by, r)

(***************************************************************************)
(* A task is handed to a second worker only when the time of the first is  *)
(* up on the clock of somebody who recovers tasks: a clock that is fast    *)
(* takes a task away that much too early, and nothing else does, unless    *)
(* somebody retried it although the entry it read was gone or replaced, a  *)
(* late worker or the second of two recoveries.  (Retry does not look at   *)
(* what HDEL returns, which would tell.)                                   *)
(***************************************************************************)
OneWorkerInTime ==
  \A p, q \in Process :
    p # q /\ At(p, "working") /\ At(q, "working") /\ call[p].task = call[q].task =>
      Up(call[p]) \/ Up(call[q]) \/ call[p].task \in outrun

(***************************************************************************)
(* ZCARD and ZADD are two commands: the queue may get larger than maxSize, *)
(* by as many members as there are other goroutines adding at a time.      *)
(***************************************************************************)
SizeBounded ==
  MaxSize > 0 =>
    Size + Cardinality({p \in Process : At(p, "add")}) < MaxSize + Cardinality(Process)
=============================================================================
