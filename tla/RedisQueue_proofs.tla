-------------------------- MODULE RedisQueue_proofs --------------------------
(***************************************************************************)
(* The tasks of RedisQueue for any number of tasks and goroutines.  TypeOK *)
(* is inductive with Known, what a goroutine or Redis knows of a task;     *)
(* NothingLost follows with Done: whoever removes an entry for good has    *)
(* seen its task done, put into the dead letter queue, or lost.            OneWorkerInTime  *)
(* follows with Places: a task that is not outrun is in one place.         *)
(* SizeBounded is inductive with the types, because it counts those who    *)
(* are between the look at the size and the addition.                      *)
(***************************************************************************)
EXTENDS RedisQueue, FiniteSums

\* Only accepted tasks are waiting, handed out or worked on.
Known ==
  /\ \A x \in Item : queue[x] > 0 => x.task \in accepted
  /\ \A t \in Task : held[t] # None => t \in accepted
  /\ \A p \in Process : call[p].after = "add" => At(p, "size") \/ At(p, "add")
  /\ \A p \in Process : ~At(p, "idle") /\ call[p].after # "add" => call[p].task \in accepted
  /\ \A p \in Process : \A e \in call[p].todo : e.task \in accepted

\* What Complete removes without adding it again is settled, or lost by an
\* error of Retry.
Done ==
  \A p \in Process :
    (At(p, "delete") \/ At(p, "unstamp")) /\ call[p].after # "requeue" =>
      call[p].task \in settled \cup dropped

-----------------------------------------------------------------------------
(* The state in two parts: the calls, and what is in Redis and in history *)

\* What TypeOK and Known say of a call c of the goroutine p.
CallOK(p, c) ==
  /\ c \in Calls
  /\ c.pc # "idle" => c.task \in Task
  /\ c.pc = "working" => c.by = p
  /\ c.pc \in {"size", "add", "working"} \/ c.after = "requeue" =>
       [task |-> c.task, retries |-> c.retries] \in Item
CallKnown(c, known) ==
  /\ c.after = "add" => c.pc \in {"size", "add"}
  /\ c.pc # "idle" /\ c.after # "add" => c.task \in known
  /\ \A e \in c.todo : e.task \in known

CallsOK ==
  /\ call \in [Process -> Calls]
  /\ \A p \in Process : CallOK(p, call[p]) /\ CallKnown(call[p], accepted)

DataOK ==
  /\ queue \in [Item -> Nat]
  /\ held \in [Task -> Held \cup {None}]
  /\ stamp \in [Task -> Nat \cup {None}]
  /\ accepted \subseteq Task
  /\ dlq \cup settled \cup dropped \cup outrun \subseteq accepted
  /\ faults \in 0..MaxFaults
  /\ \A x \in Item : queue[x] > 0 => x.task \in accepted
  /\ \A t \in Task : held[t] # None => t \in accepted

LEMMA Parts == (TypeOK /\ Known) <=> (CallsOK /\ DataOK)
BY DEF TypeOK, Known, CallsOK, DataOK, CallOK, CallKnown, At, Copy

\* One call changes, to a good one, and no task is forgotten.
LEMMA OneCall ==
  ASSUME CallsOK, NEW p \in Process, NEW c, CallOK(p, c), CallKnown(c, accepted'),
         call' = [call EXCEPT ![p] = c], accepted \subseteq accepted'
  PROVE  CallsOK'
<1>1. call' \in [Process -> Calls] /\ call'[p] = c
  BY DEF CallsOK, CallOK
<1>2. ASSUME NEW q \in Process PROVE CallOK(q, call'[q]) /\ CallKnown(call'[q], accepted')
  <2>1. CASE q = p
    BY <1>1, <2>1
  <2>2. CASE q # p
    <3>1. call'[q] = call[q] /\ CallOK(q, call[q]) /\ CallKnown(call[q], accepted)
      BY <2>2 DEF CallsOK
    <3> QED
      BY <3>1 DEF CallKnown
  <2> QED
    BY <2>1, <2>2
<1> QED
  BY <1>1, <1>2 DEF CallsOK

-----------------------------------------------------------------------------
(* What a call turns into *)

LEMMA IdleCall == Idle \in Calls
BY QueueAssumption DEF Idle, Calls

Todos == SUBSET [task : Task, retries : Counts, by : Process]

\* A retry that was begun knows its task and has retries left to requeue it.
LEMMA RetryingCall ==
  ASSUME NEW t \in Task, NEW e, e.retries \in Counts, e.by \in Process,
         NEW todo \in Todos,
         NEW c, c = Retrying(t, e, todo)
  PROVE  /\ c \in Calls
         /\ c.task = t /\ c.todo = todo
         /\ c.pc \in {"bury", "delete"} /\ c.after \in {"end", "requeue"}
         /\ c.after = "requeue" => c.pc = "delete" /\ c.retries \in Counts
         /\ c.pc = "delete" => c.after = "requeue"
<1>1. e.retries + 1 \in Nat
  BY QueueAssumption DEF Counts
<1>2. CASE e.retries + 1 >= MaxRetries
  <2>1. c =
          [pc |-> "bury", task |-> t, retries |-> e.retries + 1, by |-> e.by,
           after |-> "end", todo |-> todo, spent |-> 0]
    BY <1>2 DEF Retrying
  <2> QED
    BY <1>1, <2>1 DEF Calls, Todos
<1>3. CASE ~(e.retries + 1 >= MaxRetries)
  <2>1. c =
          [pc |-> "delete", task |-> t, retries |-> e.retries + 1, by |-> e.by,
           after |-> "requeue", todo |-> todo, spent |-> 0]
    BY <1>3 DEF Retrying
  <2>2. e.retries + 1 \in Counts
    BY <1>1, <1>3, QueueAssumption DEF Counts
  <2> QED
    BY <1>1, <2>1, <2>2 DEF Calls, Todos
<1> QED
  BY <1>2, <1>3

\* A call that returns is over or, in a recovery, the retry of the next entry.
LEMMA Returned ==
  ASSUME CallsOK, NEW p \in Process, Return(p)
  PROVE  /\ call' = [call EXCEPT ![p] = call'[p]]
         /\ CallOK(p, call'[p]) /\ CallKnown(call'[p], accepted)
         /\ call'[p].pc \in {"idle", "bury", "delete"}
         /\ call'[p].pc = "delete" => call'[p].after = "requeue"
<1> DEFINE todo == call[p].todo
<1>1. /\ todo \subseteq [task : Task, retries : Counts, by : Process]
      /\ \A e \in todo : e.task \in accepted
  BY DEF CallsOK, Calls, CallKnown
<1>2. CASE todo = {}
  <2>1. call' = [call EXCEPT ![p] = Idle]
    BY <1>2 DEF Return
  <2>2. CallOK(p, Idle) /\ CallKnown(Idle, accepted) /\ Idle.pc = "idle"
    BY IdleCall DEF CallOK, CallKnown, Idle
  <2>3. call'[p] = Idle
    BY <2>1 DEF CallsOK
  <2> QED
    BY <2>1, <2>2, <2>3
<1>3. CASE todo # {}
  <2>1. PICK e \in todo : call' = [call EXCEPT ![p] = Retrying(e.task, e, todo \ {e})]
    BY <1>3 DEF Return
  <2> DEFINE c == Retrying(e.task, e, todo \ {e})
  <2>2. e.task \in Task /\ e.retries \in Counts /\ e.by \in Process
    BY <1>1
  <2>a. /\ c = Retrying(e.task, e, todo \ {e})
        /\ todo \ {e} \in Todos
    BY <1>1 DEF Todos
  <2>b. call'[p] = c
    BY <2>1 DEF CallsOK
  <2> HIDE DEF c
  <2>3. /\ c \in Calls /\ c.task = e.task /\ c.todo = todo \ {e}
        /\ c.pc \in {"bury", "delete"} /\ c.after \in {"end", "requeue"}
        /\ c.after = "requeue" => c.retries \in Counts
        /\ c.pc = "delete" => c.after = "requeue"
    BY <2>2, <2>a, RetryingCall
  <2>4. CallOK(p, c) /\ CallKnown(c, accepted)
    BY <1>1, <2>2, <2>3 DEF CallOK, CallKnown, Item
  <2> QED
    BY <2>1, <2>3, <2>4, <2>b DEF c
<1> QED
  BY <1>2, <1>3
-----------------------------------------------------------------------------
(* One lemma per action: the parts of the invariant stay *)

LEMMA AddKeeps ==
  ASSUME CallsOK, DataOK, NEW p \in Process, NEW t \in Task, Add(p, t)
  PROVE  CallsOK' /\ DataOK'
<1> DEFINE c == [Idle EXCEPT !.pc = "size", !.task = t, !.after = "add"]
<1>1. CallOK(p, c) /\ CallKnown(c, accepted)
  <2>1. /\ c \in Calls
        /\ c.pc = "size" /\ c.task = t /\ c.retries = 0 /\ c.after = "add" /\ c.todo = {}
    BY IdleCall DEF Idle, Calls
  <2> HIDE DEF c
  <2> QED
    BY <2>1 DEF CallOK, CallKnown, Calls, Item, Counts
<1>2. call' = [call EXCEPT ![p] = c] /\ UNCHANGED <<redis, history, faults>>
  BY DEF Add
<1> HIDE DEF c
<1> QED
  BY <1>1, <1>2, OneCall DEF DataOK, redis, history

LEMMA ReadSizeKeeps ==
  ASSUME CallsOK, DataOK, NEW p \in Process, ReadSize(p)
  PROVE  CallsOK' /\ DataOK'
<1> USE DEF ReadSize, redis
<1>1. CASE Goto(p, "add") /\ UNCHANGED dropped
  <2> DEFINE c == [call[p] EXCEPT !.pc = "add"]
  <2>1. CallOK(p, c) /\ CallKnown(c, accepted)
    BY DEF CallsOK, CallOK, CallKnown, Calls, At
  <2>2. call' = [call EXCEPT ![p] = c]
    BY <1>1 DEF Goto
  <2> HIDE DEF c
  <2> QED
    BY <1>1, <2>1, <2>2, OneCall DEF DataOK
<1>2. CASE Return(p) /\ Drop(p)
  <2>1. CallsOK'
    BY <1>2, Returned, OneCall
  <2>2. InFlight(p) => call[p].task \in accepted
    BY DEF CallsOK, CallKnown, InFlight
  <2> QED
    BY <1>2, <2>1, <2>2 DEF DataOK, Drop
<1> QED
  BY <1>1, <1>2

LEMMA AddMemberKeeps ==
  ASSUME CallsOK, DataOK, NEW p \in Process, AddMember(p)
  PROVE  CallsOK' /\ DataOK'
<1>1. call[p].task \in Task /\ Copy(p) \in Item /\ Copy(p).task = call[p].task
  BY DEF AddMember, CallsOK, CallOK, At, Copy
<1>2. Return(p) /\ accepted \subseteq accepted'
  BY DEF AddMember
<1>3. CallKnown(call'[p], accepted')
  BY <1>2, Returned DEF CallKnown
<1>4. CallsOK'
  BY <1>2, <1>3, Returned, OneCall
<1>5. DataOK'
  BY <1>1 DEF AddMember, DataOK
<1> QED
  BY <1>4, <1>5

LEMMA DequeueKeeps ==
  ASSUME CallsOK, DataOK, NEW p \in Process, Dequeue(p)
  PROVE  CallsOK' /\ DataOK'
<1>1. PICK x \in Item :
        /\ queue[x] > 0
        /\ queue' = [queue EXCEPT ![x] = @ - 1]
        /\ held' = [held EXCEPT ![x.task] = [retries |-> x.retries, by |-> p]]
        /\ stamp' = [stamp EXCEPT ![x.task] = 0]
        /\ call' = [call EXCEPT ![p] = [Idle EXCEPT !.pc = "working", !.task = x.task,
                                                    !.retries = x.retries, !.by = p]]
        /\ UNCHANGED <<dlq, history, faults>>
  BY DEF Dequeue
<1>2. x.task \in accepted /\ x.task \in Task /\ x.retries \in Counts
  BY <1>1 DEF DataOK, Item
<1> DEFINE c == [Idle EXCEPT !.pc = "working", !.task = x.task, !.retries = x.retries, !.by = p]
<1>3. CallOK(p, c) /\ CallKnown(c, accepted)
  <2>1. x.retries \in Nat
    BY <1>2, QueueAssumption DEF Counts
  <2>2. /\ c \in Calls
        /\ c.pc = "working" /\ c.task = x.task /\ c.retries = x.retries /\ c.by = p
        /\ c.after = "end" /\ c.todo = {}
    BY <1>2, <2>1, IdleCall DEF Idle, Calls
  <2> HIDE DEF c
  <2> QED
    BY <1>2, <2>1, <2>2 DEF CallOK, CallKnown, Calls, Item
<1>4. DataOK'
  BY <1>1, <1>2 DEF DataOK, Held, history
<1> HIDE DEF c
<1>5. CallsOK'
  BY <1>1, <1>3, OneCall DEF c, history
<1> QED
  BY <1>4, <1>5

LEMMA WorkerKeeps ==
  ASSUME CallsOK, DataOK, NEW p \in Process, Complete(p) \/ Retry(p) \/ GiveUp(p)
  PROVE  CallsOK' /\ DataOK'
<1> USE DEF redis, history
<1>0. /\ CallOK(p, call[p]) /\ CallKnown(call[p], accepted)
      /\ call[p].pc = "working"
      /\ call[p].task \in Task /\ call[p].task \in accepted /\ call[p].by \in Process
      /\ call[p].retries \in Counts
  BY DEF CallsOK, CallOK, CallKnown, Item, At, Complete, Retry, GiveUp
<1>1. CASE Complete(p)
  <2> DEFINE c == [call[p] EXCEPT !.pc = "delete", !.spent = 0]
  <2>1. CallOK(p, c) /\ CallKnown(c, accepted)
    BY <1>0 DEF CallOK, CallKnown, Calls
  <2>2. call' = [call EXCEPT ![p] = c]
    BY <1>1 DEF Complete, Leave
  <2> HIDE DEF c
  <2> QED
    BY <1>0, <1>1, <2>1, <2>2, OneCall DEF DataOK, Complete
<1>2. CASE Retry(p)
  <2> DEFINE c == Retrying(call[p].task, call[p], {})
  <2>1. call' = [call EXCEPT ![p] = c]
    BY <1>2 DEF Retry, CallsOK
  <2>a. c = Retrying(call[p].task, call[p], {})
    OBVIOUS
  <2> HIDE DEF c
  <2>2. /\ c \in Calls /\ c.task = call[p].task /\ c.todo = {}
        /\ c.pc \in {"bury", "delete"} /\ c.after \in {"end", "requeue"}
        /\ c.after = "requeue" => c.retries \in Counts
    <3>1. {} \in Todos
      BY DEF Todos
    <3> QED
      BY <1>0, <2>a, <3>1, RetryingCall
  <2>3. CallOK(p, c) /\ CallKnown(c, accepted)
    BY <1>0, <2>2 DEF CallOK, CallKnown, Item
  <2> QED
    BY <1>2, <2>1, <2>3, OneCall DEF DataOK, Retry
<1>3. CASE GiveUp(p)
  <2> DEFINE c == [call[p] EXCEPT !.pc = "bury", !.spent = 0]
  <2>1. CallOK(p, c) /\ CallKnown(c, accepted)
    BY <1>0 DEF CallOK, CallKnown, Calls
  <2>2. call' = [call EXCEPT ![p] = c]
    BY <1>3 DEF GiveUp, Leave
  <2> HIDE DEF c
  <2> QED
    BY <1>3, <2>1, <2>2, OneCall DEF DataOK, GiveUp
<1> QED
  BY <1>1, <1>2, <1>3

LEMMA RemovalKeeps ==
  ASSUME CallsOK, DataOK, NEW p \in Process, Bury(p) \/ Delete(p) \/ Unstamp(p)
  PROVE  CallsOK' /\ DataOK'
<1> USE DEF redis, history
<1>0. /\ CallOK(p, call[p]) /\ CallKnown(call[p], accepted)
      /\ call[p].pc \in {"bury", "delete", "unstamp"}
      /\ call[p].task \in Task /\ call[p].task \in accepted
  BY DEF CallsOK, CallOK, CallKnown, At, Bury, Delete, Unstamp
<1>1. ASSUME NEW pc \in {"delete", "unstamp", "size"}, Goto(p, pc), accepted' = accepted,
             pc = "size" => call[p].after = "requeue"
      PROVE  CallsOK'
  <2> DEFINE c == [call[p] EXCEPT !.pc = pc]
  <2>1. CallOK(p, c) /\ CallKnown(c, accepted)
    BY <1>0, <1>1 DEF CallOK, CallKnown, Calls
  <2>2. call' = [call EXCEPT ![p] = c]
    BY <1>1 DEF Goto
  <2> HIDE DEF c
  <2> QED
    BY <1>1, <2>1, <2>2, OneCall
<1>2. CASE Bury(p)
  BY <1>0, <1>1, <1>2 DEF DataOK, Bury
<1>3. CASE Delete(p)
  BY <1>0, <1>1, <1>3 DEF DataOK, Delete
<1>4. CASE Unstamp(p)
  <2>1. DataOK' /\ accepted' = accepted
    BY <1>0, <1>4 DEF DataOK, Unstamp
  <2>2. CASE call[p].after = "requeue"
    BY <1>1, <1>4, <2>1, <2>2 DEF Unstamp
  <2>3. CASE call[p].after # "requeue"
    <3>1. Return(p)
      BY <1>4, <2>3 DEF Unstamp
    <3> QED
      BY <2>1, <3>1, Returned, OneCall
  <2> QED
    BY <2>1, <2>2, <2>3
<1> QED
  BY <1>2, <1>3, <1>4

LEMMA LaterIsLater == \A n \in Nat : Later(n) \in Nat /\ Later(n) >= n
BY QueueAssumption DEF Later

LEMMA TickKeeps ==
  ASSUME CallsOK, DataOK, Tick
  PROVE  CallsOK' /\ DataOK'
<1>0. UNCHANGED <<queue, held, dlq, accepted, settled, dropped, outrun, faults>>
  BY DEF Tick, history
<1>1. stamp' \in [Task -> Nat \cup {None}]
  BY LaterIsLater DEF DataOK, Tick
<1>2. ASSUME NEW p \in Process
      PROVE  /\ call'[p] \in Calls
             /\ CallOK(p, call'[p]) /\ CallKnown(call'[p], accepted')
  <2>1. call[p].spent \in Nat
    BY DEF CallsOK, Calls
  <2>2. PICK n \in Nat : n = Later(call[p].spent)
    BY <2>1, LaterIsLater
  <2>3. call'[p] = call[p] \/ call'[p] = [call[p] EXCEPT !.spent = n]
    BY <2>2 DEF Tick
  <2> QED
    BY <1>0, <2>2, <2>3 DEF CallsOK, CallOK, CallKnown, Calls
<1>3. DOMAIN call' = Process /\ call' = [p \in Process |-> call'[p]]
  BY DEF Tick
<1> QED
  BY <1>0, <1>1, <1>2, <1>3 DEF CallsOK, DataOK

LEMMA RecoverStaleKeeps ==
  ASSUME CallsOK, DataOK, NEW p \in Process, RecoverStale(p)
  PROVE  CallsOK' /\ DataOK'
<1> DEFINE stale == {Entry(t) : t \in {u \in Task : Stale(u, p)}}
<1>1. PICK e \in stale : call' = [call EXCEPT ![p] = Retrying(e.task, e, stale \ {e})]
  BY DEF RecoverStale
<1>2. ASSUME NEW d \in stale
      PROVE  d \in [task : Task, retries : Counts, by : Process] /\ d.task \in accepted
  <2>1. PICK t \in Task : held[t] # None /\ d = Entry(t)
    BY DEF Stale
  <2>2. held[t] \in Held /\ t \in accepted
    BY <2>1 DEF DataOK
  <2> QED
    BY <2>1, <2>2 DEF Entry, Held
<1> HIDE DEF stale
<1> DEFINE rest == stale \ {e}
           c == Retrying(e.task, e, rest)
<1>3. e.task \in Task /\ e.retries \in Counts /\ e.by \in Process /\ e.task \in accepted
  BY <1>2
<1>a. c = Retrying(e.task, e, rest) /\ rest \in Todos
  BY <1>2 DEF Todos
<1> HIDE DEF c, rest
<1>4. /\ c \in Calls /\ c.task = e.task /\ c.todo = rest
      /\ c.pc \in {"bury", "delete"} /\ c.after \in {"end", "requeue"}
      /\ c.after = "requeue" => c.retries \in Counts
  BY <1>3, <1>a, RetryingCall
<1>5. CallOK(p, c) /\ CallKnown(c, accepted)
  BY <1>2, <1>3, <1>4 DEF CallOK, CallKnown, Item, rest
<1>6. call' = [call EXCEPT ![p] = c] /\ UNCHANGED <<redis, history, faults>>
  BY <1>1 DEF c, rest, RecoverStale
<1> QED
  BY <1>5, <1>6, OneCall DEF DataOK, redis, history

LEMMA FaultKeeps ==
  ASSUME CallsOK, DataOK, NEW p \in Process, CommandFails(p) \/ Dies(p)
  PROVE  CallsOK' /\ DataOK'
<1>0. accepted' = accepted
  BY DEF CommandFails, Dies
<1>1. CallsOK'
  <2>1. CASE Return(p)
    BY <1>0, <2>1, Returned, OneCall
  <2>2. CASE call' = [call EXCEPT ![p] = Idle]
    <3>1. CallOK(p, Idle) /\ CallKnown(Idle, accepted)
      BY IdleCall DEF CallOK, CallKnown, Idle
    <3> QED
      BY <1>0, <2>2, <3>1, OneCall
  <2>3. CASE At(p, "delete") /\ call' = [call EXCEPT ![p].pc = "unstamp", ![p].after = "end"]
    <3> DEFINE c == [call[p] EXCEPT !.pc = "unstamp", !.after = "end"]
    <3>1. CallOK(p, c) /\ CallKnown(c, accepted)
      BY <2>3 DEF CallsOK, CallOK, CallKnown, Calls, At
    <3>2. call' = [call EXCEPT ![p] = c]
      BY <2>3
    <3> HIDE DEF c
    <3> QED
      BY <1>0, <3>1, <3>2, OneCall
  <2> QED
    BY <2>1, <2>2, <2>3 DEF CommandFails, Dies
<1>2. /\ InFlight(p) => call[p].task \in accepted
      /\ At(p, "delete") /\ call[p].after = "requeue" => call[p].task \in accepted
  BY DEF CallsOK, CallKnown, InFlight, At
<1>3. faults' \in 0..MaxFaults
  BY QueueAssumption DEF CommandFails, Dies, Fault, DataOK
<1>4. dropped' = dropped \/ (call[p].task \in accepted /\ dropped' = dropped \cup {call[p].task})
  BY <1>2 DEF CommandFails, Dies, Drop
<1> QED
  BY <1>1, <1>3, <1>4 DEF CommandFails, Dies, DataOK, redis

-----------------------------------------------------------------------------
\* The entries, the calls and the sets of tasks keep their types, and a task
\* that is counted, waiting or handed out was accepted before.
THEOREM QueueTypeCorrect == Spec => [](TypeOK /\ Known)
<1>1. Init => CallsOK /\ DataOK
  <2> SUFFICES ASSUME Init PROVE CallsOK /\ DataOK
    OBVIOUS
  <2>1. CallsOK
    BY IdleCall DEF Init, CallsOK, CallOK, CallKnown, Idle
  <2>2. DataOK
    BY QueueAssumption DEF Init, DataOK
  <2> QED
    BY <2>1, <2>2
<1>2. CallsOK /\ DataOK /\ [Next]_vars => CallsOK' /\ DataOK'
  <2> SUFFICES ASSUME CallsOK, DataOK, [Next]_vars PROVE CallsOK' /\ DataOK'
    OBVIOUS
  <2>1. CASE ClearDLQ
    BY <2>1 DEF ClearDLQ, CallsOK, DataOK, history
  <2>2. CASE UNCHANGED vars
    BY <2>2 DEF vars, CallsOK, DataOK
  <2> QED
    BY <2>1, <2>2, AddKeeps, ReadSizeKeeps, AddMemberKeeps, DequeueKeeps, WorkerKeeps,
       RemovalKeeps, TickKeeps, RecoverStaleKeeps, FaultKeeps DEF Next, Step
<1> QED
  BY <1>1, <1>2, Parts, PTL DEF Spec
-----------------------------------------------------------------------------
(* Done and NothingLost: what becomes of a task when one call changes *)

\* The task t is where NothingLost allows it to be.
Kept(t) ==
  \/ Waits(t) \/ Recoverable(t)
  \/ \E p \in Process : InFlight(p) /\ call[p].task = t
  \/ t \in settled \/ t \in dropped

Changed(p) == call' = [call EXCEPT ![p] = call'[p]]

LEMMA DoneStays ==
  ASSUME CallsOK, Done, NEW p \in Process, Changed(p), settled \subseteq settled',
         dropped \subseteq dropped',
         call'[p].pc \in {"delete", "unstamp"} /\ call'[p].after # "requeue" =>
           call'[p].task \in settled' \cup dropped'
  PROVE  Done'
<1> SUFFICES ASSUME NEW q \in Process, call'[q].pc \in {"delete", "unstamp"},
                    call'[q].after # "requeue"
             PROVE  call'[q].task \in settled' \cup dropped'
  BY DEF Done, At
<1>1. CASE q = p
  BY <1>1
<1>2. CASE q # p
  <2>1. call'[q] = call[q]
    BY <1>2 DEF Changed, CallsOK
  <2> QED
    BY <2>1 DEF Done, At
<1> QED
  BY <1>1, <1>2

\* A task is kept if it does not leave Redis, and if p, where it carries the
\* task, puts it somewhere.
LEMMA KeptStays ==
  ASSUME CallsOK, NEW p \in Process, NEW t \in Task, Kept(t), Changed(p),
         settled \subseteq settled', dropped \subseteq dropped',
         Waits(t) => Kept(t)', Recoverable(t) => Kept(t)',
         InFlight(p) /\ call[p].task = t => Kept(t)'
  PROVE  Kept(t)'
<1>1. CASE \E q \in Process : InFlight(q) /\ call[q].task = t
  <2>1. PICK q \in Process : InFlight(q) /\ call[q].task = t
    BY <1>1
  <2>2. CASE q = p
    BY <2>1, <2>2
  <2>3. CASE q # p
    <3>1. call'[q] = call[q]
      BY <2>3 DEF Changed, CallsOK
    <3>2. InFlight(q)' /\ call'[q].task = t
      BY <2>1, <3>1 DEF InFlight
    <3> QED
      BY <3>2 DEF Kept
  <2> QED
    BY <2>2, <2>3
<1>2. CASE t \in settled \/ t \in dropped
  BY <1>2 DEF Kept
<1> QED
  BY <1>1, <1>2 DEF Kept

\* What waits or can be recovered is kept by every step that leaves it there.
LEMMA StillThere ==
  ASSUME NEW t \in Task
  PROVE  /\ Waits(t) /\ queue' = queue => Kept(t)'
         /\ Recoverable(t) /\ held' = held /\ stamp' = stamp => Kept(t)'
BY DEF Kept, Waits, Recoverable

-----------------------------------------------------------------------------
LEMMA AddLoses ==
  ASSUME CallsOK, Done, NothingLost, accepted \subseteq Task,
         NEW p \in Process, NEW u \in Task, Add(p, u)
  PROVE  Done' /\ NothingLost'
<1>1. /\ Changed(p) /\ call'[p].after = "add" /\ call'[p].pc = "size"
      /\ At(p, "idle")
      /\ UNCHANGED <<queue, held, stamp, accepted, settled, dropped>>
  BY DEF Add, Changed, CallsOK, Idle, redis, history
<1>2. Done'
  BY <1>1, DoneStays
<1>3. ~InFlight(p)
  BY <1>1 DEF InFlight, At
<1>4. ASSUME NEW t \in accepted PROVE Kept(t)'
  BY <1>1, <1>3, KeptStays, StillThere DEF NothingLost, Kept
<1> QED
  BY <1>1, <1>2, <1>4 DEF NothingLost, Kept

LEMMA ReadSizeLoses ==
  ASSUME CallsOK, Done, NothingLost, accepted \subseteq Task,
         NEW p \in Process, ReadSize(p)
  PROVE  Done' /\ NothingLost'
<1>1. UNCHANGED <<queue, held, stamp, accepted, settled>> /\ At(p, "size")
  BY DEF ReadSize, redis
<1>2. CASE Goto(p, "add") /\ UNCHANGED dropped
  <2>1. call' = [call EXCEPT ![p].pc = "add"]
    BY <1>2 DEF Goto
  <2>2. /\ Changed(p) /\ call'[p].pc = "add"
        /\ call'[p].after = call[p].after /\ call'[p].task = call[p].task
    BY <2>1 DEF Changed, CallsOK, Calls
  <2>3. Done'
    BY <1>1, <1>2, <2>2, DoneStays
  <2>4. InFlight(p) => InFlight(p)'
    BY <2>2 DEF InFlight
  <2>5. ASSUME NEW t \in accepted PROVE Kept(t)'
    <3>1. InFlight(p) /\ call[p].task = t => Kept(t)'
      BY <2>2, <2>4 DEF Kept
    <3> QED
      BY <1>1, <1>2, <2>2, <3>1, KeptStays, StillThere DEF NothingLost, Kept
  <2> QED
    BY <1>1, <2>3, <2>5 DEF NothingLost, Kept
<1>3. CASE Return(p) /\ Drop(p)
  <2>1. /\ Changed(p)
        /\ call'[p].pc \in {"idle", "bury", "delete"}
        /\ call'[p].pc = "delete" => call'[p].after = "requeue"
    BY <1>3, Returned DEF Changed
  <2>a. dropped \subseteq dropped'
    BY <1>3 DEF Drop
  <2>2. Done'
    BY <1>1, <2>1, <2>a, DoneStays
  <2>3. ASSUME NEW t \in accepted PROVE Kept(t)'
    <3>1. InFlight(p) /\ call[p].task = t => Kept(t)'
      BY <1>3 DEF Drop, Kept
    <3> QED
      BY <1>1, <2>1, <2>a, <3>1, KeptStays, StillThere DEF NothingLost, Kept
  <2> QED
    BY <1>1, <2>2, <2>3 DEF NothingLost, Kept
<1> QED
  BY <1>2, <1>3 DEF ReadSize

LEMMA AddMemberLoses ==
  ASSUME CallsOK, DataOK, Done, NothingLost, NEW p \in Process, AddMember(p)
  PROVE  Done' /\ NothingLost'
<1>1. /\ Changed(p)
      /\ call'[p].pc \in {"idle", "bury", "delete"}
      /\ call'[p].pc = "delete" => call'[p].after = "requeue"
  BY Returned DEF AddMember, Changed
<1>2. Done'
  BY <1>1, DoneStays DEF AddMember
<1>3. /\ call[p].task \in Task /\ Copy(p) \in Item /\ Copy(p).task = call[p].task
      /\ queue \in [Item -> Nat]
  BY DEF AddMember, CallsOK, CallOK, At, Copy, DataOK
<1>a. PICK u \in Task : u = call[p].task
  BY <1>3
<1>4. /\ \A x \in Item : queue[x] > 0 => queue'[x] > 0
      /\ queue'[Copy(p)] > 0
  BY <1>3 DEF AddMember
<1>5. Waits(u)'
  BY <1>3, <1>a, <1>4 DEF Waits
<1>6. ASSUME NEW t \in accepted, t # u PROVE Kept(t)'
  <2>1. Waits(t) => Kept(t)'
    BY <1>4 DEF Waits, Kept
  <2>2. t \in Task /\ Kept(t)
    BY DEF DataOK, NothingLost, Kept
  <2>3. UNCHANGED <<held, stamp, settled, dropped>>
    BY DEF AddMember
  <2> QED
    BY <1>1, <1>a, <1>6, <2>1, <2>2, <2>3, KeptStays, StillThere
<1>7. accepted' = accepted \cup {u}
  BY <1>a DEF AddMember
<1> QED
  BY <1>2, <1>5, <1>6, <1>7 DEF NothingLost, Kept

LEMMA DequeueLoses ==
  ASSUME CallsOK, DataOK, Done, NothingLost, NEW p \in Process, Dequeue(p)
  PROVE  Done' /\ NothingLost'
<1>1. PICK x \in Item :
        /\ At(p, "idle")
        /\ queue[x] > 0
        /\ queue' = [queue EXCEPT ![x] = @ - 1]
        /\ held' = [held EXCEPT ![x.task] = [retries |-> x.retries, by |-> p]]
        /\ stamp' = [stamp EXCEPT ![x.task] = 0]
        /\ call' = [call EXCEPT ![p] = [Idle EXCEPT !.pc = "working", !.task = x.task,
                                                    !.retries = x.retries, !.by = p]]
        /\ UNCHANGED <<dlq, history, faults>>
  BY DEF Dequeue
<1>2. Changed(p) /\ call'[p].pc = "working"
  BY <1>1 DEF Changed, CallsOK, Idle
<1>3. UNCHANGED <<accepted, settled, dropped>>
  BY <1>1 DEF history
<1>4. Done'
  BY <1>2, <1>3, DoneStays
<1>5. ~InFlight(p)
  BY <1>1 DEF InFlight, At
<1>6. x.task \in Task
  BY <1>1 DEF Item
<1>7. Recoverable(x.task)'
  <2>1. [retries |-> x.retries, by |-> p] # None
    BY <1>1, QueueAssumption DEF Item, Counts
  <2> QED
    BY <1>1, <1>6, <2>1, QueueAssumption DEF Recoverable, DataOK
<1>8. ASSUME NEW t \in accepted, t # x.task PROVE Kept(t)'
  <2>1. t \in Task /\ Kept(t)
    BY DEF DataOK, NothingLost, Kept
  <2>2. Waits(t) => Kept(t)'
    BY <1>1, <1>8 DEF Waits, Kept, DataOK
  <2>3. Recoverable(t) => Kept(t)'
    BY <1>1, <1>8, <2>1 DEF Recoverable, Kept, DataOK
  <2> QED
    BY <1>2, <1>3, <1>5, <2>1, <2>2, <2>3, KeptStays
<1> QED
  BY <1>3, <1>4, <1>7, <1>8 DEF NothingLost, Kept
LEMMA WorkerLoses ==
  ASSUME CallsOK, DataOK, Done, NothingLost,
         NEW p \in Process, Complete(p) \/ Retry(p) \/ GiveUp(p)
  PROVE  Done' /\ NothingLost'
<1>1. /\ UNCHANGED <<queue, held, stamp, accepted, dropped>>
      /\ settled \subseteq settled'
      /\ At(p, "working")
  BY DEF Complete, Retry, GiveUp, redis, history
<1>2. Changed(p)
  <2>1. CASE Complete(p) \/ GiveUp(p)
    BY <2>1 DEF Complete, GiveUp, Leave, Changed, CallsOK
  <2>2. CASE Retry(p)
    BY <2>2 DEF Retry, Changed, CallsOK
  <2> QED
    BY <2>1, <2>2
<1>3. call'[p].pc \in {"delete", "unstamp"} /\ call'[p].after # "requeue" =>
        call'[p].task \in settled'
  <2>1. CASE Complete(p)
    BY <2>1 DEF Complete, Leave, CallsOK, Calls
  <2>2. CASE GiveUp(p)
    BY <2>2 DEF GiveUp, Leave, CallsOK, Calls
  <2>3. CASE Retry(p)
    BY <2>3 DEF Retry, Retrying, CallsOK
  <2> QED
    BY <2>1, <2>2, <2>3
<1>4. Done'
  BY <1>1, <1>2, <1>3, DoneStays
<1>5. ~InFlight(p)
  BY <1>1 DEF InFlight, At
<1>6. ASSUME NEW t \in accepted PROVE Kept(t)'
  BY <1>1, <1>2, <1>5, KeptStays, StillThere DEF NothingLost, Kept, DataOK
<1> QED
  BY <1>1, <1>4, <1>6 DEF NothingLost, Kept

LEMMA BuryLoses ==
  ASSUME CallsOK, DataOK, Done, NothingLost, NEW p \in Process, Bury(p)
  PROVE  Done' /\ NothingLost'
<1>1. /\ UNCHANGED <<queue, held, stamp, accepted, dropped>>
      /\ settled' = settled \cup {call[p].task}
      /\ At(p, "bury")
  BY DEF Bury
<1>2. Changed(p) /\ call'[p].task = call[p].task
  BY DEF Bury, Goto, Changed, CallsOK, Calls
<1>3. Done'
  BY <1>1, <1>2, DoneStays
<1>4. ~InFlight(p)
  BY <1>1 DEF InFlight, At
<1>5. ASSUME NEW t \in accepted PROVE Kept(t)'
  BY <1>1, <1>2, <1>4, KeptStays, StillThere DEF NothingLost, Kept, DataOK
<1> QED
  BY <1>1, <1>3, <1>5 DEF NothingLost, Kept

\* The entry that Delete removes is settled, or in flight from now on.
LEMMA DeleteLoses ==
  ASSUME CallsOK, DataOK, Done, NothingLost, NEW p \in Process, Delete(p)
  PROVE  Done' /\ NothingLost'
<1>1. /\ UNCHANGED <<queue, stamp, accepted, settled, dropped>>
      /\ At(p, "delete") /\ Goto(p, "unstamp")
      /\ held' = [held EXCEPT ![call[p].task] = None]
  BY DEF Delete
<1>2. /\ Changed(p) /\ call'[p].pc = "unstamp"
      /\ call'[p].task = call[p].task /\ call'[p].after = call[p].after
  BY <1>1 DEF Goto, Changed, CallsOK, Calls
<1>3. Done'
  BY <1>1, <1>2, DoneStays DEF Done
<1>4. ~InFlight(p)
  BY <1>1 DEF InFlight, At
<1>5. ASSUME NEW t \in accepted PROVE Kept(t)'
  <2>0. t \in Task /\ Kept(t)
    BY DEF NothingLost, Kept, DataOK
  <2>1. CASE t = call[p].task
    <3>1. CASE call[p].after = "requeue"
      BY <1>2, <2>1, <3>1 DEF Kept, InFlight
    <3>2. CASE call[p].after # "requeue"
      BY <1>1, <2>1, <3>2 DEF Kept, Done
    <3> QED
      BY <3>1, <3>2
  <2>2. CASE t # call[p].task
    <3>1. Recoverable(t) => Kept(t)'
      BY <1>1, <2>0, <2>2 DEF Recoverable, Kept, DataOK
    <3> QED
      BY <1>1, <1>2, <1>4, <2>0, <3>1, KeptStays, StillThere
  <2> QED
    BY <2>1, <2>2
<1> QED
  BY <1>1, <1>3, <1>5 DEF NothingLost, Kept

LEMMA UnstampLoses ==
  ASSUME CallsOK, DataOK, Done, NothingLost, NEW p \in Process, Unstamp(p)
  PROVE  Done' /\ NothingLost'
<1>1. /\ UNCHANGED <<queue, held, accepted, settled, dropped>>
      /\ At(p, "unstamp")
      /\ stamp' = [stamp EXCEPT ![call[p].task] = None]
  BY DEF Unstamp, history
<1>2. CASE call[p].after = "requeue"
  <2>1. /\ Changed(p) /\ call'[p].pc = "size"
        /\ call'[p].task = call[p].task /\ call'[p].after = "requeue"
    BY <1>2 DEF Unstamp, Goto, Changed, CallsOK, Calls
  <2>2. Done'
    BY <1>1, <2>1, DoneStays
  <2>3. ASSUME NEW t \in accepted PROVE Kept(t)'
    <3>0. t \in Task /\ Kept(t)
      BY DEF NothingLost, Kept, DataOK
    <3>1. CASE t = call[p].task
      BY <2>1, <3>1 DEF Kept, InFlight
    <3>2. CASE t # call[p].task
      <4>1. Recoverable(t) => Kept(t)'
        BY <1>1, <3>0, <3>2 DEF Recoverable, Kept, DataOK
      <4> QED
        BY <1>1, <2>1, <3>0, <3>2, <4>1, KeptStays, StillThere
    <3> QED
      BY <3>1, <3>2
  <2> QED
    BY <1>1, <2>2, <2>3 DEF NothingLost, Kept
<1>3. CASE call[p].after # "requeue"
  <2>1. /\ Changed(p)
        /\ call'[p].pc \in {"idle", "bury", "delete"}
        /\ call'[p].pc = "delete" => call'[p].after = "requeue"
    BY <1>3, Returned DEF Unstamp, Changed
  <2>2. Done'
    BY <1>1, <2>1, DoneStays
  <2>3. call[p].task \in settled \cup dropped
    BY <1>1, <1>3 DEF Done
  <2>4. ~InFlight(p)
    BY <1>3 DEF InFlight
  <2>5. ASSUME NEW t \in accepted PROVE Kept(t)'
    <3>0. t \in Task /\ Kept(t)
      BY DEF NothingLost, Kept, DataOK
    <3>1. CASE t = call[p].task
      BY <1>1, <2>3, <3>1 DEF Kept
    <3>2. CASE t # call[p].task
      <4>1. Recoverable(t) => Kept(t)'
        BY <1>1, <3>0, <3>2 DEF Recoverable, Kept, DataOK
      <4> QED
        BY <1>1, <2>1, <2>4, <3>0, <4>1, KeptStays, StillThere
    <3> QED
      BY <3>1, <3>2
  <2> QED
    BY <1>1, <2>2, <2>5 DEF NothingLost, Kept
<1> QED
  BY <1>2, <1>3

LEMMA TickLoses ==
  ASSUME CallsOK, DataOK, Done, NothingLost, Tick
  PROVE  Done' /\ NothingLost'
<1>1. UNCHANGED <<queue, held, accepted, settled, dropped>>
  BY DEF Tick, history
<1>2. ASSUME NEW q \in Process
      PROVE  /\ call'[q].pc = call[q].pc /\ call'[q].task = call[q].task
             /\ call'[q].after = call[q].after
  <2>1. call'[q] = call[q] \/ call'[q] = [call[q] EXCEPT !.spent = Later(@)]
    BY DEF Tick
  <2> QED
    BY <2>1 DEF CallsOK, Calls
<1>3. Done'
  BY <1>1, <1>2 DEF Done, At
<1>4. ASSUME NEW t \in accepted PROVE Kept(t)'
  <2>1. t \in Task /\ Kept(t)
    BY DEF NothingLost, Kept, DataOK
  <2>2. stamp[t] # None => stamp'[t] # None
    BY <2>1, LaterIsLater, QueueAssumption DEF DataOK, Tick
  <2>3. Recoverable(t) => Recoverable(t)'
    BY <1>1, <2>2 DEF Recoverable
  <2>4. ASSUME NEW q \in Process, InFlight(q), call[q].task = t
        PROVE  InFlight(q)' /\ call'[q].task = t
    BY <1>2, <2>4 DEF InFlight
  <2> QED
    BY <1>1, <2>1, <2>3, <2>4 DEF Kept, Waits
<1> QED
  BY <1>1, <1>3, <1>4 DEF NothingLost, Kept

LEMMA RecoverStaleLoses ==
  ASSUME CallsOK, DataOK, Done, NothingLost, NEW p \in Process, RecoverStale(p)
  PROVE  Done' /\ NothingLost'
<1>1. UNCHANGED <<queue, held, stamp, accepted, settled, dropped>> /\ At(p, "idle")
  BY DEF RecoverStale, redis, history
<1>2. PICK u, e, todo : call' = [call EXCEPT ![p] = Retrying(u, e, todo)]
  BY DEF RecoverStale
<1>3. Changed(p) /\ (call'[p].pc = "bury" \/ call'[p].after = "requeue")
  BY <1>2 DEF Changed, CallsOK, Retrying
<1>4. Done'
  BY <1>1, <1>3, DoneStays
<1>5. ~InFlight(p)
  BY <1>1 DEF InFlight, At
<1>6. ASSUME NEW t \in accepted PROVE Kept(t)'
  BY <1>1, <1>3, <1>5, KeptStays, StillThere DEF NothingLost, Kept, DataOK
<1> QED
  BY <1>1, <1>4, <1>6 DEF NothingLost, Kept

LEMMA FaultLoses ==
  ASSUME CallsOK, DataOK, Done, NothingLost, NEW p \in Process, CommandFails(p) \/ Dies(p)
  PROVE  Done' /\ NothingLost'
<1>1. UNCHANGED <<queue, held, stamp, accepted, settled>>
  BY DEF CommandFails, Dies, redis
<1>2. CASE At(p, "delete") /\ call' = [call EXCEPT ![p].pc = "unstamp", ![p].after = "end"]
           /\ dropped' = IF call[p].after = "requeue" THEN dropped \cup {call[p].task} ELSE dropped
  <2>1. Changed(p) /\ call'[p].task = call[p].task /\ dropped \subseteq dropped'
    BY <1>2 DEF Changed, CallsOK, Calls
  <2>2. call[p].task \in settled' \cup dropped'
    BY <1>1, <1>2, <2>1 DEF Done
  <2>3. Done'
    BY <1>1, <2>1, <2>2, DoneStays
  <2>4. ~InFlight(p)
    BY <1>2 DEF InFlight, At
  <2>5. ASSUME NEW t \in accepted PROVE Kept(t)'
    BY <1>1, <2>1, <2>4, KeptStays, StillThere DEF NothingLost, Kept, DataOK
  <2> QED
    BY <1>1, <2>3, <2>5 DEF NothingLost, Kept
<1>3. CASE Drop(p) /\ (Return(p) \/ call' = [call EXCEPT ![p] = Idle])
  <2>1. /\ Changed(p)
        /\ call'[p].pc = "delete" => call'[p].after = "requeue"
        /\ call'[p].pc # "unstamp"
    <3>1. CASE Return(p)
      BY <3>1, Returned DEF Changed
    <3>2. CASE call' = [call EXCEPT ![p] = Idle]
      BY <3>2 DEF Changed, CallsOK, Idle
    <3> QED
      BY <1>3, <3>1, <3>2
  <2>2. dropped \subseteq dropped'
    BY <1>3 DEF Drop
  <2>3. Done'
    BY <1>1, <2>1, <2>2, DoneStays
  <2>4. ASSUME NEW t \in accepted PROVE Kept(t)'
    <3>1. InFlight(p) /\ call[p].task = t => Kept(t)'
      BY <1>3 DEF Drop, Kept
    <3> QED
      BY <1>1, <2>1, <2>2, <3>1, KeptStays, StillThere DEF NothingLost, Kept, DataOK
  <2> QED
    BY <1>1, <2>3, <2>4 DEF NothingLost, Kept
<1> QED
  BY <1>2, <1>3 DEF CommandFails, Dies

-----------------------------------------------------------------------------
\* Every accepted task waits, can be recovered, is on its way back, is settled,
\* or was lost where Retry may lose one: never by a doubled or a late call.
THEOREM TasksAreKept == Spec => []NothingLost
<1>1. Init => Done /\ NothingLost
  BY DEF Init, Done, NothingLost, Idle, At
<1>2. CallsOK /\ DataOK /\ Done /\ NothingLost /\ [Next]_vars => Done' /\ NothingLost'
  <2> SUFFICES ASSUME CallsOK, DataOK, Done, NothingLost, [Next]_vars
               PROVE  Done' /\ NothingLost'
    OBVIOUS
  <2>0. accepted \subseteq Task
    BY DEF DataOK
  <2>1. CASE ClearDLQ
    BY <2>1 DEF ClearDLQ, history, Done, NothingLost, At, Waits, Recoverable, InFlight
  <2>2. CASE UNCHANGED vars
    BY <2>2 DEF vars, Done, NothingLost, At, Waits, Recoverable, InFlight
  <2> QED
    BY <2>0, <2>1, <2>2, AddLoses, ReadSizeLoses, AddMemberLoses, DequeueLoses, WorkerLoses,
       BuryLoses, DeleteLoses, UnstampLoses, TickLoses, RecoverStaleLoses, FaultLoses
       DEF Next, Step
<1> QED
  BY <1>1, <1>2, Parts, QueueTypeCorrect, PTL DEF Spec

-----------------------------------------------------------------------------
(* OneWorkerInTime: until it is outrun, a task is in one place *)

\* A call that is bringing task t to the queue, or works on it in time.
Brings(c, t) ==
  c.task = t /\ c.pc \in {"unstamp", "size", "add"} /\ c.after \in {"add", "requeue"}
InTime(c, t) == c.task = t /\ c.pc = "working" /\ ~Up(c)
Has(c, t) == Brings(c, t) \/ InTime(c, t)

\* The entry of t is that of no worker in time.
Orphan(t) == held[t] # None /\ ~InTime(call[held[t].by], t)

\* The entries that a call has read and is going to retry, and those that it
\* may yet retry: a worker has one of its own.
Claims(c) ==
  c.todo \cup IF c.pc = "delete" /\ c.after = "requeue"
                THEN {[task |-> c.task, retries |-> c.retries - 1, by |-> c.by]} ELSE {}
Reads(c) ==
  Claims(c) \cup IF c.pc = "working"
                   THEN {[task |-> c.task, retries |-> c.retries, by |-> c.by]} ELSE {}
IsEntry(e) ==
  held[e.task] # None /\ held[e.task].retries = e.retries /\ held[e.task].by = e.by

\* A task is a member of the queue, with a call that brings it or works on it
\* in time, or left behind in an entry.
Single(t) ==
  /\ \A x \in Item : x.task = t /\ queue[x] > 0 =>
       /\ queue[x] = 1
       /\ \A y \in Item : y.task = t /\ queue[y] > 0 => y = x
       /\ \A p \in Process : ~Has(call[p], t)
       /\ ~Orphan(t)
  /\ \A p, q \in Process : Has(call[p], t) /\ Has(call[q], t) => p = q
  /\ \A p \in Process : Has(call[p], t) => ~Orphan(t)

\* What was read is no newer than the task: every retry counts up.
Older(t) ==
  \A p \in Process : \A e \in Reads(call[p]) : e.task = t =>
    /\ held[t] # None => e.retries <= held[t].retries
    /\ \A x \in Item : x.task = t /\ queue[x] > 0 => e.retries < x.retries
    /\ \A q \in Process : Brings(call[q], t) => e.retries < call[q].retries

\* A timestamp is no older than the work of the worker that wrote it.
Spent(t) ==
  held[t] # None /\ stamp[t] # None /\ InTime(call[held[t].by], t) =>
    call[held[t].by].spent >= stamp[t]

\* An entry that somebody is going to retry is that of nobody in time.
Overdue(t) ==
  /\ \A p \in Process : \A e \in Claims(call[p]) : e.task = t /\ IsEntry(e) => Orphan(t)
  /\ Spent(t)

InOnePlace(t) == Single(t) /\ Older(t) /\ Overdue(t)
Places == \A t \in Task \ outrun : InOnePlace(t)

\* Only a retry brings a task back, and it knows whose entry it read.
Shape(c) ==
  /\ c.pc \in {"working", "bury"} => c.after = "end"
  /\ c.pc \in {"size", "add"} => c.after \in {"add", "requeue"}
  /\ c.pc = "delete" /\ c.after = "requeue" => c.by \in Process /\ c.retries - 1 \in Nat
Shapes == \A p \in Process : Shape(call[p])

\* Call q lets go of what it has of t; what it takes up is an orphan.
Wanes(q, t) ==
  /\ Brings(call'[q], t) => Brings(call[q], t) /\ call'[q].retries = call[q].retries
  /\ InTime(call'[q], t) => InTime(call[q], t)
  /\ \A e \in Reads(call'[q]) : e.task = t =>
       e \in Reads(call[q]) \/ (Orphan(t) /\ IsEntry(e))
  /\ \A e \in Claims(call'[q]) : e.task = t =>
       \/ e \in Claims(call[q])
       \/ Orphan(t) /\ IsEntry(e)
       \/ e.by = q /\ ~InTime(call'[q], t)

\* A step that only lets go keeps a task in its place.
LEMMA StaysInPlace ==
  ASSUME NEW t \in Task, InOnePlace(t), held[t] \in Held \cup {None},
         \A q \in Process : Wanes(q, t),
         \A x \in Item : x.task = t => queue'[x] = queue[x],
         held'[t] = held[t] \/ held'[t] = None,
         Spent(t)'
  PROVE  InOnePlace(t)'
<1>0. held[t] # None => held[t].by \in Process /\ held[t].retries \in Nat
  BY QueueAssumption DEF Held, Counts
<1>1. \A q \in Process : Has(call'[q], t) => Has(call[q], t)
  BY DEF Wanes, Has
<1>2. Orphan(t) /\ held'[t] # None => Orphan(t)'
  BY <1>0 DEF Orphan, Wanes
<1>3. Orphan(t)' => held'[t] = held[t] /\ held[t] # None
  BY DEF Orphan
<1>4. ASSUME Orphan(t)', ~Orphan(t)
      PROVE  /\ \A x \in Item : x.task = t => ~(queue[x] > 0)
             /\ \A q \in Process : ~Has(call'[q], t)
  <2>1. PICK p \in Process : p = held[t].by
    BY <1>0, <1>3, <1>4
  <2>2. InTime(call[p], t) /\ ~InTime(call'[p], t)
    BY <1>3, <1>4, <2>1 DEF Orphan
  <2>3. Has(call[p], t) /\ ~Has(call'[p], t)
    BY <2>2 DEF Has, Wanes, InTime, Brings
  <2> QED
    BY <1>1, <2>3 DEF InOnePlace, Single
<1>5. Single(t)'
  BY <1>1, <1>4 DEF InOnePlace, Single
<1>6. Older(t)'
  <2> SUFFICES ASSUME NEW p \in Process, NEW e \in Reads(call'[p]), e.task = t
               PROVE  /\ held'[t] # None => e.retries <= held'[t].retries
                      /\ \A x \in Item : x.task = t /\ queue'[x] > 0 => e.retries < x.retries
                      /\ \A q \in Process : Brings(call'[q], t) => e.retries < call'[q].retries
    BY DEF Older
  <2>0. \A q \in Process : Brings(call'[q], t) =>
          Brings(call[q], t) /\ call'[q].retries = call[q].retries
    BY DEF Wanes
  <2>1. CASE e \in Reads(call[p])
    BY <2>0, <2>1 DEF InOnePlace, Older
  <2>2. CASE Orphan(t) /\ IsEntry(e)
    <3>1. /\ \A x \in Item : x.task = t => ~(queue[x] > 0)
          /\ \A q \in Process : ~Brings(call'[q], t)
      BY <2>0, <2>2 DEF InOnePlace, Single, Has
    <3>2. held'[t] # None => e.retries = held'[t].retries
      BY <2>2 DEF IsEntry
    <3> QED
      BY <1>0, <2>2, <3>1, <3>2 DEF Orphan
  <2> QED
    BY <2>1, <2>2 DEF Wanes
<1>7. Overdue(t)'
  <2>1. ASSUME NEW p \in Process, NEW e \in Claims(call'[p]), e.task = t, IsEntry(e)'
        PROVE  Orphan(t)'
    <3>0. held'[t] = held[t] /\ held[t] # None /\ held'[t].by = e.by /\ IsEntry(e)
      BY <2>1 DEF IsEntry
    <3>1. CASE e \in Claims(call[p])
      BY <1>2, <2>1, <3>0, <3>1 DEF InOnePlace, Overdue
    <3>2. CASE Orphan(t)
      BY <1>2, <3>0, <3>2
    <3>3. CASE e.by = p /\ ~InTime(call'[p], t)
      BY <3>0, <3>3 DEF Orphan
    <3> QED
      BY <2>1, <3>1, <3>2, <3>3 DEF Wanes
  <2> QED
    BY <2>1 DEF Overdue
<1> QED
  BY <1>5, <1>6, <1>7 DEF InOnePlace

\* A call that is not in time says nothing of a timestamp.
LEMMA SpentStays ==
  ASSUME CallsOK, DataOK, NEW p \in Process, Changed(p), NEW t \in Task, Spent(t),
         ~InTime(call'[p], t), held'[t] \in {held[t], None}, stamp'[t] \in {stamp[t], None}
  PROVE  Spent(t)'
<1> SUFFICES ASSUME held'[t] # None, stamp'[t] # None, InTime(call'[held'[t].by], t)
             PROVE  call'[held'[t].by].spent >= stamp'[t]
  BY DEF Spent
<1>1. PICK w \in Process : w = held[t].by /\ held'[t] = held[t] /\ stamp'[t] = stamp[t]
  BY DEF DataOK, Held
<1>2. w # p
  BY <1>1
<1>3. call'[w] = call[w]
  BY <1>2 DEF Changed, CallsOK
<1> QED
  BY <1>1, <1>3 DEF Spent

\* An entry that is stale on some clock is that of nobody in time.
LEMMA StaleIsOrphan ==
  ASSUME CallsOK, DataOK, NEW t \in Task, NEW r \in Process, Spent(t), Stale(t, r)
  PROVE  Orphan(t)
<1> SUFFICES ASSUME InTime(call[held[t].by], t) PROVE FALSE
  BY DEF Orphan, Stale
<1>1. PICK w \in Process : w = held[t].by
  BY DEF DataOK, Held, Stale
<1>2. /\ call[w].spent \in Nat /\ stamp[t] \in Nat /\ call[w].by = w
      /\ call[w].spent >= stamp[t]
  BY <1>1 DEF CallsOK, CallOK, Calls, DataOK, Spent, Stale, InTime
<1>3. Ahead[r] \in Nat /\ Ahead[w] \in Nat /\ Timeout[r] \in Nat
  BY QueueAssumption
<1>4. TimeIsUp(call[w].spent, call[w].by, r)
  BY <1>1, <1>2, <1>3 DEF TimeIsUp, Stale
<1> QED
  BY <1>1, <1>4 DEF InTime, Up

-----------------------------------------------------------------------------
(* What one call lets go of *)

\* The other calls do not change, so that they let go of nothing.
LEMMA OthersWane ==
  ASSUME CallsOK, NEW p \in Process, Changed(p), NEW t \in Task, Wanes(p, t)
  PROVE  \A q \in Process : Wanes(q, t)
<1>1. ASSUME NEW q \in Process, q # p PROVE Wanes(q, t)
  <2>1. call'[q] = call[q]
    BY <1>1 DEF Changed, CallsOK
  <2> QED
    BY <2>1 DEF Wanes
<1> QED
  BY <1>1

LEMMA ShapesStay ==
  ASSUME CallsOK, Shapes, NEW p \in Process, Changed(p), Shape(call'[p])
  PROVE  Shapes'
<1>1. ASSUME NEW q \in Process, q # p PROVE Shape(call'[q])
  <2>1. call'[q] = call[q]
    BY <1>1 DEF Changed, CallsOK
  <2> QED
    BY <2>1 DEF Shapes
<1> QED
  BY <1>1 DEF Shapes

LEMMA IdleHasNothing ==
  /\ \A t \in Task : ~Brings(Idle, t) /\ ~InTime(Idle, t)
  /\ Reads(Idle) = {} /\ Claims(Idle) = {}
  /\ Shape(Idle)
BY DEF Idle, Brings, InTime, Reads, Claims, Shape

\* A retry holds nothing; it claims the entry it is about and those left to do.
LEMMA RetryingClaims ==
  ASSUME NEW u \in Task, NEW e, e.retries \in Counts, e.by \in Process,
         NEW todo \in Todos, NEW c, c = Retrying(u, e, todo)
  PROVE  /\ \A t \in Task : ~Brings(c, t) /\ ~InTime(c, t)
         /\ Claims(c) \subseteq
              todo \cup {[task |-> u, retries |-> e.retries, by |-> e.by]}
         /\ Reads(c) = Claims(c)
         /\ Shape(c)
<1>1. e.retries \in Nat /\ (e.retries + 1) - 1 = e.retries
  BY QueueAssumption DEF Counts
<1>2. CASE e.retries + 1 >= MaxRetries
  <2>1. c =
          [pc |-> "bury", task |-> u, retries |-> e.retries + 1, by |-> e.by,
           after |-> "end", todo |-> todo, spent |-> 0]
    BY <1>2 DEF Retrying
  <2> QED
    BY <2>1 DEF Brings, InTime, Claims, Reads, Shape
<1>3. CASE ~(e.retries + 1 >= MaxRetries)
  <2>1. c =
          [pc |-> "delete", task |-> u, retries |-> e.retries + 1, by |-> e.by,
           after |-> "requeue", todo |-> todo, spent |-> 0]
    BY <1>3 DEF Retrying
  <2> QED
    BY <1>1, <2>1 DEF Brings, InTime, Claims, Reads, Shape
<1> QED
  BY <1>2, <1>3

LEMMA ReturnWanes ==
  ASSUME CallsOK, NEW p \in Process, Return(p)
  PROVE  /\ Changed(p) /\ Shape(call'[p])
         /\ Reads(call'[p]) \subseteq Reads(call[p])
         /\ \A t \in Task : Wanes(p, t) /\ ~Has(call'[p], t)
<1> DEFINE todo == call[p].todo
<1>1. todo \subseteq [task : Task, retries : Counts, by : Process]
  BY DEF CallsOK, Calls
<1>2. CASE todo = {}
  <2>1. call' = [call EXCEPT ![p] = Idle] /\ call'[p] = Idle
    BY <1>2 DEF Return, CallsOK
  <2> QED
    BY <2>1, IdleHasNothing DEF Wanes, Changed, Has
<1>3. CASE todo # {}
  <2>1. PICK e \in todo : call' = [call EXCEPT ![p] = Retrying(e.task, e, todo \ {e})]
    BY <1>3 DEF Return
  <2> DEFINE rest == todo \ {e}
             own == [task |-> e.task, retries |-> e.retries, by |-> e.by]
             c == Retrying(e.task, e, rest)
  <2>2. /\ e.task \in Task /\ e.retries \in Counts /\ e.by \in Process
        /\ e = own
    BY <1>1
  <2>3. c = Retrying(e.task, e, rest) /\ rest \in Todos
    BY <1>1 DEF Todos
  <2>4. call'[p] = c /\ Changed(p)
    BY <2>1 DEF CallsOK, Changed
  <2>8. rest \subseteq todo
    OBVIOUS
  <2> HIDE DEF c, rest
  <2>5. /\ \A t \in Task : ~Brings(c, t) /\ ~InTime(c, t)
        /\ Shape(c)
        /\ Claims(c) \subseteq rest \cup {own}
        /\ Reads(c) = Claims(c)
    BY <2>2, <2>3, RetryingClaims
  <2>6. Claims(c) \subseteq todo /\ Reads(c) \subseteq todo
    BY <2>2, <2>5, <2>8
  <2>7. todo \subseteq Claims(call[p]) /\ todo \subseteq Reads(call[p])
    BY DEF Claims, Reads
  <2> HIDE DEF todo
  <2> QED
    BY <2>4, <2>5, <2>6, <2>7 DEF Wanes, Has
<1> QED
  BY <1>2, <1>3

\* The retries of an entry that was read are a number.
LEMMA RetriesAreNumbers ==
  ASSUME CallsOK, Shapes, NEW p \in Process, NEW e \in Reads(call[p])
  PROVE  e.retries \in Int
<1>1. Counts \subseteq Int
  BY QueueAssumption DEF Counts
<1>2. CASE e \in call[p].todo
  <2>1. call[p].todo \subseteq [task : Task, retries : Counts, by : Process]
    BY DEF CallsOK, Calls
  <2> QED
    BY <1>1, <1>2, <2>1
<1>3. CASE call[p].pc \in {"delete", "working"} /\ e.retries \in {call[p].retries, call[p].retries - 1}
  BY <1>3 DEF CallsOK, Calls
<1> QED
  BY <1>2, <1>3 DEF Reads, Claims

\* A call that goes on with its locals.
LEMMA Went ==
  ASSUME CallsOK, NEW p \in Process, NEW pc, Goto(p, pc)
  PROVE  /\ Changed(p)
         /\ call'[p].pc = pc
         /\ call'[p].task = call[p].task /\ call'[p].retries = call[p].retries
         /\ call'[p].by = call[p].by /\ call'[p].after = call[p].after
         /\ call'[p].todo = call[p].todo
<1>1. call' = [call EXCEPT ![p].pc = pc]
  BY DEF Goto
<1>2. call'[p] = [call[p] EXCEPT !.pc = pc] /\ call[p] \in Calls
  BY <1>1 DEF CallsOK
<1> QED
  BY <1>1, <1>2 DEF Changed, Calls, CallsOK

-----------------------------------------------------------------------------
(* One lemma per action: a task stays in one place *)

\* The call p lets go of what it has, or claims orphans.
LEMMA LetsGo ==
  ASSUME CallsOK, DataOK, Shapes, Places, NEW p \in Process, Changed(p), Shape(call'[p]),
         \A t \in Task : Wanes(p, t),
         UNCHANGED <<queue, held, outrun>>,
         \A t \in Task : ~InTime(call'[p], t) /\ stamp'[t] \in {stamp[t], None}
  PROVE  Shapes' /\ Places'
<1>1. Shapes'
  BY ShapesStay
<1>2. ASSUME NEW t \in Task \ outrun PROVE InOnePlace(t)'
  <2>1. \A q \in Process : Wanes(q, t)
    BY OthersWane
  <2>2. InOnePlace(t) /\ held[t] \in Held \cup {None}
    BY DEF Places, DataOK
  <2>3. Spent(t)'
    BY <2>2, SpentStays DEF InOnePlace, Overdue
  <2> QED
    BY <2>1, <2>2, <2>3, StaysInPlace
<1> QED
  BY <1>1, <1>2 DEF Places

LEMMA ReadSizePlaces ==
  ASSUME CallsOK, DataOK, Shapes, Places, NEW p \in Process, ReadSize(p)
  PROVE  Shapes' /\ Places'
<1>1. UNCHANGED <<queue, held, outrun, stamp>> /\ At(p, "size")
  BY DEF ReadSize, redis
<1>2. CASE Goto(p, "add")
  <2>1. /\ Changed(p) /\ call'[p].pc = "add"
        /\ call'[p].task = call[p].task /\ call'[p].retries = call[p].retries
        /\ call'[p].after = call[p].after /\ call'[p].todo = call[p].todo
    BY <1>2, Went
  <2>2. Shape(call'[p])
    BY <1>1, <2>1 DEF Shapes, Shape, At
  <2>3. \A t \in Task : Wanes(p, t) /\ ~InTime(call'[p], t)
    BY <1>1, <2>1 DEF Wanes, Brings, InTime, Reads, Claims, At
  <2> QED
    BY <1>1, <2>1, <2>2, <2>3, LetsGo
<1>3. CASE Return(p)
  BY <1>1, <1>3, ReturnWanes, LetsGo DEF Has
<1> QED
  BY <1>2, <1>3 DEF ReadSize

LEMMA WorkerPlaces ==
  ASSUME CallsOK, DataOK, Shapes, Places,
         NEW p \in Process, Complete(p) \/ Retry(p) \/ GiveUp(p)
  PROVE  Shapes' /\ Places'
<1>1. /\ UNCHANGED <<queue, held, outrun, stamp>>
      /\ call[p].pc = "working" /\ call[p].after = "end"
  BY DEF Complete, Retry, GiveUp, redis, history, At, Shapes, Shape
<1>2. ASSUME NEW pc \in {"delete", "bury"}, Leave(p, pc)
      PROVE  Shapes' /\ Places'
  <2>1. /\ Changed(p) /\ call'[p].pc = pc /\ call'[p].after = "end"
        /\ call'[p].todo = call[p].todo
    BY <1>1, <1>2 DEF Leave, Changed, CallsOK, Calls
  <2>2. Shape(call'[p])
    BY <2>1 DEF Shape
  <2>3. \A t \in Task : Wanes(p, t) /\ ~InTime(call'[p], t)
    BY <2>1 DEF Wanes, Brings, InTime, Reads, Claims
  <2> QED
    BY <1>1, <2>1, <2>2, <2>3, LetsGo
<1>3. CASE Retry(p)
  <2> DEFINE c == Retrying(call[p].task, call[p], {})
             own == [task |-> call[p].task, retries |-> call[p].retries, by |-> call[p].by]
  <2>1. call'[p] = c /\ Changed(p)
    BY <1>3 DEF Retry, CallsOK, Changed
  <2>2. /\ call[p].task \in Task /\ call[p].by = p /\ call[p].retries \in Counts
        /\ {} \in Todos
    BY <1>1 DEF CallsOK, CallOK, Item, Todos
  <2>3. own \in Reads(call[p]) /\ own.by = p
    BY <1>1, <2>2 DEF Reads
  <2>4. c = Retrying(call[p].task, call[p], {})
    OBVIOUS
  <2> HIDE DEF c
  <2>5. /\ \A t \in Task : ~Brings(c, t) /\ ~InTime(c, t)
        /\ Shape(c) /\ Claims(c) \subseteq {} \cup {own} /\ Reads(c) = Claims(c)
    BY <2>2, <2>4, RetryingClaims
  <2>6. ASSUME NEW t \in Task PROVE Wanes(p, t) /\ ~InTime(call'[p], t)
    BY <2>1, <2>3, <2>5 DEF Wanes
  <2> QED
    BY <1>1, <2>1, <2>2, <2>5, <2>6, LetsGo
<1> QED
  BY <1>2, <1>3 DEF Complete, GiveUp

LEMMA BuryPlaces ==
  ASSUME CallsOK, DataOK, Shapes, Places, NEW p \in Process, Bury(p)
  PROVE  Shapes' /\ Places'
<1>1. /\ UNCHANGED <<queue, held, outrun, stamp>>
      /\ call[p].after = "end" /\ Goto(p, "delete")
  BY DEF Bury, At, Shapes, Shape
<1>2. /\ Changed(p) /\ call'[p].pc = "delete" /\ call'[p].after = "end"
      /\ call'[p].todo = call[p].todo
  BY <1>1, Went
<1>3. Shape(call'[p])
  BY <1>2 DEF Shape
<1>4. \A t \in Task : Wanes(p, t) /\ ~InTime(call'[p], t)
  BY <1>2 DEF Wanes, Brings, InTime, Reads, Claims
<1> QED
  BY <1>1, <1>2, <1>3, <1>4, LetsGo

LEMMA UnstampPlaces ==
  ASSUME CallsOK, DataOK, Shapes, Places, NEW p \in Process, Unstamp(p)
  PROVE  Shapes' /\ Places'
<1>1. /\ UNCHANGED <<queue, held, outrun>> /\ call[p].pc = "unstamp"
      /\ stamp' = [stamp EXCEPT ![call[p].task] = None]
  BY DEF Unstamp, history, At
<1>2. \A t \in Task : stamp'[t] \in {stamp[t], None}
  BY <1>1 DEF DataOK
<1>3. CASE call[p].after = "requeue"
  <2>1. /\ Changed(p) /\ call'[p].pc = "size" /\ call'[p].after = "requeue"
        /\ call'[p].task = call[p].task /\ call'[p].retries = call[p].retries
        /\ call'[p].todo = call[p].todo
    BY <1>3, Went DEF Unstamp
  <2>2. Shape(call'[p])
    BY <2>1 DEF Shape
  <2>3. \A t \in Task : Wanes(p, t) /\ ~InTime(call'[p], t)
    BY <1>1, <1>3, <2>1 DEF Wanes, Brings, InTime, Reads, Claims
  <2> QED
    BY <1>1, <1>2, <2>1, <2>2, <2>3, LetsGo
<1>4. CASE Return(p)
  BY <1>1, <1>2, <1>4, ReturnWanes, LetsGo DEF Has
<1> QED
  BY <1>3, <1>4 DEF Unstamp

LEMMA RecoverStalePlaces ==
  ASSUME CallsOK, DataOK, Shapes, Places, NEW p \in Process, RecoverStale(p)
  PROVE  Shapes' /\ Places'
<1> DEFINE stale == {Entry(t) : t \in {u \in Task : Stale(u, p)}}
<1>1. PICK e \in stale : call' = [call EXCEPT ![p] = Retrying(e.task, e, stale \ {e})]
  BY DEF RecoverStale
<1>2. ASSUME NEW d \in stale
      PROVE  /\ d \in [task : Task, retries : Counts, by : Process]
             /\ IsEntry(d) /\ Stale(d.task, p)
  <2>1. PICK t \in Task : held[t] # None /\ Stale(t, p) /\ d = Entry(t)
    BY DEF Stale
  <2>2. held[t] \in Held
    BY <2>1 DEF DataOK
  <2> QED
    BY <2>1, <2>2 DEF Entry, Held, IsEntry
<1> HIDE DEF stale
<1> DEFINE rest == stale \ {e}
           own == [task |-> e.task, retries |-> e.retries, by |-> e.by]
           c == Retrying(e.task, e, rest)
<1>3. e.task \in Task /\ e.retries \in Counts /\ e.by \in Process /\ own = e
  BY <1>2
<1>4. c = Retrying(e.task, e, rest) /\ rest \in Todos /\ rest \subseteq stale
  BY <1>2 DEF Todos
<1>5. call'[p] = c /\ Changed(p)
  BY <1>1 DEF CallsOK, Changed
<1> HIDE DEF c, rest
<1>6. /\ \A t \in Task : ~Brings(c, t) /\ ~InTime(c, t)
      /\ Shape(c) /\ Claims(c) \subseteq rest \cup {own} /\ Reads(c) = Claims(c)
  BY <1>3, <1>4, RetryingClaims
<1>7. UNCHANGED <<queue, held, outrun, stamp>>
  BY DEF RecoverStale, redis, history
<1>8. ASSUME NEW t \in Task \ outrun PROVE Wanes(p, t)
  <2>1. ASSUME NEW d \in Reads(c), d.task = t PROVE Orphan(t) /\ IsEntry(d)
    <3>1. d \in stale
      BY <1>3, <1>4, <1>6
    <3> QED
      BY <1>2, <2>1, <3>1, StaleIsOrphan DEF Places, InOnePlace, Overdue
  <2> QED
    BY <1>5, <1>6, <2>1 DEF Wanes
<1>9. Shapes'
  BY <1>3, <1>5, <1>6, ShapesStay
<1>10. ASSUME NEW t \in Task \ outrun PROVE InOnePlace(t)'
  <2>1. \A q \in Process : Wanes(q, t)
    BY <1>5, <1>8, OthersWane
  <2>2. InOnePlace(t) /\ held[t] \in Held \cup {None}
    BY DEF Places, DataOK
  <2>3. Spent(t)'
    BY <1>5, <1>6, <1>7, <2>2, SpentStays DEF InOnePlace, Overdue
  <2> QED
    BY <1>7, <2>1, <2>2, <2>3, StaysInPlace
<1> QED
  BY <1>7, <1>9, <1>10 DEF Places

LEMMA FaultPlaces ==
  ASSUME CallsOK, DataOK, Shapes, Places, NEW p \in Process, CommandFails(p) \/ Dies(p)
  PROVE  Shapes' /\ Places'
<1>1. UNCHANGED <<queue, held, outrun, stamp>>
  BY DEF CommandFails, Dies, redis
<1>2. CASE Return(p)
  BY <1>1, <1>2, ReturnWanes, LetsGo DEF Has
<1>3. CASE call' = [call EXCEPT ![p] = Idle]
  <2>1. Changed(p) /\ call'[p] = Idle
    BY <1>3 DEF Changed, CallsOK
  <2>2. \A t \in Task : Wanes(p, t) /\ ~InTime(call'[p], t)
    BY <2>1, IdleHasNothing DEF Wanes
  <2> QED
    BY <1>1, <2>1, <2>2, IdleHasNothing, LetsGo
<1>4. CASE At(p, "delete") /\ call' = [call EXCEPT ![p].pc = "unstamp", ![p].after = "end"]
  <2>1. /\ Changed(p) /\ call'[p].pc = "unstamp" /\ call'[p].after = "end"
        /\ call'[p].todo = call[p].todo
    BY <1>4 DEF Changed, CallsOK, Calls
  <2>2. \A t \in Task : Wanes(p, t) /\ ~InTime(call'[p], t)
    BY <2>1 DEF Wanes, Brings, InTime, Reads, Claims
  <2> QED
    BY <1>1, <2>1, <2>2, LetsGo DEF Shape
<1> QED
  BY <1>2, <1>3, <1>4 DEF CommandFails, Dies

\* Whose time is up is in time no more; a timestamp gets no older than the
\* work it tells of.
LEMMA TickPlaces ==
  ASSUME CallsOK, DataOK, Shapes, Places, Tick
  PROVE  Shapes' /\ Places'
<1>1. UNCHANGED <<queue, held, outrun>>
  BY DEF Tick, history
<1>2. ASSUME NEW q \in Process
      PROVE  /\ call'[q].pc = call[q].pc /\ call'[q].task = call[q].task
             /\ call'[q].after = call[q].after /\ call'[q].retries = call[q].retries
             /\ call'[q].by = call[q].by /\ call'[q].todo = call[q].todo
             /\ call[q].spent \in Nat /\ call'[q].spent \in Nat
             /\ call'[q].spent = IF call[q].pc = "working" THEN Later(call[q].spent)
                                                           ELSE call[q].spent
  <2>1. call[q] \in Calls
    BY DEF CallsOK
  <2>2. PICK n \in Nat : n = Later(call[q].spent)
    BY <2>1, LaterIsLater DEF Calls
  <2>3. call'[q] = IF call[q].pc = "working" THEN [call[q] EXCEPT !.spent = n] ELSE call[q]
    BY <2>2 DEF Tick, At
  <2> QED
    BY <2>1, <2>2, <2>3 DEF Calls
<1>3. Shapes'
  BY <1>2 DEF Shapes, Shape
<1>4. ASSUME NEW t \in Task, NEW q \in Process PROVE Wanes(q, t)
  <2>1. Claims(call'[q]) = Claims(call[q]) /\ Reads(call'[q]) = Reads(call[q])
    BY <1>2 DEF Claims, Reads
  <2>2. InTime(call'[q], t) => InTime(call[q], t)
    <3> SUFFICES ASSUME call[q].pc = "working", NEW r \in Process,
                        TimeIsUp(call[q].spent, call[q].by, r)
                 PROVE  TimeIsUp(call'[q].spent, call'[q].by, r)
      BY <1>2 DEF InTime, Up
    <3>1. PICK w \in Process : w = call[q].by
      BY DEF CallsOK, CallOK
    <3>2. Ahead[r] \in Nat /\ Ahead[w] \in Nat /\ Timeout[r] \in Nat
      BY QueueAssumption
    <3>3. call'[q].spent >= call[q].spent
      BY <1>2, LaterIsLater
    <3> QED
      BY <1>2, <3>1, <3>2, <3>3 DEF TimeIsUp
  <2> QED
    BY <1>2, <2>1, <2>2 DEF Wanes, Brings
<1>5. ASSUME NEW t \in Task \ outrun PROVE InOnePlace(t)'
  <2>1. InOnePlace(t) /\ held[t] \in Held \cup {None}
    BY DEF Places, DataOK
  <2>2. Spent(t)'
    <3> SUFFICES ASSUME held[t] # None, stamp'[t] # None, InTime(call'[held[t].by], t)
                 PROVE  call'[held[t].by].spent >= stamp'[t]
      BY <1>1 DEF Spent
    <3>1. PICK w \in Process : w = held[t].by
      BY <2>1 DEF Held
    <3>2. stamp[t] \in Nat /\ stamp'[t] = Later(stamp[t])
      BY DEF DataOK, Tick
    <3>3. InTime(call[w], t) /\ call[w].spent >= stamp[t]
      BY <1>4, <2>1, <3>1, <3>2, QueueAssumption DEF Wanes, InOnePlace, Overdue, Spent
    <3>4. call'[w].spent = Later(call[w].spent)
      BY <1>2, <3>3 DEF InTime
    <3> QED
      BY <1>2, <3>1, <3>2, <3>3, <3>4, QueueAssumption DEF Later
  <2> QED
    BY <1>1, <1>4, <2>1, <2>2, StaysInPlace
<1> QED
  BY <1>1, <1>3, <1>5 DEF Places

\* A retry takes its task from the entry it read to itself; if that was no
\* longer there, the task is outrun.
LEMMA DeletePlaces ==
  ASSUME CallsOK, DataOK, Shapes, Places, NEW p \in Process, Delete(p)
  PROVE  Shapes' /\ Places'
<1> DEFINE u == call[p].task
<1>1. /\ UNCHANGED <<queue, stamp>> /\ call[p].pc = "delete"
      /\ held' = [held EXCEPT ![u] = None] /\ Goto(p, "unstamp")
      /\ outrun \subseteq outrun'
  BY DEF Delete, At
<1>2. /\ Changed(p) /\ call'[p].pc = "unstamp" /\ call'[p].after = call[p].after
      /\ call'[p].task = u /\ call'[p].retries = call[p].retries
      /\ call'[p].todo = call[p].todo
  BY <1>1, Went
<1>3. call[p].after # "add" /\ u \in Task
  BY <1>1 DEF CallsOK, CallKnown, CallOK
<1>4. Shapes'
  BY <1>2, ShapesStay DEF Shape
<1>5. /\ Claims(call'[p]) \subseteq Claims(call[p]) /\ Reads(call'[p]) = Claims(call'[p])
      /\ Claims(call[p]) = Reads(call[p])
  BY <1>1, <1>2 DEF Claims, Reads
<1>6. ASSUME NEW t \in Task \ outrun, t # u \/ call[p].after # "requeue"
      PROVE  InOnePlace(t)'
  <2>1. Wanes(p, t)
    BY <1>2, <1>3, <1>5, <1>6 DEF Wanes, Brings, InTime
  <2>2. \A q \in Process : Wanes(q, t)
    BY <1>2, <2>1, OthersWane
  <2>3. InOnePlace(t) /\ held[t] \in Held \cup {None} /\ held'[t] \in {held[t], None}
    BY <1>1 DEF Places, DataOK
  <2>4. Spent(t)'
    BY <1>1, <1>2, <2>3, SpentStays DEF InOnePlace, Overdue, InTime
  <2> QED
    BY <1>1, <2>2, <2>3, <2>4, StaysInPlace
<1>7. ASSUME NEW t \in Task \ outrun', t = u, call[p].after = "requeue"
      PROVE  InOnePlace(t)'
  <2> DEFINE e == [task |-> u, retries |-> call[p].retries - 1, by |-> call[p].by]
  <2>1. /\ e \in Claims(call[p]) /\ e \in Reads(call[p])
        /\ call[p].retries - 1 \in Nat /\ call[p].by \in Process
    BY <1>1, <1>5, <1>7 DEF Claims, Shapes, Shape
  <2>2. held[t] = [retries |-> call[p].retries - 1, by |-> call[p].by]
    BY <1>7 DEF Delete
  <2>3. held[t] # None
    BY <2>1, <2>2, QueueAssumption
  <2>4. IsEntry(e) /\ e.task = t
    BY <1>7, <2>2, <2>3 DEF IsEntry
  <2> HIDE DEF e
  <2>5. InOnePlace(t) /\ Orphan(t)
    BY <1>1, <2>1, <2>4 DEF Places, InOnePlace, Overdue
  <2>6. /\ \A x \in Item : x.task = t => ~(queue'[x] > 0)
        /\ \A q \in Process : ~Has(call[q], t)
    BY <1>1, <2>5 DEF InOnePlace, Single
  <2>7. held'[t] = None
    BY <1>1, <1>7, <1>3 DEF DataOK
  <2>8. \A q \in Process : q # p => call'[q] = call[q]
    BY <1>2 DEF Changed, CallsOK
  <2>9. Single(t)'
    BY <2>6, <2>7, <2>8 DEF Single, Orphan
  <2>10. Older(t)'
    <3> SUFFICES ASSUME NEW q \in Process, NEW d \in Reads(call'[q]), d.task = t,
                        NEW r \in Process, Brings(call'[r], t)
                 PROVE  d.retries < call'[r].retries
      BY <2>6, <2>7 DEF Older
    <3>1. r = p /\ call'[r].retries = call[p].retries
      BY <1>2, <2>6, <2>8 DEF Has
    <3>2. d \in Reads(call[q])
      BY <1>5, <2>8
    <3>3. d.retries <= held[t].retries
      BY <2>3, <2>5, <3>2 DEF InOnePlace, Older
    <3>4. d.retries \in Int
      BY <3>2, RetriesAreNumbers
    <3>5. held[t].retries = call[p].retries - 1 /\ call[p].retries \in Nat
      BY <2>2 DEF CallsOK, Calls
    <3> QED
      BY <3>1, <3>3, <3>4, <3>5
  <2>11. Overdue(t)'
    BY <2>7 DEF Overdue, IsEntry, Spent
  <2> QED
    BY <2>9, <2>10, <2>11 DEF InOnePlace
<1> QED
  BY <1>1, <1>4, <1>6, <1>7 DEF Places

\* The call that brought the task leaves it to the queue.
LEMMA AddMemberPlaces ==
  ASSUME CallsOK, DataOK, Shapes, Places, NEW p \in Process, AddMember(p)
  PROVE  Shapes' /\ Places'
<1>1. /\ UNCHANGED <<held, stamp, outrun>> /\ Return(p)
      /\ queue' = [queue EXCEPT ![Copy(p)] = @ + 1]
      /\ call[p].pc = "add" /\ call[p].after \in {"add", "requeue"}
  BY DEF AddMember, At, Shapes, Shape
<1>2. /\ Changed(p) /\ Shape(call'[p])
      /\ Reads(call'[p]) \subseteq Reads(call[p])
      /\ \A t \in Task : Wanes(p, t) /\ ~Has(call'[p], t)
  BY <1>1, ReturnWanes
<1>3. PICK x \in Item : x = Copy(p) /\ x.task = call[p].task /\ x.retries = call[p].retries
  BY <1>1 DEF CallsOK, CallOK, Copy
<1>4. Shapes'
  BY <1>2, ShapesStay
<1>5. ASSUME NEW t \in Task \ outrun, t # x.task PROVE InOnePlace(t)'
  <2>1. \A q \in Process : Wanes(q, t)
    BY <1>2, OthersWane
  <2>2. InOnePlace(t) /\ held[t] \in Held \cup {None}
    BY DEF Places, DataOK
  <2>3. \A y \in Item : y.task = t => queue'[y] = queue[y]
    BY <1>1, <1>3, <1>5 DEF DataOK
  <2>4. Spent(t)'
    BY <1>1, <1>2, <2>2, SpentStays DEF InOnePlace, Overdue, Has
  <2> QED
    BY <1>1, <2>1, <2>2, <2>3, <2>4, StaysInPlace
<1>6. ASSUME NEW t \in Task \ outrun, t = x.task PROVE InOnePlace(t)'
  <2>1. Brings(call[p], t) /\ Has(call[p], t)
    BY <1>1, <1>3, <1>6 DEF Brings, Has
  <2>2. InOnePlace(t)
    BY DEF Places
  <2>3. /\ \A y \in Item : y.task = t => queue[y] = 0
        /\ \A q \in Process : Has(call[q], t) => q = p
        /\ ~Orphan(t)
    BY <2>1, <2>2 DEF InOnePlace, Single, DataOK
  <2>4. \A y \in Item : y.task = t => queue'[y] = IF y = x THEN 1 ELSE 0
    BY <1>1, <1>3, <1>6, <2>3 DEF DataOK
  <2>5. held[t] = None
    <3>1. ~InTime(call[p], t)
      BY <1>1 DEF InTime
    <3> QED
      BY <2>3, <3>1 DEF Orphan, Has, DataOK, Held
  <2>6. \A q \in Process : q # p => call'[q] = call[q]
    BY <1>2 DEF Changed, CallsOK
  <2>7. \A q \in Process : ~Has(call'[q], t)
    BY <1>2, <2>3, <2>6
  <2>8. Single(t)'
    BY <1>1, <2>4, <2>5, <2>7 DEF Single, Orphan
  <2>9. Older(t)'
    <3> SUFFICES ASSUME NEW q \in Process, NEW d \in Reads(call'[q]), d.task = t
                 PROVE  d.retries < x.retries
      BY <1>1, <2>4, <2>5, <2>7 DEF Older, Has
    <3>1. d \in Reads(call[q])
      BY <1>2, <2>6
    <3> QED
      BY <1>3, <2>1, <2>2, <3>1 DEF InOnePlace, Older
  <2>10. Overdue(t)'
    BY <1>1, <2>5 DEF Overdue, IsEntry, Spent
  <2> QED
    BY <2>8, <2>9, <2>10 DEF InOnePlace
<1> QED
  BY <1>1, <1>4, <1>5, <1>6 DEF Places

\* The worker takes the task from the queue, and its entry is newer than
\* whatever others have read.
LEMMA DequeuePlaces ==
  ASSUME CallsOK, DataOK, Shapes, Places, NEW p \in Process, Dequeue(p)
  PROVE  Shapes' /\ Places'
<1>1. PICK x \in Item :
        /\ queue[x] > 0
        /\ queue' = [queue EXCEPT ![x] = @ - 1]
        /\ held' = [held EXCEPT ![x.task] = [retries |-> x.retries, by |-> p]]
        /\ stamp' = [stamp EXCEPT ![x.task] = 0]
        /\ call' = [call EXCEPT ![p] = [Idle EXCEPT !.pc = "working", !.task = x.task,
                                                    !.retries = x.retries, !.by = p]]
        /\ outrun' = outrun
  BY DEF Dequeue, history
<1> DEFINE own == [task |-> x.task, retries |-> x.retries, by |-> p]
<1>2. /\ call'[p].pc = "working" /\ call'[p].task = x.task /\ call'[p].retries = x.retries
      /\ call'[p].by = p /\ call'[p].after = "end" /\ call'[p].todo = {}
      /\ call'[p].spent = 0 /\ Changed(p)
  BY <1>1 DEF CallsOK, Changed, Idle
<1>3. /\ Claims(call'[p]) = {} /\ Reads(call'[p]) = {own}
      /\ \A t \in Task : ~Brings(call'[p], t)
      /\ \A t \in Task : InTime(call'[p], t) => t = x.task
  BY <1>2 DEF Claims, Reads, Brings, InTime
<1>4. x.task \in Task /\ x.retries \in Counts /\ x.retries \in Nat
  BY QueueAssumption DEF Item, Counts
<1>5. Shapes'
  BY <1>2, ShapesStay DEF Shape
<1>6. ASSUME NEW t \in Task \ outrun, t # x.task PROVE InOnePlace(t)'
  <2>1. Wanes(p, t)
    BY <1>3, <1>6 DEF Wanes
  <2>2. \A q \in Process : Wanes(q, t)
    BY <1>2, <2>1, OthersWane
  <2>3. InOnePlace(t) /\ held[t] \in Held \cup {None}
    BY DEF Places, DataOK
  <2>4. /\ \A y \in Item : y.task = t => queue'[y] = queue[y]
        /\ held'[t] = held[t] /\ stamp'[t] = stamp[t]
    BY <1>1, <1>6 DEF DataOK
  <2>5. Spent(t)'
    BY <1>2, <1>3, <1>6, <2>3, <2>4, SpentStays DEF InOnePlace, Overdue
  <2> QED
    BY <2>2, <2>3, <2>4, <2>5, StaysInPlace
<1>7. ASSUME NEW t \in Task \ outrun, t = x.task PROVE InOnePlace(t)'
  <2>1. InOnePlace(t)
    BY DEF Places
  <2>2. /\ queue[x] = 1
        /\ \A y \in Item : y.task = t /\ queue[y] > 0 => y = x
        /\ \A q \in Process : ~Has(call[q], t)
    BY <1>1, <1>7, <2>1 DEF InOnePlace, Single
  <2>3. \A y \in Item : y.task = t => ~(queue'[y] > 0)
    BY <1>1, <2>2 DEF DataOK
  <2>4. held'[t] = [retries |-> x.retries, by |-> p] /\ stamp'[t] = 0
    BY <1>1, <1>7 DEF DataOK
  <2>5. \A q \in Process : q # p => call'[q] = call[q]
    BY <1>2 DEF Changed, CallsOK
  <2>6. /\ \A q \in Process : Has(call'[q], t) => q = p
        /\ \A q \in Process : ~Brings(call'[q], t)
    BY <1>3, <2>2, <2>5 DEF Has
  <2>7. \A q \in Process : Has(call'[q], t) => ~Orphan(t)'
    BY <2>4, <2>6 DEF Orphan, Has
  <2>8. Single(t)'
    BY <2>3, <2>6, <2>7 DEF Single
  <2>9. ASSUME NEW q \in Process, q # p, NEW d \in Reads(call[q]), d.task = t
        PROVE  d.retries < x.retries
    BY <1>1, <1>7, <2>1, <2>9 DEF InOnePlace, Older
  <2>10. Older(t)'
    <3> SUFFICES ASSUME NEW q \in Process, NEW d \in Reads(call'[q]), d.task = t
                 PROVE  d.retries <= x.retries
      BY <2>3, <2>4, <2>6 DEF Older
    <3>1. CASE q = p
      BY <1>3, <1>4, <3>1
    <3>2. CASE q # p
      <4>1. d \in Reads(call[q]) /\ d.retries < x.retries
        BY <2>5, <2>9, <3>2
      <4>2. d.retries \in Int
        BY <4>1, RetriesAreNumbers
      <4> QED
        BY <1>4, <4>1, <4>2
    <3> QED
      BY <3>1, <3>2
  <2>11. ASSUME NEW q \in Process, NEW d \in Claims(call'[q]), d.task = t, IsEntry(d)'
         PROVE  FALSE
    <3>1. q # p /\ d \in Reads(call[q])
      BY <1>3, <2>5 DEF Reads
    <3>2. d.retries < x.retries /\ d.retries \in Int
      BY <2>9, <2>11, <3>1, RetriesAreNumbers
    <3>3. d.retries = x.retries
      BY <2>4, <2>11 DEF IsEntry
    <3> QED
      BY <1>4, <3>2, <3>3
  <2>12. Overdue(t)'
    BY <1>2, <2>4, <2>11 DEF Overdue, Spent
  <2> QED
    BY <2>8, <2>10, <2>12 DEF InOnePlace
<1> QED
  BY <1>1, <1>5, <1>6, <1>7 DEF Places

\* A task that is added was nowhere before.
LEMMA AddPlaces ==
  ASSUME CallsOK, DataOK, Shapes, Places, NEW p \in Process, NEW u \in Task, Add(p, u)
  PROVE  Shapes' /\ Places'
<1>1. /\ UNCHANGED <<queue, held, stamp, outrun>>
      /\ call' = [call EXCEPT ![p] = [Idle EXCEPT !.pc = "size", !.task = u, !.after = "add"]]
      /\ u \notin accepted /\ \A q \in Process : call[q].task # u
  BY DEF Add, redis, history
<1>2. /\ call'[p].pc = "size" /\ call'[p].task = u /\ call'[p].after = "add"
      /\ call'[p].todo = {} /\ Changed(p)
  BY <1>1 DEF CallsOK, Changed, Idle
<1>3. Claims(call'[p]) = {} /\ Reads(call'[p]) = {} /\ \A t \in Task : ~InTime(call'[p], t)
  BY <1>2 DEF Claims, Reads, InTime
<1>4. Shapes'
  BY <1>2, ShapesStay DEF Shape
<1>5. ASSUME NEW t \in Task \ outrun, t # u PROVE InOnePlace(t)'
  <2>1. Wanes(p, t)
    BY <1>2, <1>3, <1>5 DEF Wanes, Brings
  <2>2. \A q \in Process : Wanes(q, t)
    BY <1>2, <2>1, OthersWane
  <2>3. InOnePlace(t) /\ held[t] \in Held \cup {None}
    BY DEF Places, DataOK
  <2>4. Spent(t)'
    BY <1>1, <1>2, <1>3, <2>3, SpentStays DEF InOnePlace, Overdue
  <2> QED
    BY <1>1, <2>2, <2>3, <2>4, StaysInPlace
<1>6. InOnePlace(u)'
  <2>1. \A q \in Process : q # p => call'[q] = call[q]
    BY <1>2 DEF Changed, CallsOK
  <2>2. \A q \in Process : q # p => ~Has(call'[q], u)
    BY <1>1, <2>1 DEF Has, Brings, InTime
  <2>3. ASSUME NEW q \in Process, NEW d \in Reads(call'[q]) PROVE d.task # u
    <3>1. q # p /\ d \in Reads(call[q])
      BY <1>3, <2>1
    <3>2. d \in call[q].todo => d.task \in accepted
      BY DEF CallsOK, CallKnown
    <3> QED
      BY <1>1, <3>1, <3>2 DEF Reads, Claims
  <2>4. /\ held'[u] = None
        /\ \A x \in Item : x.task = u => ~(queue'[x] > 0)
    BY <1>1 DEF DataOK
  <2>5. Single(u)'
    BY <2>2, <2>4 DEF Single, Orphan
  <2>6. Older(u)' /\ Overdue(u)'
    BY <2>3, <2>4 DEF Older, Overdue, IsEntry, Spent
  <2> QED
    BY <2>5, <2>6 DEF InOnePlace
<1> QED
  BY <1>1, <1>4, <1>5, <1>6 DEF Places

LEMMA NothingMoves ==
  ASSUME Shapes, Places, UNCHANGED <<queue, held, stamp, call, outrun>>
  PROVE  Shapes' /\ Places'
<1>1. ASSUME NEW t \in Task \ outrun PROVE InOnePlace(t)'
  <2>1. InOnePlace(t)
    BY DEF Places
  <2>2. Single(t)'
    BY <2>1 DEF InOnePlace, Single, Orphan
  <2>3. Older(t)'
    BY <2>1 DEF InOnePlace, Older
  <2>4. Overdue(t)'
    BY <2>1 DEF InOnePlace, Overdue, Orphan, IsEntry, Spent
  <2> QED
    BY <2>2, <2>3, <2>4 DEF InOnePlace
<1> QED
  BY <1>1 DEF Shapes, Places

-----------------------------------------------------------------------------
\* Two goroutines work on a task only if, on some clock, the time of one of
\* them is up, or a retry of it was outrun: however far the clocks are apart,
\* and whatever calls are late, doubled, fail or die.
THEOREM OneWorker == Spec => []OneWorkerInTime
<1>1. Init => Shapes /\ Places
  <2> SUFFICES ASSUME Init PROVE Shapes /\ Places
    OBVIOUS
  <2>1. Shapes
    BY IdleHasNothing DEF Init, Shapes
  <2>2. ASSUME NEW t \in Task PROVE InOnePlace(t)
    <3>1. \A p \in Process : call[p] = Idle
      BY DEF Init
    <3>2. held[t] = None /\ \A x \in Item : queue[x] = 0
      BY DEF Init
    <3> QED
      BY <3>1, <3>2, IdleHasNothing
         DEF InOnePlace, Single, Older, Overdue, Orphan, Has, IsEntry, Spent
  <2> QED
    BY <2>1, <2>2 DEF Places
<1>2. CallsOK /\ DataOK /\ Shapes /\ Places /\ [Next]_vars => Shapes' /\ Places'
  <2> SUFFICES ASSUME CallsOK, DataOK, Shapes, Places, [Next]_vars
               PROVE  Shapes' /\ Places'
    OBVIOUS
  <2>1. CASE ClearDLQ \/ UNCHANGED vars
    BY <2>1, NothingMoves DEF ClearDLQ, vars, history
  <2> QED
    BY <2>1, AddPlaces, ReadSizePlaces, AddMemberPlaces, DequeuePlaces, WorkerPlaces,
       BuryPlaces, DeletePlaces, UnstampPlaces, TickPlaces, RecoverStalePlaces, FaultPlaces
       DEF Next, Step
<1>3. CallsOK /\ Places => OneWorkerInTime
  <2> SUFFICES ASSUME CallsOK, Places, NEW p \in Process, NEW q \in Process, p # q,
                      At(p, "working"), At(q, "working"), call[p].task = call[q].task,
                      ~Up(call[p]), ~Up(call[q]), call[p].task \notin outrun
               PROVE  FALSE
    BY DEF OneWorkerInTime
  <2>1. PICK t \in Task \ outrun : t = call[p].task
    BY DEF CallsOK, CallOK, At
  <2>2. Has(call[p], t) /\ Has(call[q], t)
    BY <2>1 DEF Has, InTime, At
  <2> QED
    BY <2>1, <2>2 DEF Places, InOnePlace, Single
<1> QED
  BY <1>1, <1>2, <1>3, Parts, QueueTypeCorrect, PTL DEF Spec

-----------------------------------------------------------------------------
(* SizeBounded: the goroutines between ZCARD and ZADD are counted *)

Adders == {p \in Process : At(p, "add")}

\* There are finitely many members there can be, and callers.
LEMMA Finite == IsFiniteSet(Item) /\ IsFiniteSet(Adders) /\ Cardinality(Adders) <= Cardinality(Process)
<1>1. IsFiniteSet(Counts)
  <2>1. IsFiniteSet(0..(MaxRetries - 1))
    <3>1. 0 \in Int /\ MaxRetries - 1 \in Int
      BY QueueAssumption
    <3> QED
      BY <3>1, FS_Interval
  <2>2. IsFiniteSet({0})
    BY FS_Singleton
  <2> QED
    BY <2>1, <2>2, FS_Union DEF Counts
<1>2. IsFiniteSet(Task \X Counts)
  BY <1>1, QueueAssumption, FS_Product
<1> DEFINE item == [pair \in Task \X Counts |-> [task |-> pair[1], retries |-> pair[2]]]
<1>3. item \in Surjection(Task \X Counts, Item)
  <2>1. item \in [Task \X Counts -> Item]
    BY DEF Item
  <2>2. ASSUME NEW x \in Item PROVE \E pair \in Task \X Counts : item[pair] = x
    <3>1. /\ <<x.task, x.retries>> \in Task \X Counts
          /\ x = [task |-> x.task, retries |-> x.retries]
      BY DEF Item
    <3>2. item[<<x.task, x.retries>>] = [task |-> x.task, retries |-> x.retries]
      BY <3>1
    <3> QED
      BY <3>1, <3>2
  <2> HIDE DEF item
  <2> QED
    BY <2>1, <2>2 DEF Surjection
<1>4. IsFiniteSet(Item)
  BY <1>2, <1>3, FS_Surjection
<1>5. Adders \in SUBSET Process
  BY DEF Adders
<1> QED
  BY <1>4, <1>5, QueueAssumption, FS_Subset

\* A member more is one more, a member less one less.
LEMMA SizeChanges ==
  ASSUME queue \in [Item -> Nat], NEW x \in Item, NEW k \in {-1, 1},
         NEW n \in Nat, n = queue[x] + k, queue' = [queue EXCEPT ![x] = n]
  PROVE  Size \in Int /\ Size' = Size + k
<1> DEFINE rest == SumFunctionOnSet(queue, Item \ {x})
           new == [queue EXCEPT ![x] = n]
<1>1. /\ DOMAIN queue = Item /\ new \in [Item -> Nat]
      /\ new[x] = queue[x] + k /\ \A y \in Item \ {x} : new[y] = queue[y]
  OBVIOUS
<1>2. IsFiniteSet(Item) /\ IsFiniteSet(Item \ {x})
  BY Finite, FS_RemoveElement
<1>3. rest \in Nat
  BY <1>1, <1>2, SumNat
<1>a. queue' = new
  OBVIOUS
<1> HIDE DEF new
<1>4. SumFunctionOnSet(queue, Item) = queue[x] + rest
  BY <1>1, <1>2, SumRemove
<1>5. SumFunctionOnSet(new, Item) = new[x] + SumFunctionOnSet(new, Item \ {x})
  BY <1>1, <1>2, SumRemove
<1>6. SumFunctionOnSet(new, Item \ {x}) = rest
  BY <1>1, <1>2, SumSame
<1>7. SumFunction(new) = SumFunctionOnSet(new, Item) /\ Size = SumFunctionOnSet(queue, Item)
  BY <1>1 DEF SumFunction, Size
<1>8. Size' = SumFunction(new)
  BY <1>a DEF Size
<1>9. SumFunction(new) = queue[x] + k + rest /\ Size = queue[x] + rest /\ queue[x] \in Nat
  BY <1>1, <1>4, <1>5, <1>6, <1>7
<1> HIDE DEF rest
<1> QED
  BY <1>3, <1>8, <1>9

LEMMA SizeType ==
  ASSUME queue \in [Item -> Nat]
  PROVE  Size \in Nat
<1>1. SumFunctionOnSet(queue, Item) \in Nat
  BY Finite, SumNat
<1> QED
  BY <1>1 DEF Size, SumFunction

\* Who is adding, when one call changes.
LEMMA AddersMove ==
  ASSUME CallsOK, NEW p \in Process, Changed(p)
  PROVE  Adders' = IF call'[p].pc = "add" THEN Adders \cup {p} ELSE Adders \ {p}
BY DEF Adders, At, Changed, CallsOK

\* Only ZCARD lets a caller go on to its ZADD.
LEMMA OthersDoNotAdd ==
  ASSUME CallsOK, NEW p \in Process,
         \/ \E t \in Task : Add(p, t)
         \/ AddMember(p) \/ Dequeue(p) \/ Complete(p) \/ Retry(p) \/ GiveUp(p) \/ Bury(p)
         \/ Delete(p) \/ Unstamp(p) \/ RecoverStale(p) \/ CommandFails(p) \/ Dies(p)
  PROVE  Changed(p) /\ call'[p].pc # "add"
<1>1. CASE Return(p)
  BY <1>1, Returned DEF Changed
<1>2. ASSUME NEW pc \in {"bury", "delete", "unstamp", "size"}, Goto(p, pc)
      PROVE  Changed(p) /\ call'[p].pc # "add"
  BY <1>2 DEF Goto, Changed, CallsOK, Calls
<1>3. ASSUME NEW t, NEW e, NEW todo, call' = [call EXCEPT ![p] = Retrying(t, e, todo)]
      PROVE  Changed(p) /\ call'[p].pc # "add"
  BY <1>3 DEF Retrying, Changed, CallsOK
<1>4. CASE \E t \in Task : Add(p, t)
  BY <1>4 DEF Add, Changed, CallsOK, Idle
<1>5. CASE Dequeue(p)
  <2>1. PICK x \in Item :
          call' = [call EXCEPT ![p] = [Idle EXCEPT !.pc = "working", !.task = x.task,
                                                   !.retries = x.retries, !.by = p]]
    BY <1>5 DEF Dequeue
  <2> QED
    BY <2>1 DEF Changed, CallsOK, Idle
<1>6. CASE Dies(p)
  BY <1>6 DEF Dies, Changed, CallsOK, Idle
<1>7. CASE RecoverStale(p)
  BY <1>3, <1>7 DEF RecoverStale
<1>8. CASE Retry(p)
  <2>1. call' = [call EXCEPT ![p] = Retrying(call[p].task, call[p], {})]
    BY <1>8 DEF Retry, CallsOK
  <2> QED
    BY <1>3, <2>1
<1>9. CASE Complete(p) \/ GiveUp(p)
  BY <1>9 DEF Complete, GiveUp, Leave, Changed, CallsOK, Calls
<1>10. CASE Bury(p) \/ Delete(p)
  BY <1>2, <1>10 DEF Bury, Delete
<1>11. CASE Unstamp(p)
  BY <1>1, <1>2, <1>11 DEF Unstamp
<1>12. CASE AddMember(p) \/ CommandFails(p)
  <2>1. CASE call' = [call EXCEPT ![p].pc = "unstamp", ![p].after = "end"]
    BY <2>1 DEF Changed, CallsOK, Calls
  <2> QED
    BY <1>1, <1>12, <2>1 DEF AddMember, CommandFails
<1> QED
  BY <1>4, <1>5, <1>6, <1>7, <1>8, <1>9, <1>10, <1>11, <1>12

\* Fewer callers adding and no member more.
LEMMA FewerAdders ==
  ASSUME SizeBounded, queue \in [Item -> Nat], NEW k \in {0, 1},
         Size' = Size - k, Adders' \subseteq Adders
  PROVE  SizeBounded'
<1>1. IsFiniteSet(Adders) /\ IsFiniteSet(Process) /\ Size \in Nat
  BY Finite, SizeType, QueueAssumption
<1>2. PICK n \in Nat : n = Cardinality(Adders')
  BY <1>1, FS_Subset, FS_CardinalityType
<1>3. n <= Cardinality(Adders) /\ Cardinality(Adders) \in Nat /\ Cardinality(Process) \in Nat
  BY <1>1, <1>2, FS_Subset, FS_CardinalityType
<1> QED
  BY <1>1, <1>2, <1>3, QueueAssumption DEF SizeBounded, Adders

\* One goroutine's step, or the end of its call.
LEMMA StepBounds ==
  ASSUME CallsOK, DataOK, SizeBounded, NEW p \in Process,
         (\E t \in Task : Add(p, t)) \/ Step(p) \/ CommandFails(p) \/ Dies(p)
  PROVE  SizeBounded'
<1>0. queue \in [Item -> Nat] /\ Size \in Nat
  BY SizeType DEF DataOK
<1>1. ASSUME UNCHANGED queue, Changed(p), call'[p].pc # "add" PROVE SizeBounded'
  <2>1. Adders' \subseteq Adders
    BY <1>1, AddersMove
  <2>2. Size' = Size - 0
    BY <1>0, <1>1 DEF Size
  <2> QED
    BY <1>0, <2>1, <2>2, FewerAdders
<1>2. CASE ReadSize(p) /\ call' # [call EXCEPT ![p].pc = "add"]
  BY <1>1, <1>2, Returned DEF ReadSize, Goto, Changed, redis
<1>3. CASE ReadSize(p) /\ call' = [call EXCEPT ![p].pc = "add"]
  <2>1. UNCHANGED queue /\ ~At(p, "add") /\ Changed(p) /\ call'[p].pc = "add"
    BY <1>3 DEF ReadSize, redis, At, Changed, CallsOK, Calls
  <2>2. MaxSize > 0 => Size < MaxSize
    <3>1. CASE MaxSize = 0 \/ Size < MaxSize
      BY <3>1
    <3>2. CASE ~(MaxSize = 0 \/ Size < MaxSize)
      <4>1. Return(p)
        BY <1>3, <3>2 DEF ReadSize
      <4> QED
        BY <2>1, <4>1, Returned
    <3> QED
      BY <3>1, <3>2
  <2>3. Adders' \subseteq Process /\ Size' = Size
    BY <2>1 DEF Adders, Size
  <2>4. Cardinality(Adders') \in Nat /\ Cardinality(Process) \in Nat
        /\ Cardinality(Adders') <= Cardinality(Process)
    BY <2>3, QueueAssumption, FS_Subset, FS_CardinalityType
  <2> HIDE DEF Size
  <2>5. PICK n \in Nat : n = Cardinality(Adders') /\ n <= Cardinality(Process)
    BY <2>4
  <2> QED
    BY <1>0, <2>2, <2>3, <2>4, <2>5, QueueAssumption DEF SizeBounded, Adders
<1>4. CASE AddMember(p)
  <2>1. At(p, "add") /\ Changed(p) /\ call'[p].pc # "add"
        /\ queue' = [queue EXCEPT ![Copy(p)] = @ + 1]
    BY <1>4, OthersDoNotAdd DEF AddMember
  <2>2. PICK x \in Item : x = Copy(p)
    BY <2>1 DEF CallsOK, CallOK, At, Copy
  <2>a. PICK n \in Nat : n = queue[x] + 1
    BY <1>0
  <2>b. queue' = [queue EXCEPT ![x] = n]
    BY <2>1, <2>2, <2>a
  <2>3. Size' = Size + 1
    BY <1>0, <2>a, <2>b, SizeChanges
  <2>4. Adders' = Adders \ {p} /\ p \in Adders
    BY <2>1, AddersMove DEF Adders
  <2>5. IsFiniteSet(Adders) /\ Cardinality(Adders) \in Nat /\ Cardinality(Process) \in Nat
    BY Finite, QueueAssumption, FS_CardinalityType
  <2>6. PICK k \in Nat : k = Cardinality(Adders') /\ k = Cardinality(Adders) - 1
    BY <2>4, <2>5, FS_RemoveElement, FS_CardinalityType
  <2> QED
    BY <1>0, <2>3, <2>5, <2>6, QueueAssumption DEF SizeBounded, Adders
<1>5. CASE Dequeue(p)
  <2>1. PICK x \in Item : queue[x] > 0 /\ queue' = [queue EXCEPT ![x] = @ - 1]
    BY <1>5 DEF Dequeue
  <2>2. PICK m \in Nat : m = queue[x] + (-1)
    BY <1>0, <2>1
  <2>b. queue' = [queue EXCEPT ![x] = m]
    <3>1. queue[x] - 1 = m
      BY <1>0, <2>2
    <3> QED
      BY <2>1, <3>1
  <2>3. Size' = Size + (-1)
    BY <1>0, <2>2, <2>b, SizeChanges
  <2>4. Size' = Size - 1
    BY <1>0, <2>3
  <2>5. Adders' \subseteq Adders
    BY <1>5, OthersDoNotAdd, AddersMove
  <2> QED
    BY <1>0, <2>4, <2>5, FewerAdders
<1>6. CASE (\E t \in Task : Add(p, t)) \/ Complete(p) \/ Retry(p) \/ GiveUp(p) \/ RecoverStale(p)
  BY <1>1, <1>6, OthersDoNotAdd DEF Add, Complete, Retry, GiveUp, RecoverStale, redis
<1>7. CASE Bury(p) \/ Delete(p) \/ Unstamp(p) \/ CommandFails(p) \/ Dies(p)
  BY <1>1, <1>7, OthersDoNotAdd DEF Bury, Delete, Unstamp, CommandFails, Dies, redis
<1> QED
  BY <1>2, <1>3, <1>4, <1>5, <1>6, <1>7 DEF Step

\* Time, and the emptying of the dead letter queue.
LEMMA NobodyBounds ==
  ASSUME CallsOK, DataOK, SizeBounded,
         Tick \/ ClearDLQ \/ UNCHANGED vars
  PROVE  SizeBounded'
<1>1. \A p \in Process : call'[p].pc = call[p].pc
  BY DEF Tick, ClearDLQ, vars, CallsOK, Calls
<1>2. UNCHANGED queue
  BY DEF Tick, ClearDLQ, vars
<1>3. queue \in [Item -> Nat] /\ Size \in Nat
  BY SizeType DEF DataOK
<1>4. Size' = Size - 0
  BY <1>2, <1>3 DEF Size
<1>5. Adders' \subseteq Adders
  BY <1>1 DEF Adders, At
<1> QED
  BY <1>3, <1>4, <1>5, FewerAdders

\* The queue holds at most maxSize members, and one more for each goroutine
\* but one: of those that saw room for the same last member, one was right.
THEOREM QueueStaysBounded == Spec => []SizeBounded
<1>1. Init => SizeBounded
  <2> SUFFICES ASSUME Init, MaxSize > 0 PROVE Size + Cardinality(Adders) < MaxSize + Cardinality(Process)
    BY DEF SizeBounded, Adders
  <2>1. Adders = {} /\ queue = [x \in Item |-> 0]
    BY DEF Init, Adders, At, Idle
  <2>2. Cardinality(Adders) = 0 /\ Cardinality(Process) \in Nat
    BY <2>1, QueueAssumption, FS_EmptySet, FS_CardinalityType
  <2>3. \A x \in Item : queue[x] \in 0..0
    BY <2>1
  <2>4. /\ SumFunctionOnSet(queue, Item) \in Int
        /\ -(0 * Cardinality(Item)) <= SumFunctionOnSet(queue, Item)
        /\ SumFunctionOnSet(queue, Item) <= 0 * Cardinality(Item)
    BY <2>3, Finite, SumBounds
  <2>5. Cardinality(Item) \in Nat
    BY Finite, FS_CardinalityType
  <2>6. Size = 0
    BY <2>1, <2>4, <2>5 DEF Size, SumFunction
  <2> QED
    BY <2>2, <2>6, QueueAssumption
<1>2. CallsOK /\ DataOK /\ SizeBounded /\ [Next]_vars => SizeBounded'
  BY StepBounds, NobodyBounds DEF Next
<1> QED
  BY <1>1, <1>2, Parts, QueueTypeCorrect, PTL DEF Spec
=============================================================================
