------------------------ MODULE SubmissionBuild_proofs ------------------------
(***************************************************************************)
(* For any number of submissions, requests, replicas and faults: rows and  *)
(* calls are well typed, no submission is reported active before its image *)
(* was pushed, and the active submission is a flagged one.  QuotaInv       *)
(* bounds by how many the uploads of a day exceed the quota.               *)
(***************************************************************************)
EXTENDS SubmissionBuild, FiniteSetTheorems, TLAPS

\* The pcs of a call that is about no submission yet.
Unbound == {"idle", "version", "insert"}

\* A call is about created submissions; a rebuild has read a retry_count that
\* allows one more.
CallShape ==
  /\ \A p \in Process :
       /\ call[p].pc \notin Unbound => call[p].sub \in Created
       /\ call[p].todo \subseteq Created
       /\ call[p].pc = "retry" => call[p].read < MaxRetryCount
  /\ \A s \in Submission : jobs[s] # "none" => s \in Created

\* What is known of images: a job that succeeded has pushed one, and so has the
\* job of every success that a monitor has yet to record.
ImageKnown ==
  /\ \A s \in Submission : jobs[s] = "succeeded" => s \in pushed
  /\ \A p \in Process :
       /\ call[p].pc = "event" /\ call[p].seen = "succeeded" => call[p].sub \in pushed
       /\ call[p].pc = "succeed" => call[p].sub \in pushed


\* An upload inserts the next version, or one that is taken by now.
VersionKnown ==
  /\ VersionsConsecutive
  /\ \A p \in Process : call[p].pc = "insert" => call[p].read \in 1..(Cardinality(Created) + 1)

\* Without a fault a monitor enqueues the agent after SetActive.
ReadyKnown ==
  faults = 0 =>
    /\ queued => active # None
    /\ \A p \in Process : call[p].pc = "enqueue" => active # None

Inv ==
  /\ TypeOK /\ CallShape /\ ImageKnown /\ VersionKnown /\ ReadyKnown
  /\ ActiveHasImage /\ ActiveIsFlagged

\* Outside a call the locals are well typed, and no row is one of no submission.
LEMMA IdleType == Idle \in Calls /\ NoRow \in Rows
BY SubmissionAssumption DEF Idle, Calls, JobStates, NoRow, Rows

\* Created submissions are as many as a natural number says.
LEMMA CreatedFinite ==
  /\ IsFiniteSet(Created)
  /\ Cardinality(Created) \in Nat
  /\ Cardinality(Submission) \in Nat
  /\ Cardinality(Created) <= Cardinality(Submission)
<1>1. Created \subseteq Submission
  BY DEF Created
<1> QED
  BY <1>1, SubmissionAssumption, FS_Subset, FS_CardinalityType

\* The invariant holds before the first upload.
LEMMA InvInit == Init => Inv
<1> SUFFICES ASSUME Init PROVE Inv
  OBVIOUS
<1>1. Created = {}
  BY DEF Init, Created, NoRow
<1>2. \A p \in Process : call[p] = Idle
  BY DEF Init
<1>3. TypeOK
  <2>1. rows \in [Submission -> Rows] /\ call \in [Process -> Calls]
    BY IdleType DEF Init
  <2>2. jobs \in [Submission -> JobStates] /\ queued \in BOOLEAN
    BY DEF Init, JobStates
  <2>3. faults \in 0..MaxFaults
    BY SubmissionAssumption DEF Init
  <2> QED
    BY <2>1, <2>2, <2>3 DEF Init, TypeOK
<1>4. CallShape
  BY <1>2 DEF Init, CallShape, Idle, Unbound
<1>5. ImageKnown /\ ActiveHasImage /\ ActiveIsFlagged
  BY <1>2 DEF Init, ImageKnown, ActiveHasImage, ActiveIsFlagged, Idle, NoRow
<1>6. VersionKnown
  <2>1. Cardinality({}) = 0
    BY FS_EmptySet
  <2>2. {rows[s].version : s \in Created} = 1..Cardinality(Created)
    BY <1>1, <2>1
  <2> QED
    BY <1>2, <2>2 DEF VersionKnown, VersionsConsecutive, Idle
<1>7. ReadyKnown
  BY <1>2 DEF Init, ReadyKnown, Idle
<1> QED
  BY <1>3, <1>4, <1>5, <1>6, <1>7 DEF Inv

-----------------------------------------------------------------------------
\* The locals a call may take on without breaking the invariant.
Safe(c) ==
  /\ c \in Calls
  /\ c.pc \notin Unbound => c.sub \in Created
  /\ c.todo \subseteq Created
  /\ c.pc = "retry" => c.read < MaxRetryCount
  /\ c.pc = "event" /\ c.seen = "succeeded" => c.sub \in pushed
  /\ c.pc = "succeed" => c.sub \in pushed
  /\ c.pc = "insert" => c.read \in 1..(Cardinality(Created) + 1)

\* Call p goes on to such locals.
Moves(p) ==
  \E c : /\ Safe(c)
         /\ call' = [call EXCEPT ![p] = c]
         /\ c.pc = "enqueue" /\ faults' = 0 => active' # None

\* Faults are only ever added.
FaultsKnown == faults' \in 0..MaxFaults /\ faults <= faults'

\* The columns of submissions may change, but no row comes or goes.
RowsKnown ==
  /\ rows' \in [Submission -> Rows]
  /\ \A s \in Submission : /\ rows'[s].version = rows[s].version
                           /\ rows'[s].status = "none" <=> rows[s].status = "none"
                           /\ rows'[s].status = "active" => s \in pushed

\* A step of one call that inserts no row preserves the invariant, if its
\* locals are safe and it writes what is known of the tables.
LEMMA OneCall ==
  ASSUME Inv, NEW p \in Process, Moves(p), RowsKnown, FaultsKnown,
         flagged' \subseteq Created,
         active' \in Created \cup {None},
         active' = None \/ active' \in flagged',
         active # None => active' # None,
         queued' \in BOOLEAN,
         queued' /\ faults' = 0 => active' # None,
         jobs' \in [Submission -> JobStates],
         \A s \in Submission : /\ jobs'[s] # "none" => s \in Created
                               /\ jobs'[s] = "succeeded" => s \in pushed,
         pushed' = pushed
  PROVE  Inv'
<1> PICK c : /\ Safe(c)
             /\ call' = [call EXCEPT ![p] = c]
             /\ c.pc = "enqueue" /\ faults' = 0 => active' # None
  BY DEF Moves
<1>1. Created' = Created
  BY DEF Created, RowsKnown
<1>2. call \in [Process -> Calls] /\ call' \in [Process -> Calls]
  BY DEF Inv, TypeOK, Safe
<1>3. \A q \in Process : call'[q] = IF q = p THEN c ELSE call[q]
  BY <1>2
<1>4. TypeOK'
  BY <1>1, <1>2 DEF Inv, TypeOK, RowsKnown, FaultsKnown
<1>5. CallShape'
  BY <1>1, <1>3 DEF Inv, CallShape, Safe
<1>6. ImageKnown'
  BY <1>1, <1>3 DEF Inv, ImageKnown, Safe
<1>7. ActiveHasImage' /\ ActiveIsFlagged'
  BY DEF ActiveHasImage, ActiveIsFlagged, RowsKnown
<1>8. VersionKnown'
  <2>1. {rows'[s].version : s \in Created} = {rows[s].version : s \in Created}
    BY DEF Created, RowsKnown
  <2>2. VersionsConsecutive'
    BY <1>1, <2>1 DEF Inv, VersionKnown, VersionsConsecutive
  <2> QED
    BY <1>1, <1>3, <2>2 DEF Inv, VersionKnown, Safe
<1>9. ReadyKnown'
  <2>1. faults' = 0 => faults = 0
    BY SubmissionAssumption DEF Inv, TypeOK, FaultsKnown
  <2> QED
    BY <1>3, <2>1 DEF Inv, ReadyKnown
<1> QED
  BY <1>4, <1>5, <1>6, <1>7, <1>8, <1>9 DEF Inv

\* A step that changes nothing but the locals of one call.
LEMMA CallOnly ==
  ASSUME Inv, NEW p \in Process, Moves(p), FaultsKnown, UNCHANGED <<db, cluster>>
  PROVE  Inv'
<1>1. RowsKnown
  BY DEF Inv, TypeOK, ActiveHasImage, RowsKnown, db
<1>2. queued' /\ faults' = 0 => active' # None
  BY SubmissionAssumption DEF Inv, TypeOK, ReadyKnown, FaultsKnown, db
<1> QED
  BY <1>1, <1>2, OneCall
     DEF Inv, TypeOK, CallShape, ImageKnown, ActiveIsFlagged, db, cluster

\* A step that changes the columns of submissions and the locals of one call.
LEMMA RowsOnly ==
  ASSUME Inv, NEW p \in Process, Moves(p), RowsKnown,
         UNCHANGED <<flagged, active, queued, cluster, faults>>
  PROVE  Inv'
<1>1. FaultsKnown
  BY SubmissionAssumption DEF Inv, TypeOK, FaultsKnown
<1>2. queued' /\ faults' = 0 => active' # None
  BY DEF Inv, ReadyKnown
<1> QED
  BY <1>1, <1>2, OneCall
     DEF Inv, TypeOK, CallShape, ImageKnown, ActiveIsFlagged, cluster

\* UpdateStatus neither adds nor removes a row, whether it is refused or not.
LEMMA StatusUpdated ==
  ASSUME Inv, NEW s \in Created, NEW status, UpdateStatus(s, status),
         status = "active" => s \in pushed
  PROVE  RowsKnown
<1>1. s \in Submission /\ rows[s].status # "none"
  BY DEF Created
<1>2. CASE status \in Statuses
  <2>1. rows' = [rows EXCEPT ![s].status = status]
    BY <1>2 DEF UpdateStatus
  <2>2. status # "none"
    BY <1>2 DEF Statuses
  <2> QED
    BY <1>1, <1>2, <2>1, <2>2 DEF Inv, TypeOK, Rows, ActiveHasImage, RowsKnown
<1>3. CASE status \notin Statuses
  BY <1>3 DEF UpdateStatus, Inv, TypeOK, ActiveHasImage, RowsKnown
<1> QED
  BY <1>2, <1>3

-----------------------------------------------------------------------------
\* What a running call knows.
LEMMA CallFacts ==
  ASSUME Inv, NEW p \in Process
  PROVE  /\ call[p] \in Calls
         /\ call[p].pc \notin Unbound => call[p].sub \in Created
         /\ call[p].todo \subseteq Created
BY DEF Inv, TypeOK, CallShape

\* A step that only reads the tables and the jobs.
LEMMA ReadsOnly ==
  ASSUME Inv, NEW p \in Process, Moves(p), UNCHANGED <<db, cluster, faults>>
  PROVE  Inv'
<1>1. FaultsKnown
  BY SubmissionAssumption DEF Inv, TypeOK, FaultsKnown
<1> QED
  BY <1>1, CallOnly

\* A call that ends leaves nothing behind.
LEMMA ReturnMoves ==
  ASSUME NEW p \in Process, Return(p)
  PROVE  Moves(p)
<1>1. Safe(Idle)
  BY IdleType DEF Safe, Idle, Unbound
<1>2. Idle.pc = "idle"
  BY DEF Idle
<1> QED
  BY <1>1, <1>2 DEF Return, Moves

\* A stage that a call about submission s may enter.
Entry(pc, kind, s) ==
  /\ s \in Created
  /\ \/ pc \in {"building", "reset", "fail", "activate"}
     \/ pc = "succeed" /\ s \in pushed
     \/ pc = "enqueue" /\ (faults' = 0 => active' # None)
  /\ kind \in {"none", "create", "rebuild", "scan", "monitor", "user"}

\* Entering a stage of a call about a created submission.
LEMMA EnterMoves ==
  ASSUME Inv, NEW p \in Process, NEW pc, NEW kind, NEW s, Enter(p, pc, kind, s),
         Entry(pc, kind, s)
  PROVE  Moves(p)
<1> USE DEF Entry
<1> DEFINE c == [Idle EXCEPT !.pc = pc, !.kind = kind, !.sub = s]
<1>1. s \in Submission
  BY DEF Created
<1>2. Safe(c)
  BY <1>1, IdleType DEF Safe, Idle, Unbound, Calls
<1>3. c.pc = pc
  BY DEF Idle
<1> QED
  BY <1>2, <1>3 DEF Enter, Moves

\* Going on to a stage that reads nothing anew.
LEMMA GotoMoves ==
  ASSUME Inv, NEW p \in Process, NEW pc, Goto(p, pc), call[p].pc \notin Unbound,
         pc \in {"building", "job", "fail", "activate"}
  PROVE  Moves(p)
<1> DEFINE c == [call[p] EXCEPT !.pc = pc]
<1>1. c \in Calls
  BY CallFacts DEF Calls
<1>2. c.pc = pc /\ c.sub = call[p].sub /\ c.todo = call[p].todo
  BY CallFacts DEF Calls
<1>3. Safe(c)
  BY <1>1, <1>2, CallFacts DEF Safe
<1>4. call' = [call EXCEPT ![p] = c]
  BY DEF Goto
<1> QED
  BY <1>2, <1>3, <1>4 DEF Moves

\* A scan goes on to the next submission it found, any other call ends.
LEMMA ContinueMoves ==
  ASSUME Inv, NEW p \in Process, Continue(p)
  PROVE  Moves(p)
<1>1. CASE Return(p)
  BY <1>1, ReturnMoves
<1>2. ASSUME NEW s \in call[p].todo,
             call' = [call EXCEPT ![p] = [Idle EXCEPT !.pc = "building", !.kind = "scan",
                                                      !.sub = s, !.todo = call[p].todo \ {s}]]
      PROVE  Moves(p)
  <2> DEFINE c == [Idle EXCEPT !.pc = "building", !.kind = "scan",
                               !.sub = s, !.todo = call[p].todo \ {s}]
  <2>1. s \in Created /\ s \in Submission /\ c.todo \subseteq Created
    BY CallFacts DEF Created, Idle
  <2>2. c.todo \subseteq Submission
    BY <2>1 DEF Created
  <2>3. c \in Calls
    BY <2>1, <2>2, IdleType DEF Idle, Calls
  <2>4. c.pc = "building" /\ c.sub = s
    BY DEF Idle
  <2>5. Safe(c)
    BY <2>1, <2>3, <2>4 DEF Safe
  <2> QED
    BY <1>2, <2>4, <2>5 DEF Moves
<1> QED
  BY <1>1, <1>2 DEF Continue

-----------------------------------------------------------------------------
\* The greatest version is the number of submissions.
LEMMA LastVersionIsCount ==
  ASSUME Inv
  PROVE  LastVersion = Cardinality(Created)
<1> DEFINE n == Cardinality(Created)
           Greatest(v) == /\ v = 0 \/ \E s \in Created : rows[s].version = v
                          /\ \A s \in Created : rows[s].version <= v
<1>1. n \in 0..Cardinality(Submission)
  BY CreatedFinite
<1>2. {rows[s].version : s \in Created} = 1..n
  BY DEF Inv, VersionKnown, VersionsConsecutive
<1>3. Greatest(n)
  <2>1. \A s \in Created : rows[s].version \in 1..n
    BY <1>2
  <2>2. n = 0 \/ n \in 1..n
    BY <1>1
  <2>3. n = 0 \/ n \in {rows[s].version : s \in Created}
    BY <1>2, <2>2
  <2> QED
    BY <1>1, <2>1, <2>3
<1>4. \A v \in 0..Cardinality(Submission) : Greatest(v) => v = n
  <2> SUFFICES ASSUME NEW v \in 0..Cardinality(Submission), Greatest(v) PROVE v = n
    OBVIOUS
  <2>1. v = 0 \/ v \in 1..n
    BY <1>2
  <2>2. n = 0 \/ n \in {rows[s].version : s \in Created}
    BY <1>1, <1>2
  <2>3. n <= v
    BY <1>1, <2>1, <2>2
  <2> QED
    BY <1>1, <2>1, <2>3
<1>5. LastVersion = CHOOSE v \in 0..Cardinality(Submission) : Greatest(v)
  BY DEF LastVersion
<1> QED
  BY <1>1, <1>3, <1>4, <1>5

\* Starting a call, or reading on in it, preserves the invariant.
LEMMA ReadsPreserve ==
  ASSUME Inv, NEW p \in Process, NEW s,
         \/ CheckQuota(p) \/ ReadRetries(p, s) \/ Scan(p) \/ UserActivates(p, s)
         \/ ReadVersion(p) \/ Deactivate(p)
  PROVE  Inv'
<1> USE CallFacts
<1>1. CASE CheckQuota(p)
  <2> DEFINE c == [Idle EXCEPT !.pc = "version", !.kind = "create", !.sub = None]
  <2>1. c \in Calls /\ c.pc = "version" /\ c.todo = {}
    BY IdleType DEF Idle, Calls
  <2>2. Safe(c)
    BY <2>1 DEF Safe, Unbound
  <2>3. Moves(p)
    BY <1>1, <2>1, <2>2 DEF CheckQuota, Enter, Moves
  <2> QED
    BY <1>1, <2>3, ReadsOnly DEF CheckQuota
<1>2. CASE ReadRetries(p, s)
  <2> DEFINE c == [Idle EXCEPT !.pc = "retry", !.kind = "rebuild", !.sub = s,
                               !.read = rows[s].retries]
  <2>1. s \in Created /\ s \in Submission
    BY <1>2 DEF ReadRetries, Created
  <2>2. rows[s].retries \in Nat /\ rows[s].retries < MaxRetryCount
    BY <1>2, <2>1, SubmissionAssumption DEF ReadRetries, Inv, TypeOK, Rows
  <2>3. c \in Calls /\ c.pc = "retry" /\ c.todo = {} /\ c.sub = s /\ c.read = rows[s].retries
    BY <2>1, <2>2, IdleType DEF Idle, Calls
  <2>4. Safe(c)
    BY <2>1, <2>2, <2>3 DEF Safe
  <2>5. Moves(p)
    BY <1>2, <2>3, <2>4 DEF ReadRetries, Moves
  <2> QED
    BY <1>2, <2>5, ReadsOnly DEF ReadRetries
<1>3. CASE Scan(p)
  <2> DEFINE pend == {t \in Created : rows[t].status = "pending"}
             c(t) == [Idle EXCEPT !.pc = "building", !.kind = "scan", !.sub = t,
                                  !.todo = pend \ {t}]
  <2> PICK t \in Created : call' = [call EXCEPT ![p] = c(t)]
    BY <1>3 DEF Scan
  <2>1. c(t) \in Calls /\ c(t).pc = "building" /\ c(t).todo \subseteq Created /\ c(t).sub = t
    BY IdleType DEF Idle, Calls, Created
  <2>2. Safe(c(t))
    BY <2>1 DEF Safe
  <2>3. Moves(p)
    BY <2>1, <2>2 DEF Moves
  <2>4. UNCHANGED <<db, cluster, faults>>
    BY <1>3 DEF Scan
  <2> QED
    BY <2>3, <2>4, ReadsOnly
<1>4. CASE UserActivates(p, s)
  <2>1. Enter(p, "activate", "user", s) /\ s \in Created
    BY <1>4 DEF UserActivates
  <2>2. Entry("activate", "user", s)
    BY <2>1 DEF Entry
  <2>3. Moves(p)
    BY <2>1, <2>2, EnterMoves
  <2> QED
    BY <1>4, <2>3, ReadsOnly DEF UserActivates
<1>5. CASE ReadVersion(p)
  <2> DEFINE c == [call[p] EXCEPT !.pc = "insert", !.read = LastVersion + 1]
  <2>1. LastVersion + 1 \in 1..(Cardinality(Created) + 1) /\ LastVersion + 1 \in Nat
    BY LastVersionIsCount, CreatedFinite
  <2>2. c \in Calls /\ c.pc = "insert" /\ c.todo = call[p].todo /\ c.read = LastVersion + 1
    BY <2>1 DEF Calls
  <2>3. Safe(c)
    BY <2>1, <2>2 DEF Safe, Unbound
  <2>4. Moves(p)
    BY <1>5, <2>2, <2>3 DEF ReadVersion, Moves
  <2> QED
    BY <1>5, <2>4, ReadsOnly DEF ReadVersion
<1>6. CASE Deactivate(p)
  <2> DEFINE c == [call[p] EXCEPT !.pc = "commit", !.old = flagged]
  <2>1. flagged \subseteq Submission /\ call[p].sub \in Created
    BY <1>6 DEF Inv, TypeOK, Created, Deactivate, At, Unbound
  <2>2. c \in Calls /\ c.pc = "commit" /\ c.todo = call[p].todo /\ c.sub = call[p].sub
    BY <2>1 DEF Calls
  <2>3. Safe(c)
    BY <2>1, <2>2 DEF Safe
  <2>4. Moves(p)
    BY <1>6, <2>2, <2>3 DEF Deactivate, Moves
  <2> QED
    BY <1>6, <2>4, ReadsOnly DEF Deactivate
<1> QED
  BY <1>1, <1>2, <1>3, <1>4, <1>5, <1>6

\* The monitor's reads: an event of success, or of a row it is the success of,
\* is about an image that was pushed.
LEMMA EventsPreserve ==
  ASSUME Inv, NEW p \in Process, NEW s,
         (s \in Submission /\ Receive(p, s)) \/ Handle(p)
  PROVE  Inv'
<1>1. CASE s \in Submission /\ Receive(p, s)
  <2> DEFINE c == [Idle EXCEPT !.pc = "event", !.kind = "monitor", !.sub = s, !.seen = jobs[s]]
  <2>1. s \in Created /\ s \in Submission /\ jobs[s] \in JobStates
    BY <1>1 DEF Receive, Inv, TypeOK, CallShape
  <2>2. jobs[s] = "succeeded" => s \in pushed
    BY <2>1 DEF Inv, ImageKnown
  <2>3. c \in Calls /\ c.pc = "event" /\ c.todo = {} /\ c.sub = s /\ c.seen = jobs[s]
    BY <2>1, IdleType DEF Idle, Calls
  <2>4. Safe(c)
    BY <2>1, <2>2, <2>3 DEF Safe
  <2>5. Moves(p)
    BY <1>1, <2>3, <2>4 DEF Receive, Moves
  <2> QED
    BY <1>1, <2>5, ReadsOnly DEF Receive
<1>2. CASE Handle(p)
  <2>1. CASE Return(p)
    BY <1>2, <2>1, ReturnMoves, ReadsOnly DEF Handle
  <2>2. CASE ~Return(p)
    <3> DEFINE pc == IF call[p].seen = "succeeded" THEN "succeed" ELSE "fail"
    <3>1. Enter(p, pc, "monitor", call[p].sub)
      BY <1>2, <2>2 DEF Handle
    <3>2. call[p].pc = "event" /\ call[p].sub \in Created
      BY <1>2, CallFacts DEF Handle, At, Unbound
    <3>3. ASSUME call[p].seen = "succeeded" PROVE Moves(p)
      <4>1. call[p].sub \in pushed
        BY <3>2, <3>3 DEF Inv, ImageKnown
      <4>2. Enter(p, "succeed", "monitor", call[p].sub)
        BY <3>1, <3>3
      <4>3. Entry("succeed", "monitor", call[p].sub)
        BY <3>2, <4>1 DEF Entry
      <4> QED
        BY <4>2, <4>3, EnterMoves
    <3>4. ASSUME call[p].seen # "succeeded" PROVE Moves(p)
      <4>1. Enter(p, "fail", "monitor", call[p].sub)
        BY <3>1, <3>4
      <4>2. Entry("fail", "monitor", call[p].sub)
        BY <3>2 DEF Entry
      <4> QED
        BY <4>1, <4>2, EnterMoves
    <3>5. Moves(p)
      BY <3>3, <3>4
    <3> QED
      BY <1>2, <3>5, ReadsOnly DEF Handle
  <2> QED
    BY <2>1, <2>2
<1> QED
  BY <1>1, <1>2

\* A row keeps its version, and SaveRetries stays within MaxRetryCount whatever
\* other rebuilds have saved since it read the count.
LEMMA RowUpdatesPreserve ==
  ASSUME Inv, NEW p \in Process,
         SaveRetries(p) \/ ResetStatus(p) \/ StartBuilding(p) \/ RecordFailure(p) \/ RecordSuccess(p)
  PROVE  Inv'
<1> DEFINE s == call[p].sub
<1>1. s \in Created /\ call[p].pc \notin Unbound
  BY CallFacts DEF SaveRetries, ResetStatus, StartBuilding, RecordFailure, RecordSuccess, At, Unbound
<1>2. CASE SaveRetries(p)
  <2>1. call[p].read + 1 \in 0..MaxRetryCount
    BY <1>2, CallFacts, SubmissionAssumption DEF SaveRetries, At, Inv, CallShape, Calls
  <2>2. s \in Submission
    BY <1>1 DEF Created
  <2>3. rows' = [rows EXCEPT ![s].retries = call[p].read + 1]
    BY <1>2 DEF SaveRetries
  <2>4. RowsKnown
    BY <2>1, <2>2, <2>3 DEF Inv, TypeOK, Rows, ActiveHasImage, RowsKnown
  <2>5. Enter(p, "reset", "rebuild", s)
    BY <1>2 DEF SaveRetries
  <2>6. Entry("reset", "rebuild", s)
    BY <1>1 DEF Entry
  <2>7. Moves(p)
    BY <2>5, <2>6, EnterMoves
  <2> QED
    BY <1>2, <2>4, <2>7, RowsOnly DEF SaveRetries
<1>3. CASE ResetStatus(p)
  <2>1. Moves(p)
    BY <1>1, <1>3, GotoMoves DEF ResetStatus
  <2>2. RowsKnown
    BY <1>1, <1>3, StatusUpdated DEF ResetStatus
  <2> QED
    BY <1>3, <2>1, <2>2, RowsOnly DEF ResetStatus
<1>4. CASE StartBuilding(p)
  <2>1. Moves(p)
    BY <1>1, <1>4, GotoMoves DEF StartBuilding
  <2>2. RowsKnown
    BY <1>1, <1>4, StatusUpdated DEF StartBuilding
  <2> QED
    BY <1>4, <2>1, <2>2, RowsOnly DEF StartBuilding
<1>5. CASE RecordFailure(p)
  <2>1. Moves(p)
    BY <1>5, ContinueMoves DEF RecordFailure
  <2>2. RowsKnown
    BY <1>1, <1>5, StatusUpdated DEF RecordFailure
  <2> QED
    BY <1>5, <2>1, <2>2, RowsOnly DEF RecordFailure
<1>6. CASE RecordSuccess(p)
  <2>1. Moves(p)
    BY <1>1, <1>6, GotoMoves DEF RecordSuccess
  <2>2. s \in pushed
    BY <1>6 DEF RecordSuccess, At, Inv, ImageKnown
  <2>3. RowsKnown
    BY <1>1, <1>6, <2>2, StatusUpdated DEF RecordSuccess
  <2> QED
    BY <1>6, <2>1, <2>3, RowsOnly DEF RecordSuccess
<1> QED
  BY <1>2, <1>3, <1>4, <1>5, <1>6

\* After SetActive a monitor goes on to enqueue the agent.
LEMMA AfterActivationMoves ==
  ASSUME Inv, NEW p \in Process, AfterActivation(p), call[p].sub \in Created,
         faults' = 0 => active' # None
  PROVE  Moves(p)
<1>1. CASE p \in Monitor
  <2>1. Enter(p, "enqueue", "monitor", call[p].sub)
    BY <1>1 DEF AfterActivation
  <2>2. Entry("enqueue", "monitor", call[p].sub)
    BY DEF Entry
  <2> QED
    BY <2>1, <2>2, EnterMoves
<1>2. CASE p \notin Monitor
  BY <1>2, ReturnMoves DEF AfterActivation
<1> QED
  BY <1>1, <1>2

\* The transaction of SetActive flags the submission it names, last.
LEMMA ActivationPreserves ==
  ASSUME Inv, NEW p \in Process, Commit(p) \/ Enqueue(p)
  PROVE  Inv'
<1>1. RowsKnown /\ FaultsKnown
  BY SubmissionAssumption
     DEF Commit, Enqueue, Inv, TypeOK, ActiveHasImage, RowsKnown, FaultsKnown
<1>2. CASE Commit(p)
  <2>1. call[p].sub \in Created /\ call[p].sub # None
    BY <1>2, CallFacts, SubmissionAssumption DEF Commit, At, Unbound, Created
  <2>2. active' = call[p].sub /\ active' \in flagged' /\ flagged' \subseteq Created
    BY <1>2, <2>1 DEF Commit, Inv, TypeOK
  <2>3. Moves(p)
    BY <1>2, <2>1, <2>2, AfterActivationMoves DEF Commit
  <2> QED
    BY <1>1, <1>2, <2>1, <2>2, <2>3, OneCall
       DEF Commit, Inv, TypeOK, CallShape, ImageKnown, cluster
<1>3. CASE Enqueue(p)
  <2>1. Moves(p)
    BY <1>3, ReturnMoves DEF Enqueue
  <2>2. faults' = 0 => active' # None
    BY <1>3 DEF Enqueue, At, Inv, ReadyKnown
  <2> QED
    BY <1>1, <1>3, <2>1, <2>2, OneCall
       DEF Enqueue, Inv, TypeOK, CallShape, ImageKnown, ActiveIsFlagged, cluster
<1> QED
  BY <1>2, <1>3

\* A build that could not start is recorded as failed, or just logged.
LEMMA JobRefusedMoves ==
  ASSUME Inv, NEW p \in Process, JobRefused(p), call[p].pc = "job"
  PROVE  Moves(p)
<1>1. CASE Return(p)
  BY <1>1, ReturnMoves
<1>2. CASE Goto(p, "fail")
  BY <1>2, GotoMoves DEF Unbound
<1> QED
  BY <1>1, <1>2 DEF JobRefused

\* A new job is one of a created submission, and has pushed nothing yet.
LEMMA CreateJobPreserves ==
  ASSUME Inv, NEW p \in Process, CreateJob(p)
  PROVE  Inv'
<1> DEFINE s == call[p].sub
<1>1. call[p].pc = "job" /\ s \in Created /\ s \in Submission
  BY CallFacts DEF CreateJob, At, Unbound, Created
<1>2. CASE jobs[s] = "none"
  <2>1. Moves(p)
    BY <1>2, ContinueMoves DEF CreateJob
  <2>2. jobs' = [jobs EXCEPT ![s] = "running"]
    BY <1>2 DEF CreateJob
  <2>3. jobs' \in [Submission -> JobStates]
    BY <1>1, <2>2 DEF Inv, TypeOK, JobStates
  <2>4. \A t \in Submission : /\ jobs'[t] # "none" => t \in Created
                              /\ jobs'[t] = "succeeded" => t \in pushed
    BY <1>1, <2>2 DEF Inv, TypeOK, CallShape, ImageKnown
  <2>5. RowsKnown /\ FaultsKnown
    BY SubmissionAssumption
       DEF CreateJob, db, Inv, TypeOK, ActiveHasImage, RowsKnown, FaultsKnown
  <2>6. UNCHANGED <<flagged, active, queued, pushed, faults>>
    BY DEF CreateJob, db
  <2> QED
    BY <2>1, <2>3, <2>4, <2>5, <2>6, OneCall DEF Inv, TypeOK, ReadyKnown, ActiveIsFlagged
<1>3. CASE jobs[s] # "none"
  <2>1. Moves(p)
    BY <1>1, <1>3, JobRefusedMoves DEF CreateJob
  <2> QED
    BY <1>3, <2>1, ReadsOnly DEF CreateJob, cluster
<1> QED
  BY <1>2, <1>3

\* A failed statement or a crash changes no table: the call ends, or goes on
\* to record the failure, to the next submission or to enqueue the agent.
LEMMA FaultsPreserve ==
  ASSUME Inv, NEW p \in Process, StatementFails(p) \/ Crash(p)
  PROVE  Inv'
<1>1. UNCHANGED <<db, cluster>> /\ faults' = faults + 1 /\ faults < MaxFaults
  BY DEF StatementFails, Crash
<1>2. FaultsKnown /\ faults' # 0
  BY <1>1, SubmissionAssumption DEF Inv, TypeOK, FaultsKnown
<1>3. Moves(p)
  <2>1. CASE Return(p)
    BY <2>1, ReturnMoves
  <2>2. CASE Continue(p)
    BY <2>2, ContinueMoves
  <2>3. CASE At(p, "job") /\ JobRefused(p)
    BY <2>3, JobRefusedMoves DEF At
  <2>4. CASE (At(p, "activate") \/ At(p, "commit")) /\ AfterActivation(p)
    <3>1. call[p].sub \in Created
      BY <2>4, CallFacts DEF At, Unbound
    <3> QED
      BY <1>2, <2>4, <3>1, AfterActivationMoves
  <2> QED
    BY <2>1, <2>2, <2>3, <2>4 DEF StatementFails, Crash
<1> QED
  BY <1>1, <1>2, <1>3, CallOnly

-----------------------------------------------------------------------------
\* A row is inserted with the next version, or none is: a version read that is
\* not the next one is taken.
LEMMA InsertRowPreserves ==
  ASSUME Inv, NEW p \in Process, InsertRow(p)
  PROVE  Inv'
<1> DEFINE n == Cardinality(Created)
           read == call[p].read
<1>1. n \in Nat /\ IsFiniteSet(Created) /\ read \in 1..(n + 1)
  BY CreatedFinite DEF InsertRow, At, Inv, VersionKnown
<1>2. {rows[t].version : t \in Created} = 1..n
  BY DEF Inv, VersionKnown, VersionsConsecutive
<1>3. CASE \E t \in Created : rows[t].version = read
  <2>1. Moves(p)
    BY <1>3, ReturnMoves DEF InsertRow
  <2> QED
    BY <1>3, <2>1, ReadsOnly DEF InsertRow, db
<1>4. CASE ~\E t \in Created : rows[t].version = read
  <2>1. read = n + 1
    BY <1>1, <1>2, <1>4
  <2> DEFINE row == [status |-> "pending", version |-> read, retries |-> 0]
  <2> PICK s \in Submission \ Created :
        rows' = [rows EXCEPT ![s] = row] /\ Enter(p, "building", "create", s)
    BY <1>4 DEF InsertRow
  <2>2. row \in Rows /\ row.status = "pending" /\ row.version = n + 1
    BY <1>1, <2>1, SubmissionAssumption DEF Rows, Statuses
  <2>3. /\ rows' \in [Submission -> Rows]
        /\ \A t \in Submission : rows'[t] = IF t = s THEN row ELSE rows[t]
    BY <2>2 DEF Inv, TypeOK
  <2>4. Created' = Created \cup {s}
    BY <2>2, <2>3 DEF Created
  <2>5. Cardinality(Created)' = n + 1
    BY <1>1, <2>4, FS_AddElement
  <2> DEFINE c == [Idle EXCEPT !.pc = "building", !.kind = "create", !.sub = s]
  <2>6. c \in Calls /\ c.pc = "building" /\ c.sub = s /\ c.todo = {}
    BY IdleType DEF Idle, Calls
  <2>7. /\ call \in [Process -> Calls] /\ call' \in [Process -> Calls]
        /\ \A q \in Process : call'[q] = IF q = p THEN c ELSE call[q]
    BY <2>6 DEF Enter, Inv, TypeOK
  <2>8. UNCHANGED <<flagged, active, queued, jobs, pushed, faults>>
    BY DEF InsertRow, cluster
  <2>9. TypeOK'
    BY <2>3, <2>4, <2>7, <2>8 DEF Inv, TypeOK
  <2>10. CallShape'
    BY <2>4, <2>6, <2>7, <2>8 DEF Inv, CallShape
  <2>11. ImageKnown'
    BY <2>6, <2>7, <2>8 DEF Inv, ImageKnown
  <2>12. VersionKnown'
    <3>a. rows'[s].version = n + 1 /\ s \notin Created
      BY <2>2, <2>3
    <3>b. \A t \in Created : rows'[t].version = rows[t].version
      BY <2>3, <3>a DEF Created
    <3>1. {rows'[t].version : t \in Created'} = {rows[t].version : t \in Created} \cup {n + 1}
      BY <2>4, <3>a, <3>b
    <3>2. (1..n) \cup {n + 1} = 1..(n + 1)
      BY <1>1
    <3>3. VersionsConsecutive'
      BY <1>2, <2>5, <3>1, <3>2 DEF VersionsConsecutive
    <3>4. ASSUME NEW q \in Process, call'[q].pc = "insert"
          PROVE  call'[q].read \in 1..(n + 1 + 1)
      <4>1. call'[q] = call[q]
        BY <2>6, <2>7, <3>4
      <4>2. call[q].read \in 1..(n + 1)
        BY <3>4, <4>1 DEF Inv, VersionKnown
      <4> QED
        BY <1>1, <4>1, <4>2
    <3> QED
      BY <2>5, <3>3, <3>4 DEF VersionKnown
  <2>13. ReadyKnown'
    BY <2>6, <2>7, <2>8 DEF Inv, ReadyKnown
  <2>14. ActiveHasImage' /\ ActiveIsFlagged'
    BY <2>2, <2>3, <2>8 DEF Inv, ActiveHasImage, ActiveIsFlagged
  <2> QED
    BY <2>9, <2>10, <2>11, <2>12, <2>13, <2>14 DEF Inv
<1> QED
  BY <1>3, <1>4

\* A job that succeeds has pushed its image; nothing is ever unpushed.
LEMMA JobPreserves ==
  ASSUME Inv, NEW s \in Submission, Job(s)
  PROVE  Inv'
<1>1. UNCHANGED <<rows, flagged, active, queued, call, faults>>
  BY DEF Job, JobRetries, JobSucceeds, JobFails, JobExpires, db
<1>2. Created' = Created
  BY <1>1 DEF Created
<1>3. /\ jobs[s] # "none"
      /\ \E state \in JobStates :
           /\ jobs' = [jobs EXCEPT ![s] = state]
           /\ state = "succeeded" => s \in pushed'
  BY DEF Job, JobRetries, JobSucceeds, JobFails, JobExpires, JobStates
<1>4. s \in Created /\ pushed \subseteq pushed' /\ pushed' \subseteq pushed \cup {s}
  BY <1>3 DEF Job, JobRetries, JobSucceeds, JobFails, JobExpires, Inv, CallShape
<1>5. TypeOK'
  BY <1>1, <1>2, <1>3, <1>4 DEF Inv, TypeOK
<1>6. CallShape'
  BY <1>1, <1>2, <1>3, <1>4 DEF Inv, TypeOK, CallShape
<1>7. ImageKnown' /\ ActiveHasImage'
  BY <1>1, <1>3, <1>4 DEF Inv, TypeOK, ImageKnown, ActiveHasImage
<1>8. VersionKnown'
  BY <1>1, <1>2 DEF Inv, VersionKnown, VersionsConsecutive
<1>9. ReadyKnown' /\ ActiveIsFlagged'
  BY <1>1 DEF Inv, ReadyKnown, ActiveIsFlagged
<1> QED
  BY <1>5, <1>6, <1>7, <1>8, <1>9 DEF Inv

\* Every step preserves the invariant.
LEMMA InvNext == Inv /\ [Next]_vars => Inv'
<1> SUFFICES ASSUME Inv, [Next]_vars PROVE Inv'
  OBVIOUS
<1>1. ASSUME NEW w \in Worker, Request(w) PROVE Inv'
  <2>1. w \in Process
    BY DEF Process
  <2> QED
    BY <1>1, <2>1, ReadsPreserve DEF Request
<1>2. ASSUME NEW p \in Process, Step(p) PROVE Inv'
  <2>1. CASE InsertRow(p)
    BY <2>1, InsertRowPreserves
  <2>2. CASE CreateJob(p)
    BY <2>2, CreateJobPreserves
  <2>3. CASE Commit(p) \/ Enqueue(p)
    BY <2>3, ActivationPreserves
  <2>4. CASE SaveRetries(p) \/ ResetStatus(p) \/ StartBuilding(p) \/ RecordFailure(p) \/ RecordSuccess(p)
    BY <2>4, RowUpdatesPreserve
  <2>5. CASE ReadVersion(p) \/ Deactivate(p)
    BY <2>5, ReadsPreserve
  <2>6. CASE Handle(p)
    BY <2>6, EventsPreserve
  <2> QED
    BY <1>2, <2>1, <2>2, <2>3, <2>4, <2>5, <2>6 DEF Step
<1>3. ASSUME NEW p \in Process, StatementFails(p) \/ Crash(p) PROVE Inv'
  BY <1>3, FaultsPreserve
<1>4. ASSUME NEW s \in Submission, Job(s) PROVE Inv'
  BY <1>4, JobPreserves
<1>5. ASSUME NEW m \in Monitor, NEW s \in Submission, Receive(m, s) PROVE Inv'
  BY <1>5, EventsPreserve DEF Process
<1>6. CASE UNCHANGED vars
  BY <1>6 DEF vars, Inv, TypeOK, CallShape, ImageKnown, VersionKnown, VersionsConsecutive,
              ReadyKnown, ActiveHasImage, ActiveIsFlagged, Created
<1> QED
  BY <1>1, <1>2, <1>3, <1>4, <1>5, <1>6 DEF Next

\* The invariant holds in every behaviour.
LEMMA InvAlways == Spec => []Inv
BY InvInit, InvNext, PTL DEF Spec

\* Rows keep an admitted status and no more retries than allowed.
THEOREM TypeCorrect == Spec => []TypeOK
BY InvAlways, PTL DEF Inv

\* No submission is reported active before an image of it was pushed, however
\* many replicas and requests overlap.
THEOREM ActiveHasImageAlways == Spec => []ActiveHasImage
BY InvAlways, PTL DEF Inv

\* Versions number the submissions without a gap or a repetition.
THEOREM VersionsConsecutiveAlways == Spec => []VersionsConsecutive
<1>1. Inv => VersionsConsecutive
  BY DEF Inv, VersionKnown
<1> QED
  BY <1>1, InvAlways, PTL

\* The active submission is one that is flagged, however SetActives overlap.
THEOREM ActiveIsFlaggedAlways == Spec => []ActiveIsFlagged
BY InvAlways, PTL DEF Inv

\* Unless there was a fault, an agent that is enqueued has a submission to play
\* with.
THEOREM QueuedIsReadyAlways == Spec => []QueuedIsReady
<1>1. Inv => QueuedIsReady
  BY DEF Inv, ReadyKnown, QueuedIsReady
<1> QED
  BY <1>1, InvAlways, PTL

-----------------------------------------------------------------------------
(* The quota *)

\* The pcs of an upload that has passed the quota and inserted no row yet.
Uploading == {"version", "insert"}

\* Only requests upload.
UploadsByWorkers == \A p \in Process : call[p].pc \in Uploading => p \in Worker

QuotaInv == QuotaOverrunBounded /\ UploadsByWorkers

\* Call p goes on without becoming an upload.
Quiet(p) ==
  \E c : /\ call' = [call EXCEPT ![p] = c]
         /\ c.pc \in Uploading => call[p].pc \in Uploading

\* The uploads are as many as a natural number says, and no more than requests.
LEMMA CreatingFinite ==
  /\ IsFiniteSet(Creating) /\ Cardinality(Creating) \in Nat
  /\ Cardinality(Worker) \in Nat
  /\ Creating = {w \in Worker : call[w].pc \in Uploading}
<1>1. Creating \subseteq Worker
  BY DEF Creating
<1>2. Creating = {w \in Worker : call[w].pc \in Uploading}
  BY DEF Creating, At, Uploading
<1> QED
  BY <1>1, <1>2, SubmissionAssumption, FS_Subset, FS_CardinalityType

\* Where no row is inserted and no upload begins, there is no more to count.
LEMMA QuietKeeps ==
  ASSUME Inv, QuotaInv, NEW p \in Process, Quiet(p), Created' = Created
  PROVE  QuotaInv'
<1> PICK c : /\ call' = [call EXCEPT ![p] = c]
             /\ c.pc \in Uploading => call[p].pc \in Uploading
  BY DEF Quiet
<1>1. \A q \in Process : call'[q].pc \in Uploading => call[q].pc \in Uploading
  BY DEF Inv, TypeOK
<1>2. Creating' \subseteq Creating
  BY <1>1 DEF Creating, At, Uploading, Process
<1>3. Cardinality(Creating)' <= Cardinality(Creating) /\ Cardinality(Creating)' \in Nat
  BY <1>2, CreatingFinite, FS_Subset, FS_CardinalityType
<1>4. Cardinality(Created)' = Cardinality(Created)
  OBVIOUS
<1>5. QuotaOverrunBounded'
  BY <1>3, <1>4, CreatingFinite, CreatedFinite, SubmissionAssumption
     DEF QuotaInv, QuotaOverrunBounded
<1>6. UploadsByWorkers'
  BY <1>1 DEF QuotaInv, UploadsByWorkers
<1> QED
  BY <1>5, <1>6 DEF QuotaInv

\* An upload begins below the quota, whatever the other requests do.
LEMMA CheckQuotaBounded ==
  ASSUME Inv, QuotaInv, NEW w \in Worker, CheckQuota(w)
  PROVE  QuotaInv'
<1> DEFINE c == [Idle EXCEPT !.pc = "version", !.kind = "create", !.sub = None]
<1>1. /\ w \in Process /\ call[w].pc = "idle"
      /\ \A q \in Process : call'[q] = IF q = w THEN c ELSE call[q]
  BY DEF CheckQuota, At, Enter, Process, Inv, TypeOK
<1>2. c.pc = "version"
  BY DEF Idle
<1>3. Creating' = Creating \cup {w} /\ w \notin Creating
  BY <1>1, <1>2 DEF Creating, At, Process
<1>4. Creating \subseteq Worker \ {w}
  BY <1>3 DEF Creating
<1>5. Cardinality(Creating) <= Cardinality(Worker) - 1
  <2>1. Cardinality(Worker \ {w}) = Cardinality(Worker) - 1 /\ IsFiniteSet(Worker \ {w})
    BY SubmissionAssumption, FS_RemoveElement
  <2> QED
    BY <1>4, <2>1, FS_Subset
<1>6. Cardinality(Creating)' = Cardinality(Creating) + 1
  BY <1>3, CreatingFinite, FS_AddElement
<1>7. Created' = Created /\ Cardinality(Created) < Quota
  BY DEF CheckQuota, db, Created
<1>8. QuotaOverrunBounded'
  BY <1>5, <1>6, <1>7, CreatedFinite, CreatingFinite, SubmissionAssumption
     DEF QuotaOverrunBounded
<1>9. UploadsByWorkers'
  BY <1>1 DEF QuotaInv, UploadsByWorkers
<1> QED
  BY <1>8, <1>9 DEF QuotaInv

\* An upload that inserts its row counts as a submission instead.
LEMMA InsertRowBounded ==
  ASSUME Inv, QuotaInv, NEW p \in Process, InsertRow(p)
  PROVE  QuotaInv'
<1>1. CASE \E t \in Created : rows[t].version = call[p].read
  <2>1. Return(p) /\ rows' = rows
    BY <1>1 DEF InsertRow
  <2>2. Quiet(p)
    <3>1. Idle.pc = "idle" /\ "idle" \notin Uploading
      BY DEF Idle, Uploading
    <3> QED
      BY <2>1, <3>1 DEF Return, Quiet
  <2>3. Created' = Created
    BY <2>1 DEF Created
  <2> QED
    BY <2>2, <2>3, QuietKeeps
<1>2. CASE ~\E t \in Created : rows[t].version = call[p].read
  <2> DEFINE row == [status |-> "pending", version |-> call[p].read, retries |-> 0]
             c(s) == [Idle EXCEPT !.pc = "building", !.kind = "create", !.sub = s]
  <2> PICK s \in Submission \ Created :
        rows' = [rows EXCEPT ![s] = row] /\ call' = [call EXCEPT ![p] = c(s)]
    BY <1>2 DEF InsertRow, Enter
  <2>1. c(s).pc = "building" /\ row.status = "pending"
    BY DEF Idle
  <2>2. Created' = Created \cup {s}
    BY <2>1 DEF Created, Inv, TypeOK
  <2>3. Cardinality(Created)' = Cardinality(Created) + 1
    BY <2>2, CreatedFinite, FS_AddElement
  <2>4. call[p].pc = "insert" /\ p \in Worker
    BY DEF InsertRow, At, QuotaInv, UploadsByWorkers, Uploading
  <2>5. \A q \in Process : call'[q] = IF q = p THEN c(s) ELSE call[q]
    BY DEF Inv, TypeOK
  <2>6. Creating' = Creating \ {p} /\ p \in Creating
    <3>1. p \in Process /\ p \in Worker /\ Worker \subseteq Process
      BY <2>4 DEF Process
    <3>2. \A q \in Worker : q # p => call'[q].pc = call[q].pc
      BY <2>5, <3>1
    <3>3. call[p].pc = "insert" /\ call'[p].pc = "building"
      BY <2>1, <2>4, <2>5, <3>1
    <3> QED
      BY <3>1, <3>2, <3>3 DEF Creating, At
  <2>7. Cardinality(Creating)' = Cardinality(Creating) - 1
    BY <2>6, CreatingFinite, FS_RemoveElement
  <2>8. QuotaOverrunBounded'
    BY <2>3, <2>7, CreatedFinite, CreatingFinite, SubmissionAssumption
       DEF QuotaInv, QuotaOverrunBounded
  <2>9. UploadsByWorkers'
    BY <2>4, <2>5 DEF QuotaInv, UploadsByWorkers
  <2> QED
    BY <2>8, <2>9 DEF QuotaInv
<1> QED
  BY <1>1, <1>2

\* No status written unmakes a row, nor makes one.
LEMMA StatusKeepsCreated ==
  ASSUME Inv, NEW s \in Created, NEW status, UpdateStatus(s, status)
  PROVE  Created' = Created
<1>1. s \in Submission /\ "none" \notin Statuses
  BY DEF Created, Statuses
<1>2. CASE status \in Statuses
  BY <1>1, <1>2 DEF UpdateStatus, Inv, TypeOK, Created
<1>3. CASE status \notin Statuses
  BY <1>3 DEF UpdateStatus, Created
<1> QED
  BY <1>2, <1>3

\* The ways in which a call goes on without becoming an upload.
LEMMA GoesOnQuietly ==
  ASSUME NEW p \in Process, NEW s, NEW pc, NEW kind, pc \notin Uploading,
         \/ Return(p) \/ Continue(p) \/ Goto(p, pc) \/ Enter(p, pc, kind, s)
         \/ JobRefused(p) \/ AfterActivation(p),
         call \in [Process -> Calls]
  PROVE  Quiet(p)
<1>1. Idle.pc = "idle" /\ "idle" \notin Uploading
  BY DEF Idle, Uploading
<1>2. ASSUME Return(p) PROVE Quiet(p)
  BY <1>1, <1>2 DEF Return, Quiet
<1>3. ASSUME NEW to, to \notin Uploading, Goto(p, to) PROVE Quiet(p)
  <2> DEFINE c == [call[p] EXCEPT !.pc = to]
  <2>1. c.pc = to /\ call' = [call EXCEPT ![p] = c]
    BY <1>3 DEF Goto, Calls
  <2> QED
    BY <1>3, <2>1 DEF Quiet
<1>4. ASSUME NEW to, to \notin Uploading, NEW k, NEW t, Enter(p, to, k, t) PROVE Quiet(p)
  <2> DEFINE c == [Idle EXCEPT !.pc = to, !.kind = k, !.sub = t]
  <2>1. c.pc = to
    BY DEF Idle
  <2> QED
    BY <1>4, <2>1 DEF Enter, Quiet
<1>5. ASSUME Continue(p) PROVE Quiet(p)
  <2>1. ASSUME NEW t \in call[p].todo,
               call' = [call EXCEPT ![p] = [Idle EXCEPT !.pc = "building", !.kind = "scan",
                                                        !.sub = t, !.todo = call[p].todo \ {t}]]
        PROVE  Quiet(p)
    <3> DEFINE c == [Idle EXCEPT !.pc = "building", !.kind = "scan",
                                 !.sub = t, !.todo = call[p].todo \ {t}]
    <3>1. c.pc = "building" /\ "building" \notin Uploading
      BY DEF Idle, Uploading
    <3> QED
      BY <2>1, <3>1 DEF Quiet
  <2> QED
    BY <1>2, <1>5, <2>1 DEF Continue
<1>6. "fail" \notin Uploading /\ "enqueue" \notin Uploading
  BY DEF Uploading
<1> QED
  BY <1>2, <1>3, <1>4, <1>5, <1>6 DEF JobRefused, AfterActivation

\* No step lets the submissions overrun the quota by more.
LEMMA QuotaNext ==
  ASSUME Inv, QuotaInv, [Next]_vars
  PROVE  QuotaInv'
<1>0. call \in [Process -> Calls]
  BY DEF Inv, TypeOK
<1>1. ASSUME NEW w \in Worker, Request(w) PROVE QuotaInv'
  <2>1. w \in Process
    BY DEF Process
  <2>2. CASE CheckQuota(w)
    BY <2>2, CheckQuotaBounded
  <2>3. ASSUME NEW s, ReadRetries(w, s) \/ Scan(w) \/ UserActivates(w, s) PROVE QuotaInv'
    <3>1. Created' = Created
      BY <2>3 DEF ReadRetries, Scan, UserActivates, db, Created
    <3>2. \E c : call' = [call EXCEPT ![w] = c] /\ c.pc \notin Uploading
      <4>1. CASE ReadRetries(w, s)
        <5> DEFINE c == [Idle EXCEPT !.pc = "retry", !.kind = "rebuild", !.sub = s,
                                     !.read = rows[s].retries]
        <5>1. c.pc = "retry" /\ "retry" \notin Uploading
          BY DEF Idle, Uploading
        <5> QED
          BY <4>1, <5>1 DEF ReadRetries
      <4>2. CASE Scan(w)
        <5> DEFINE pend == {t \in Created : rows[t].status = "pending"}
                   c(t) == [Idle EXCEPT !.pc = "building", !.kind = "scan", !.sub = t,
                                        !.todo = pend \ {t}]
        <5> PICK t \in Created : call' = [call EXCEPT ![w] = c(t)]
          BY <4>2 DEF Scan
        <5>1. c(t).pc = "building" /\ "building" \notin Uploading
          BY DEF Idle, Uploading
        <5> QED
          BY <5>1
      <4>3. CASE UserActivates(w, s)
        <5> DEFINE c == [Idle EXCEPT !.pc = "activate", !.kind = "user", !.sub = s]
        <5>1. c.pc = "activate" /\ "activate" \notin Uploading
          BY DEF Idle, Uploading
        <5> QED
          BY <4>3, <5>1 DEF UserActivates, Enter
      <4> QED
        BY <2>3, <4>1, <4>2, <4>3
    <3>3. Quiet(w)
      BY <3>2 DEF Quiet
    <3> QED
      BY <2>1, <3>1, <3>3, QuietKeeps
  <2> QED
    BY <1>1, <2>2, <2>3 DEF Request
<1>2. ASSUME NEW p \in Process, Step(p) PROVE QuotaInv'
  <2>1. CASE InsertRow(p)
    BY <2>1, InsertRowBounded
  <2>2. CASE ReadVersion(p) \/ Deactivate(p)
    <3>1. Created' = Created
      BY <2>2 DEF ReadVersion, Deactivate, db, Created
    <3>2. Quiet(p)
      <4>1. CASE ReadVersion(p)
        <5> DEFINE c == [call[p] EXCEPT !.pc = "insert", !.read = LastVersion + 1]
        <5>1. call' = [call EXCEPT ![p] = c]
          BY <1>0, <4>1 DEF ReadVersion
        <5>2. call[p].pc \in Uploading
          BY <4>1 DEF ReadVersion, At, Uploading
        <5> QED
          BY <5>1, <5>2 DEF Quiet
      <4>2. CASE Deactivate(p)
        <5> DEFINE c == [call[p] EXCEPT !.pc = "commit", !.old = flagged]
        <5>1. call' = [call EXCEPT ![p] = c]
          BY <1>0, <4>2 DEF Deactivate
        <5>2. c.pc = "commit" /\ "commit" \notin Uploading
          BY <1>0 DEF Calls, Uploading
        <5> QED
          BY <5>1, <5>2 DEF Quiet
      <4> QED
        BY <2>2, <4>1, <4>2
    <3> QED
      BY <3>1, <3>2, QuietKeeps
  <2>3. CASE CreateJob(p)
    <3>1. Created' = Created /\ (Continue(p) \/ JobRefused(p))
      BY <2>3 DEF CreateJob, db, Created
    <3>2. "fail" \notin Uploading
      BY DEF Uploading
    <3> QED
      BY <1>0, <3>1, <3>2, GoesOnQuietly, QuietKeeps
  <2>4. CASE Commit(p) \/ Enqueue(p) \/ Handle(p)
    <3>1. Created' = Created
      BY <2>4 DEF Commit, Enqueue, Handle, db, Created
    <3>2. \/ Return(p) \/ AfterActivation(p)
          \/ Enter(p, "fail", "monitor", call[p].sub) \/ Enter(p, "succeed", "monitor", call[p].sub)
      BY <2>4 DEF Commit, Enqueue, Handle
    <3>3. "fail" \notin Uploading /\ "succeed" \notin Uploading
      BY DEF Uploading
    <3> QED
      BY <1>0, <3>1, <3>2, <3>3, GoesOnQuietly, QuietKeeps
  <2>5. CASE SaveRetries(p) \/ ResetStatus(p) \/ StartBuilding(p) \/ RecordFailure(p) \/ RecordSuccess(p)
    <3>1. call[p].sub \in Created
      BY <2>5, CallFacts
         DEF SaveRetries, ResetStatus, StartBuilding, RecordFailure, RecordSuccess, At, Unbound
    <3>2. Created' = Created
      <4>1. CASE SaveRetries(p)
        BY <3>1, <4>1 DEF SaveRetries, Inv, TypeOK, Rows, Created
      <4>2. CASE \E status : UpdateStatus(call[p].sub, status)
        BY <3>1, <4>2, StatusKeepsCreated
      <4> QED
        BY <2>5, <4>1, <4>2
           DEF ResetStatus, StartBuilding, RecordFailure, RecordSuccess
    <3>3. \/ Continue(p) \/ Enter(p, "reset", "rebuild", call[p].sub)
          \/ Goto(p, "building") \/ Goto(p, "job") \/ Goto(p, "activate")
      BY <2>5 DEF SaveRetries, ResetStatus, StartBuilding, RecordFailure, RecordSuccess
    <3>4. {"reset", "building", "job", "activate"} \cap Uploading = {}
      BY DEF Uploading
    <3>5. Quiet(p)
      BY <1>0, <3>3, <3>4, GoesOnQuietly
    <3> QED
      BY <3>2, <3>5, QuietKeeps
  <2> QED
    BY <1>2, <2>1, <2>2, <2>3, <2>4, <2>5 DEF Step
<1>3. ASSUME NEW p \in Process, StatementFails(p) \/ Crash(p) PROVE QuotaInv'
  <2>1. Created' = Created
    BY <1>3 DEF StatementFails, Crash, db, Created
  <2>2. Return(p) \/ Continue(p) \/ JobRefused(p) \/ AfterActivation(p)
    BY <1>3 DEF StatementFails, Crash
  <2>3. "fail" \notin Uploading
    BY DEF Uploading
  <2> QED
    BY <1>0, <2>1, <2>2, <2>3, GoesOnQuietly, QuietKeeps
<1>4. ASSUME NEW s \in Submission, Job(s) PROVE QuotaInv'
  <2>1. call' = call /\ rows' = rows
    BY <1>4 DEF Job, JobRetries, JobSucceeds, JobFails, JobExpires, db
  <2> QED
    BY <2>1 DEF QuotaInv, QuotaOverrunBounded, UploadsByWorkers, Created, Creating, At
<1>5. ASSUME NEW m \in Monitor, NEW s \in Submission, Receive(m, s) PROVE QuotaInv'
  <2> DEFINE c == [Idle EXCEPT !.pc = "event", !.kind = "monitor", !.sub = s, !.seen = jobs[s]]
  <2>1. c.pc = "event" /\ "event" \notin Uploading
    BY DEF Idle, Uploading
  <2>2. Quiet(m)
    BY <1>5, <2>1 DEF Receive, Quiet
  <2>3. Created' = Created /\ m \in Process
    BY <1>5 DEF Receive, db, Created, Process
  <2> QED
    BY <2>2, <2>3, QuietKeeps
<1>6. CASE UNCHANGED vars
  BY <1>6 DEF vars, QuotaInv, QuotaOverrunBounded, UploadsByWorkers, Created, Creating, At
<1> QED
  BY <1>1, <1>2, <1>3, <1>4, <1>5, <1>6 DEF Next

\* Concurrent uploads overrun the quota by one submission at most for each
\* other request running at the same time.  With no request and no quota there
\* is nothing to bound.
THEOREM QuotaOverrunBoundedAlways ==
  ASSUME Quota > 0 \/ Worker # {}
  PROVE  Spec => []QuotaOverrunBounded
<1>1. Init => QuotaInv
  <2> SUFFICES ASSUME Init PROVE QuotaInv
    OBVIOUS
  <2>1. Created = {} /\ Creating = {} /\ UploadsByWorkers
    BY DEF Init, Created, Creating, UploadsByWorkers, Uploading, At, Idle, NoRow, Process
  <2>2. Cardinality({}) = 0
    BY FS_EmptySet
  <2>3. Quota + Cardinality(Worker) > 0
    <3>1. Cardinality(Worker) \in Nat /\ (Cardinality(Worker) = 0 <=> Worker = {})
      BY SubmissionAssumption, FS_CardinalityType, FS_EmptySet
    <3> QED
      BY <3>1, SubmissionAssumption
  <2> QED
    BY <2>1, <2>2, <2>3, CreatingFinite, SubmissionAssumption DEF QuotaInv, QuotaOverrunBounded
<1>2. Inv /\ QuotaInv /\ [Next]_vars => QuotaInv'
  BY QuotaNext
<1>3. QuotaInv => QuotaOverrunBounded
  BY DEF QuotaInv
<1> QED
  BY <1>1, <1>2, <1>3, InvAlways, PTL DEF Spec
=============================================================================
