--------------------------- MODULE SubmissionBuild ---------------------------
(***************************************************************************)
(* The submissions of one agent, from the upload to the matchmaking queue: *)
(* SubmissionService and the goroutine each upload or rebuild leaves       *)
(* behind, the Kubernetes jobs it creates, and the BuildMonitor of each    *)
(* replica that watches those jobs.  One SQL statement or API call is one  *)
(* step; only SetActive is a transaction.  No statement touches the        *)
(* submissions of two agents, so one agent is enough.                      *)
(*                                                                         *)
(* The jobs are those of the Kaniko build; the Docker build of local       *)
(* development goes the same way but pushes no image.  UpdateBuildInfo is  *)
(* left out: nothing here reads the columns it writes.                     *)
(***************************************************************************)
EXTENDS Integers, FiniteSets

CONSTANTS
  Submission,     \* ids of the agent's submissions: bounds the uploads
  Worker,         \* requests with their goroutines, start-up scans
  Monitor,        \* the watch loops, one per replica
  None,           \* a NULL active_submission_id
  Quota,          \* submissions an agent may create a day (5)
  MaxRetryCount,  \* rebuilds of a submission (3)
  MaxFaults       \* bound on failed statements and crashes

ASSUME SubmissionAssumption ==
  /\ Worker \cap Monitor = {}
  /\ None \notin Submission
  /\ Quota \in Nat /\ MaxRetryCount \in Nat /\ MaxFaults \in Nat
  /\ IsFiniteSet(Submission) /\ IsFiniteSet(Worker)

VARIABLES
  rows,     \* submissions: status, version and retry_count of each row
  flagged,  \* the rows with is_active
  active,   \* agents.active_submission_id
  queued,   \* the agent was put in the matchmaking queue
  jobs,     \* the job build-<id> of each submission
  pushed,   \* the submissions whose image a job has pushed to the registry
  call,     \* the call each worker or monitor is in
  faults    \* faults so far

vars == <<rows, flagged, active, queued, jobs, pushed, call, faults>>
db == <<rows, flagged, active, queued>>
cluster == <<jobs, pushed>>

-----------------------------------------------------------------------------
Process == Worker \cup Monitor

NoRow == [status |-> "none", version |-> 0, retries |-> 0]

\* kind is who creates the job; read is the number the call has read; old are
\* the flagged rows a transaction found; todo is what a scan still has to do.
Idle == [pc |-> "idle", kind |-> "none", sub |-> None, read |-> 0,
         seen |-> "none", old |-> {}, todo |-> {}]

At(p, pc) == call[p].pc = pc
Goto(p, pc) == call' = [call EXCEPT ![p].pc = pc]
Return(p) == call' = [call EXCEPT ![p] = Idle]
Enter(p, pc, kind, s) ==
  call' = [call EXCEPT ![p] = [Idle EXCEPT !.pc = pc, !.kind = kind, !.sub = s]]

Created == {s \in Submission : rows[s].status # "none"}

\* What the CHECK on submissions.status admits.  Mutant: 'build_failed' too.
StatusesBuildFailed == {"pending", "building", "active", "failed", "inactive", "build_failed"}
Statuses == {"pending", "building", "active", "failed", "inactive"}

\* UpdateStatus: the UPDATE is refused when the CHECK does not admit status.
UpdateStatus(s, status) ==
  rows' = IF status \in Statuses THEN [rows EXCEPT ![s].status = status] ELSE rows

Init ==
  /\ rows    = [s \in Submission |-> NoRow]
  /\ flagged = {}
  /\ active  = None
  /\ queued  = FALSE
  /\ jobs    = [s \in Submission |-> "none"]
  /\ pushed  = {}
  /\ call    = [p \in Process |-> Idle]
  /\ faults  = 0

-----------------------------------------------------------------------------
(* SubmissionService.Create and CreateFromURL *)

Creating == {w \in Worker : At(w, "version") \/ At(w, "insert")}
Room == Cardinality(Created) + Cardinality(Creating) < Cardinality(Submission)    \* a bound

\* Mutant: one too many.
CheckQuotaLate(w) ==
  /\ At(w, "idle")
  /\ Room
  /\ Cardinality(Created) <= Quota
  /\ Enter(w, "version", "create", None)
  /\ UNCHANGED <<db, cluster, faults>>

\* CountTodaySubmissions; the model's day does not end.
CheckQuota(w) ==
  /\ At(w, "idle")
  /\ Room
  /\ Cardinality(Created) < Quota
  /\ Enter(w, "version", "create", None)
  /\ UNCHANGED <<db, cluster, faults>>

LastVersion == CHOOSE v \in 0..Cardinality(Submission) :
  /\ v = 0 \/ \E s \in Created : rows[s].version = v
  /\ \A s \in Created : rows[s].version <= v

ReadVersion(w) ==
  /\ At(w, "version")
  /\ call' = [call EXCEPT ![w].pc = "insert", ![w].read = LastVersion + 1]
  /\ UNCHANGED <<db, cluster, faults>>

\* Mutant: no UNIQUE(agent_id, version).
InsertAnyRow(w) ==
  /\ At(w, "insert")
  /\ \E s \in Submission \ Created :
       /\ rows' = [rows EXCEPT ![s] = [status |-> "pending", version |-> call[w].read, retries |-> 0]]
       /\ Enter(w, "building", "create", s)
  /\ UNCHANGED <<flagged, active, queued, cluster, faults>>

\* UNIQUE(agent_id, version) refuses the second of two equal versions.
InsertRow(w) ==
  /\ At(w, "insert")
  /\ IF \E s \in Created : rows[s].version = call[w].read
       THEN Return(w) /\ UNCHANGED rows
       ELSE \E s \in Submission \ Created :
              /\ rows' = [rows EXCEPT ![s] = [status |-> "pending", version |-> call[w].read, retries |-> 0]]
              /\ Enter(w, "building", "create", s)
  /\ UNCHANGED <<flagged, active, queued, cluster, faults>>

-----------------------------------------------------------------------------
(* RebuildSubmission: its status is not looked at *)

\* Mutant: one too many.
ReadRetriesLate(w, s) ==
  /\ At(w, "idle")
  /\ s \in Created
  /\ rows[s].retries <= MaxRetryCount
  /\ call' = [call EXCEPT ![w] = [Idle EXCEPT !.pc = "retry", !.kind = "rebuild", !.sub = s,
                                              !.read = rows[s].retries]]
  /\ UNCHANGED <<db, cluster, faults>>

ReadRetries(w, s) ==
  /\ At(w, "idle")
  /\ s \in Created
  /\ rows[s].retries < MaxRetryCount            \* ErrMaxRetriesExceeded
  /\ call' = [call EXCEPT ![w] = [Idle EXCEPT !.pc = "retry", !.kind = "rebuild", !.sub = s,
                                              !.read = rows[s].retries]]
  /\ UNCHANGED <<db, cluster, faults>>

SaveRetries(w) ==
  /\ At(w, "retry")
  /\ rows' = [rows EXCEPT ![call[w].sub].retries = call[w].read + 1]
  /\ Enter(w, "reset", "rebuild", call[w].sub)
  /\ UNCHANGED <<flagged, active, queued, cluster, faults>>

ResetStatus(w) ==
  /\ At(w, "reset")
  /\ UpdateStatus(call[w].sub, "pending")
  /\ Goto(w, "building")
  /\ UNCHANGED <<flagged, active, queued, cluster, faults>>

-----------------------------------------------------------------------------
(* BuildMonitor.processPendingSubmissions: a replica starts *)

\* The next submission of a scan, or the end of the goroutine.
Continue(p) ==
  \/ call[p].todo = {} /\ Return(p)
  \/ \E s \in call[p].todo :
       call' = [call EXCEPT ![p] = [Idle EXCEPT !.pc = "building", !.kind = "scan", !.sub = s,
                                                !.todo = call[p].todo \ {s}]]

Scan(w) ==
  /\ At(w, "idle")
  /\ \E s \in Created :
       /\ rows[s].status = "pending"
       /\ call' = [call EXCEPT ![w] =
            [Idle EXCEPT !.pc = "building", !.kind = "scan", !.sub = s,
                         !.todo = {t \in Created : rows[t].status = "pending"} \ {s}]]
  /\ UNCHANGED <<db, cluster, faults>>

-----------------------------------------------------------------------------
(* The build, whoever starts it *)

StartBuilding(w) ==
  /\ At(w, "building")
  /\ UpdateStatus(call[w].sub, "building")
  /\ Goto(w, "job")
  /\ UNCHANGED <<flagged, active, queued, cluster, faults>>

\* BuildAgentImage failed: a rebuild only logs it.
JobRefused(w) == IF call[w].kind = "rebuild" THEN Return(w) ELSE Goto(w, "fail")

\* The job's name is the submission's: there cannot be two at a time.
CreateJob(w) ==
  LET s == call[w].sub
  IN
  /\ At(w, "job")
  /\ IF jobs[s] = "none"
       THEN jobs' = [jobs EXCEPT ![s] = "running"] /\ Continue(w)
       ELSE JobRefused(w) /\ UNCHANGED jobs
  /\ UNCHANGED <<db, pushed, faults>>

\* UpdateStatus(build_failed), by the goroutine or by handleBuildFailure.
RecordFailure(p) ==
  /\ At(p, "fail")
  /\ UpdateStatus(call[p].sub, "build_failed")
  /\ Continue(p)
  /\ UNCHANGED <<flagged, active, queued, cluster, faults>>

-----------------------------------------------------------------------------
(* The jobs, run by Kubernetes: a pod that fails is started again, up to
   backoffLimit times *)

JobRetries(s) ==
  /\ jobs[s] = "running"
  /\ jobs' = [jobs EXCEPT ![s] = "retrying"]
  /\ UNCHANGED <<db, pushed, call, faults>>

\* Kaniko exits with success when the image is at its --destination.
JobSucceeds(s) ==
  /\ jobs[s] \in {"running", "retrying"}
  /\ jobs' = [jobs EXCEPT ![s] = "succeeded"]
  /\ pushed' = pushed \cup {s}
  /\ UNCHANGED <<db, call, faults>>

JobFails(s) ==
  /\ jobs[s] = "retrying"
  /\ jobs' = [jobs EXCEPT ![s] = "failed"]
  /\ UNCHANGED <<db, pushed, call, faults>>

\* ttlSecondsAfterFinished.
JobExpires(s) ==
  /\ jobs[s] \in {"succeeded", "failed"}
  /\ jobs' = [jobs EXCEPT ![s] = "none"]
  /\ UNCHANGED <<db, pushed, call, faults>>

-----------------------------------------------------------------------------
(* BuildMonitor *)

\* An event of a job: it changed, or the watch was opened again.
Receive(m, s) ==
  /\ At(m, "idle")
  /\ jobs[s] \notin {"none", "running"}
  /\ call' = [call EXCEPT ![m] = [Idle EXCEPT !.pc = "event", !.kind = "monitor", !.sub = s,
                                              !.seen = jobs[s]]]
  /\ UNCHANGED <<db, cluster, faults>>

\* Mutant: whatever has not failed for good has succeeded.
HandleUnlessFailed(m) ==
  /\ At(m, "event")
  /\ IF rows[call[m].sub].status # "building" THEN Return(m)
     ELSE Enter(m, IF call[m].seen = "failed" THEN "fail" ELSE "succeed", "monitor", call[m].sub)
  /\ UNCHANGED <<db, cluster, faults>>

\* handleWatchEvent: read the row; Succeeded > 0 goes before Failed > 0.
Handle(m) ==
  /\ At(m, "event")
  /\ IF rows[call[m].sub].status # "building" THEN Return(m)
     ELSE Enter(m, IF call[m].seen = "succeeded" THEN "succeed" ELSE "fail", "monitor", call[m].sub)
  /\ UNCHANGED <<db, cluster, faults>>

\* Mutant: the agent is enqueued before its submission is activated.
RecordSuccessEnqueuing(m) ==
  /\ At(m, "succeed")
  /\ UpdateStatus(call[m].sub, "active")
  /\ queued' = TRUE
  /\ Goto(m, "activate")
  /\ UNCHANGED <<flagged, active, cluster, faults>>

RecordSuccess(m) ==
  /\ At(m, "succeed")
  /\ UpdateStatus(call[m].sub, "active")
  /\ Goto(m, "activate")
  /\ UNCHANGED <<flagged, active, queued, cluster, faults>>

Enqueue(m) ==
  /\ At(m, "enqueue")
  /\ queued' = TRUE
  /\ Return(m)
  /\ UNCHANGED <<rows, flagged, active, cluster, faults>>

-----------------------------------------------------------------------------
(* SetActive: by the monitor, or by a user for any submission *)

UserActivates(w, s) ==
  /\ At(w, "idle")
  /\ s \in Created
  /\ Enter(w, "activate", "user", s)
  /\ UNCHANGED <<db, cluster, faults>>

\* The first UPDATE sees the rows flagged when it starts.
Deactivate(p) ==
  /\ At(p, "activate")
  /\ call' = [call EXCEPT ![p].pc = "commit", ![p].old = flagged]
  /\ UNCHANGED <<db, cluster, faults>>

AfterActivation(p) ==
  IF p \in Monitor THEN Enter(p, "enqueue", "monitor", call[p].sub) ELSE Return(p)

\* Mutant: the other two UPDATEs in the wrong order.
CommitDeactivatingLast(p) ==
  /\ At(p, "commit")
  /\ flagged' = (flagged \cup {call[p].sub}) \ call[p].old
  /\ active' = call[p].sub
  /\ AfterActivation(p)
  /\ UNCHANGED <<rows, queued, cluster, faults>>

\* The rest of the transaction.  Transactions wait for each other at the row
\* locks they share, the agents row at the latest, and so commit in turn.
Commit(p) ==
  /\ At(p, "commit")
  /\ flagged' = (flagged \ call[p].old) \cup {call[p].sub}
  /\ active' = call[p].sub
  /\ AfterActivation(p)
  /\ UNCHANGED <<rows, queued, cluster, faults>>

-----------------------------------------------------------------------------
(* Faults *)

\* A statement or an API call fails, or a transaction is rolled back.
StatementFails(p) ==
  /\ faults < MaxFaults
  /\ \/ p \in Worker /\ At(p, "job") /\ JobRefused(p)
     \/ At(p, "fail") /\ Continue(p)
     \/ At(p, "building") /\ Continue(p)
     \/ At(p, "activate") /\ AfterActivation(p)
     \/ At(p, "commit") /\ AfterActivation(p)
     \/ call[p].pc \in {"version", "insert", "retry", "reset", "event", "succeed", "enqueue"} /\ Return(p)
  /\ faults' = faults + 1
  /\ UNCHANGED <<db, cluster>>

Crash(p) ==
  /\ ~At(p, "idle")
  /\ faults < MaxFaults
  /\ Return(p)
  /\ faults' = faults + 1
  /\ UNCHANGED <<db, cluster>>

-----------------------------------------------------------------------------
Request(w) ==
  \/ CheckQuota(w) \/ Scan(w)
  \/ \E s \in Submission : ReadRetries(w, s) \/ UserActivates(w, s)

Step(p) ==
  \/ ReadVersion(p) \/ InsertRow(p) \/ SaveRetries(p) \/ ResetStatus(p)
  \/ StartBuilding(p) \/ CreateJob(p) \/ RecordFailure(p)
  \/ Handle(p) \/ RecordSuccess(p) \/ Enqueue(p)
  \/ Deactivate(p) \/ Commit(p)

Job(s) == JobRetries(s) \/ JobSucceeds(s) \/ JobFails(s) \/ JobExpires(s)

Next ==
  \/ \E w \in Worker : Request(w)
  \/ \E p \in Process : Step(p) \/ StatementFails(p) \/ Crash(p)
  \/ \E s \in Submission : Job(s)
  \/ \E m \in Monitor, s \in Submission : Receive(m, s)

\* Goroutines go on.  A watch lists every job when it is opened and delivers
\* the events in order, so none is passed over for ever.
Fairness ==
  /\ \A p \in Process : WF_vars(Step(p))
  /\ \A m \in Monitor, s \in Submission : SF_vars(Receive(m, s))

Spec == Init /\ [][Next]_vars /\ Fairness

-----------------------------------------------------------------------------
(* Properties *)

Rows == [status: Statuses \cup {"none"}, version: Nat, retries: 0..MaxRetryCount]
JobStates == {"none", "running", "retrying", "succeeded", "failed"}
Calls == [pc: {"idle", "version", "insert", "retry", "reset", "building", "job", "fail",
               "event", "succeed", "activate", "commit", "enqueue"},
          kind: {"none", "create", "rebuild", "scan", "monitor", "user"},
          sub: Submission \cup {None}, read: Nat, seen: JobStates,
          old: SUBSET Submission, todo: SUBSET Submission]

\* Rows have an admitted status and no more retries than allowed, although
\* retry_count is read and written in two statements.
TypeOK ==
  /\ rows \in [Submission -> Rows]
  /\ flagged \subseteq Created
  /\ active \in Created \cup {None}
  /\ queued \in BOOLEAN
  /\ jobs \in [Submission -> JobStates]
  /\ pushed \subseteq Created
  /\ call \in [Process -> Calls]
  /\ faults \in 0..MaxFaults

(***************************************************************************)
(* Concurrent uploads read the same MAX(version) + 1, and one of them is   *)
(* refused: versions number the submissions without a gap or a repetition. *)
(***************************************************************************)
VersionsConsecutive ==
  {rows[s].version : s \in Created} = 1..Cardinality(Created)

(***************************************************************************)
(* The quota is read before the row is inserted, so that concurrent        *)
(* uploads may overrun it, but only by one submission for each of the      *)
(* other uploads running at the same time, never by more.                  *)
(***************************************************************************)
QuotaOverrunBounded ==
  Cardinality(Created) + Cardinality(Creating) < Quota + Cardinality(Worker)

(***************************************************************************)
(* The submission agents.active_submission_id names is one that is flagged *)
(* is_active, whichever way the SetActive of users and monitors overlap.   *)
(***************************************************************************)
ActiveIsFlagged == active = None \/ active \in flagged

(***************************************************************************)
(* No submission is reported active before a Kaniko job of it has pushed   *)
(* an image, although events come late, jobs are retried and rows rebuilt  *)
(* meanwhile.  (Of which of the builds is not asked.)                      *)
(***************************************************************************)
ActiveHasImage == \A s \in Submission : rows[s].status = "active" => s \in pushed

(***************************************************************************)
(* An agent enters the matchmaking queue with a submission to play with,   *)
(* unless a fault kept SetActive from running: matches of the others fail. *)
(***************************************************************************)
QueuedIsReady == faults = 0 /\ queued => active # None

(***************************************************************************)
(* README.md "Build Success -> Agent joins matchmaking queue": a job that  *)
(* succeeds gets its submission activated and the agent into the queue     *)
(* with a submission to play with, even when a pod of it failed first,     *)
(* unless the submission is reset for a rebuild or the job expires before. *)
(* A fault before the row says active only delays this; one after it loses *)
(* the rest, SetActive and EnqueueAgent, for later events of the job find  *)
(* the row no longer building.                                             *)
(***************************************************************************)
SuccessIsRecorded ==
  \A s \in Submission :
    jobs[s] = "succeeded" ~>
      \/ jobs[s] = "none" \/ rows[s].status = "pending"
      \/ rows[s].status = "active" /\ (faults > 0 \/ (queued /\ active # None))

(***************************************************************************)
(* handleBuildFailure: "Submission 상태를 'build_failed'로 업데이트", a     *)
(* failed build leaves its submission in state 'build_failed'.             *)
(***************************************************************************)
FailureIsRecorded ==
  [][\A m \in Monitor : At(m, "fail") /\ ~At(m, "fail")' =>
       rows'[call[m].sub].status = "build_failed"]_vars
=============================================================================
