# RL-Arena backend: models, checks and proofs

TLA+ modules of the parts of this backend in which something can go wrong that a
test would hardly reach: matches played by several goroutines over one database,
the matchmaking rounds of several replicas, the events that start them and the Redis
lock meant to keep them apart, the builds of submissions, the WebSocket hub, the Redis
queue and the rate limiters. TLC checks the properties on small instances; TLAPS proves
the most important ones for every value of the constants.

`PROJECT.json` lists components, runs, mutants, hazards, findings and theorems,
and maps every definition that stands for code to its lines. Paths below are
relative to the repository (`src/`).

## 1. The system

| Component | State it keeps | Operations | Talks to |
|---|---|---|---|
| Match execution: `internal/service/match_service.go`, match, agent and statistics repositories | tables `matches`, `agents`, `agent_match_stats` | `CreateAndExecute`, `processMatchResult` | executor (gRPC), `EnqueueAgent` |
| Elo: `internal/service/elo_service.go` | none | `CalculateNewRatingsWithMatchCounts` | called by match execution |
| Matchmaking rounds: `internal/service/matchmaking_service.go`, `internal/repository/matchmaking_repository.go` | table `matchmaking_queue`; locals of a round | `matchEnvironment`, `findOpponentWithExpandingRange`, `EnqueueAgent`, `CleanupExpired`, tickers | `CreateAndExecute`, coordinator |
| Coordinator and lock: `pkg/distributed/matchmaking_coordinator.go`, `redis_lock.go` | Redis channel and key; one receiving goroutine per replica | `PublishEvent`, `handleEventWithLock`, `TryLockWithRetry`, `Release` | runs a round as its handler |
| Submissions: `internal/service/service.go`, `internal/repository/submission_repository.go` | table `submissions`, `agents.active_submission_id` | `Create`, `CreateFromURL`, `RebuildSubmission`, `SetActive` and a goroutine per build | builder |
| Builds: `internal/service/builder_service.go`, `build_monitor.go` | Kubernetes Jobs, a watch per replica | `BuildAgentImage`, `handleWatchEvent`, `handleBuildSuccess`, `handleBuildFailure`, `processPendingSubmissions` | `SetActive`, `EnqueueAgent` |
| WebSocket hub: `internal/websocket` | map of clients by user, a channel and two goroutines each | register, unregister, broadcast, send | HTTP handler, build monitor |
| Redis queue: `pkg/distributed/redis_queue.go` | a sorted set, the hash `processing`, a list (DLQ) | `Enqueue`, `Dequeue`, `Complete`, `Retry`, `MoveToDLQ`, `RecoverStale`, `ClearDLQ` | nothing: only its tests make one |
| Rate limiters: `pkg/ratelimit`, `internal/api/middleware/ratelimit.go` | a token bucket per key, in the process or in Redis | Allow, refill, clean-up, the Lua script | HTTP middleware |
| Agents, users, JWT, storage, scanner, API, wiring, gRPC bindings | single rows, files | CRUD, parsing, I/O | |

How they interact: a build that succeeds activates its submission and enqueues
its agent; enqueueing publishes an event; a replica that receives one runs a
round under the lock; a round calls `CreateAndExecute` for each pair, one after
the other, each for as long as its match takes; that updates ratings and
statistics and enqueues both players again. `POST /matches` calls
`CreateAndExecute` as well, at any time.

What is hard about it. No operation but `SetActive` uses a transaction, so that
calls interleave between any two SQL statements, and copies read before a match
are used after it. Errors are mostly logged and passed over. A process that is
told to stop waits for no background goroutine (`cmd/server/main.go:118-143`):
for them a shutdown is a crash. The lock has an expiry and nobody extends it. Events
are published once, reach whoever listens, and are dropped by a replica that is
refused the lock three times. The queue moves a task between three Redis keys with
commands that are single steps each.
Kubernetes repeats events when a watch is reopened and restarts failed pods. A
client of the hub is closed from three sides, and closing a channel twice panics.
Replicas put the time of their own clocks into one bucket.

What makes each component correct:

* match execution: every completed match is counted once for each player, ratings
  are the sum of the recorded changes, a result is written to its own row once;
* rounds: players come back to the queue; nobody is matched twice in a
  round, left out without a reason, or passed over for ever; limits hold;
* coordinator: of the replicas that match all but those that have outlived their key are
  one, a key is deleted by its owner only, and no key stays; composed with the rounds: who
  is enqueued is looked at sooner or later, no wake-up is lost while nothing fails, rounds
  end, and an agent plays one match at a time but for late rounds and users;
* submissions and builds: versions are unique and consecutive, what is active has
  an image, a success activates its submission and enqueues the agent, a failure is
  recorded, an enqueued agent can play;
* hub: open channels are those of registered clients, a channel is closed once,
  the hub waits for nobody, a closed client loses its connection and is forgotten;
* queue: an accepted task is waiting, recoverable, in somebody's hands, done or in the
  DLQ; it is handed to a second worker only when the time of the first is up on the clock
  of somebody who recovers; the size is bounded;
* limiters: never more than a full bucket and the rate allow, with races, clean-up,
  expiry and differing clocks; who comes back when told to is let through.

## 2. Modules

### `Elo`
The arithmetic of `elo_service.go`. `float64` becomes exact fractions of `1/Scale`;
the logistic curve is a constant function `Expected` of which only monotonicity and
complementarity are assumed (`EloAssumption`). `Round` is `math.Round`. The MC module
gives the curve in thousandths at multiples of 100 points.

### `MatchExecution`
`CreateAndExecute` and `processMatchResult`, a step per SQL statement. `agents`,
`matches`, `counted` and `queue` are the tables; `call[w]` holds a goroutine's
locals, and `pc` names the statement it runs next. `copy1` and `copy2` are the
rows read before the match, from which the code computes the Elo changes after it.
`IncrementMatchCount` is an `UPDATE` (`UpdateCount`) and, when that met no row, an
`INSERT` (`InsertCount`). `EnqueueAgent` reads a rating (`ReadRating`) and upserts
the queue (`Upsert`). Faults: a statement fails (errors of `UpdateStats` are
dropped, those of counting and enqueueing logged, all others end the call), or the
goroutines of a replica die together. The submissions' checks are one Boolean,
`active`: a submission that `active_submission_id` names always has a `CodeURL`.

### `OneMatcher`, `MatchmakingCoordinator`
`OneMatcher` is what a lock with an expiry can promise of the comment of
`handleEventWithLock` (one instance matches at a time): an instance may match past the time
of its lock, is `late` from then on and keeps nobody out any more, but all others do.
`MatchmakingCoordinator` is the code: lossy messages, a subscription that fails at the start
and ends the loop for good (`SubscribeFails`), `SETNX` with retries, expiry by ticks, the
release script, lost replies, crashes. The refinement mapping takes `matching` to the
instances whose handler is running and `late` to those of them that have run for `TTL`
(`Late`). How long a handler may run is a constant, `HandlerTime`, about which nothing is
assumed: the code bounds it by the executor's deadline for each of its matches, and `TTL`
is 5 seconds.

### `Matchmaking`
`matchEnvironment` over the queue: the list is read once (`StartRound`), then each agent
in turn (`Continue`: the first of the list not matched meanwhile) is searched for, one
query a step (`Search`), which finds somebody (`Meet`) or goes on with the next range or
the next agent (`Widen`); the match is played in the steps `InsertMatch` to `Requeue2`.
`Eligible` is the `WHERE` clause of
`GetWaitingAgents`; `FindOpponent` has none of it, as in the code. `Distributed` is
`useDistributed`: events start the rounds and a trigger cleans up beside them
(`StartRound`, `CleanupExpired`), or a ticker does one after the other
(`RunMatchmaking`). Ratings are
constants here and statistics are reduced to what the query looks at. Handlers play
matches outside the rounds. Rounds of several instances overlap here: that is so for
replicas that find no Redis when they start (`cmd/server/main.go:91-98`), and in the
distributed mode once the lock no longer excludes, which the run
`coordinator_slow_handler` shows to happen. A build enqueues an agent that waits already
too, as the upsert does. `StatementFails` has the errors of the search, those of
`createMatch` before there is a row, and those after the match.

### `DistributedMatchmaking`
The composition: the handler of the coordinator's events is a round of `Matchmaking`. It
EXTENDS the first and INSTANCEs the second; each step is a step of one of them, or one of
each taken together. `ReadList` is the moment at which a handler queries the queue
(`begun` is who has), `EndRound` joins the end of the round with the handler's return,
`InstanceDies` takes the round and the place at the coordinator of one process at once,
and `CallFails` is a command of the lock, or the query, that fails. `EnqueueAgent` writes
the row and then publishes: `Requeue` and `BuildEnqueues` join the row with `Announce`.
The two statements are one step, because a list read between them already has the row,
and a process that dies between them is one whose message reached nobody, which `Announce`
admits. A message may reach any set of replicas at the price of a fault. `Trigger` is the
ticker of any replica: the clean-up and the event. `outages` counts failed calls apart from the faults of matches, and
`unseen` is a history variable: who was enqueued since a list was last read.

### `SubmissionBuild`
The submissions of one agent: uploads (`CheckQuota`, `ReadVersion`, `InsertRow`),
rebuilds (`ReadRetries`, `SaveRetries`, `ResetStatus`), the start-up scan (`Scan`,
`Continue`), the build they share (`StartBuilding`, `CreateJob`, `RecordFailure`),
Kubernetes (`JobRetries`, `JobSucceeds`, `JobFails`, `JobExpires`), the monitor
(`Receive` to `Enqueue`) and the transaction of `SetActive` (`Deactivate`, `Commit`). The
jobs are Kaniko's, which push the image; those of the local environment
(`createDockerBuildJob`) build one that they push nowhere, so that what is said of images
is not said of them.
`UpdateStatus` models the `CHECK` of the table: a status it does not admit leaves the
row as it was. The columns `UpdateBuildInfo` writes are read by nothing here.

### `Hub`
`Hub.Run` and the goroutines around it: `ServeWs`, the reader (`ReadFails`,
`ReaderLeaves`), the writer (`Write`, `WriteFails`, `ChannelEnds`), callers (`Call`,
`Push`). Each case of the hub's `select` is an action: `Register`, `Unregister` (by a
reader or by the goroutine of a broadcast, `DropFull`), `Take`. Handing a message out
takes several steps: `current` is the message, `left` the clients it has not been
offered to, `Offer` the `select` with a `default`; registrations wait meanwhile. A send
on a closed channel or a second close sets `dead`: nothing recovers the panic, so that
the process ends. All of the hub's interface is modelled; the program uses only
`SendBuildStatus`, and passes the agent's id where the hub expects the user's
(`build_monitor.go:358`, `:430`, `security_scanner.go:173`): `Agent` is disjoint from
`User`, and such a message reaches nobody.

### `RedisQueue`
`pkg/distributed/redis_queue.go`, a step per command; only `Dequeue` is a script. Nothing
in the repository calls the queue but its tests, so that its callers are any: goroutines
that add tasks, work on one, are late, call `Complete`, `Retry` or `MoveToDLQ`, and recover
stale tasks. Members of the sorted set are JSON texts that differ by `UpdatedAt`, so that
they are counted (`queue[x]` is how many there are of an item); ids are UUIDs and are added
once; a retry costs 10 points of priority; equal scores are ordered by id. The hash holds
two fields per task, `held` and `stamp`, which `Complete` deletes by two commands (`Delete`,
`Unstamp`); the two go in a pipeline, which is no transaction: `CommandFails` lets one of
them fail alone. Every goroutine has a clock, `Ahead` of the slowest one's, and a timeout of
its own: `stamp` says how many seconds (`Tick`) ago the timestamp was written, by the clock
of the worker, and `Stale` compares it on the clock of who recovers (`TimeIsUp`). `settled`,
`dropped` and `outrun` are history: what was done, what `Retry` lost between its two halves,
and which tasks were retried by somebody whose entry was gone; `spent` in a call is how long
its task has been worked on.

### `RateLimit`
Both limiters; `mode` is the choice `main` makes at start-up. In the process: the two
looks of `getBucket` (`Lookup`, `Insert`), `AllowN` (`Take`, `Refill`) and `CleanUp`, with
buckets numbered so that a request may hold one that is no longer in the table. In
Redis: the script, atomic as Redis runs it, on keys that expire, by replicas whose
clocks are ahead by up to `Skew` (`RunScript`). Both count whole seconds, of `Second`
ticks; tokens of the script are parts of `1/Window`. `Observe` is no step of the
program: it starts the interval in which `granted` counts, so that a bound on `granted`
speaks of every interval. `KeysWithinRate` and `ReplicasWithinRate` are the bounds the
buckets themselves give; `StatedRate` is what the comments and docs say of them, and is
less. `told` is what `Retry-After` promised. A request that Redis
fails to answer is let through without any change of state, and left out.

The `MC...` modules give the constants values and state the symmetry. Definitions
whose comment begins with "Mutant:" are plausible bugs; each is tied to a property
that must fail with it, so that no property holds vacuously.

## 3. Runs

| Run (cfg) | Instance | Shows |
|---|---|---|
| `match_execution` | 2 calls, 3 agents of 2 environments, 2 matches, 1 fault | results are neither lost nor applied twice (`CountersMatchHistory`); the rating is the ledger of its changes (`RatingIsLedger`); counts never run ahead; one owner per row; winners gain; queued ratings were real |
| `distributed_matchmaking` | 2 replicas, 2 agents, TTL 2, rounds of any length up to TTL, so that they become late and overlap, channels of 1, 2 attempts, 1 fault | no event is lost for good (`NoLostWakeup`); an agent has one match open at a time, and one more for each late round and fault (`OneMatchAtATime`); who is enqueued is seen (`EnqueuedIsSeen`); rounds end (`RoundEnds`); the refinement `OneMatcherSpec` of the composed system |
| `coordinator_slow_handler` (violation) | 2 replicas, handler longer than TTL | `AtMostOneMatcher` fails |
| `single_matcher` | 1 instance in the distributed mode, 3 agents, expiry, no fault | `SearcherWithinLimits`, `PlayersReturn`, `NobodyStarves` |
| `matchmaking` | 2 instances in the single-instance mode, 1 user, 3 agents, one not ready, expiry, 2 faults, 2 matches at once | `LockedOutOnlyByMatch`, `MatchedOncePerRound` |
| `redis_queue` | 2 tasks, 2 goroutines, one with a clock a second ahead and another timeout, room for 1, 2 retries, 2 faults | `NothingLost`, `OneWorkerInTime`, `SizeBounded` |
| `submission_build` | 2 workers, 1 monitor, 1 rebuild, quota 1, 1 fault; 1 submission that goes all its way, or 3 that are uploaded | `VersionsConsecutive`, `QuotaOverrunBounded`, `ActiveIsFlagged`, `ActiveHasImage`, `QueuedIsReady`, `SuccessIsRecorded` |
| `build_failure` (violation) | 1 worker, 1 monitor, no fault | `FailureIsRecorded` fails |
| `hub` | 2 users, one with 2 connections, 1 caller, 2 messages, channels of 1 | `OpenIffRegistered`, `PanicsOnlyAfterReplacement`, `HubAnswers`, `GoneIsForgotten`, `ClosedIsDisconnected` |
| `hub_reconnect` (violation) | the same | `HubSurvives` fails |
| `rate_limit` | 1 key, 2 requests, seconds of 2 ticks, 18 ticks, 2 buckets | `KeysWithinRate`, `ReplicasWithinRate`, `RetryAfterHonoured` |
| `rate_limit_stated` (violation) | 1 key, 1 request at a time, equal clocks, 2 requests per window of 2 seconds | `StatedRate` fails |

Why the bounds are enough. The hazards are races of two: two calls, two replicas or
two requests meet in every order, and the third agent, replica or submission is the
bystander that shows a wrong target. One fault is one crash or failed statement at
any place; most properties are stated so that they tell what a fault may and may
not spoil. Ranges, cooldown, daily limit, retries and quota are the smallest values
at which both sides of each comparison occur. Channels of the hub have room for one,
so that each is full, and a third connection belongs to another user. In `rate_limit`
a bucket in Redis lives for 16 ticks and the run for 18, so that it expires; keys do
not interact, and one is enough. In `redis_queue` each task can be retried, recovered and
buried, a goroutine can be late for a task the other holds, and two faults let a call fail
and its repetition die; ages are told apart up to `Horizon`, beyond which an entry is stale
for everybody (`QueueAssumption`). In `distributed_matchmaking` a round may run for as long as
its key lives and the clock then waits for it: it is late, the key is gone, and the other
replica starts a round beside it, which ends first or second. Several late rounds at once
are left to the theorem `OneMatch`. `UploadsOnly` (a `CONSTRAINT`
of `submission_build`) keeps what several submissions share, versions, quota and flags,
apart from what one goes through alone; no action of a submission reads the row of another
but those of uploads and `SetActive`. `SuccessIsRecorded` is thus checked of the behaviours
of one submission. `TwoAtOnce` (a `CONSTRAINT` of `matchmaking`) lets two
of the two replicas and the user be at work at once. `MatchId`, `Submission`, `InboxSize`,
`Aging`, `MaxFaults`, `MaxSends`, `MaxTime` and `MaxBuckets` bound the runs and nothing else.
A cfg turns the deadlock check off where the model stops when ids, connections or
time are used up. Symmetry is used only in runs without liveness properties.

### Fairness
* Coordinator: receiving goroutines go on, handlers return (the executor client has a
  deadline), time passes. No fairness for publishing, errors or crashes.
* DistributedMatchmaking: the same, and the ticker publishes (`Trigger`), as
  `startPeriodicTrigger` does for as long as a replica lives, and matches go on. No
  fairness for builds, users, the clock of the queue or failures: `EnqueuedIsSeen` holds
  although events may be lost. It gives up only when no replica listens: a subscription
  that failed at the start is never repeated.
* Matchmaking: the ticker starts rounds, calls go on, time passes and days end. No
  fairness for users, builds, expiry or faults.
* SubmissionBuild: goroutines go on. `Receive` is strongly fair: a watch lists all
  jobs when it opens and delivers their events in order, so an event is not passed
  over for ever although the monitor keeps being busy with others. Jobs need not
  progress: the properties speak of jobs that have succeeded.
* RedisQueue: none; its properties are about safety.
* Hub: the hub's goroutine and the pumps go on, a caller puts its message once there is
  room, and a read on a closed connection returns. `Run` is weakly fair as a whole:
  which ready case `select` takes is left open, as connections and messages of a run are
  finitely many. (In the program a stream of messages could delay a registration, but
  Go's `select` chooses among ready cases at random.) Peers need not answer nor close.

### Findings
1. *The lock is shorter than its handler.* It lives 5 seconds, the handler plays whole
   matches. Two replicas match at once; the comment says they cannot.
2. *`build_failed` is not a status of the table.* The `CHECK` refuses it, so a failed
   build stays `building`. This hides a second mistake: a job of which one pod failed
   is taken for a failed build although Kubernetes restarts it. With `build_failed`
   admitted (a mutant), that job's later success would be ignored; as the code is, the
   success is recorded, which is what `SuccessIsRecorded` checks.
3. *A second connection of a user can end the process.* `registerClient` closes the
   channel of the client it replaces. That client's reader then unregisters it;
   `unregisterClient` looks for the user's client only, finds the new one, removes that
   and closes the old channel a second time. `PanicsOnlyAfterReplacement` says there is
   no other way.
4. *The limiter of Redis lets twice its limit through in a window.* The bucket starts full
   and is refilled meanwhile; the comment of `Allow` calls the limit the most requests within
   the window, and the presets say "5 a minute" of it.
5. *The limiter of a process lets far more through.* The presets named "5 requests per minute"
   refill a token a second: 65 in the first minute, as a comment beside the number itself says.
   The same run shows both; its printed trace is the shorter one, of Redis.

Behaviour worth knowing, for which no run is kept:

* an RPC error leaves a match pending, and its players out of all lists, for good
  (`LockedOutOnlyByMatch` counts them);
* cooldown, daily limit and matches in progress are checked for the agent a round searches
  for, never for the opponent it finds: `FindOpponent` (`matchmaking_repository.go:42`)
  joins neither statistics nor matches, so that an opponent may have just played, or play
  in a match a user started, although `README.md:140-141` promises limits per agent;
* `Retry` of the Redis queue loses a task that meets a full queue, an error or the end of
  its process between its two halves; a late worker, or the second of two recoveries,
  retries a task that somebody else holds, and it is handed out twice; an entry of which
  only one field is left is passed over by `RecoverStale` for ever and halves the count
  of `ProcessingCount`;
* the retry count of a submission is read, checked and written by three steps: rebuilds
  asked for together start more builds than `MaxRetryCount`;
* concurrent uploads pass the daily quota together (`service.go:62-91`): it is overrun by one
  submission at most for each other request running (`QuotaOverrunBounded`);
* once `handleBuildSuccess` has set the status to active, later events of the job are passed
  over (`build_monitor.go:237`), so that an error or a crash between that `UPDATE` and
  `EnqueueAgent` (`:347-371`) leaves a submission active by name, that its agent does not use,
  or an agent that is not in the queue: `README.md:132` ("Build Success", "Agent joins
  matchmaking queue") holds unless a fault comes just then (`SuccessIsRecorded`);
* a replica whose subscription fails at its start (`matchmaking_coordinator.go:57-60`) logs the
  error and takes no part in matchmaking any more, though it goes on publishing;
* a machine whose clock is fast recovers tasks that are in time on the clock of their worker,
  and hands them out twice (`OneWorkerInTime` says by how much);
* a rebuild within an hour of the last build cannot create its job, whose name is taken;
* two overlapping `SetActive` leave two rows flagged, though `active_submission_id`
  names a flagged one;
* the clean-up never removes a bucket that was used: every request leaves its bucket
  less than full, and only requests refill it;
* `RetryAfterHonoured` needs clocks that are close and a limit above one: the script
  reckons with the moment a window after its last stamp, not with the next token, and
  rounds down (`ClocksClose`, section 4).

## 4. Proofs

Checked by TLAPS, for all values of the constants that satisfy the `ASSUME`s.

* `MatchExecution_proofs`: the inductive invariant `Inv` is `TypeOK`, `CallShape` (which
  locals are set at which statement) and `RowsOwned` (a held row is pending, names the
  call's players and is held once). `TypeOK` alone is not inductive: that `SaveResult`
  writes a row with well-typed changes needs the players its call remembers. From `Inv`
  follow `TypeCorrect`, `OneOwner`, `HistoryStays` (an action property: only
  `CreateMatch` and `SaveResult` write rows, and neither touches a completed one) and
  `WinnersGain`, which combines the invariant with lemmas about the rating arithmetic: K
  factors lie between 24 and 40; `Round` is monotonic, keeps whole numbers and the sign of
  a change; hence a winner gains 0 to K points. `CountersMatch` adds
  `History`: an agent has finitely many completed matches; a call that applies a result has
  it in its locals as it is in the row (`Settled`); and the counters of an agent tally with
  its completed matches that no call still owes it (`Tally`). A statement moves one match
  into or out of a set whose cardinality is a counter. `CountsNeverAhead` counts in the same
  way, with the calls that have not yet told the limiter (`Uncounted`). Neither
  assumes that there are finitely many matches or workers. `RatingsAreLedger` keeps for
  each agent the set of matches its rating is made of (`Entry`), which a step that applies
  a result extends by one match that was not in it; a failure may leave one out for ever,
  so that the set is that of all applied matches only without faults. The changes that are
  applied are bounded by K, hence the floor of `GREATEST` is never reached while
  `NoFloor` holds, and `NoFloor` held before if it holds now (`FloorStays`).
  `QueueRatingsWereReal` adds that what a call has read of a rating is made of completed
  matches (`Seen`), which stay completed until it writes the queue.
* `FiniteSums`: what those two and the size of the Redis queue need of a sum over a finite
  set. The sum of the community modules is a recursive function, and induction cannot be
  cited from the library, so that each fact is proved by looking at a smallest set without
  it: `SmallestSet` takes one from the well-foundedness of the strict subset ordering.
  `SumRemove` is the core: the element that the fold happens to choose makes no difference.
* `Matchmaking_proofs`: `RoundsInv` joins the two properties to `TwoPlayers`: a match has
  two different players. Without it the end of a match could give one agent back twice, and
  the count of its open matches would drop below those in execution. The step that begins
  or ends a match moves one caller into or out of `InProgress`, whose cardinality changes by
  one with it (`Enters`, `Exits`); a fault leaves the count where it was and pays for it
  (`GivenUp`). `LockedOut` and `MatchedOnce` follow, for any number of instances, users and
  faults, and in both modes. `RowsAreTyped` is about the queue as a list without
  repetition: lists lose rows when agents are matched or expire (`Without`, written as a
  recursive function that the provers can unfold) and are read into rounds
  (`WaitingAgents`).
* `DistributedMatchmaking_proofs` begins with the coordinator: `TypeOK` and
  `KeyCoversHandler` are inductive together: of a running handler that is not late, the
  instance has the key, and the time it has run and what is left of the key add up to `TTL`.
  Nothing is assumed of how long handlers take. `MutualExclusion` (one at a time among those
  not late) and the refinement `ImplementsOneMatcher` follow, and `KeysGoProperly`. In the composition
  the steps of the system are shown to be steps of the two
  modules, so that their invariants carry over (`RP == INSTANCE Matchmaking_proofs`, whose
  definitions are matched one by one with those of `Rounds`). `Linked` relates the two: an
  instance in a round is handling an event, and the others run no match. At most one round
  runs that is not late (`OneLocked`); each late round and each user has at most one match of
  an agent in execution, and what it has open beyond those is the count of faults:
  `OneMatch`. `WakeupKept` rests on `Wake`, facts that hold as long as
  nothing failed: everybody listens (a subscription that fails counts as a failed call); the
  holder of the key is at work; one that has read its list has the
  events since then in its buffer; an agent not yet seen is known to somebody. The last
  alone is not inductive: an event that is refused the lock needs the first two.
  `KeyHeldInSystem`, `KeysGoProperlyInSystem` and `SystemImplementsOneMatcher` are the
  results of the coordinator for the composed system, and `RoundsInSystem` is those of
  `Matchmaking`: its three invariants hold with the lock, the events and the failing calls
  of Redis around the rounds, although a process may die there that runs no round and
  both modules' faults count against one bound.
* `RedisQueue_proofs`: `TypeOK` is inductive with `Known` (only accepted tasks are waiting,
  handed out or worked on), and `NothingLost` with `Done`: whoever removes an entry without
  bringing the task back has seen it settled. From them follow `QueueTypeCorrect` and
  `TasksAreKept`. For `OneWorker` the invariant says that a task is in one place
  (`Places`) until somebody retries it whose entry was gone or replaced: in the queue, with
  one call that brings it or works on it in time, or in an entry left behind. This needs
  what calls remember (`Older`: what was read is no newer than the task, for retries count
  up; `Overdue`: an entry that somebody is going to retry as stale is that of nobody in
  time; `Shapes`: only retries bring a task back), and that a timestamp is no
  older than the work of the worker that wrote it (`Spent`), so that the time of a worker
  whose entry is stale on somebody's clock is up on that clock too. It holds for any clocks and timeouts, equal or not. `OneWorkerInTime` alone is not
  inductive: a call about to put a task back could meet one still working on it.
  `QueueStaysBounded` counts the goroutines between `ZCARD` and `ZADD`: one that joins
  them has seen room, and one that adds its member leaves them.
* `RateLimit_proofs`: `TypeCorrect`, and the rates of both limiters. In a process each
  bucket carries what it let through since `mark`, and that and what is left are within its
  share (`Paid`); a key has had no more buckets than were removed, and one (`Owns`); the
  requests let through are counted as pairs of a bucket and a number (`Slots`).
  `KeysKeepRate` follows without knowing who raced for the bucket. In Redis what was let
  through and what is left are a full bucket and what grew (`Metered`), which survives the
  expiry because a bucket in debt is no further in debt than the clocks differ (`InDebt`)
  and lives for two windows. Hence `ReplicasKeepRate` assumes `ClocksAgree`: no clock is
  ahead by more than a window, or a bucket would expire before it is full again. The
  products and quotients of variables, which the provers do not handle together, are
  confined to lemmas on whole seconds (`QuotientSum`, `QuotientGap`).
  `ComeBackLetThrough` proves the action property `RetryAfterHonoured`. In a process no two
  keys use one bucket, and each bucket of a refused key, be it in the table or held by a
  late request, has a token or was last refilled a second before the time told
  (`ReadyInv`). In Redis the tokens of the bucket and what grows from its stamp to the
  second told are a token (`PromiseInv`). This assumes `ClocksClose`: `Retry-After` is
  reckoned from the last stamp and rounded down, which with the clocks' difference takes
  `Rounding` seconds from it; a bucket can be in debt by `Debt` seconds; the rest of the
  window must be enough for one token. For the middleware's least limit, 5 a minute, clocks
  may be 23 seconds ahead; with a limit of 1 it would fail on equal clocks. It implies
  `ClocksAgree`.
* `SubmissionBuild_proofs`: `Inv` adds to the properties what calls know: the submission
  of a call exists, a call about to record a success is about a pushed image, an upload
  holds a version that is the next one or taken by now (`VersionKnown`), a monitor
  about to enqueue has activated. `OneCall` reduces a step to the locals and tables it
  writes. From it follow `TypeCorrect`, `ActiveHasImageAlways`,
  `VersionsConsecutiveAlways` (with finite cardinalities: the greatest version is the
  number of rows), `ActiveIsFlaggedAlways` and `QueuedIsReadyAlways`.
  `QuotaOverrunBoundedAlways` adds that only requests upload (`UploadsByWorkers`): the
  rows of today and the uploads that passed the quota are counted together, and an upload
  that inserts its row moves from one to the other. It presumes that there
  is a quota or a worker.
* `Hub_proofs`: `Inv` adds to the types that a client is registered under its own user
  (`MapSound`), that one not yet registered has an open channel and nobody waits to
  drop it (`FreshClients`), and that the clients a message is still to be offered
  to are registered while it is handed out (`LeftRegistered`): without that, `Offer`
  could meet a closed channel. From it follow `TypeCorrect`, `OpenIffRegisteredAlways`
  and `PanicsOnlyAfterReplacementAlways`.

Only model-checked: all liveness (`EnqueuedIsSeen`, `RoundEnds`, `PlayersReturn`,
`NobodyStarves`, `SuccessIsRecorded`, `HubAnswers`, `GoneIsForgotten`,
`ClosedIsDisconnected`), for the prover does not handle fairness and
`ENABLED`. `SearcherWithinLimits` is model-checked only as well: it is true of one replica without
users and faults, and false otherwise, as the behaviours above say, so that a theorem would
be about no deployment that matters. Every other invariant and action property of the
passing runs is proved, some
under an assumption on the constants that the theorem names: `ClocksAgree`, `ClocksClose`, an
instance and room in its channel (`WakeupKept`), a quota or a worker
(`QuotaOverrunBoundedAlways`).

## 5. Not modelled

Users, tokens, handlers, leaderboard, storage, scanner, configuration and the generated
bindings: single statements, formatting or I/O, no protocol to get wrong. Deletion of
agents (`DELETE /agents/:id`): the foreign keys of `matches` refuse it once an agent has
played, but one that waits for its first match can be deleted, and the models never do it.
`FindByID` then answers nil without an error, and a round that has the agent in its list,
or found it as an opponent, reads `agent1.ID` of it (`matchmaking_service.go:333-346`), as
`EnqueueAgent` reads `agent.ELO` (`:379-387`): a nil dereference in a goroutine that nothing
recovers. Deletion of users and submissions, `MarkAsMatched`,
`RemoveFromQueue`, `CanMatch`, `Extend`, `IsHeld`, `checkAllBuilds`, the limiter's
`Reset`: never called. Of the Redis queue, what only reads (sizes, statistics, `PeekDLQ`).

## 6. Plan

Done: `Elo`, `MatchExecution`, `MatchmakingCoordinator` with `OneMatcher`, `Matchmaking`,
their composition `DistributedMatchmaking`, `SubmissionBuild`, `Hub`, `RedisQueue`,
`RateLimit`, each with runs, and the proofs above.

Next, in this order:

1. Deletion of agents that have not played, beside rounds, builds and requests.
2. An abstract limiter that both of `RateLimit` implement.
3. An abstract ledger of matches (a set of completed ones, each counted for two
   players) that `MatchExecution` implements when nothing fails.
4. An abstract queue of tasks that `RedisQueue` implements when no call is late.
