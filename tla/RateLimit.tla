------------------------------ MODULE RateLimit -------------------------------
(***************************************************************************)
(* The rate limiters.  With Redis, a bucket per key is kept there and used *)
(* by one script of all replicas (pkg/ratelimit/redis_ratelimit.go);       *)
(* without, or when it did not answer at start-up, a process keeps its own *)
(* (ratelimit.go).  The middleware (internal/api/middleware/ratelimit.go)  *)
(* asks for one token per request and tells a refused client when to come  *)
(* back.                                                                   *)
(*                                                                         *)
(* Time passes in ticks, Second of them a second: both limiters count in   *)
(* whole seconds.  The script's tokens are kept in parts of 1/Window, so   *)
(* that its Lua division is exact.  What the middleware does when Redis    *)
(* fails, to let the request through uncounted, is left out: the bounds    *)
(* are about the requests that a limiter decides.                          *)
(***************************************************************************)
EXTENDS Integers, FiniteSetsExt

CONSTANTS Key, Request,
          Second,                     \* ticks
          Capacity, RefillRate,       \* of the process's buckets; per second
          CleanupInterval,            \* ticks, 10 minutes in the code
          Limit, Window,              \* of the buckets in Redis; seconds
          Skew,                       \* how far clocks may be ahead, in ticks
          MaxTime, MaxBuckets,        \* bounds
          None

ASSUME RateLimitAssumption ==
  /\ {Second, Capacity, RefillRate, Limit, Window, CleanupInterval} \subseteq Nat \ {0}
  /\ Skew \subseteq Nat /\ \E most \in Skew : \A skew \in Skew : skew <= most
  /\ MaxTime \in Nat /\ MaxBuckets \in Nat
  /\ None \notin Nat /\ None \notin [tokens : Int, stamp : Nat, expires : Nat]

VARIABLES mode,     \* which limiter main has chosen
          now,
          bucket,   \* the buckets of the process, by number; the first made exist
          made,
          table,    \* key -> its bucket
          call,     \* a request: where it stands, its key and its bucket
          store,    \* key -> tokens, timestamp and expiry in Redis
          granted,  \* requests of a key let through since mark
          mark,
          removed,  \* how many buckets the clean-up has removed
          told      \* when the key's last request, if refused, may come back

vars == <<mode, now, bucket, made, table, call, store, granted, mark, removed, told>>

Idle == [pc |-> "idle", key |-> None, held |-> 0]

\* A request that takes has found a bucket; a bucket in Redis has been used, so
\* that it was never full since, and has not expired.
TypeOK ==
  /\ mode \in {"memory", "redis"}
  /\ now \in 0..MaxTime /\ mark \in 0..now
  /\ made \in 0..MaxBuckets
  /\ bucket \in [1..MaxBuckets -> [tokens : 0..Capacity, last : 0..now]]
  /\ table \in [Key -> 0..made]
  /\ call \in [Request -> {Idle} \cup [pc : {"insert", "take"}, key : Key, held : 0..made]]
  /\ \A r \in Request : call[r].pc = "take" => call[r].held # 0
  /\ store \in [Key -> {None} \cup [tokens : Int, stamp : Nat, expires : Nat]]
  /\ \A k \in Key : store[k] # None => /\ store[k].tokens < Limit * Window
                                        /\ store[k].expires > now
  /\ granted \in [Key -> Nat] /\ removed \in Nat
  /\ told \in [Key -> Nat \cup {None}]

Init ==
  /\ mode \in {"memory", "redis"} /\ now = 0
  /\ bucket = [b \in 1..MaxBuckets |-> [tokens |-> Capacity, last |-> 0]] /\ made = 0
  /\ table = [k \in Key |-> 0]
  /\ call = [r \in Request |-> Idle]
  /\ store = [k \in Key |-> None]
  /\ granted = [k \in Key |-> 0] /\ mark = 0 /\ removed = 0
  /\ told = [k \in Key |-> None]

\* The middleware lets the request through, or says after how many seconds to
\* come back.
Answer(k, ok, seconds) ==
  /\ granted' = IF ok THEN [granted EXCEPT ![k] = @ + 1] ELSE granted
  /\ told' = [told EXCEPT ![k] = IF ok THEN None ELSE now + seconds * Second]

------------------------------------------------------------------------------
(* The limiter of a process. *)

\* getBucket: a bucket that exists is found under the read lock.
Lookup(r, k) ==
  /\ mode = "memory" /\ call[r].pc = "idle"
  /\ call' = [call EXCEPT ![r] = IF table[k] # 0
                THEN [pc |-> "take", key |-> k, held |-> table[k]]
                ELSE [pc |-> "insert", key |-> k, held |-> 0]]
  /\ UNCHANGED <<mode, now, bucket, made, table, store, granted, mark, removed, told>>

NewBucket(r) ==
  /\ made < MaxBuckets
  /\ made' = made + 1
  /\ bucket' = [bucket EXCEPT ![made + 1] = [tokens |-> Capacity, last |-> now]]
  /\ table' = [table EXCEPT ![call[r].key] = made + 1]
  /\ call' = [call EXCEPT ![r].pc = "take", ![r].held = made + 1]

\* Mutant: no second look under the write lock.
InsertUnchecked(r) ==
  /\ call[r].pc = "insert"
  /\ NewBucket(r)
  /\ UNCHANGED <<mode, now, store, granted, mark, removed, told>>

\* Under the write lock the key is looked up once more.
Insert(r) ==
  /\ call[r].pc = "insert"
  /\ \/ /\ table[call[r].key] = 0
        /\ NewBucket(r)
     \/ /\ table[call[r].key] # 0
        /\ call' = [call EXCEPT ![r].pc = "take", ![r].held = table[call[r].key]]
        /\ UNCHANGED <<bucket, made, table>>
  /\ UNCHANGED <<mode, now, store, granted, mark, removed, told>>

\* Mutant: a second counts only when it is over.
RefillLate(b) ==
  LET add == (Max({0, now - b.last - 1}) \div Second) * RefillRate
  IN IF add > 0 THEN [tokens |-> Min({Capacity, b.tokens + add}), last |-> now] ELSE b

\* Mutant: more tokens than there is room for.
RefillUncapped(b) ==
  LET add == ((now - b.last) \div Second) * RefillRate
  IN IF add > 0 THEN [tokens |-> b.tokens + add, last |-> now] ELSE b

\* Whole seconds count; a shorter time is kept for later, the rest of a longer
\* one is lost.
Refill(b) ==
  LET add == ((now - b.last) \div Second) * RefillRate
  IN IF add > 0 THEN [tokens |-> Min({Capacity, b.tokens + add}), last |-> now] ELSE b

\* AllowN(1) on the bucket the request has found, be it in the table or not.
Take(r) ==
  LET full == Refill(bucket[call[r].held])
      ok   == full.tokens >= 1
  IN /\ call[r].pc = "take"
     /\ bucket' = [bucket EXCEPT ![call[r].held] =
                     IF ok THEN [full EXCEPT !.tokens = @ - 1] ELSE full]
     /\ Answer(call[r].key, ok, 1)
     /\ call' = [call EXCEPT ![r] = Idle]
     /\ UNCHANGED <<mode, now, made, table, store, mark, removed>>

\* Full by its last refill, which no request has asked for since.
Unused(b) == bucket[b].tokens = Capacity /\ now - bucket[b].last > CleanupInterval

CleanUp ==
  LET gone == {k \in Key : table[k] # 0 /\ Unused(table[k])}
  IN /\ mode = "memory" /\ gone # {}
     /\ table' = [k \in Key |-> IF k \in gone THEN 0 ELSE table[k]]
     /\ removed' = removed + 1
     /\ UNCHANGED <<mode, now, bucket, made, call, store, granted, mark, told>>

------------------------------------------------------------------------------
(* The limiter in Redis. *)

\* Mutant: the tokens are gone before the bucket would be full again.
LifetimeHalved == Window \div 2
Lifetime == 2 * Window

\* The script, as run by a replica whose clock is ahead by the ticks of skew.
RunScript(k, skew) ==
  LET clock  == now + skew
      stamp  == clock \div Second
      old    == IF store[k] = None THEN [tokens |-> Limit * Window, stamp |-> stamp]
                ELSE store[k]
      full   == Min({Limit * Window, old.tokens + (stamp - old.stamp) * Limit})
      ok     == full >= Window
      reset  == (old.stamp + Window) * Second - clock
  IN /\ mode = "redis"
     /\ store' = [store EXCEPT ![k] = [tokens  |-> IF ok THEN full - Window ELSE full,
                                       stamp   |-> stamp,
                                       expires |-> now + Lifetime * Second]]
     /\ Answer(k, ok, Max({1, reset \div Second}))
     /\ UNCHANGED <<mode, now, bucket, made, table, call, mark, removed>>

------------------------------------------------------------------------------
\* Time passes, and keys of Redis expire.
Tick ==
  /\ now < MaxTime
  /\ now' = now + 1
  /\ store' = [k \in Key |-> IF store[k] # None /\ store[k].expires <= now + 1
                             THEN None ELSE store[k]]
  /\ UNCHANGED <<mode, bucket, made, table, call, granted, mark, removed, told>>

\* Not a step of the program: from now on requests are counted anew, so that
\* granted and mark stand for any interval.
Observe ==
  /\ mark' = now /\ granted' = [k \in Key |-> 0]
  /\ UNCHANGED <<mode, now, bucket, made, table, call, store, removed, told>>

Next ==
  \/ \E r \in Request : Insert(r) \/ Take(r) \/ \E k \in Key : Lookup(r, k)
  \/ \E k \in Key, skew \in Skew : RunScript(k, skew)
  \/ CleanUp
  \/ Tick
  \/ Observe

Spec == Init /\ [][Next]_vars

------------------------------------------------------------------------------
\* In any interval a key's requests get no more than a full bucket and what
\* the begun seconds add (TokenBucket.AllowN), although they race for the
\* bucket; each removal by the clean-up can add one more bucket, when a request
\* has waited that long for its own.  This is the bucket's own bound, and more
\* than the presets promise: see StatedRate.
KeysWithinRate ==
  mode = "memory" => \A k \in Key :
    granted[k] <= (removed + 1) *
      (Capacity + RefillRate * ((now - mark + Second - 1) \div Second))

\* In any interval all replicas together let no more requests of a key through
\* than a full bucket and what the interval adds (the script), whatever clock
\* they have and although the bucket expires.  Up to twice Limit in a Window:
\* see StatedRate.
ReplicasWithinRate ==
  mode = "redis" => \A k \in Key :
    granted[k] * Window <= Limit * Window + Limit *
      ((now - mark + Max(Skew) + Second - 1) \div Second)

\* A client that comes back when it was told to is let through, if nobody has
\* used its key meanwhile (Retry-After).
RetryAfterHonoured ==
  [][\A k \in Key : told[k] # None /\ now >= told[k] => told'[k] \in {None, told[k]}]_vars

\* What the limiters' comments say of a window: "5 requests per minute per
\* user" (SubmissionRateLimit, with Capacity 5) and "limit: 윈도우 내 최대 요청
\* 수", the most requests within the window (RedisRateLimiter.Allow).
StatedRate ==
  \A k \in Key : now - mark <= Window * Second =>
    granted[k] <= IF mode = "memory" THEN Capacity ELSE Limit
=============================================================================
