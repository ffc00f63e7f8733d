--------------------------- MODULE RateLimit_proofs ---------------------------
(***************************************************************************)
(* The rates of both limiters, for any capacities, windows, clocks, and    *)
(* numbers of keys and requests.  ScriptInv and BucketInv bound what was   *)
(* let through; PromiseInv and ReadyInv say that a client which was        *)
(* refused will find a token at the time it was told.                      *)
(***************************************************************************)
EXTENDS RateLimit, FiniteSetTheorems, TLAPS

-----------------------------------------------------------------------------
(* Whole seconds *)

\* The quotient is the integer just below the fraction.
LEMMA Quotient ==
  ASSUME NEW x \in Int, NEW d \in Nat \ {0}
  PROVE  /\ x \div d \in Int
         /\ d * (x \div d) <= x
         /\ x < d * (x \div d) + d
  BY Z3

LEMMA Cancel ==
  ASSUME NEW d \in Nat \ {0}, NEW p \in Int, NEW q \in Int, d * p < d * q + d
  PROVE  p <= q
<1>1. SUFFICES ASSUME p > q PROVE FALSE
  OBVIOUS
<1>2. p - q - 1 \in Nat
  BY <1>1
<1>3. d * (p - q - 1) >= 0
  BY <1>2, Z3
<1>4. d * p = d * q + d + d * (p - q - 1)
  BY Z3
<1> QED
  BY <1>3, <1>4

\* What is d times an integer, or more, has that integer's quotient or more.
LEMMA QuotientAbove ==
  ASSUME NEW x \in Int, NEW d \in Nat \ {0}, NEW p \in Int, d * p <= x
  PROVE  p <= x \div d
<1>1. d * p \in Int /\ d * (x \div d) \in Int /\ x \div d \in Int
  BY Quotient, Z3
<1>2. d * p < d * (x \div d) + d
  BY <1>1, Quotient
<1> QED
  BY <1>1, <1>2, Cancel

\* Later ticks are in no earlier second.
LEMMA QuotientGrows ==
  ASSUME NEW x \in Int, NEW y \in Int, x <= y, NEW d \in Nat \ {0}
  PROVE  x \div d <= y \div d
<1>1. x \div d \in Int /\ d * (x \div d) \in Int /\ d * (x \div d) <= x
  BY Quotient, Z3
<1> QED
  BY <1>1, QuotientAbove

\* The whole seconds of two spans are no more than those of both together.
LEMMA QuotientSum ==
  ASSUME NEW x \in Int, NEW y \in Int, NEW d \in Nat \ {0}
  PROVE  (x \div d) + (y \div d) <= (x + y) \div d
<1> DEFINE p == x \div d
           q == y \div d
<1>1. p \in Int /\ q \in Int /\ d * p <= x /\ d * q <= y
  BY Quotient
<1> HIDE DEF p, q
<1>2. d * (p + q) = d * p + d * q /\ d * p \in Int /\ d * q \in Int
  BY <1>1, Z3
<1>3. p + q <= (x + y) \div d
  BY <1>1, <1>2, QuotientAbove
<1> QED
  BY <1>3 DEF p, q

\* The seconds between two ticks are no more than the begun ones.
LEMMA QuotientGap ==
  ASSUME NEW x \in Int, NEW y \in Int, NEW d \in Nat \ {0}
  PROVE  (x \div d) - (y \div d) <= (x - y + d - 1) \div d
<1> DEFINE p == x \div d
           q == y \div d
<1>1. p \in Int /\ q \in Int /\ d * p <= x /\ y < d * q + d
  BY Quotient
<1> HIDE DEF p, q
<1>2. d * (p - q) = d * p - d * q /\ d * p \in Int /\ d * q \in Int
  BY <1>1, Z3
<1>3. p - q <= (x - y + d - 1) \div d
  BY <1>1, <1>2, QuotientAbove
<1> QED
  BY <1>3 DEF p, q

\* n seconds more are n more whole seconds.
LEMMA QuotientShift ==
  ASSUME NEW x \in Int, NEW n \in Int, NEW d \in Nat \ {0}
  PROVE  (x + n * d) \div d = (x \div d) + n
<1> DEFINE p == x \div d
           q == (x + n * d) \div d
<1>0. n * d \in Int /\ x + n * d \in Int
  BY Z3
<1>1. p \in Int /\ q \in Int /\ d * p <= x /\ x < d * p + d
  BY Quotient
<1>2. d * q <= x + n * d /\ x + n * d < d * q + d /\ q \in Int
  BY <1>0, Quotient
<1> HIDE DEF p, q
<1>3. /\ d * (p + n) = d * p + n * d /\ d * (q - n) = d * q - n * d
      /\ d * p \in Int /\ d * q \in Int
  BY <1>1, <1>2, Z3
<1>4. d * (p + n) < d * q + d /\ d * (q - n) < d * p + d
  BY <1>0, <1>1, <1>2, <1>3
<1>5. p + n <= q /\ q - n <= p
  BY <1>1, <1>2, <1>4, Cancel
<1>6. q = p + n
  BY <1>1, <1>2, <1>5
<1> QED
  BY <1>6 DEF p, q

\* A product of natural numbers grows with its second factor.
LEMMA ProductGrows ==
  ASSUME NEW d \in Nat, NEW x \in Int, NEW y \in Int, x <= y
  PROVE  d * x <= d * y /\ d * x \in Int /\ d * y \in Int
<1>1. y - x \in Nat
  OBVIOUS
<1>2. d * (y - x) >= 0 /\ d * (y - x) = d * y - d * x /\ d * x \in Int /\ d * y \in Int
  BY <1>1, Z3
<1> QED
  BY <1>2

LEMMA MinOfTwo ==
  ASSUME NEW x \in Int, NEW y \in Int
  PROVE  Min({x, y}) = IF x <= y THEN x ELSE y
<1> DEFINE m == IF x <= y THEN x ELSE y
<1>1. m \in {x, y} /\ \A z \in {x, y} : m <= z
  OBVIOUS
<1>2. \A n \in {x, y} : (\A z \in {x, y} : n <= z) => n = m
  OBVIOUS
<1> HIDE DEF m
<1>3. Min({x, y}) = m
  BY <1>1, <1>2 DEF Min
<1> QED
  BY <1>3 DEF m

LEMMA MaxOfTwo ==
  ASSUME NEW x \in Int, NEW y \in Int
  PROVE  Max({x, y}) \in Int /\ Max({x, y}) >= x /\ Max({x, y}) >= y
<1>1. \E m \in {x, y} : \A z \in {x, y} : m >= z
  OBVIOUS
<1> QED
  BY <1>1 DEF Max

LEMMA MostSkew ==
  Max(Skew) \in Skew /\ Max(Skew) \in Nat /\ \A skew \in Skew : skew <= Max(Skew)
<1>1. PICK m \in Skew : \A skew \in Skew : m >= skew
  BY RateLimitAssumption
<1>2. Max(Skew) \in Skew /\ \A skew \in Skew : Max(Skew) >= skew
  BY <1>1 DEF Max
<1> QED
  BY <1>2, RateLimitAssumption

-----------------------------------------------------------------------------
(* Types *)

Buckets == [tokens : 0..Capacity, last : 0..now]
Stored == [tokens : Int, stamp : Nat, expires : Nat]

LEMMA Constants ==
  /\ Second \in Nat \ {0} /\ Capacity \in Nat \ {0} /\ RefillRate \in Nat \ {0}
  /\ Limit \in Nat \ {0} /\ Window \in Nat \ {0} /\ Skew \subseteq Nat
  /\ MaxTime \in Nat /\ MaxBuckets \in Nat
BY RateLimitAssumption

\* A refill adds the tokens of n whole seconds, or as many as there is room for;
\* if there is none, the bucket stays as it is.
LEMMA RefillAdds ==
  ASSUME now \in Nat, NEW b \in Buckets
  PROVE  \E n \in Nat :
           /\ n = (now - b.last) \div Second
           /\ Refill(b) \in Buckets
           /\ Refill(b).tokens <= b.tokens + RefillRate * n
           /\ n > 0 => Refill(b).last = now
           /\ n = 0 => Refill(b) = b /\ now < b.last + Second
<1> DEFINE n == (now - b.last) \div Second
           add == n * RefillRate
<1>1. b.last \in 0..now /\ b.tokens \in 0..Capacity /\ now - b.last \in Nat
  BY DEF Buckets
<1>2. n \in Nat
  <2>1. Second * 0 = 0
    BY Constants, Z3
  <2> QED
    BY <1>1, <2>1, Constants, Quotient, QuotientAbove
<1>3. n = 0 => now < b.last + Second
  <2> DEFINE x == now - b.last
  <2>1. x \in Int /\ n = x \div Second
    BY <1>1
  <2> HIDE DEF x, n
  <2>2. x < Second * n + Second
    BY <2>1, Constants, Quotient
  <2>3. n = 0 => Second * n = 0
    BY Constants, Z3
  <2>4. n = 0 => x < Second
    BY <2>1, <2>2, <2>3, Constants
  <2> QED
    BY <1>1, <2>4, Constants DEF x
<1>4. Refill(b) = IF add > 0 THEN [tokens |-> Min({Capacity, b.tokens + add}), last |-> now] ELSE b
  BY DEF Refill
<1> HIDE DEF n
<1>5. /\ add \in Nat /\ add = RefillRate * n
      /\ n > 0 => add > 0
      /\ n = 0 => add = 0
  BY <1>2, Constants, Z3
<1> HIDE DEF add
<1>6. CASE n = 0
  <2>1. Refill(b) = b /\ RefillRate * n = 0
    BY <1>4, <1>5, <1>6
  <2> QED
    BY <1>1, <1>2, <1>3, <1>6, <2>1 DEF n
<1>7. CASE n # 0
  <2>1. add > 0
    BY <1>2, <1>5, <1>7
  <2>2. Min({Capacity, b.tokens + add}) =
          IF Capacity <= b.tokens + add THEN Capacity ELSE b.tokens + add
    BY <1>1, <1>5, Constants, MinOfTwo
  <2>3. Refill(b) = [tokens |-> Min({Capacity, b.tokens + add}), last |-> now]
    BY <1>4, <2>1
  <2>4. Refill(b).last = now /\ Refill(b).tokens = Min({Capacity, b.tokens + add})
    BY <2>3
  <2>5. Refill(b).tokens \in 0..Capacity /\ Refill(b).tokens <= b.tokens + add
    BY <1>1, <1>5, <2>2, <2>4, Constants
  <2>6. Refill(b) \in Buckets
    BY <2>3, <2>4, <2>5 DEF Buckets
  <2> QED
    BY <1>2, <1>5, <1>7, <2>4, <2>5, <2>6 DEF n
<1> QED
  BY <1>6, <1>7

\* A refused or granted request leaves counts and dates.
LEMMA AnswerTypes ==
  ASSUME NEW k \in Key, NEW ok \in BOOLEAN, NEW seconds \in Nat, Answer(k, ok, seconds),
         now \in Nat, granted \in [Key -> Nat], told \in [Key -> Nat \cup {None}]
  PROVE  granted' \in [Key -> Nat] /\ told' \in [Key -> Nat \cup {None}]
<1>1. now + seconds * Second \in Nat
  <2>1. seconds * Second \in Nat
    BY Constants, Z3
  <2> QED
    BY <2>1
<1>2. told' \in [Key -> Nat \cup {None}]
  BY <1>1 DEF Answer
<1>3. granted' \in [Key -> Nat]
  BY DEF Answer
<1> QED
  BY <1>2, <1>3

\* The locals of requests.
Locals == {Idle} \cup [pc : {"insert", "take"}, key : Key, held : 0..made]

\* TypeOK but for requests, and for the buckets of a process and in Redis.
CallTypes ==
  /\ call \in [Request -> Locals]
  /\ \A r \in Request : call[r].pc = "take" => call[r].held # 0
MemoryTypes ==
  /\ made \in 0..MaxBuckets
  /\ bucket \in [1..MaxBuckets -> Buckets]
  /\ table \in [Key -> 0..made]
  /\ removed \in Nat
StoreTypes ==
  /\ store \in [Key -> {None} \cup Stored]
  /\ \A k \in Key : store[k] # None => /\ store[k].tokens < Limit * Window
                                        /\ store[k].expires > now
CountTypes ==
  /\ mode \in {"memory", "redis"}
  /\ now \in 0..MaxTime /\ mark \in 0..now
  /\ granted \in [Key -> Nat]
  /\ told \in [Key -> Nat \cup {None}]
Types == CallTypes /\ MemoryTypes /\ StoreTypes /\ CountTypes

LEMMA TypeParts == TypeOK <=> Types
BY DEF TypeOK, Types, CallTypes, MemoryTypes, StoreTypes, CountTypes, Locals, Stored, Buckets

LEMMA LookupTypes ==
  ASSUME Types, NEW r \in Request, NEW k \in Key, Lookup(r, k)
  PROVE  Types'
<1>1. MemoryTypes' /\ StoreTypes' /\ CountTypes'
  BY DEF Lookup, Types, MemoryTypes, StoreTypes, CountTypes, Buckets
<1>2. table[k] \in 0..made /\ made \in Nat
  BY DEF Types, MemoryTypes
<1>3. CallTypes'
  BY <1>2 DEF Lookup, Types, CallTypes, Locals
<1> QED
  BY <1>1, <1>3 DEF Types

LEMMA InsertTypes ==
  ASSUME Types, NEW r \in Request, Insert(r)
  PROVE  Types'
<1>1. StoreTypes' /\ CountTypes'
  BY DEF Insert, Types, StoreTypes, CountTypes
<1>2. /\ call[r] \in [pc : {"insert", "take"}, key : Key, held : 0..made]
      /\ call[r].key \in Key
  BY DEF Insert, Types, CallTypes, Locals, Idle
<1>3. made \in 0..MaxBuckets /\ now \in Nat
  BY DEF Types, MemoryTypes, CountTypes
<1>4. CASE NewBucket(r)
  <2>1. made' = made + 1 /\ made' \in 0..MaxBuckets
    BY <1>3, <1>4, Constants DEF NewBucket
  <2>2. [tokens |-> Capacity, last |-> now] \in Buckets /\ now' = now
    BY <1>3, Constants DEF Buckets, Insert
  <2>3. bucket' \in [1..MaxBuckets -> Buckets']
    BY <1>4, <2>2 DEF NewBucket, Types, MemoryTypes, Buckets
  <2>4. table' \in [Key -> 0..made'] /\ removed' = removed
    <3>1. table \in [Key -> 0..made'] /\ made + 1 \in 0..made'
      BY <1>3, <2>1 DEF Types, MemoryTypes
    <3> QED
      BY <1>4, <3>1 DEF NewBucket, Insert
  <2>5. CallTypes'
    <3>3. made + 1 \in 0..made' /\ 0..made \subseteq 0..made' /\ made + 1 # 0
      BY <1>3, <2>1
    <3>a. PICK h \in 0..made' : h = made + 1 /\ h # 0
      BY <3>3
    <3> DEFINE c == [call[r] EXCEPT !.pc = "take", !.held = h]
    <3>1. call' = [call EXCEPT ![r] = c]
      BY <1>4, <3>a DEF NewBucket, Types, CallTypes
    <3>2. c \in [pc : {"insert", "take"}, key : Key, held : 0..made'] /\ c.held # 0
      BY <1>2, <3>a
    <3> HIDE DEF c
    <3>4. c \in Locals' /\ c.held # 0
      BY <3>2 DEF Locals
    <3>5. \A q \in Request : call[q] \in Locals'
      BY <3>3 DEF Types, CallTypes, Locals
    <3> QED
      BY <3>1, <3>4, <3>5 DEF Types, CallTypes
  <2> QED
    BY <1>1, <2>1, <2>3, <2>4, <2>5 DEF Types, MemoryTypes
<1>5. CASE /\ table[call[r].key] # 0
           /\ call' = [call EXCEPT ![r].pc = "take", ![r].held = table[call[r].key]]
           /\ UNCHANGED <<bucket, made, table>>
  <2>1. MemoryTypes'
    BY <1>5 DEF Types, MemoryTypes, Insert, Buckets
  <2>2. table[call[r].key] \in 0..made
    BY <1>2 DEF Types, MemoryTypes
  <2> DEFINE c == [call[r] EXCEPT !.pc = "take", !.held = table[call[r].key]]
  <2>3. call' = [call EXCEPT ![r] = c]
    BY <1>5 DEF Types, CallTypes
  <2>4. c \in [pc : {"insert", "take"}, key : Key, held : 0..made] /\ c.held # 0
    BY <1>2, <1>5, <2>2
  <2> HIDE DEF c
  <2>5. c \in Locals /\ c.held # 0
    BY <2>4 DEF Locals
  <2>6. Locals' = Locals
    BY <1>5 DEF Locals
  <2>7. /\ call' \in [Request -> Locals]
        /\ \A q \in Request : call'[q].pc = "take" => call'[q].held # 0
    BY <2>3, <2>5 DEF Types, CallTypes
  <2>8. CallTypes'
    BY <2>6, <2>7 DEF CallTypes
  <2> QED
    BY <1>1, <2>1, <2>8 DEF Types
<1> QED
  BY <1>4, <1>5 DEF Insert

LEMMA TakeTypes ==
  ASSUME Types, NEW r \in Request, Take(r)
  PROVE  Types'
<1> DEFINE b == call[r].held
           full == Refill(bucket[b])
           ok == full.tokens >= 1
<1>1. /\ call[r].pc = "take"
      /\ bucket' = [bucket EXCEPT ![b] = IF ok THEN [full EXCEPT !.tokens = @ - 1] ELSE full]
      /\ Answer(call[r].key, ok, 1)
      /\ call' = [call EXCEPT ![r] = Idle]
      /\ UNCHANGED <<mode, now, made, table, store, mark, removed>>
  BY DEF Take
<1>2. call[r].key \in Key /\ b \in 1..MaxBuckets
  <2>1. /\ call[r] \in [pc : {"insert", "take"}, key : Key, held : 0..made]
        /\ call[r].held # 0 /\ made \in 0..MaxBuckets
    BY <1>1 DEF Types, CallTypes, MemoryTypes, Locals, Idle
  <2> QED
    BY <2>1, Constants
<1>3. bucket[b] \in Buckets /\ now \in Nat
  BY <1>2, Constants DEF Types, MemoryTypes, CountTypes
<1>4. full \in Buckets
  BY <1>3, RefillAdds
<1> HIDE DEF full
<1>5. ok => [full EXCEPT !.tokens = @ - 1] \in Buckets
  BY <1>4, Constants DEF Buckets
<1>6. bucket' \in [1..MaxBuckets -> Buckets] /\ Buckets' = Buckets
  BY <1>1, <1>4, <1>5 DEF Types, MemoryTypes, Buckets
<1>7. granted' \in [Key -> Nat] /\ told' \in [Key -> Nat \cup {None}]
  <2>1. ok \in BOOLEAN /\ 1 \in Nat
    OBVIOUS
  <2> HIDE DEF ok
  <2> QED
    BY <1>1, <1>2, <1>3, <2>1, AnswerTypes DEF Types, CountTypes
<1>8. CallTypes'
  BY <1>1 DEF Types, CallTypes, Locals, Idle
<1> QED
  BY <1>1, <1>6, <1>7, <1>8 DEF Types, MemoryTypes, StoreTypes, CountTypes

\* What the script finds and leaves, for a clock that is ahead by skew.
LEMMA ScriptStores ==
  ASSUME Types, NEW k \in Key, NEW skew \in Skew, RunScript(k, skew)
  PROVE  \E s \in Nat, old \in Int, stamp \in Nat, full \in Int, wait \in Nat :
           /\ s = (now + skew) \div Second
           /\ IF store[k] = None THEN old = Limit * Window /\ stamp = s
              ELSE old = store[k].tokens /\ stamp = store[k].stamp
           /\ full <= Limit * Window /\ full <= old + (s - stamp) * Limit
           /\ full = Limit * Window \/ full = old + (s - stamp) * Limit
           /\ store' = [store EXCEPT ![k] =
                [tokens |-> IF full >= Window THEN full - Window ELSE full,
                 stamp |-> s, expires |-> now + Lifetime * Second]]
           /\ granted' = IF full >= Window THEN [granted EXCEPT ![k] = @ + 1] ELSE granted
           /\ told' = [told EXCEPT ![k] = IF full >= Window THEN None ELSE now + wait * Second]
           /\ wait >= ((stamp + Window) * Second - (now + skew)) \div Second
           /\ told' \in [Key -> Nat \cup {None}] /\ granted' \in [Key -> Nat]
<1> DEFINE s == (now + skew) \div Second
           was == IF store[k] = None THEN [tokens |-> Limit * Window, stamp |-> s] ELSE store[k]
           sum == was.tokens + (s - was.stamp) * Limit
           full == Min({Limit * Window, sum})
           reset == (was.stamp + Window) * Second - (now + skew)
           wait == Max({1, reset \div Second})
<1>1. /\ store' = [store EXCEPT ![k] =
                [tokens |-> IF full >= Window THEN full - Window ELSE full,
                 stamp |-> s, expires |-> now + Lifetime * Second]]
      /\ Answer(k, full >= Window, wait)
  BY DEF RunScript
<1>2. now + skew \in Nat /\ now \in Nat
  BY Constants DEF Types, CountTypes
<1>3. s \in Nat
  <2>1. Second * 0 <= now + skew
    BY <1>2, Constants, Z3
  <2> QED
    BY <1>2, <2>1, Constants, Quotient, QuotientAbove
<1> HIDE DEF s
<1>4. Limit * Window \in Nat
  BY Constants, Z3
<1>5. was.tokens \in Int /\ was.stamp \in Nat
  BY <1>3, <1>4 DEF Types, StoreTypes, Stored
<1>a. IF store[k] = None THEN was.tokens = Limit * Window /\ was.stamp = s
      ELSE was.tokens = store[k].tokens /\ was.stamp = store[k].stamp
  OBVIOUS
<1> HIDE DEF was
<1>6. sum \in Int
  <2>1. (s - was.stamp) * Limit \in Int
    BY <1>3, <1>5, Constants, Z3
  <2> QED
    BY <1>5, <2>1
<1>b. sum = was.tokens + (s - was.stamp) * Limit
  OBVIOUS
<1> HIDE DEF sum
<1>7. full \in Int /\ full <= Limit * Window /\ full <= sum /\ full \in {Limit * Window, sum}
  <2>1. full = IF Limit * Window <= sum THEN Limit * Window ELSE sum
    BY <1>4, <1>6, MinOfTwo
  <2> QED
    BY <1>4, <1>6, <2>1
<1> HIDE DEF full
<1>8. wait \in Nat /\ wait >= reset \div Second
  <2>1. reset \in Int
    <3>1. (was.stamp + Window) * Second \in Int
      BY <1>5, Constants, Z3
    <3> QED
      BY <1>2, <3>1
  <2> HIDE DEF reset
  <2>2. reset \div Second \in Int
    BY <2>1, Constants, Quotient
  <2>3. wait \in Int /\ wait >= 1 /\ wait >= reset \div Second
    <3>1. PICK q \in Int : q = reset \div Second
      BY <2>2
    <3>2. Max({1, q}) \in Int /\ Max({1, q}) >= 1 /\ Max({1, q}) >= q
      BY MaxOfTwo
    <3> QED
      BY <3>1, <3>2
  <2> QED
    BY <2>3
<1>c. reset = (was.stamp + Window) * Second - (now + skew)
  OBVIOUS
<1> HIDE DEF wait, reset
<1>9. granted' \in [Key -> Nat] /\ told' \in [Key -> Nat \cup {None}]
  <2> DEFINE ok == full >= Window
  <2>1. ok \in BOOLEAN /\ Answer(k, ok, wait)
    BY <1>1
  <2> HIDE DEF ok
  <2> QED
    BY <1>2, <1>8, <2>1, AnswerTypes DEF Types, CountTypes
<1>10. /\ granted' = IF full >= Window THEN [granted EXCEPT ![k] = @ + 1] ELSE granted
       /\ told' = [told EXCEPT ![k] = IF full >= Window THEN None ELSE now + wait * Second]
  BY <1>1 DEF Answer
<1>11. s = (now + skew) \div Second
  BY DEF s
<1> QED
  BY <1>1, <1>3, <1>5, <1>7, <1>8, <1>9, <1>10, <1>11, <1>a, <1>b, <1>c

LEMMA LifetimeTicks ==
  /\ Lifetime * Second = 2 * (Window * Second)
  /\ Window * Second \in Nat \ {0}
  /\ Lifetime * Second \in Nat \ {0}
<1>1. Window * Second \in Nat \ {0}
  BY Constants, Z3
<1>2. (2 * Window) * Second = 2 * (Window * Second)
  BY Constants, Z3
<1> QED
  BY <1>1, <1>2 DEF Lifetime

LEMMA ScriptTypes ==
  ASSUME Types, NEW k \in Key, NEW skew \in Skew, RunScript(k, skew)
  PROVE  Types'
<1>1. PICK s \in Nat, full \in Int :
        /\ full <= Limit * Window
        /\ store' = [store EXCEPT ![k] =
             [tokens |-> IF full >= Window THEN full - Window ELSE full,
              stamp |-> s, expires |-> now + Lifetime * Second]]
        /\ told' \in [Key -> Nat \cup {None}] /\ granted' \in [Key -> Nat]
  BY ScriptStores
<1>2. UNCHANGED <<mode, now, bucket, made, table, call, mark, removed>>
  BY DEF RunScript
<1> DEFINE left == IF full >= Window THEN full - Window ELSE full
           new == [tokens |-> left, stamp |-> s, expires |-> now + Lifetime * Second]
<1>3. left \in Int /\ left < Limit * Window
  <2>1. Limit * Window \in Nat /\ Window <= Limit * Window
    <3>1. Window * 1 <= Window * Limit /\ Window * Limit \in Int
      BY Constants, ProductGrows
    <3>2. Window * 1 = Window /\ Window * Limit = Limit * Window
      BY Constants, Z3
    <3> QED
      BY <3>1, <3>2, Constants
  <2> QED
    BY <1>1, <2>1, Constants
<1>4. now + Lifetime * Second \in Nat /\ now + Lifetime * Second > now
  BY LifetimeTicks, Constants DEF Types, CountTypes
<1>5. new \in Stored /\ new.tokens < Limit * Window /\ new.expires > now
  BY <1>3, <1>4 DEF Stored
<1>6. store' = [store EXCEPT ![k] = new]
  BY <1>1
<1> HIDE DEF new
<1>7. StoreTypes'
  BY <1>2, <1>5, <1>6 DEF Types, StoreTypes, Stored
<1> QED
  BY <1>1, <1>2, <1>7 DEF Types, CallTypes, MemoryTypes, CountTypes, Locals, Buckets

LEMMA OtherTypes ==
  ASSUME Types, CleanUp \/ Tick \/ Observe
  PROVE  Types'
<1>1. CASE CleanUp
  <2>1. UNCHANGED <<mode, now, bucket, made, call, store, granted, mark, told>>
    BY <1>1 DEF CleanUp
  <2>2. table' \in [Key -> 0..made] /\ removed' \in Nat
    BY <1>1 DEF CleanUp, Types, MemoryTypes
  <2> QED
    BY <2>1, <2>2
       DEF Types, CallTypes, MemoryTypes, StoreTypes, CountTypes, Locals, Buckets, Stored
<1>2. CASE Tick
  <2>1. /\ UNCHANGED <<mode, bucket, made, table, call, granted, mark, removed, told>>
        /\ now' = now + 1 /\ now < MaxTime
        /\ store' = [k \in Key |-> IF store[k] # None /\ store[k].expires <= now + 1
                                   THEN None ELSE store[k]]
    BY <1>2 DEF Tick
  <2>2. now \in 0..MaxTime /\ now' \in 0..MaxTime /\ 0..now \subseteq 0..now'
    BY <2>1, Constants DEF Types, CountTypes
  <2>3. Buckets \subseteq Buckets'
    BY <2>2 DEF Buckets
  <2>4. StoreTypes'
    <3>1. store' \in [Key -> {None} \cup Stored]
      BY <2>1 DEF Types, StoreTypes
    <3>2. ASSUME NEW k \in Key, store'[k] # None
          PROVE  store'[k].tokens < Limit * Window /\ store'[k].expires > now'
      <4>1. store'[k] = store[k] /\ store[k] # None /\ ~(store[k].expires <= now + 1)
        BY <2>1, <3>2
      <4>2. store[k].expires \in Nat
        BY <4>1 DEF Types, StoreTypes, Stored
      <4> QED
        BY <2>1, <2>2, <4>1, <4>2 DEF Types, StoreTypes
    <3> QED
      BY <3>1, <3>2 DEF StoreTypes, Stored
  <2>5. MemoryTypes'
    BY <2>1, <2>3 DEF Types, MemoryTypes
  <2> QED
    BY <2>1, <2>2, <2>4, <2>5 DEF Types, CallTypes, CountTypes, Locals
<1>3. CASE Observe
  BY <1>3 DEF Observe, Types, CallTypes, MemoryTypes, StoreTypes, CountTypes, Locals, Buckets, Stored
<1> QED
  BY <1>1, <1>2, <1>3

LEMMA InitTypes == Init => Types
<1> SUFFICES ASSUME Init PROVE Types
  OBVIOUS
<1>1. CountTypes /\ StoreTypes
  BY Constants DEF Init, CountTypes, StoreTypes
<1>2. MemoryTypes
  BY Constants DEF Init, MemoryTypes, Buckets
<1>3. CallTypes
  BY DEF Init, CallTypes, Locals, Idle
<1> QED
  BY <1>1, <1>2, <1>3 DEF Types

LEMMA NextTypes == Types /\ [Next]_vars => Types'
<1> SUFFICES ASSUME Types, [Next]_vars PROVE Types'
  OBVIOUS
<1>1. CASE UNCHANGED vars
  BY <1>1
     DEF vars, Types, CallTypes, MemoryTypes, StoreTypes, CountTypes, Locals, Buckets, Stored
<1> QED
  BY <1>1, LookupTypes, InsertTypes, TakeTypes, ScriptTypes, OtherTypes DEF Next

\* Buckets stay within their capacity, requests hold buckets that were made, and
\* a bucket in Redis that was used is not full.
THEOREM TypeCorrect == Spec => []TypeOK
BY InitTypes, NextTypes, TypeParts, PTL DEF Spec

-----------------------------------------------------------------------------
(* The limiter in Redis *)

\* The tokens, in parts, that grow in so many seconds; the second of a tick,
\* and the latest stamp a replica can make of it.
Grown(seconds) == Limit * seconds
SecondOf(t) == t \div Second
Latest(t) == (t + Max(Skew)) \div Second

Full == Limit * Window
Spent(k) == granted[k] * Window
Written(k) == store[k].expires - Lifetime * Second

\* A bucket was never further in debt than clocks can differ.
InDebt(k) ==
  store[k] # None =>
    /\ Written(k) \in 0..now
    /\ store[k].stamp <= Latest(Written(k))
    /\ store[k].tokens + (Grown(Latest(Written(k))) - Grown(store[k].stamp)) >= 0

\* Since mark, what was let through and what is left are a full bucket and what
\* grew; a bucket that has expired would have been full again.
Metered(k) ==
  \/ granted[k] = 0
  \/ /\ store[k] # None
     /\ store[k].stamp >= SecondOf(mark)
     /\ Spent(k) + store[k].tokens <= Full + (Grown(store[k].stamp) - Grown(SecondOf(mark)))
  \/ /\ store[k] = None
     /\ Spent(k) <= Grown(SecondOf(now)) - Grown(SecondOf(mark))

\* What was let through alone: unlike what is left, it is never negative.
Bounded(k) == Spent(k) <= Full + (Grown(Latest(now)) - Grown(SecondOf(mark)))


LEMMA GrownTokens ==
  /\ \A x \in Int : Grown(x) \in Int
  /\ \A x, y \in Int : x <= y => Grown(x) <= Grown(y)
  /\ \A x, y \in Int : (x - y) * Limit = Grown(x) - Grown(y)
  /\ Grown(Window) = Full
  /\ \A x \in Int : Grown(x + Window) = Grown(x) + Full
  /\ Full \in Nat
<1>1. ASSUME NEW x \in Int
      PROVE  Grown(x) \in Int /\ Grown(x + Window) = Grown(x) + Full
  BY Constants, Z3 DEF Grown, Full
<1>2. ASSUME NEW x \in Int, NEW y \in Int
      PROVE  (x - y) * Limit = Grown(x) - Grown(y)
  BY Constants, Z3 DEF Grown
<1>3. ASSUME NEW x \in Int, NEW y \in Int, x <= y PROVE Grown(x) <= Grown(y)
  BY <1>3, Constants, ProductGrows DEF Grown
<1>4. Grown(Window) = Full /\ Full \in Nat
  BY Constants, Z3 DEF Grown, Full
<1> QED
  BY <1>1, <1>2, <1>3, <1>4

\* A replica's stamp lies between the second of the tick and the latest one.
LEMMA Stamps ==
  ASSUME NEW t \in Nat, NEW u \in Nat, u <= t, NEW skew \in Skew
  PROVE  /\ SecondOf(t) \in Int /\ SecondOf(u) \in Int
         /\ Latest(t) \in Int /\ Latest(u) \in Int
         /\ SecondOf(u) <= SecondOf(t) /\ Latest(u) <= Latest(t)
         /\ SecondOf(t) <= (t + skew) \div Second
         /\ (t + skew) \div Second <= Latest(t)
         /\ SecondOf(t) <= Latest(t)
<1>1. skew \in Nat /\ Max(Skew) \in Nat /\ skew <= Max(Skew)
  BY MostSkew, Constants
<1>2. /\ SecondOf(t) \in Int /\ SecondOf(u) \in Int
      /\ Latest(t) \in Int /\ Latest(u) \in Int
  BY <1>1, Constants, Quotient DEF SecondOf, Latest
<1>3. SecondOf(u) <= SecondOf(t)
  BY Constants, QuotientGrows DEF SecondOf
<1>4. Latest(u) <= Latest(t)
  BY <1>1, Constants, QuotientGrows DEF Latest
<1>5. SecondOf(t) <= (t + skew) \div Second
  BY <1>1, Constants, QuotientGrows DEF SecondOf
<1>6. (t + skew) \div Second <= Latest(t)
  <2>1. t + skew \in Int /\ t + Max(Skew) \in Int /\ t + skew <= t + Max(Skew)
    BY <1>1
  <2> QED
    BY <2>1, Constants, QuotientGrows DEF Latest
<1>7. (t + skew) \div Second \in Int
  BY <1>1, Constants, Quotient
<1> QED
  BY <1>2, <1>3, <1>4, <1>5, <1>6, <1>7

LEMMA SpentTypes ==
  ASSUME Types, NEW k \in Key
  PROVE  /\ Spent(k) \in Nat
         /\ granted[k] = 0 => Spent(k) = 0
         /\ (granted[k] + 1) * Window = Spent(k) + Window
<1>1. granted[k] \in Nat
  BY DEF Types, CountTypes
<1> QED
  BY <1>1, Constants, Z3 DEF Spent

\* The script on the bucket of k.
LEMMA ScriptMeters ==
  ASSUME Types, NEW k \in Key, NEW skew \in Skew, RunScript(k, skew),
         InDebt(k), Metered(k), Bounded(k)
  PROVE  InDebt(k)' /\ Metered(k)' /\ Bounded(k)'
<1>1. PICK s \in Nat, old \in Int, stamp \in Nat, full \in Int, wait \in Nat :
        /\ s = (now + skew) \div Second
        /\ IF store[k] = None THEN old = Full /\ stamp = s
           ELSE old = store[k].tokens /\ stamp = store[k].stamp
        /\ full <= Full /\ full <= old + (s - stamp) * Limit
        /\ full = Full \/ full = old + (s - stamp) * Limit
        /\ store' = [store EXCEPT ![k] =
             [tokens |-> IF full >= Window THEN full - Window ELSE full,
              stamp |-> s, expires |-> now + Lifetime * Second]]
        /\ granted' = IF full >= Window THEN [granted EXCEPT ![k] = @ + 1] ELSE granted
  BY ScriptStores DEF Full
<1>2. UNCHANGED <<now, mark>> /\ now \in Nat /\ mark \in Nat /\ mark <= now
  BY DEF RunScript, Types, CountTypes
<1> DEFINE m == SecondOf(mark)
           n == SecondOf(now)
           latest == Latest(now)
           left == IF full >= Window THEN full - Window ELSE full
<1>3. m \in Int /\ n \in Int /\ latest \in Int /\ m <= n /\ n <= s /\ s <= latest
  BY <1>1, <1>2, Stamps
<1>a. /\ full <= Full
      /\ full = Full \/ full = old + (s - stamp) * Limit
      /\ full <= old + (s - stamp) * Limit
      /\ IF store[k] = None THEN old = Full /\ stamp = s
         ELSE old = store[k].tokens /\ stamp = store[k].stamp
  BY <1>1
<1>4. /\ store'[k].tokens = left /\ store'[k].stamp = s /\ store'[k] # None
      /\ Written(k)' = now
  <2> DEFINE new == [tokens |-> left, stamp |-> s, expires |-> now + Lifetime * Second]
  <2>1. store'[k] = new
    BY <1>1 DEF Types, StoreTypes
  <2>2. left \in Int /\ now + Lifetime * Second \in Nat /\ Lifetime * Second \in Nat
    BY <1>1, <1>2, LifetimeTicks, Constants
  <2>3. new # None
    BY <2>2, RateLimitAssumption
  <2>4. Written(k)' = (now + Lifetime * Second) - Lifetime * Second
    BY <2>1 DEF Written, Lifetime
  <2> QED
    BY <1>2, <2>1, <2>2, <2>3, <2>4
<1>5. /\ Spent(k) \in Nat
      /\ granted[k] = 0 => Spent(k) = 0
      /\ Spent(k)' = IF full >= Window THEN Spent(k) + Window ELSE Spent(k)
  BY <1>1, SpentTypes DEF Spent, Types, CountTypes
<1>6. /\ Grown(m) \in Int /\ Grown(n) \in Int /\ Grown(s) \in Int /\ Grown(latest) \in Int
      /\ Grown(stamp) \in Int /\ Full \in Nat
      /\ Grown(m) <= Grown(n) /\ Grown(n) <= Grown(s) /\ Grown(s) <= Grown(latest)
  <2> HIDE DEF m, n, latest
  <2>1. s \in Int /\ stamp \in Int
    OBVIOUS
  <2>2. \A x \in Int : Grown(x) \in Int
    BY GrownTokens
  <2>3. \A x, y \in Int : x <= y => Grown(x) <= Grown(y)
    BY GrownTokens
  <2>4. Grown(m) <= Grown(n) /\ Grown(n) <= Grown(s) /\ Grown(s) <= Grown(latest)
    BY <1>3, <2>1, <2>3
  <2> QED
    BY <1>3, <2>1, <2>2, <2>4, GrownTokens
<1>b. /\ full <= Full
      /\ full = Full \/ full = old + (Grown(s) - Grown(stamp))
      /\ full <= old + (Grown(s) - Grown(stamp))
  <2>1. (s - stamp) * Limit = Grown(s) - Grown(stamp)
    BY GrownTokens
  <2> QED
    BY <1>a, <2>1
<1>7. store'[k].tokens + (Grown(latest) - Grown(s)) >= 0
  <2>1. full + (Grown(latest) - Grown(s)) >= 0
    <3>1. CASE store[k] = None
      BY <1>a, <1>b, <1>6, <3>1
    <3>2. CASE store[k] # None
      <4>1. /\ Written(k) \in 0..now
            /\ old + (Grown(Latest(Written(k))) - Grown(stamp)) >= 0
        BY <1>a, <3>2 DEF InDebt
      <4>2. Latest(Written(k)) \in Int /\ latest \in Int /\ Latest(Written(k)) <= latest
        <5>1. Written(k) \in Nat /\ Written(k) <= now
          BY <1>2, <4>1
        <5> QED
          BY <1>2, <5>1, Stamps
      <4>3. /\ Grown(Latest(Written(k))) \in Int
            /\ Grown(Latest(Written(k))) <= Grown(latest)
        BY <4>2, GrownTokens
      <4> QED
        BY <1>b, <1>6, <4>1, <4>3
    <3> QED
      BY <3>1, <3>2
  <2> QED
    BY <1>4, <1>6, <2>1, Constants
<1>8. Spent(k) + full <= Full + (Grown(s) - Grown(m))
  <2>1. CASE granted[k] = 0
    BY <1>b, <1>5, <1>6, <2>1
  <2>2. CASE /\ store[k] # None
             /\ Spent(k) + store[k].tokens <= Full + (Grown(store[k].stamp) - Grown(m))
    BY <1>a, <1>b, <1>5, <1>6, <2>2
  <2>3. CASE store[k] = None /\ Spent(k) <= Grown(n) - Grown(m)
    BY <1>b, <1>5, <1>6, <2>3
  <2> QED
    BY <2>1, <2>2, <2>3 DEF Metered
<1> HIDE DEF m, n, latest
<1>9. Spent(k)' + store'[k].tokens <= Full + (Grown(s) - Grown(m))
  BY <1>4, <1>5, <1>6, <1>8, Constants
<1>10. Spent(k)' <= Full + (Grown(latest) - Grown(m))
  <2>1. CASE full >= Window
    BY <1>5, <1>6, <1>8, <2>1, Constants
  <2>2. CASE ~(full >= Window)
    BY <1>5, <2>2 DEF Bounded, m, latest
  <2> QED
    BY <2>1, <2>2
<1>11. InDebt(k)'
  BY <1>2, <1>3, <1>4, <1>7 DEF InDebt, Grown, latest, Latest
<1>12. Metered(k)' /\ Bounded(k)'
  BY <1>2, <1>3, <1>4, <1>9, <1>10
     DEF Metered, Bounded, Full, Grown, SecondOf, Latest, m, latest
<1> QED
  BY <1>11, <1>12

\* Clocks that differ by more than a window could make a bucket expire early.
ClocksAgree == \A skew \in Skew : skew <= Window * Second

\* When a bucket expires it would be full, on any clock.
LEMMA Expired ==
  ASSUME ClocksAgree, NEW w \in Nat, NEW t \in Nat, t >= w + Lifetime * Second
  PROVE  Latest(w) + Window <= SecondOf(t)
<1>1. /\ Max(Skew) \in Nat /\ Max(Skew) <= Window * Second
      /\ Window * Second \in Nat /\ (2 * Window) * Second \in Nat
  BY MostSkew, LifetimeTicks DEF ClocksAgree, Lifetime
<1>2. (w + Window * Second) \div Second = SecondOf(w) + Window
  <2>1. w \in Int /\ Window \in Int /\ Second \in Nat \ {0}
    BY Constants
  <2> QED
    BY <2>1, QuotientShift, Zenon DEF SecondOf
<1>3. (w + (2 * Window) * Second) \div Second = SecondOf(w) + 2 * Window
  <2>1. w \in Int /\ 2 * Window \in Int /\ Second \in Nat \ {0}
    BY Constants
  <2> QED
    BY <2>1, QuotientShift, Zenon DEF SecondOf
<1>4. Latest(w) <= (w + Window * Second) \div Second
  <2>1. /\ w + Max(Skew) \in Int /\ w + Window * Second \in Int
        /\ w + Max(Skew) <= w + Window * Second
    BY <1>1
  <2> QED
    BY <2>1, Constants, QuotientGrows DEF Latest
<1>5. (w + (2 * Window) * Second) \div Second <= SecondOf(t)
  <2>1. w + (2 * Window) * Second \in Int /\ w + (2 * Window) * Second <= t
    BY <1>1 DEF Lifetime
  <2> QED
    BY <2>1, Constants, QuotientGrows DEF SecondOf
<1>6. SecondOf(w) \in Int /\ SecondOf(t) \in Int /\ Latest(w) \in Int
  BY MostSkew, Stamps
<1> QED
  BY <1>2, <1>3, <1>4, <1>5, <1>6, Constants

LEMMA TickMeters ==
  ASSUME ClocksAgree, Types, Tick, NEW k \in Key, InDebt(k), Metered(k), Bounded(k)
  PROVE  InDebt(k)' /\ Metered(k)' /\ Bounded(k)'
<1>1. /\ UNCHANGED <<granted, mark>> /\ now' = now + 1
      /\ now \in Nat /\ now' \in Nat /\ now <= now' /\ mark \in Nat /\ mark <= now
  BY DEF Tick, Types, CountTypes
<1>2. store'[k] = IF store[k] # None /\ store[k].expires <= now' THEN None ELSE store[k]
  BY DEF Tick
<1> DEFINE m == SecondOf(mark)
           w == Written(k)
<1>3. /\ SecondOf(now) \in Int /\ SecondOf(now') \in Int
      /\ Latest(now) \in Int /\ Latest(now') \in Int /\ m \in Int
      /\ SecondOf(now) <= SecondOf(now') /\ Latest(now) <= Latest(now')
  BY <1>1, MostSkew, Stamps
<1>4. /\ Grown(SecondOf(now)) \in Int /\ Grown(SecondOf(now')) \in Int
      /\ Grown(Latest(now)) \in Int /\ Grown(Latest(now')) \in Int /\ Grown(m) \in Int
      /\ Grown(SecondOf(now)) <= Grown(SecondOf(now'))
      /\ Grown(Latest(now)) <= Grown(Latest(now'))
      /\ Full \in Nat
  <2> HIDE DEF m
  <2>1. \A x, y \in Int : x <= y => Grown(x) <= Grown(y)
    BY GrownTokens
  <2>2. \A x \in Int : Grown(x) \in Int
    BY GrownTokens
  <2> QED
    BY <1>3, <2>1, <2>2, GrownTokens
<1>5. Spent(k)' = Spent(k) /\ Spent(k) \in Nat
  BY <1>1, SpentTypes DEF Spent
<1>6. Bounded(k)'
  <2>1. Spent(k) <= Full + (Grown(Latest(now')) - Grown(m))
    BY <1>4, <1>5 DEF Bounded
  <2> QED
    BY <1>1, <1>5, <2>1 DEF Bounded, Full, Grown, Latest, SecondOf
<1>7. CASE store[k] = None \/ ~(store[k].expires <= now')
  <2>1. store'[k] = store[k]
    BY <1>2, <1>7
  <2>2. Written(k)' = Written(k)
    BY <2>1 DEF Written, Lifetime
  <2>3. InDebt(k)'
    BY <1>1, <2>1, <2>2 DEF InDebt, Latest, Grown
  <2>4. Metered(k)'
    <3>1. CASE granted[k] = 0
      BY <1>1, <3>1 DEF Metered
    <3>2. CASE store[k] = None /\ Spent(k) <= Grown(SecondOf(now)) - Grown(m)
      <4>1. Spent(k) <= Grown(SecondOf(now')) - Grown(m)
        BY <1>4, <1>5, <3>2
      <4> QED
        BY <1>1, <1>5, <2>1, <3>2, <4>1 DEF Metered, Grown, SecondOf
    <3>3. CASE /\ store[k] # None /\ store[k].stamp >= m
               /\ Spent(k) + store[k].tokens <= Full + (Grown(store[k].stamp) - Grown(m))
      BY <1>1, <1>5, <2>1, <3>3 DEF Metered, Full, Grown, SecondOf
    <3> QED
      BY <3>1, <3>2, <3>3 DEF Metered
  <2> QED
    BY <1>6, <2>3, <2>4
<1>8. CASE store[k] # None /\ store[k].expires <= now'
  <2>1. store'[k] = None
    BY <1>2, <1>8
  <2>2. store[k] \in Stored
    BY <1>8 DEF Types, StoreTypes
  <2>3. /\ store[k].expires \in Nat /\ store[k].tokens \in Int /\ store[k].stamp \in Int
    BY <2>2 DEF Stored
  <2>4. w \in Nat /\ now' >= w + Lifetime * Second
    BY <1>1, <1>8, <2>3, LifetimeTicks DEF InDebt, Written
  <2>5. store[k].tokens + (Grown(Latest(w)) - Grown(store[k].stamp)) >= 0
    BY <1>8 DEF InDebt
  <2> HIDE DEF w, m
  <2>6. Latest(w) + Window <= SecondOf(now') /\ Latest(w) \in Int
    BY <1>1, <2>4, MostSkew, Stamps, Expired
  <2>7. /\ Grown(Latest(w)) \in Int /\ Grown(store[k].stamp) \in Int
        /\ Grown(Latest(w)) + Full <= Grown(SecondOf(now'))
    <3>1. Latest(w) + Window \in Int
      BY <2>6, Constants
    <3>2. Grown(Latest(w) + Window) <= Grown(SecondOf(now'))
      BY <1>3, <2>6, <3>1, GrownTokens
    <3>3. Grown(Latest(w) + Window) = Grown(Latest(w)) + Full
      BY <2>6, GrownTokens
    <3>4. Grown(Latest(w)) \in Int /\ Grown(store[k].stamp) \in Int
      BY <2>3, <2>6, GrownTokens
    <3> QED
      BY <3>2, <3>3, <3>4
  <2>8. CASE granted[k] = 0
    BY <1>1, <1>6, <2>1, <2>8 DEF Metered, InDebt
  <2>9. CASE Spent(k) + store[k].tokens <= Full + (Grown(store[k].stamp) - Grown(m))
    <3>1. Spent(k) <= Grown(SecondOf(now')) - Grown(m)
      BY <1>4, <1>5, <2>3, <2>5, <2>7, <2>9
    <3>2. Metered(k)'
      BY <1>1, <1>5, <2>1, <3>1 DEF Metered, Grown, SecondOf, m
    <3> QED
      BY <1>6, <2>1, <3>2 DEF InDebt
  <2> QED
    BY <1>8, <2>8, <2>9 DEF Metered, m
<1> QED
  BY <1>7, <1>8

\* When counting starts anew.
LEMMA ObserveMeters ==
  ASSUME Types, Observe, NEW k \in Key, InDebt(k)
  PROVE  InDebt(k)' /\ Metered(k)' /\ Bounded(k)'
<1>1. /\ mark' = now /\ now' = now /\ store' = store /\ granted'[k] = 0 /\ now \in Nat
  BY DEF Observe, Types, CountTypes
<1>2. InDebt(k)'
  BY <1>1 DEF InDebt, Written, Lifetime, Latest, Grown
<1>3. Metered(k)'
  BY <1>1 DEF Metered
<1>4. Bounded(k)'
  <2>1. SecondOf(now) \in Int /\ Latest(now) \in Int /\ SecondOf(now) <= Latest(now)
    BY <1>1, MostSkew, Stamps
  <2>2. /\ Grown(SecondOf(now)) \in Int /\ Grown(Latest(now)) \in Int /\ Full \in Nat
        /\ Grown(SecondOf(now)) <= Grown(Latest(now))
    BY <2>1, GrownTokens
  <2>3. Spent(k)' = 0
    BY <1>1, Constants, Z3 DEF Spent
  <2>4. 0 <= Full + (Grown(Latest(now)) - Grown(SecondOf(now)))
    BY <2>2
  <2> QED
    BY <1>1, <2>3, <2>4 DEF Bounded, Full, Grown, Latest, SecondOf
<1> QED
  BY <1>2, <1>3, <1>4

\* A step that touches neither the bucket nor the counts of k nor the time.
LEMMA Unmetered ==
  ASSUME NEW k \in Key, InDebt(k), Metered(k), Bounded(k),
         UNCHANGED <<now, mark>>, store'[k] = store[k], granted'[k] = granted[k]
  PROVE  InDebt(k)' /\ Metered(k)' /\ Bounded(k)'
BY DEF InDebt, Metered, Bounded, Written, Lifetime, Latest, Grown, SecondOf, Spent, Full

ScriptInv ==
  mode = "redis" =>
    /\ \A r \in Request : call[r].pc = "idle"
    /\ \A k \in Key : InDebt(k) /\ Metered(k) /\ Bounded(k)

LEMMA ScriptInvInit == Init => ScriptInv
<1> SUFFICES ASSUME Init, NEW k \in Key PROVE InDebt(k) /\ Metered(k) /\ Bounded(k)
  BY DEF Init, ScriptInv, Idle
<1>1. granted[k] = 0 /\ store[k] = None /\ now = 0 /\ mark = 0
  BY DEF Init
<1>2. Bounded(k)
  <2>1. SecondOf(0) \in Int /\ Latest(0) \in Int /\ SecondOf(0) <= Latest(0)
    BY MostSkew, Stamps
  <2>2. /\ Grown(SecondOf(0)) \in Int /\ Grown(Latest(0)) \in Int /\ Full \in Nat
        /\ Grown(SecondOf(0)) <= Grown(Latest(0))
    BY <2>1, GrownTokens
  <2>3. Spent(k) = 0
    BY <1>1, Constants, Z3 DEF Spent
  <2> QED
    BY <1>1, <2>2, <2>3 DEF Bounded
<1> QED
  BY <1>1, <1>2 DEF InDebt, Metered

LEMMA ScriptInvNext ==
  ASSUME ClocksAgree, Types, ScriptInv, [Next]_vars
  PROVE  ScriptInv'
<1> SUFFICES ASSUME mode' = "redis" PROVE ScriptInv'
  BY DEF ScriptInv
<1>1. mode = "redis" /\ mode' = mode
  BY DEF Next, Insert, Take, Lookup, RunScript, CleanUp, Tick, Observe, vars
<1>2. /\ \A r \in Request : call[r].pc = "idle"
      /\ \A k \in Key : InDebt(k) /\ Metered(k) /\ Bounded(k)
  BY <1>1 DEF ScriptInv
<1>3. CASE UNCHANGED vars
  BY <1>2, <1>3, Unmetered DEF vars, ScriptInv
<1>4. ASSUME NEW k \in Key, NEW skew \in Skew, RunScript(k, skew) PROVE ScriptInv'
  <2>1. ASSUME NEW q \in Key PROVE InDebt(q)' /\ Metered(q)' /\ Bounded(q)'
    <3>1. CASE q = k
      BY <1>2, <1>4, <3>1, ScriptMeters
    <3>2. CASE q # k
      <4>1. UNCHANGED <<now, mark>> /\ store'[q] = store[q] /\ granted'[q] = granted[q]
        BY <1>4, <3>2 DEF RunScript, Answer, Types, StoreTypes, CountTypes
      <4> QED
        BY <1>2, <4>1, Unmetered
    <3> QED
      BY <3>1, <3>2
  <2>2. call' = call
    BY <1>4 DEF RunScript
  <2> QED
    BY <1>2, <2>1, <2>2 DEF ScriptInv
<1>5. CASE Tick
  BY <1>2, <1>5, TickMeters DEF ScriptInv, Tick
<1>6. CASE Observe
  BY <1>2, <1>6, ObserveMeters DEF ScriptInv, Observe
<1>7. CASE \/ CleanUp
           \/ \E r \in Request : Insert(r) \/ Take(r) \/ \E k \in Key : Lookup(r, k)
  BY <1>1, <1>2, <1>7 DEF CleanUp, Insert, Take, Lookup
<1> QED
  BY <1>3, <1>4, <1>5, <1>6, <1>7 DEF Next

\* In any interval, all replicas together let no more requests of a key through
\* than a full bucket and what the interval adds, whatever clock they have and
\* although buckets expire: if no clock is ahead by more than a window.
THEOREM ReplicasKeepRate == ASSUME ClocksAgree PROVE Spec => []ReplicasWithinRate
<1>1. Types /\ ScriptInv => ReplicasWithinRate
  <2> SUFFICES ASSUME Types, ScriptInv, mode = "redis", NEW k \in Key
               PROVE  granted[k] * Window <= Limit * Window + Limit *
                        ((now - mark + Max(Skew) + Second - 1) \div Second)
    BY DEF ReplicasWithinRate
  <2> DEFINE gap == (now - mark + Max(Skew) + Second - 1) \div Second
  <2>1. now \in Nat /\ mark \in Nat /\ mark <= now /\ Max(Skew) \in Nat
    BY MostSkew DEF Types, CountTypes
  <2>2. Latest(now) - SecondOf(mark) <= gap
    <3>1. now + Max(Skew) \in Int /\ mark \in Int
      BY <2>1
    <3>2. ((now + Max(Skew)) \div Second) - (mark \div Second) <=
            ((now + Max(Skew)) - mark + Second - 1) \div Second
      BY <3>1, Constants, QuotientGap
    <3>3. (now + Max(Skew)) - mark + Second - 1 = now - mark + Max(Skew) + Second - 1
      BY <2>1, Constants
    <3> QED
      BY <3>2, <3>3 DEF Latest, SecondOf
  <2>3. gap \in Int /\ Latest(now) \in Int /\ SecondOf(mark) \in Int
    <3>1. now - mark + Max(Skew) + Second - 1 \in Int
      BY <2>1, Constants
    <3>2. gap \in Int
      BY <3>1, Constants, Quotient
    <3> QED
      BY <2>1, <3>2, MostSkew, Stamps
  <2> HIDE DEF gap
  <2>4. Grown(Latest(now) - SecondOf(mark)) <= Grown(gap)
    <3>1. PICK d \in Int, g \in Int : d = Latest(now) - SecondOf(mark) /\ g = gap /\ d <= g
      BY <2>2, <2>3
    <3>2. Grown(d) <= Grown(g)
      BY <3>1, GrownTokens
    <3> QED
      BY <3>1, <3>2
  <2>5. Grown(Latest(now) - SecondOf(mark)) = Grown(Latest(now)) - Grown(SecondOf(mark))
    BY <2>3, Constants, Z3 DEF Grown
  <2>6. Spent(k) <= Full + Grown(gap)
    <3>1. Spent(k) <= Full + (Grown(Latest(now)) - Grown(SecondOf(mark)))
      BY DEF ScriptInv, Bounded
    <3>2. /\ Grown(gap) \in Int /\ Grown(Latest(now)) \in Int
          /\ Grown(SecondOf(mark)) \in Int /\ Full \in Nat /\ Spent(k) \in Nat
      BY <2>3, GrownTokens, SpentTypes
    <3> QED
      BY <2>4, <2>5, <3>1, <3>2
  <2> QED
    BY <2>6 DEF Spent, Full, Grown, gap
<1> QED
  BY <1>1, InitTypes, NextTypes, ScriptInvInit, ScriptInvNext, PTL DEF Spec

-----------------------------------------------------------------------------
(* The limiter of a process *)

\* What a bucket can have let through since mark, if it was last filled at t.
Share(t) == Capacity + RefillRate * ((t - mark + Second - 1) \div Second)

\* The requests that the buckets in B let through, when b let through given[b].
Slots(B, given) == {slot \in B \X Nat : slot[2] \in 1..given[slot[1]]}

\* The buckets a key ever had: every removal made room for one more.
Owns(owned) ==
  /\ owned \in [Key -> SUBSET (1..made)]
  /\ \A k \in Key : table[k] # 0 => table[k] \in owned[k]
  /\ \A r \in Request : call[r].pc = "take" => call[r].held \in owned[call[r].key]
  /\ \A k \in Key : Cardinality(owned[k]) <= removed + (IF table[k] = 0 THEN 0 ELSE 1)

\* A bucket that let a request through since mark was filled then or later, or
\* less than a second before; what is left counts towards its share.
Paid(b, given) ==
  /\ bucket[b].last + Second > mark
  /\ given + bucket[b].tokens <= Share(bucket[b].last)

Gives(given) ==
  /\ given \in [1..MaxBuckets -> Nat]
  /\ \A b \in 1..MaxBuckets : given[b] # 0 => b <= made /\ Paid(b, given[b])

Ledger(owned, given) ==
  /\ Owns(owned)
  /\ Gives(given)
  /\ \A k \in Key : granted[k] <= Cardinality(Slots(owned[k], given))

BucketInv == mode = "memory" => \E owned, given : Ledger(owned, given)

LEMMA Shares ==
  ASSUME mark \in Nat, NEW t \in Nat, t + Second > mark
  PROVE  /\ Share(t) \in Nat /\ Capacity <= Share(t)
         /\ \A u \in Nat : t <= u =>
              Share(t) + RefillRate * ((u - t) \div Second) <= Share(u)
         /\ \A u \in Nat : t <= u => Share(t) <= Share(u)
<1> DEFINE late(u) == u - mark + Second - 1
           began(u) == late(u) \div Second
<1>1. \A u \in Nat : late(u) \in Int /\ began(u) \in Int
  <2> SUFFICES ASSUME NEW u \in Nat PROVE late(u) \in Int /\ began(u) \in Int
    OBVIOUS
  <2>1. late(u) \in Int
    BY Constants
  <2> QED
    BY <2>1, Constants, Quotient
<1>2. began(t) >= 0
  <2>1. Second * 0 <= late(t)
    <3>1. Second * 0 = 0
      BY Constants, Z3
    <3> QED
      BY <3>1, Constants
  <2> QED
    BY <1>1, <2>1, Constants, QuotientAbove
<1>3. ASSUME NEW u \in Nat, t <= u
      PROVE  /\ began(t) + ((u - t) \div Second) <= began(u)
             /\ (u - t) \div Second \in Nat
  <2>1. u - t \in Int /\ u - t \in Nat
    BY <1>3
  <2>2. ((late(t)) \div Second) + ((u - t) \div Second) <= (late(t) + (u - t)) \div Second
    BY <1>1, <2>1, Constants, QuotientSum
  <2>3. late(t) + (u - t) = late(u)
    BY Constants
  <2>4. (u - t) \div Second \in Int
    BY <2>1, Constants, Quotient
  <2>5. 0 <= (u - t) \div Second
    <3>1. Second * 0 <= u - t
      BY <2>1, Constants, Z3
    <3> QED
      BY <2>1, <3>1, Constants, QuotientAbove
  <2> QED
    BY <2>2, <2>3, <2>4, <2>5
<1>4. \A u \in Nat : Share(u) = Capacity + RefillRate * began(u)
  BY DEF Share
<1> HIDE DEF late, began
<1>5. Share(t) \in Nat /\ Capacity <= Share(t)
  <2>1. began(t) \in Nat
    BY <1>1, <1>2
  <2>2. RefillRate * began(t) \in Nat
    BY <2>1, Constants, Z3
  <2> QED
    BY <1>4, <2>2, Constants
<1>6. ASSUME NEW u \in Nat, t <= u
      PROVE  /\ Share(t) + RefillRate * ((u - t) \div Second) <= Share(u)
             /\ Share(t) <= Share(u)
  <2> DEFINE n == (u - t) \div Second
  <2>1. n \in Nat /\ began(t) + n <= began(u) /\ began(t) \in Int /\ began(u) \in Int
    BY <1>1, <1>3, <1>6
  <2> HIDE DEF n
  <2>2. began(t) + n \in Int
    BY <2>1
  <2>3. RefillRate * (began(t) + n) <= RefillRate * began(u)
    BY <2>1, <2>2, Constants, ProductGrows
  <2>4. /\ RefillRate * (began(t) + n) = RefillRate * began(t) + RefillRate * n
        /\ RefillRate * began(t) \in Int /\ RefillRate * n \in Nat
        /\ RefillRate * began(u) \in Int
    BY <2>1, Constants, Z3
  <2>5. Share(t) + RefillRate * n <= Share(u) /\ Share(t) <= Share(u)
    BY <1>4, <2>3, <2>4, Constants
  <2> QED
    BY <2>5 DEF n
<1> QED
  BY <1>5, <1>6

\* What the buckets let through is finite, and no more than their shares.
LEMMA SlotsBounded ==
  ASSUME NEW B, IsFiniteSet(B), NEW given, NEW most \in Nat,
         \A b \in B : given[b] \in Nat /\ given[b] <= most
  PROVE  /\ IsFiniteSet(Slots(B, given))
         /\ Cardinality(Slots(B, given)) \in Nat
         /\ Cardinality(Slots(B, given)) <= Cardinality(B) * most
<1>1. IsFiniteSet(1..most) /\ Cardinality(1..most) = most
  BY FS_Interval
<1>2. IsFiniteSet(B \X (1..most)) /\ Cardinality(B \X (1..most)) = Cardinality(B) * most
  BY <1>1, FS_Product
<1>3. Slots(B, given) \in SUBSET (B \X (1..most))
  BY DEF Slots
<1> QED
  BY <1>2, <1>3, FS_Subset, FS_CardinalityType

\* More buckets, or more that they gave, are no fewer requests.
LEMMA SlotsGrow ==
  ASSUME NEW B, NEW C, B \subseteq C, NEW given, NEW later, IsFiniteSet(Slots(C, later)),
         \A b \in B : given[b] \in Nat /\ later[b] \in Nat /\ given[b] <= later[b]
  PROVE  Cardinality(Slots(B, given)) <= Cardinality(Slots(C, later))
<1>1. Slots(B, given) \in SUBSET Slots(C, later)
  BY DEF Slots
<1> QED
  BY <1>1, FS_Subset

LEMMA LedgerBounds ==
  ASSUME Types, NEW owned, NEW given, Owns(owned), Gives(given)
  PROVE  /\ Share(now) \in Nat
         /\ \A b \in 1..MaxBuckets : given[b] \in Nat /\ given[b] <= Share(now)
         /\ \A k \in Key : owned[k] \subseteq 1..made /\ IsFiniteSet(owned[k])
<1>1. now \in Nat /\ mark \in Nat /\ now + Second > mark
  BY Constants DEF Types, CountTypes
<1>2. Share(now) \in Nat
  BY <1>1, Shares
<1>3. ASSUME NEW b \in 1..MaxBuckets PROVE given[b] \in Nat /\ given[b] <= Share(now)
  <2>1. given[b] \in Nat
    BY DEF Gives
  <2>2. CASE given[b] # 0
    <3>1. /\ bucket[b].last \in 0..now /\ bucket[b].tokens \in 0..Capacity
          /\ bucket[b].last + Second > mark
          /\ given[b] + bucket[b].tokens <= Share(bucket[b].last)
      BY <2>2 DEF Gives, Paid, Types, MemoryTypes, Buckets
    <3>2. Share(bucket[b].last) \in Nat /\ Share(bucket[b].last) <= Share(now)
      BY <1>1, <3>1, Shares
    <3> QED
      BY <1>2, <2>1, <3>1, <3>2, Constants
  <2> QED
    BY <1>2, <2>1, <2>2
<1>4. ASSUME NEW k \in Key PROVE owned[k] \subseteq 1..made /\ IsFiniteSet(owned[k])
  <2>1. owned[k] \in SUBSET (1..made) /\ made \in Int /\ 1 \in Int
    BY DEF Owns, Types, MemoryTypes
  <2>2. IsFiniteSet(1..made)
    BY <2>1, FS_Interval
  <2> QED
    BY <2>1, <2>2, FS_Subset
<1> QED
  BY <1>2, <1>3, <1>4

\* The sets of requests let through, for the ledger and one with a bit more.
LEMMA LedgerSlots ==
  ASSUME Types, NEW owned, NEW given, Owns(owned), Gives(given), NEW k \in Key,
         NEW C, IsFiniteSet(C), owned[k] \subseteq C, C \subseteq 1..MaxBuckets,
         NEW later, \A b \in 1..MaxBuckets :
                      /\ later[b] \in Nat
                      /\ given[b] <= later[b] /\ later[b] <= given[b] + 1
  PROVE  /\ IsFiniteSet(Slots(C, later)) /\ Cardinality(Slots(C, later)) \in Nat
         /\ Cardinality(Slots(owned[k], given)) \in Nat
         /\ Cardinality(Slots(owned[k], given)) <= Cardinality(Slots(C, later))
<1>1. /\ Share(now) \in Nat
      /\ \A b \in 1..MaxBuckets : given[b] \in Nat /\ given[b] <= Share(now)
      /\ IsFiniteSet(owned[k])
  BY LedgerBounds
<1>2. Share(now) + 1 \in Nat /\ \A b \in C : later[b] \in Nat /\ later[b] <= Share(now) + 1
  <2> SUFFICES ASSUME NEW b \in C PROVE later[b] \in Nat /\ later[b] <= Share(now) + 1
    BY <1>1
  <2>1. b \in 1..MaxBuckets
    OBVIOUS
  <2>2. later[b] \in Nat /\ later[b] <= given[b] + 1
    BY <2>1
  <2>3. given[b] \in Nat /\ given[b] <= Share(now) /\ Share(now) \in Nat
    BY <1>1, <2>1
  <2> QED
    BY <2>2, <2>3
<1>3. IsFiniteSet(Slots(C, later)) /\ Cardinality(Slots(C, later)) \in Nat
  BY <1>2, SlotsBounded
<1>4. Cardinality(Slots(owned[k], given)) \in Nat
  BY <1>1, SlotsBounded
<1>5. \A b \in owned[k] : given[b] \in Nat /\ later[b] \in Nat /\ given[b] <= later[b]
  BY <1>1
<1> QED
  BY <1>3, <1>4, <1>5, SlotsGrow

\* A step that leaves buckets and counts alone.
LEMMA LedgerKept ==
  ASSUME NEW owned, NEW given, Gives(given), UNCHANGED <<made, bucket, mark>>
  PROVE  Gives(given)'
BY DEF Gives, Paid, Share

LEMMA LookupLedger ==
  ASSUME Types, NEW owned, NEW given, Ledger(owned, given),
         NEW r \in Request, NEW k \in Key, Lookup(r, k)
  PROVE  Ledger(owned, given)'
<1>1. Gives(given)'
  BY LedgerKept DEF Ledger, Lookup
<1>2. Owns(owned)'
  BY DEF Ledger, Owns, Lookup, Types, CallTypes
<1> QED
  BY <1>1, <1>2 DEF Ledger, Lookup, Slots

LEMMA InsertLedger ==
  ASSUME Types, NEW owned, NEW given, Ledger(owned, given), NEW r \in Request, Insert(r)
  PROVE  \E o : Ledger(o, given)'
<1>0. PICK key : key = call[r].key
  OBVIOUS
<1>1. /\ key \in Key /\ Owns(owned) /\ Gives(given)
      /\ \A k \in Key : granted[k] <= Cardinality(Slots(owned[k], given))
  BY <1>0 DEF Insert, Types, CallTypes, Locals, Idle, Ledger
<1>2. made \in 0..MaxBuckets /\ now \in Nat /\ removed \in Nat
  BY DEF Types, MemoryTypes, CountTypes
<1>3. CASE table[key] = 0 /\ NewBucket(r)
  <2>0. PICK new, o : new = made + 1 /\ o = [owned EXCEPT ![key] = @ \cup {new}]
    OBVIOUS
  <2>1. /\ made' = new /\ new \in 1..MaxBuckets /\ new \notin 1..made
        /\ 1..made \subseteq 1..new
        /\ mark' = mark /\ removed' = removed /\ granted' = granted
        /\ table' = [table EXCEPT ![key] = new]
        /\ \A q \in Request : q # r => call'[q] = call[q]
        /\ call'[r].key = key /\ call'[r].held = new
    BY <1>0, <1>2, <1>3, <2>0, Constants DEF NewBucket, Insert, Types, CallTypes
  <2>2. /\ owned \in [Key -> SUBSET (1..made)]
        /\ \A k \in Key : table[k] \in 0..made /\ IsFiniteSet(owned[k])
    BY <1>1, LedgerBounds DEF Owns, Types, MemoryTypes
  <2>3. o[key] = owned[key] \cup {new} /\ \A k \in Key : k # key => o[k] = owned[k]
    BY <1>1, <2>0, <2>2
  <2>4. Gives(given)'
    <3>1. Gives(given)'
      <4> SUFFICES ASSUME NEW b \in 1..MaxBuckets, given[b] # 0
                   PROVE  b <= new /\ Paid(b, given[b])'
        BY <1>1, <2>1 DEF Gives
      <4>1. b <= made /\ Paid(b, given[b])
        BY <1>1 DEF Gives
      <4>2. bucket'[b] = bucket[b]
        BY <1>2, <1>3, <4>1 DEF NewBucket, Types, MemoryTypes
      <4> QED
        BY <1>2, <2>1, <4>1, <4>2 DEF Paid, Share
    <3> QED
      BY <3>1
  <2>5. Owns(o)'
    <3>1. o \in [Key -> SUBSET (1..made')]
      <4>1. owned \in [Key -> SUBSET (1..made')]
        BY <2>1, <2>2
      <4>2. new \in 1..made'
        BY <1>2, <2>0, <2>1
      <4> QED
        BY <1>1, <2>0, <4>1, <4>2
    <3>2. \A k \in Key : table'[k] # 0 => table'[k] \in o[k]
      BY <1>1, <2>1, <2>2, <2>3 DEF Owns, Types, MemoryTypes
    <3>3. \A q \in Request : call'[q].pc = "take" => call'[q].held \in o[call'[q].key]
      <4> SUFFICES ASSUME NEW q \in Request, call'[q].pc = "take"
                   PROVE  call'[q].held \in o[call'[q].key]
        OBVIOUS
      <4>1. CASE q = r
        BY <2>1, <2>3, <4>1
      <4>2. CASE q # r
        <5>1. call[q].key \in Key /\ call[q].held \in owned[call[q].key]
          BY <1>1, <2>1, <4>2 DEF Owns, Types, CallTypes, Locals, Idle
        <5> QED
          BY <2>1, <2>3, <4>2, <5>1
      <4> QED
        BY <4>1, <4>2
    <3>4. ASSUME NEW k \in Key
          PROVE  Cardinality(o[k]) <= removed' + (IF table'[k] = 0 THEN 0 ELSE 1)
      <4>1. CASE k # key
        BY <1>1, <2>1, <2>2, <2>3, <4>1 DEF Owns, Types, MemoryTypes
      <4>2. CASE k = key
        <5>1. Cardinality(owned[key]) <= removed /\ Cardinality(owned[key]) \in Nat
          <6>1. Cardinality(owned[key]) <= removed + 0
            BY <1>1, <1>3 DEF Owns
          <6> QED
            BY <1>1, <1>2, <2>2, <6>1, FS_CardinalityType
        <5>2. new \notin owned[key]
          BY <1>1, <2>1, <2>2
        <5>3. Cardinality(o[key]) = Cardinality(owned[key]) + 1
          BY <1>1, <2>2, <2>3, <5>2, FS_AddElement
        <5>4. table'[key] # 0
          BY <1>1, <1>2, <2>0, <2>1 DEF Types, MemoryTypes
        <5> QED
          BY <1>2, <2>1, <4>2, <5>1, <5>3, <5>4
      <4> QED
        BY <4>1, <4>2
    <3> QED
      BY <3>1, <3>2, <3>3, <3>4 DEF Owns
  <2>6. ASSUME NEW k \in Key PROVE granted'[k] <= Cardinality(Slots(o[k], given))
    <3>1. owned[k] \subseteq o[k] /\ IsFiniteSet(o[k]) /\ o[k] \subseteq 1..MaxBuckets
      <4>1. owned[k] \subseteq 1..made /\ 1..made \subseteq 1..MaxBuckets
        BY <1>2, <2>2, Constants
      <4>2. CASE k = key
        BY <2>1, <2>2, <2>3, <4>1, <4>2, FS_AddElement
      <4>3. CASE k # key
        BY <2>2, <2>3, <4>1, <4>3
      <4> QED
        BY <4>2, <4>3
    <3>2. \A b \in 1..MaxBuckets :
            given[b] \in Nat /\ given[b] <= given[b] /\ given[b] <= given[b] + 1
      BY <1>1 DEF Gives
    <3>3. /\ Cardinality(Slots(owned[k], given)) <= Cardinality(Slots(o[k], given))
          /\ Cardinality(Slots(owned[k], given)) \in Nat
          /\ Cardinality(Slots(o[k], given)) \in Nat
      BY <1>1, <3>1, <3>2, LedgerSlots
    <3>4. granted[k] <= Cardinality(Slots(owned[k], given)) /\ granted[k] \in Nat
      BY <1>1 DEF Types, CountTypes
    <3> QED
      BY <2>1, <3>3, <3>4
  <2> QED
    BY <2>4, <2>5, <2>6 DEF Ledger, Slots
<1>4. CASE /\ table[key] # 0
           /\ call' = [call EXCEPT ![r].pc = "take", ![r].held = table[key]]
           /\ UNCHANGED <<bucket, made, table>>
  <2>1. /\ UNCHANGED <<mark, removed, granted>>
        /\ \A q \in Request : q # r => call'[q] = call[q]
        /\ call'[r].key = key /\ call'[r].held = table[key]
    BY <1>0, <1>4 DEF Insert, Types, CallTypes
  <2>2. Gives(given)'
    BY <1>1, <1>4, <2>1, LedgerKept
  <2>3. Owns(owned)'
    BY <1>1, <1>4, <2>1 DEF Owns
  <2>4. Ledger(owned, given)'
    BY <1>1, <2>1, <2>2, <2>3 DEF Ledger, Slots
  <2> QED
    BY <2>4
<1> QED
  BY <1>0, <1>3, <1>4 DEF Insert

\* A request that is let through takes from what its bucket may give.
LEMMA TakeLedger ==
  ASSUME Types, NEW owned, NEW given, Ledger(owned, given), NEW r \in Request, Take(r)
  PROVE  \E g : Ledger(owned, g)'
<1>0. PICK key, b, full :
        key = call[r].key /\ b = call[r].held /\ full = Refill(bucket[call[r].held])
  OBVIOUS
<1>1. /\ Owns(owned) /\ Gives(given)
      /\ \A k \in Key : granted[k] <= Cardinality(Slots(owned[k], given))
  BY DEF Ledger
<1>2. /\ call[r].pc = "take"
      /\ bucket' = [bucket EXCEPT ![b] =
           IF full.tokens >= 1 THEN [full EXCEPT !.tokens = @ - 1] ELSE full]
      /\ granted' = IF full.tokens >= 1 THEN [granted EXCEPT ![key] = @ + 1] ELSE granted
      /\ call' = [call EXCEPT ![r] = Idle]
      /\ UNCHANGED <<now, made, table, mark, removed>>
  BY <1>0 DEF Take, Answer
<1>3. /\ key \in Key /\ b \in owned[key] /\ b \in 1..made /\ b \in 1..MaxBuckets
      /\ bucket[b] \in Buckets
  <2>1. /\ call[r] \in [pc : {"insert", "take"}, key : Key, held : 0..made]
        /\ call[r].held \in owned[call[r].key] /\ made \in 0..MaxBuckets
    BY <1>1, <1>2 DEF Types, CallTypes, MemoryTypes, Locals, Idle, Owns
  <2>2. owned[key] \subseteq 1..made /\ 1..made \subseteq 1..MaxBuckets
    BY <1>0, <1>1, <2>1, LedgerBounds, Constants
  <2> QED
    BY <1>0, <2>1, <2>2 DEF Types, MemoryTypes
<1>4. /\ now \in Nat /\ mark \in Nat /\ mark <= now
      /\ bucket[b].last \in 0..now /\ bucket[b].tokens \in 0..Capacity
      /\ given[b] \in Nat /\ granted \in [Key -> Nat]
  BY <1>1, <1>3 DEF Types, CountTypes, Buckets, Gives
<1>5. PICK n \in Nat :
        /\ n = (now - bucket[b].last) \div Second
        /\ full \in Buckets
        /\ full.tokens <= bucket[b].tokens + RefillRate * n
        /\ n > 0 => full.last = now
        /\ n = 0 => full = bucket[b] /\ now < bucket[b].last + Second
  BY <1>0, <1>3, <1>4, RefillAdds
<1>6. full.tokens \in 0..Capacity /\ full.last \in 0..now
  BY <1>5 DEF Buckets
\* Whether it gives or not, the refill keeps within the share.
<1>7. /\ given[b] # 0 => full.last + Second > mark
                          /\ given[b] + full.tokens <= Share(full.last)
      /\ given[b] = 0 => \/ full.last + Second > mark /\ full.tokens <= Share(full.last)
                         \/ full.tokens = 0
  <2>1. CASE given[b] # 0
    <3>1. bucket[b].last + Second > mark /\ given[b] + bucket[b].tokens <= Share(bucket[b].last)
      BY <1>1, <1>3, <2>1 DEF Gives, Paid
    <3>2. /\ Share(bucket[b].last) \in Nat /\ Share(now) \in Nat
          /\ Share(bucket[b].last) + RefillRate * n <= Share(now)
      <4>1. PICK t \in Nat : t = bucket[b].last /\ t <= now
        BY <1>4
      <4>2. t + Second > mark
        BY <3>1, <4>1
      <4>3. Share(t) \in Nat /\ Share(t) + RefillRate * ((now - t) \div Second) <= Share(now)
        BY <1>4, <4>1, <4>2, Shares
      <4>4. now + Second > mark
        BY <1>4, Constants
      <4>5. Share(now) \in Nat
        BY <1>4, <4>4, Shares
      <4>6. n = (now - t) \div Second
        BY <1>5, <4>1
      <4> QED
        BY <4>1, <4>3, <4>5, <4>6
    <3>3. RefillRate * n \in Nat
      BY Constants, Z3
    <3>4. CASE n = 0
      BY <1>5, <2>1, <3>1, <3>4
    <3>5. CASE n > 0
      <4>1. full.last = now
        BY <1>5, <3>5
      <4>2. given[b] + full.tokens <= Share(now)
        BY <1>4, <1>5, <1>6, <3>1, <3>2, <3>3, Constants
      <4> QED
        BY <1>4, <2>1, <4>1, <4>2, Constants
    <3> QED
      BY <3>4, <3>5
  <2>2. CASE given[b] = 0
    <3>1. full.last + Second > mark
      <4>1. CASE n = 0
        BY <1>4, <1>5, <4>1, Constants
      <4>2. CASE n > 0
        BY <1>4, <1>5, <4>2, Constants
      <4> QED
        BY <4>1, <4>2
    <3>2. Capacity <= Share(full.last) /\ Share(full.last) \in Nat
      BY <1>4, <1>6, <3>1, Shares
    <3> QED
      BY <1>6, <2>2, <3>1, <3>2, Constants
  <2> QED
    BY <2>1, <2>2
<1>8. \A c \in 1..MaxBuckets : c # b => bucket'[c] = bucket[c]
  BY <1>2, <1>3 DEF Types, MemoryTypes
<1>9. Owns(owned)'
  BY <1>1, <1>2 DEF Owns, Types, CallTypes, Idle
<1>10. CASE ~(full.tokens >= 1)
  <2>1. granted' = granted /\ bucket'[b] = full
    BY <1>2, <1>3, <1>10 DEF Types, MemoryTypes
  <2>2. Gives(given)'
    <3> SUFFICES ASSUME NEW c \in 1..MaxBuckets, given[c] # 0
                 PROVE  c <= made' /\ Paid(c, given[c])'
      BY <1>1 DEF Gives
    <3>1. c <= made /\ Paid(c, given[c])
      BY <1>1 DEF Gives
    <3>2. CASE c = b
      BY <1>2, <1>7, <2>1, <3>1, <3>2 DEF Paid, Share
    <3>3. CASE c # b
      BY <1>2, <1>8, <3>1, <3>3 DEF Paid, Share
    <3> QED
      BY <3>2, <3>3
  <2> QED
    BY <1>1, <1>9, <2>1, <2>2 DEF Ledger, Slots
<1>11. CASE full.tokens >= 1
  <2>0. PICK g : g = [given EXCEPT ![b] = @ + 1]
    OBVIOUS
  <2>1. /\ bucket'[b].last = full.last /\ bucket'[b].tokens = full.tokens - 1
        /\ granted' = [granted EXCEPT ![key] = @ + 1]
    BY <1>2, <1>3, <1>5, <1>11 DEF Types, MemoryTypes, Buckets
  <2>2. /\ g \in [1..MaxBuckets -> Nat] /\ g[b] = given[b] + 1
        /\ \A c \in 1..MaxBuckets : c # b => g[c] = given[c]
    BY <1>1, <1>3, <1>4, <2>0 DEF Gives
  <2>3. Gives(g)'
    <3> SUFFICES ASSUME NEW c \in 1..MaxBuckets, g[c] # 0
                 PROVE  c <= made' /\ Paid(c, g[c])'
      BY <2>2 DEF Gives
    <3>1. CASE c = b
      <4>1. full.last + Second > mark /\ given[b] + full.tokens <= Share(full.last)
        BY <1>4, <1>6, <1>7, <1>11
      <4>2. Share(full.last) \in Nat
        BY <1>4, <1>6, <4>1, Shares
      <4>3. g[b] + bucket'[b].tokens <= Share(full.last)
        BY <1>4, <1>6, <2>1, <2>2, <4>1, <4>2, Constants
      <4>4. b <= made
        BY <1>3
      <4> QED
        BY <1>2, <2>1, <3>1, <4>1, <4>3, <4>4 DEF Paid, Share
    <3>2. CASE c # b
      <4>1. c <= made /\ Paid(c, given[c])
        BY <1>1, <2>2, <3>2 DEF Gives
      <4> QED
        BY <1>2, <1>8, <2>2, <3>2, <4>1 DEF Paid, Share
    <3> QED
      BY <3>1, <3>2
  <2>4. ASSUME NEW k \in Key PROVE granted'[k] <= Cardinality(Slots(owned[k], g))
    <3>1. \A c \in 1..MaxBuckets : /\ g[c] \in Nat
                                   /\ given[c] <= g[c] /\ g[c] <= given[c] + 1
      <4> SUFFICES ASSUME NEW c \in 1..MaxBuckets
                   PROVE  g[c] \in Nat /\ given[c] <= g[c] /\ g[c] <= given[c] + 1
        OBVIOUS
      <4>1. given[c] \in Nat
        BY <1>1 DEF Gives
      <4> QED
        BY <2>2, <4>1
    <3>2. IsFiniteSet(owned[k]) /\ owned[k] \subseteq 1..MaxBuckets
      <4>1. IsFiniteSet(owned[k]) /\ owned[k] \subseteq 1..made /\ made \in 0..MaxBuckets
        BY <1>1, LedgerBounds DEF Types, MemoryTypes
      <4> QED
        BY <4>1, Constants
    <3>3. /\ IsFiniteSet(Slots(owned[k], g)) /\ Cardinality(Slots(owned[k], g)) \in Nat
          /\ Cardinality(Slots(owned[k], given)) \in Nat
          /\ Cardinality(Slots(owned[k], given)) <= Cardinality(Slots(owned[k], g))
      BY <1>1, <3>1, <3>2, LedgerSlots
    <3>4. granted[k] <= Cardinality(Slots(owned[k], given)) /\ granted[k] \in Nat
      BY <1>1, <1>4
    <3>5. CASE k # key
      BY <1>4, <2>1, <3>3, <3>4, <3>5
    <3>6. CASE k = key
      <4>1. PICK slot : slot = <<b, given[b] + 1>>
        OBVIOUS
      <4>2. slot \in Slots(owned[k], g)
        BY <1>3, <1>4, <2>2, <3>6, <4>1 DEF Slots
      <4>3. slot \notin Slots(owned[k], given)
        BY <1>4, <4>1 DEF Slots
      <4>4. Slots(owned[k], given) \in SUBSET Slots(owned[k], g)
        <5>1. \A c \in owned[k] : given[c] \in Nat /\ g[c] \in Nat /\ given[c] <= g[c]
          BY <1>1, <3>1, <3>2 DEF Gives
        <5> QED
          BY <5>1 DEF Slots
      <4>5. Cardinality(Slots(owned[k], given)) # Cardinality(Slots(owned[k], g))
        BY <3>3, <4>2, <4>3, <4>4, FS_Subset
      <4>6. granted'[k] = granted[k] + 1
        BY <1>4, <2>1, <3>6
      <4> QED
        BY <3>3, <3>4, <4>5, <4>6
    <3> QED
      BY <3>5, <3>6
  <2> QED
    BY <1>9, <2>3, <2>4 DEF Ledger, Slots
<1> QED
  BY <1>10, <1>11

LEMMA CleanUpLedger ==
  ASSUME Types, NEW owned, NEW given, Ledger(owned, given), CleanUp
  PROVE  Ledger(owned, given)'
<1>1. /\ UNCHANGED <<made, bucket, mark, call, granted>> /\ removed' = removed + 1
      /\ \A k \in Key : table'[k] = 0 \/ table'[k] = table[k]
  BY DEF CleanUp
<1>2. Gives(given)'
  BY <1>1, LedgerKept DEF Ledger
<1>3. Owns(owned)'
  <2>1. ASSUME NEW k \in Key
        PROVE  Cardinality(owned[k]) <= removed' + (IF table'[k] = 0 THEN 0 ELSE 1)
    <3>1. IsFiniteSet(owned[k])
      BY LedgerBounds DEF Ledger
    <3>2. Cardinality(owned[k]) \in Nat /\ removed \in Nat
      BY <3>1, FS_CardinalityType DEF Types, MemoryTypes
    <3>3. Cardinality(owned[k]) <= removed + (IF table[k] = 0 THEN 0 ELSE 1)
      BY DEF Ledger, Owns
    <3> QED
      BY <1>1, <3>2, <3>3
  <2>2. \A k \in Key : table'[k] # 0 => table'[k] \in owned[k]
    BY <1>1 DEF Ledger, Owns
  <2> QED
    BY <1>1, <2>1, <2>2 DEF Ledger, Owns
<1> QED
  BY <1>1, <1>2, <1>3 DEF Ledger, Slots

LEMMA ObserveLedger ==
  ASSUME Types, NEW owned, NEW given, Ledger(owned, given), Observe
  PROVE  \E g : Ledger(owned, g)'
<1>0. PICK g : g = [b \in 1..MaxBuckets |-> 0]
  OBVIOUS
<1>1. UNCHANGED <<made, table, call, removed>> /\ \A k \in Key : granted'[k] = 0
  BY DEF Observe
<1>2. Owns(owned)'
  BY <1>1 DEF Ledger, Owns
<1>3. Gives(g)'
  BY <1>0 DEF Gives
<1>4. ASSUME NEW k \in Key PROVE granted'[k] <= Cardinality(Slots(owned[k], g))
  <2>1. IsFiniteSet(owned[k]) /\ owned[k] \subseteq 1..made /\ made \in 0..MaxBuckets
    BY LedgerBounds DEF Ledger, Types, MemoryTypes
  <2>2. \A b \in owned[k] : g[b] \in Nat /\ g[b] <= 0
    BY <1>0, <2>1, Constants
  <2>3. Cardinality(Slots(owned[k], g)) \in Nat
    <3>1. 0 \in Nat
      OBVIOUS
    <3> QED
      BY <2>1, <2>2, <3>1, SlotsBounded
  <2> QED
    BY <1>1, <2>3
<1> QED
  BY <1>2, <1>3, <1>4 DEF Ledger, Slots

LEMMA BucketInvInit == Init => BucketInv
<1> SUFFICES ASSUME Init PROVE \E owned, given : Ledger(owned, given)
  BY DEF BucketInv
<1>0. PICK owned, given : /\ owned = [k \in Key |-> {}]
                          /\ given = [b \in 1..MaxBuckets |-> 0]
  OBVIOUS
<1>1. Cardinality({}) = 0
  BY FS_EmptySet
<1>2. Owns(owned)
  BY <1>0, <1>1 DEF Init, Owns, Idle
<1>3. Gives(given)
  BY <1>0 DEF Gives
<1>4. ASSUME NEW k \in Key PROVE granted[k] <= Cardinality(Slots(owned[k], given))
  <2>1. Slots(owned[k], given) = {} /\ granted[k] = 0
    BY <1>0 DEF Init, Slots
  <2> QED
    BY <1>1, <2>1
<1> QED
  BY <1>2, <1>3, <1>4 DEF Ledger

LEMMA BucketInvNext == Types /\ BucketInv /\ [Next]_vars => BucketInv'
<1> SUFFICES ASSUME Types, BucketInv, [Next]_vars, mode' = "memory"
             PROVE  \E owned, given : Ledger(owned, given)'
  BY DEF BucketInv
<1>1. mode = "memory"
  BY DEF Next, Insert, Take, Lookup, RunScript, CleanUp, Tick, Observe, vars
<1>2. PICK owned, given : Ledger(owned, given)
  BY <1>1 DEF BucketInv
<1>3. CASE Tick \/ UNCHANGED vars
  <2>1. UNCHANGED <<made, bucket, mark, call, granted, table, removed>>
    BY <1>3 DEF Tick, vars
  <2>2. Gives(given)' /\ Owns(owned)'
    BY <1>2, <2>1, LedgerKept DEF Ledger, Owns
  <2> QED
    BY <1>2, <2>1, <2>2 DEF Ledger, Slots
<1>4. ASSUME NEW r \in Request, Insert(r) \/ Take(r) \/ \E k \in Key : Lookup(r, k)
      PROVE  \E o, g : Ledger(o, g)'
  BY <1>2, <1>4, InsertLedger, TakeLedger, LookupLedger
<1>5. CASE CleanUp \/ Observe
  BY <1>2, <1>5, CleanUpLedger, ObserveLedger
<1>6. ASSUME NEW k \in Key, NEW skew \in Skew, RunScript(k, skew) PROVE FALSE
  BY <1>1, <1>6 DEF RunScript
<1> QED
  BY <1>3, <1>4, <1>5, <1>6 DEF Next

\* In any interval a key's requests get no more than a full bucket and what the
\* begun seconds add, times one more than buckets were removed: although
\* requests race for the bucket, and some still hold one that was removed.
THEOREM KeysKeepRate == Spec => []KeysWithinRate
<1>1. Types /\ BucketInv => KeysWithinRate
  <2> SUFFICES ASSUME Types, BucketInv, mode = "memory", NEW k \in Key
               PROVE  granted[k] <= (removed + 1) * Share(now)
    BY DEF KeysWithinRate, Share
  <2>1. PICK owned, given : Ledger(owned, given)
    BY DEF BucketInv
  <2>2. /\ Share(now) \in Nat /\ IsFiniteSet(owned[k])
        /\ \A b \in owned[k] : given[b] \in Nat /\ given[b] <= Share(now)
    <3>1. /\ owned[k] \subseteq 1..made /\ made \in 0..MaxBuckets
          /\ IsFiniteSet(owned[k]) /\ Share(now) \in Nat
          /\ \A b \in 1..MaxBuckets : given[b] \in Nat /\ given[b] <= Share(now)
      BY <2>1, LedgerBounds DEF Ledger, Types, MemoryTypes
    <3>2. 1..made \subseteq 1..MaxBuckets
      BY <3>1, Constants
    <3> QED
      BY <3>1, <3>2
  <2>3. /\ Cardinality(Slots(owned[k], given)) \in Nat
        /\ Cardinality(Slots(owned[k], given)) <= Cardinality(owned[k]) * Share(now)
    BY <2>2, SlotsBounded
  <2>4. /\ Cardinality(owned[k]) \in Nat /\ removed \in Nat
        /\ Cardinality(owned[k]) <= removed + 1
    <3>1. Cardinality(owned[k]) <= removed + (IF table[k] = 0 THEN 0 ELSE 1)
      BY <2>1 DEF Ledger, Owns
    <3>2. Cardinality(owned[k]) \in Nat /\ removed \in Nat
      BY <2>2, FS_CardinalityType DEF Types, MemoryTypes
    <3> QED
      BY <3>1, <3>2
  <2>5. PICK c \in Nat, s \in Nat : c = Cardinality(owned[k]) /\ s = Share(now)
    BY <2>2, <2>4
  <2>6. c * s <= (removed + 1) * s /\ c * s \in Nat /\ (removed + 1) * s \in Nat
    <3>1. removed + 1 \in Int /\ c \in Int /\ c <= removed + 1
      BY <2>4, <2>5
    <3>2. s * c <= s * (removed + 1)
      BY <3>1, ProductGrows
    <3>3. s * c = c * s /\ s * (removed + 1) = (removed + 1) * s
      BY <2>4, Z3
    <3>4. c * s \in Nat /\ (removed + 1) * s \in Nat
      BY <2>4, Z3
    <3> QED
      BY <3>2, <3>3, <3>4
  <2>7. granted[k] <= Cardinality(Slots(owned[k], given)) /\ granted[k] \in Nat
    BY <2>1 DEF Ledger, Types, CountTypes
  <2>8. Cardinality(Slots(owned[k], given)) <= c * s
    BY <2>3, <2>5
  <2>9. granted[k] <= (removed + 1) * s
    BY <2>3, <2>6, <2>7, <2>8
  <2> QED
    BY <2>5, <2>9
<1> QED
  BY <1>1, InitTypes, NextTypes, BucketInvInit, BucketInvNext, PTL DEF Spec

-----------------------------------------------------------------------------
(* Coming back when told to *)

\* A bucket with a token, or one whose last refill is a second ago, has one.
LEMMA RefillReady ==
  ASSUME now \in Nat, NEW b \in Buckets, b.tokens >= 1 \/ b.last + Second <= now
  PROVE  Refill(b).tokens >= 1
<1> DEFINE n == (now - b.last) \div Second
           add == n * RefillRate
<1>1. b.last \in 0..now /\ b.tokens \in 0..Capacity /\ now - b.last \in Nat
  BY DEF Buckets
<1>2. n \in Nat
  <2>1. Second * 0 = 0
    BY Constants, Z3
  <2> QED
    BY <1>1, <2>1, Constants, Quotient, QuotientAbove
<1>3. b.last + Second <= now => 1 <= n
  <2> SUFFICES ASSUME b.last + Second <= now PROVE 1 <= n
    OBVIOUS
  <2>1. Second * 1 = Second
    BY Constants, Z3
  <2>2. now - b.last \in Int /\ Second * 1 <= now - b.last
    BY <1>1, <2>1, Constants
  <2> QED
    BY <2>2, Constants, QuotientAbove
<1>4. Refill(b) = IF add > 0 THEN [tokens |-> Min({Capacity, b.tokens + add}), last |-> now] ELSE b
  BY DEF Refill
<1> HIDE DEF n
<1>5. add \in Nat /\ (n > 0 => add > 0)
  BY <1>2, Constants, Z3
<1> HIDE DEF add
<1>6. CASE add > 0
  <2>1. Min({Capacity, b.tokens + add}) =
          IF Capacity <= b.tokens + add THEN Capacity ELSE b.tokens + add
    BY <1>1, <1>5, Constants, MinOfTwo
  <2>2. Refill(b).tokens = Min({Capacity, b.tokens + add})
    BY <1>4, <1>6
  <2> QED
    BY <1>1, <1>5, <1>6, <2>1, <2>2, Constants
<1>7. CASE ~(add > 0)
  <2>1. Refill(b) = b /\ ~(b.last + Second <= now)
    BY <1>2, <1>3, <1>4, <1>5, <1>7
  <2> QED
    BY <2>1
<1> QED
  BY <1>6, <1>7

\* In a process: a key uses the bucket in the table and those that its requests
\* hold, and no key uses another's.
Uses(k, b) ==
  \/ table[k] = b
  \/ \E r \in Request : call[r].pc = "take" /\ call[r].key = k /\ call[r].held = b
Apart == \A j, k \in Key, b \in 1..MaxBuckets : Uses(j, b) /\ Uses(k, b) => j = k

\* When the client may come back, each of them has a token or is due for one.
Ready(k) ==
  told[k] # None => \A b \in 1..MaxBuckets : Uses(k, b) =>
    bucket[b].tokens >= 1 \/ bucket[b].last + Second <= told[k]

ReadyInv == mode = "memory" => Apart /\ \A k \in Key : Ready(k)

\* A step that puts no bucket to a new use.
LEMMA FewerUses ==
  ASSUME Apart, \A k \in Key : Ready(k), UNCHANGED <<told, bucket>>,
         \A k \in Key, b \in 1..MaxBuckets : Uses(k, b)' => Uses(k, b)
  PROVE  Apart' /\ \A k \in Key : Ready(k)'
<1>1. Apart'
  BY DEF Apart
<1>2. ASSUME NEW k \in Key PROVE Ready(k)'
  BY DEF Ready
<1> QED
  BY <1>1, <1>2

LEMMA LookupReady ==
  ASSUME Types, Apart, \A k \in Key : Ready(k), NEW r \in Request, NEW j \in Key, Lookup(r, j)
  PROVE  Apart' /\ \A k \in Key : Ready(k)'
<1>1. /\ UNCHANGED <<told, bucket, table>>
      /\ \A q \in Request : q # r => call'[q] = call[q]
      /\ call'[r].pc = "take" => call'[r].key = j /\ call'[r].held = table[j]
  BY DEF Lookup, Types, CallTypes
<1>2. ASSUME NEW k \in Key, NEW b \in 1..MaxBuckets, Uses(k, b)' PROVE Uses(k, b)
  BY <1>1, <1>2 DEF Uses
<1> QED
  BY <1>1, <1>2, FewerUses

LEMMA InsertReady ==
  ASSUME Types, Apart, \A k \in Key : Ready(k), NEW r \in Request, Insert(r)
  PROVE  Apart' /\ \A k \in Key : Ready(k)'
<1>0. PICK key : key = call[r].key
  OBVIOUS
<1>1. key \in Key /\ told' = told /\ made \in 0..MaxBuckets
  BY <1>0 DEF Insert, Types, CallTypes, MemoryTypes, Locals, Idle
<1>2. CASE table[key] = 0 /\ NewBucket(r)
  <2>0. PICK new : new = made + 1
    OBVIOUS
  <2>1. /\ new \in 1..MaxBuckets
        /\ table' = [table EXCEPT ![key] = new]
        /\ bucket' = [bucket EXCEPT ![new] = [tokens |-> Capacity, last |-> now]]
        /\ \A q \in Request : q # r => call'[q] = call[q]
        /\ call'[r].key = key /\ call'[r].held = new
    BY <1>0, <1>1, <1>2, <2>0, Constants DEF NewBucket, Types, CallTypes
  <2>2. /\ bucket'[new].tokens = Capacity
        /\ \A b \in 1..MaxBuckets : b # new => bucket'[b] = bucket[b]
        /\ table'[key] = new /\ \A k \in Key : k # key => table'[k] = table[k]
    BY <1>1, <2>1 DEF Types, MemoryTypes
  \* The new bucket was nobody's.
  <2>3. ASSUME NEW k \in Key PROVE ~Uses(k, new)
    <3>1. table[k] \in 0..made /\ new \notin 0..made
      BY <1>1, <2>0 DEF Types, MemoryTypes
    <3>2. ASSUME NEW q \in Request, call[q].pc = "take" PROVE call[q].held \in 0..made
      BY <3>2 DEF Types, CallTypes, Locals, Idle
    <3> QED
      BY <3>1, <3>2 DEF Uses
  <2>4. ASSUME NEW k \in Key, NEW b \in 1..MaxBuckets, Uses(k, b)'
        PROVE  (b = new /\ k = key) \/ (b # new /\ Uses(k, b))
    <3>1. CASE table'[k] = b
      <4>1. CASE k = key
        BY <2>2, <3>1, <4>1
      <4>2. CASE k # key
        <5>1. Uses(k, b)
          BY <2>2, <3>1, <4>2 DEF Uses
        <5> QED
          BY <2>3, <5>1
      <4> QED
        BY <4>1, <4>2
    <3>2. ASSUME NEW q \in Request, call'[q].pc = "take" /\ call'[q].key = k /\ call'[q].held = b
          PROVE  (b = new /\ k = key) \/ (b # new /\ Uses(k, b))
      <4>1. CASE q = r
        BY <2>1, <3>2, <4>1
      <4>2. CASE q # r
        <5>1. Uses(k, b)
          BY <2>1, <3>2, <4>2 DEF Uses
        <5> QED
          BY <2>3, <5>1
      <4> QED
        BY <4>1, <4>2
    <3> QED
      BY <2>4, <3>1, <3>2 DEF Uses
  <2>5. Apart'
    <3> SUFFICES ASSUME NEW j \in Key, NEW k \in Key, NEW b \in 1..MaxBuckets,
                        Uses(j, b)', Uses(k, b)'
                 PROVE  j = k
      BY DEF Apart
    <3> QED
      BY <2>4 DEF Apart
  <2>6. ASSUME NEW k \in Key PROVE Ready(k)'
    <3> SUFFICES ASSUME told[k] # None, NEW b \in 1..MaxBuckets, Uses(k, b)'
                 PROVE  bucket'[b].tokens >= 1 \/ bucket'[b].last + Second <= told[k]
      BY <1>1 DEF Ready
    <3>1. CASE b = new
      BY <2>2, <3>1, Constants
    <3>2. CASE b # new
      <4>1. Uses(k, b) /\ bucket'[b] = bucket[b]
        BY <2>2, <2>4, <3>2
      <4> QED
        BY <4>1 DEF Ready
    <3> QED
      BY <3>1, <3>2
  <2> QED
    BY <2>5, <2>6
<1>3. CASE /\ table[key] # 0
           /\ call' = [call EXCEPT ![r].pc = "take", ![r].held = table[key]]
           /\ UNCHANGED <<bucket, made, table>>
  <2>1. /\ \A q \in Request : q # r => call'[q] = call[q]
        /\ call'[r].key = key /\ call'[r].held = table[key]
    BY <1>0, <1>3 DEF Types, CallTypes
  <2>2. ASSUME NEW k \in Key, NEW b \in 1..MaxBuckets, Uses(k, b)' PROVE Uses(k, b)
    BY <1>3, <2>1, <2>2 DEF Uses
  <2> QED
    BY <1>1, <1>3, <2>2, FewerUses
<1> QED
  BY <1>0, <1>2, <1>3 DEF Insert

\* A request that comes back in time finds a token; one that does not is told
\* a time at which each bucket of its key is due for one.
LEMMA TakeReady ==
  ASSUME Types, Apart, \A k \in Key : Ready(k), NEW r \in Request, Take(r)
  PROVE  /\ Apart' /\ \A k \in Key : Ready(k)'
         /\ \A k \in Key : told[k] # None /\ now >= told[k] => told'[k] \in {None, told[k]}
<1>0. PICK key, b, full :
        key = call[r].key /\ b = call[r].held /\ full = Refill(bucket[call[r].held])
  OBVIOUS
<1>1. /\ call[r].pc = "take"
      /\ bucket' = [bucket EXCEPT ![b] =
           IF full.tokens >= 1 THEN [full EXCEPT !.tokens = @ - 1] ELSE full]
      /\ told' = [told EXCEPT ![key] = IF full.tokens >= 1 THEN None ELSE now + 1 * Second]
      /\ call' = [call EXCEPT ![r] = Idle]
      /\ UNCHANGED <<mode, now, made, table>>
  BY <1>0 DEF Take, Answer
<1>2. /\ key \in Key /\ b \in 1..MaxBuckets /\ bucket[b] \in Buckets /\ Uses(key, b)
      /\ now \in Nat /\ told \in [Key -> Nat \cup {None}] /\ 1 * Second = Second
  <2>1. /\ call[r] \in [pc : {"insert", "take"}, key : Key, held : 0..made]
        /\ call[r].held # 0 /\ made \in 0..MaxBuckets
    BY <1>1 DEF Types, CallTypes, MemoryTypes, Locals, Idle
  <2>2. b \in 1..MaxBuckets
    BY <1>0, <2>1, Constants
  <2>3. bucket[b] \in Buckets
    BY <2>2 DEF Types, MemoryTypes
  <2>4. key \in Key /\ Uses(key, b)
    BY <1>0, <1>1, <2>1 DEF Uses
  <2>5. now \in Nat /\ told \in [Key -> Nat \cup {None}]
    BY DEF Types, CountTypes
  <2>6. 1 * Second = Second
    BY Constants, Z3
  <2> QED
    BY <2>2, <2>3, <2>4, <2>5, <2>6
<1>3. ASSUME NEW k \in Key, NEW c \in 1..MaxBuckets, Uses(k, c)' PROVE Uses(k, c)
  <2>1. \A q \in Request : call'[q].pc = "take" => call'[q] = call[q]
    BY <1>1 DEF Types, CallTypes, Idle
  <2> QED
    BY <1>1, <1>3, <2>1 DEF Uses
<1>4. Apart'
  BY <1>3 DEF Apart
<1>5. ASSUME NEW k \in Key PROVE Ready(k)'
  <2> SUFFICES ASSUME told'[k] # None, NEW c \in 1..MaxBuckets, Uses(k, c)'
               PROVE  bucket'[c].tokens >= 1 \/ bucket'[c].last + Second <= told'[k]
    BY DEF Ready
  <2>1. CASE k # key
    <3>1. Uses(k, c) /\ c # b
      BY <1>2, <1>3, <2>1 DEF Apart
    <3>2. bucket'[c] = bucket[c] /\ told'[k] = told[k]
      BY <1>1, <1>2, <2>1, <3>1 DEF Types, MemoryTypes
    <3> QED
      BY <3>1, <3>2 DEF Ready
  <2>2. CASE k = key
    <3>1. told'[k] = now + Second
      BY <1>1, <1>2, <2>2
    <3>2. bucket'[c].last \in 0..now
      <4>1. Types'
        BY TakeTypes
      <4> QED
        BY <1>1, <4>1 DEF Types, MemoryTypes, Buckets
    <3> QED
      BY <1>2, <3>1, <3>2, Constants
  <2> QED
    BY <2>1, <2>2
<1>6. ASSUME NEW k \in Key, told[k] # None, now >= told[k] PROVE told'[k] \in {None, told[k]}
  <2>1. CASE k # key
    BY <1>1, <1>2, <2>1
  <2>2. CASE k = key
    <3>1. bucket[b].tokens >= 1 \/ bucket[b].last + Second <= told[k]
      BY <1>2, <1>6, <2>2 DEF Ready
    <3>2. bucket[b].last \in Nat /\ told[k] \in Nat
      BY <1>2, <1>6 DEF Buckets
    <3>3. bucket[b].tokens >= 1 \/ bucket[b].last + Second <= now
      BY <1>2, <1>6, <3>1, <3>2, Constants
    <3>4. full.tokens >= 1
      BY <1>0, <1>2, <3>3, RefillReady
    <3> QED
      BY <1>1, <1>2, <2>2, <3>4
  <2> QED
    BY <2>1, <2>2
<1> QED
  BY <1>4, <1>5, <1>6

LEMMA ReadyInvInit == Init => ReadyInv
<1> SUFFICES ASSUME Init PROVE Apart /\ \A k \in Key : Ready(k)
  BY DEF ReadyInv
<1>1. \A k \in Key, b \in 1..MaxBuckets : ~Uses(k, b)
  BY DEF Init, Uses, Idle
<1> QED
  BY <1>1 DEF Apart, Ready

LEMMA ReadyInvNext == Types /\ ReadyInv /\ [Next]_vars => ReadyInv'
<1> SUFFICES ASSUME Types, ReadyInv, [Next]_vars, mode' = "memory"
             PROVE  Apart' /\ \A k \in Key : Ready(k)'
  BY DEF ReadyInv
<1>1. mode = "memory"
  BY DEF Next, Insert, Take, Lookup, RunScript, CleanUp, Tick, Observe, vars
<1>2. Apart /\ \A k \in Key : Ready(k)
  BY <1>1 DEF ReadyInv
<1>3. CASE Tick \/ Observe \/ CleanUp \/ UNCHANGED vars
  <2>1. /\ UNCHANGED <<told, bucket, call>>
        /\ \A k \in Key : table'[k] = 0 \/ table'[k] = table[k]
    BY <1>3 DEF Tick, Observe, CleanUp, vars
  <2>2. ASSUME NEW k \in Key, NEW b \in 1..MaxBuckets, Uses(k, b)' PROVE Uses(k, b)
    BY <2>1, <2>2 DEF Uses
  <2> QED
    BY <1>2, <2>1, <2>2, FewerUses
<1>4. ASSUME NEW r \in Request, Insert(r) \/ Take(r) \/ \E k \in Key : Lookup(r, k)
      PROVE  Apart' /\ \A k \in Key : Ready(k)'
  BY <1>2, <1>4, InsertReady, TakeReady, LookupReady
<1>5. ASSUME NEW k \in Key, NEW skew \in Skew, RunScript(k, skew) PROVE FALSE
  BY <1>1, <1>5 DEF RunScript
<1> QED
  BY <1>3, <1>4, <1>5 DEF Next

\* In Redis: seconds that rounding takes from what a client is told, and those
\* that a bucket can be in debt, both with the clocks' difference.
Rounding == (Max(Skew) + 2 * Second - 2) \div Second
Debt == (Max(Skew) + Second - 1) \div Second

\* What is left of a window without them is enough for a token.  A minute and
\* five requests, the least the middleware asks for, allow for clocks that are
\* ahead by 23 seconds.
ClocksClose == (Window - Rounding - Debt) * Limit >= Window

LEMMA RoundingTypes ==
  /\ Rounding \in Int /\ Debt \in Int /\ 0 <= Rounding
  /\ Max(Skew) \in Nat
<1>1. Max(Skew) \in Nat
  BY MostSkew
<1>2. Max(Skew) + 2 * Second - 2 \in Int /\ Max(Skew) + Second - 1 \in Int
  BY <1>1, Constants
<1>3. Rounding \in Int /\ Debt \in Int
  BY <1>2, Constants, Quotient DEF Rounding, Debt
<1>4. 0 <= Rounding
  <2>1. Second * 0 = 0
    BY Constants, Z3
  <2>2. Second * 0 <= Max(Skew) + 2 * Second - 2
    BY <1>1, <2>1, Constants
  <2> QED
    BY <1>2, <2>2, Constants, QuotientAbove DEF Rounding
<1> QED
  BY <1>1, <1>3, <1>4

LEMMA CloseAgree == ClocksClose => ClocksAgree
<1> SUFFICES ASSUME ClocksClose, NEW skew \in Skew PROVE skew <= Window * Second
  BY DEF ClocksAgree
<1>1. skew \in Nat /\ skew <= Max(Skew) /\ Max(Skew) \in Nat
  BY MostSkew, Constants
<1>2. Debt < Window
  <2>1. SUFFICES ASSUME Window <= Debt PROVE FALSE
    BY RoundingTypes, Constants
  <2>2. PICK d \in Int : d = Window - Rounding - Debt /\ d <= 0
    BY <2>1, RoundingTypes, Constants
  <2>3. Limit * d <= Limit * 0 /\ Limit * d \in Int
    BY <2>2, Constants, ProductGrows
  <2>4. Limit * 0 = 0 /\ Limit * d = d * Limit
    BY Constants, <2>2, Z3
  <2>5. d * Limit >= Window
    BY <2>2 DEF ClocksClose
  <2> QED
    BY <2>3, <2>4, <2>5, Constants
<1>3. Max(Skew) <= Window * Second
  <2>1. Max(Skew) + Second - 1 < Second * Debt + Second /\ Second * Debt \in Int
    <3>1. Max(Skew) + Second - 1 \in Int
      BY <1>1, Constants
    <3>2. Max(Skew) + Second - 1 < Second * Debt + Second
      BY <3>1, Constants, Quotient DEF Debt
    <3> QED
      BY <3>2, RoundingTypes, Constants, Z3
  <2>2. Second * Debt <= Second * (Window - 1) /\ Second * (Window - 1) \in Int
    <3>1. Window - 1 \in Int /\ Debt <= Window - 1
      BY <1>2, RoundingTypes, Constants
    <3> QED
      BY <3>1, RoundingTypes, Constants, ProductGrows
  <2>3. Second * (Window - 1) = Window * Second - Second /\ Window * Second \in Int
    BY Constants, Z3
  <2> QED
    BY <1>1, <2>1, <2>2, <2>3, Constants
<1> QED
  BY <1>1, <1>3, LifetimeTicks

\* Who waits as long as the script says comes back, rounding apart, when the
\* bucket is a window old.
LEMMA ComesBack ==
  ASSUME NEW n \in Nat, NEW skew \in Skew, NEW stamp \in Nat, NEW wait \in Nat,
         wait >= ((stamp + Window) * Second - (n + skew)) \div Second
  PROVE  stamp + Window - Rounding <= SecondOf(n + wait * Second)
<1>1. skew \in Nat /\ skew <= Max(Skew) /\ Max(Skew) \in Nat
  BY MostSkew, Constants
<1>2. PICK q \in Int, x \in Int :
        /\ x = (stamp + Window) * Second - (n + skew)
        /\ q = x \div Second /\ q <= wait
        /\ x < Second * q + Second /\ Second * q \in Int
  <2>1. (stamp + Window) * Second \in Int
    BY Constants, Z3
  <2>2. PICK x \in Int : x = (stamp + Window) * Second - (n + skew)
    BY <1>1, <2>1
  <2>3. PICK q \in Int : q = x \div Second /\ x < Second * q + Second
    BY <2>2, Constants, Quotient
  <2>4. Second * q \in Int
    BY Constants, Z3
  <2> QED
    BY <2>2, <2>3, <2>4
<1>3. PICK p \in Int : p = SecondOf(n) /\ n < Second * p + Second /\ Second * p \in Int
  <2>1. PICK p \in Int : p = SecondOf(n) /\ n < Second * p + Second
    BY Constants, Quotient DEF SecondOf
  <2>2. Second * p \in Int
    BY Constants, Z3
  <2> QED
    BY <2>1, <2>2
<1>4. SecondOf(n + wait * Second) = p + wait
  <2>1. n \in Int /\ wait \in Int /\ Second \in Nat \ {0}
    BY Constants
  <2> QED
    BY <1>3, <2>1, QuotientShift, Zenon DEF SecondOf
<1>5. PICK e \in Int : e = stamp + Window - p - q
  BY Constants
<1>6. Second * e = (stamp + Window) * Second - Second * p - Second * q
      /\ Second * e \in Int /\ (stamp + Window) * Second \in Int
  BY <1>5, Constants, Z3
<1>7. Second * e <= Max(Skew) + 2 * Second - 2
  BY <1>1, <1>2, <1>3, <1>6, Constants
<1>8. e <= Rounding
  <2>1. Max(Skew) + 2 * Second - 2 \in Int
    BY <1>1, Constants
  <2> QED
    BY <1>7, <2>1, Constants, QuotientAbove DEF Rounding
<1> QED
  BY <1>2, <1>4, <1>5, <1>8, RoundingTypes, Constants

LEMMA DebtBounds ==
  ASSUME NEW w \in Nat
  PROVE  Latest(w) - SecondOf(w) <= Debt
<1>1. Max(Skew) \in Nat
  BY MostSkew
<1>2. /\ w + Max(Skew) \in Int /\ w \in Int
      /\ (w + Max(Skew)) - w + Second - 1 = Max(Skew) + Second - 1
  BY <1>1, Constants
<1>3. ((w + Max(Skew)) \div Second) - (w \div Second) <= ((w + Max(Skew)) - w + Second - 1) \div Second
  BY <1>2, Constants, QuotientGap
<1> QED
  BY <1>2, <1>3 DEF Latest, SecondOf, Debt

\* A stamp is no earlier than its tick, and what has grown in the bucket when its
\* client may come back is a token.
Recent(k) == store[k] # None => SecondOf(Written(k)) <= store[k].stamp
Promised(k) ==
  told[k] # None /\ store[k] # None =>
    Window <= store[k].tokens + (Grown(SecondOf(told[k])) - Grown(store[k].stamp))

PromiseInv == mode = "redis" => \A k \in Key : Recent(k) /\ Promised(k)

\* What grows from the stamp of a bucket until its client may come back.
LEMMA GrowsBack ==
  ASSUME ClocksClose, NEW stamp \in Int, NEW back \in Int, NEW w \in Nat, NEW tokens \in Int,
         SecondOf(w) <= stamp, stamp + Window - Rounding <= back,
         tokens + (Grown(Latest(w)) - Grown(stamp)) >= 0
  PROVE  Window <= tokens + (Grown(back) - Grown(stamp))
<1>1. PICK l \in Int, e \in Int : l = Latest(w) /\ e = SecondOf(w) /\ l - e <= Debt
  BY MostSkew, Stamps, DebtBounds
<1>2. PICK r \in Int, d \in Int : r = Rounding /\ d = Debt
  BY RoundingTypes
<1>3. (Window - r - d) * Limit >= Window
  BY <1>2 DEF ClocksClose
<1>4. /\ (Window - r - d) * Limit = Grown(stamp + Window - r) - Grown(stamp) - Grown(d)
      /\ Grown(e + d) = Grown(e) + Grown(d)
  BY Constants, Z3 DEF Grown
<1>5. /\ Grown(stamp + Window - r) <= Grown(back)
      /\ Grown(l) <= Grown(e + d)
      /\ Grown(e) <= Grown(stamp)
  <2>1. /\ stamp + Window - r \in Int /\ stamp + Window - r <= back
        /\ e + d \in Int /\ l <= e + d /\ e <= stamp
    BY <1>1, <1>2, Constants
  <2>2. \A x, y \in Int : x <= y => Grown(x) <= Grown(y)
    BY GrownTokens
  <2> QED
    BY <2>1, <2>2
<1>6. /\ Grown(stamp + Window - r) \in Int /\ Grown(back) \in Int /\ Grown(l) \in Int
      /\ Grown(e + d) \in Int /\ Grown(e) \in Int /\ Grown(stamp) \in Int /\ Grown(d) \in Int
  <2>1. stamp + Window - r \in Int /\ e + d \in Int
    BY Constants
  <2> QED
    BY <2>1, GrownTokens
<1> QED
  BY <1>1, <1>3, <1>4, <1>5, <1>6, Constants

\* The script refuses nobody who comes back when told to, and those it refuses
\* are told a time at which the bucket has a token.
LEMMA ScriptPromises ==
  ASSUME ClocksClose, Types, NEW k \in Key, NEW skew \in Skew, RunScript(k, skew),
         InDebt(k), Recent(k), Promised(k)
  PROVE  /\ Recent(k)' /\ Promised(k)'
         /\ told[k] # None /\ now >= told[k] => told'[k] = None
<1>0. PICK s \in Nat, old \in Int, stamp \in Nat, full \in Int, wait \in Nat :
        /\ s = (now + skew) \div Second
        /\ IF store[k] = None THEN old = Limit * Window /\ stamp = s
           ELSE old = store[k].tokens /\ stamp = store[k].stamp
        /\ full <= Limit * Window /\ full <= old + (s - stamp) * Limit
        /\ full = Limit * Window \/ full = old + (s - stamp) * Limit
        /\ store' = [store EXCEPT ![k] =
             [tokens |-> IF full >= Window THEN full - Window ELSE full,
              stamp |-> s, expires |-> now + Lifetime * Second]]
        /\ granted' = IF full >= Window THEN [granted EXCEPT ![k] = @ + 1] ELSE granted
        /\ told' = [told EXCEPT ![k] = IF full >= Window THEN None ELSE now + wait * Second]
        /\ wait >= ((stamp + Window) * Second - (now + skew)) \div Second
        /\ told' \in [Key -> Nat \cup {None}] /\ granted' \in [Key -> Nat]
  BY ScriptStores, Zenon
<1>1. /\ IF store[k] = None THEN old = Full /\ stamp = s
         ELSE old = store[k].tokens /\ stamp = store[k].stamp
      /\ full = Full \/ full = old + (s - stamp) * Limit
  BY <1>0 DEF Full
<1>2. now' = now /\ now \in Nat /\ told \in [Key -> Nat \cup {None}]
  BY DEF RunScript, Types, CountTypes
<1>3. /\ s \in Int /\ SecondOf(now) \in Int /\ SecondOf(now) <= s
  BY <1>0, <1>2, Stamps
<1>4. /\ store'[k].tokens = IF full >= Window THEN full - Window ELSE full
      /\ store'[k].stamp = s /\ Written(k)' = now
  <2> DEFINE left == IF full >= Window THEN full - Window ELSE full
             new == [tokens |-> left, stamp |-> s, expires |-> now + Lifetime * Second]
  <2>1. store'[k] = new
    BY <1>0 DEF Types, StoreTypes
  <2>2. now + Lifetime * Second \in Nat /\ Lifetime * Second \in Nat
    BY <1>2, LifetimeTicks
  <2>3. Written(k)' = (now + Lifetime * Second) - Lifetime * Second
    BY <2>1 DEF Written, Lifetime
  <2> QED
    BY <1>2, <2>1, <2>2, <2>3
<1>5. Recent(k)'
  BY <1>3, <1>4 DEF Recent, SecondOf
<1>6. Window <= Full /\ Full \in Nat
  <2>1. Window * 1 <= Window * Limit /\ Window * Limit \in Int
    BY Constants, ProductGrows
  <2>2. Window * 1 = Window /\ Window * Limit = Full
    BY Constants, Z3 DEF Full
  <2> QED
    BY <2>1, <2>2, GrownTokens
<1>7. /\ full = Full \/ full = old + (Grown(s) - Grown(stamp))
      /\ Grown(s) \in Int /\ Grown(stamp) \in Int
  <2>1. (s - stamp) * Limit = Grown(s) - Grown(stamp)
    BY GrownTokens
  <2>2. s \in Int /\ stamp \in Int
    OBVIOUS
  <2>3. Grown(s) \in Int /\ Grown(stamp) \in Int
    BY <2>2, GrownTokens
  <2> QED
    BY <1>1, <2>1, <2>3
\* Who comes back finds the bucket expired, or a token in it.
<1>8. ASSUME told[k] # None, now >= told[k] PROVE full >= Window
  <2>1. CASE full = Full
    BY <1>6, <2>1
  <2>2. CASE full = old + (Grown(s) - Grown(stamp)) /\ store[k] = None
    BY <1>1, <1>6, <1>7, <2>2
  <2>3. CASE full = old + (Grown(s) - Grown(stamp)) /\ store[k] # None
    <3>1. PICK t \in Nat : t = told[k] /\ t <= now
      BY <1>2, <1>8
    <3>2. SecondOf(t) \in Int /\ SecondOf(t) <= s
      BY <1>2, <1>3, <3>1, MostSkew, Stamps
    <3>3. Grown(SecondOf(t)) \in Int /\ Grown(SecondOf(t)) <= Grown(s)
      BY <1>3, <3>2, GrownTokens
    <3>4. Window <= old + (Grown(SecondOf(t)) - Grown(stamp))
      BY <1>1, <1>8, <2>3, <3>1 DEF Promised
    <3> QED
      BY <1>7, <2>3, <3>3, <3>4, Constants
  <2> QED
    BY <1>7, <2>1, <2>2, <2>3
<1>9. Promised(k)'
  <2>1. CASE full >= Window
    BY <1>0, <1>2, <2>1 DEF Promised
  <2>2. CASE ~(full >= Window)
    <3>1. store[k] # None /\ full = old + (Grown(s) - Grown(stamp))
      BY <1>1, <1>6, <1>7, <2>2
    <3>2. /\ old = store[k].tokens /\ stamp = store[k].stamp
          /\ Written(k) \in Nat /\ SecondOf(Written(k)) <= stamp
          /\ old + (Grown(Latest(Written(k))) - Grown(stamp)) >= 0
      BY <1>1, <1>2, <3>1 DEF InDebt, Recent
    <3>3. PICK back \in Int : /\ back = SecondOf(now + wait * Second)
                              /\ stamp + Window - Rounding <= back
      <4>1. stamp + Window - Rounding <= SecondOf(now + wait * Second)
        BY <1>0, <1>2, ComesBack
      <4>2. now + wait * Second \in Int
        BY <1>2, Constants, Z3
      <4>3. SecondOf(now + wait * Second) \in Int
        BY <4>2, Constants, Quotient DEF SecondOf
      <4> QED
        BY <4>1, <4>3
    <3>4. Window <= old + (Grown(back) - Grown(stamp))
      <4>1. PICK w \in Nat : w = Written(k)
        BY <3>2
      <4> QED
        BY <3>2, <3>3, <4>1, GrowsBack
    <3>5. Window <= full + (Grown(back) - Grown(s))
      <4>1. Grown(back) \in Int
        BY GrownTokens
      <4> QED
        BY <1>7, <3>1, <3>4, <4>1, Constants
    <3>6. told'[k] = now + wait * Second
      BY <1>0, <1>2, <2>2
    <3>7. Window <= store'[k].tokens + (Grown(SecondOf(told'[k])) - Grown(store'[k].stamp))
      BY <1>4, <2>2, <3>3, <3>5, <3>6
    <3> QED
      BY <3>7 DEF Promised, Grown, SecondOf
  <2> QED
    BY <2>1, <2>2
<1> QED
  BY <1>0, <1>2, <1>5, <1>8, <1>9

\* A step after which the bucket is as it was or has expired.
LEMMA PromiseKept ==
  ASSUME NEW k \in Key, Recent(k), Promised(k), told'[k] = told[k],
         store'[k] = store[k] \/ store'[k] = None
  PROVE  Recent(k)' /\ Promised(k)'
BY DEF Recent, Promised, Written, Lifetime, Grown, SecondOf

LEMMA PromiseInvNext ==
  ASSUME ClocksClose, Types, ScriptInv, PromiseInv, [Next]_vars
  PROVE  PromiseInv'
<1> SUFFICES ASSUME mode' = "redis", NEW k \in Key PROVE Recent(k)' /\ Promised(k)'
  BY DEF PromiseInv
<1>1. mode = "redis"
  BY DEF Next, Insert, Take, Lookup, RunScript, CleanUp, Tick, Observe, vars
<1>2. /\ \A r \in Request : call[r].pc = "idle"
      /\ InDebt(k) /\ Recent(k) /\ Promised(k)
  BY <1>1 DEF ScriptInv, PromiseInv
<1>3. ASSUME NEW j \in Key, NEW skew \in Skew, RunScript(j, skew)
      PROVE  Recent(k)' /\ Promised(k)'
  <2>1. CASE j = k
    BY <1>2, <1>3, <2>1, ScriptPromises
  <2>2. CASE j # k
    <3>1. told'[k] = told[k] /\ store'[k] = store[k]
      BY <1>3, <2>2 DEF RunScript, Answer, Types, StoreTypes, CountTypes
    <3> QED
      BY <1>2, <3>1, PromiseKept
  <2> QED
    BY <2>1, <2>2
<1>4. CASE Tick \/ Observe \/ UNCHANGED vars
  <2>1. told'[k] = told[k] /\ (store'[k] = store[k] \/ store'[k] = None)
    BY <1>4 DEF Tick, Observe, vars
  <2> QED
    BY <1>2, <2>1, PromiseKept
<1>5. CASE \/ CleanUp
           \/ \E r \in Request : Insert(r) \/ Take(r) \/ \E j \in Key : Lookup(r, j)
  BY <1>1, <1>2, <1>5 DEF CleanUp, Insert, Take, Lookup
<1> QED
  BY <1>3, <1>4, <1>5 DEF Next

\* A client that comes back when Retry-After told it to is let through, if nobody
\* has used its key meanwhile: in a process always, in Redis if clocks are close
\* enough that a token grows in what is left of the window.
THEOREM ComeBackLetThrough == ASSUME ClocksClose PROVE Spec => RetryAfterHonoured
<1> DEFINE Honoured(k) == told[k] # None /\ now >= told[k] => told'[k] \in {None, told[k]}
<1>1. Init => PromiseInv
  BY DEF Init, PromiseInv, Recent, Promised
<1>2. ASSUME Types, ScriptInv, PromiseInv, ReadyInv, [Next]_vars, NEW k \in Key
      PROVE  Honoured(k)
  <2>1. CASE UNCHANGED <<told>>
    BY <2>1
  <2>2. ASSUME NEW r \in Request, Take(r) PROVE Honoured(k)
    <3>1. mode = "memory"
      BY <1>2, <2>2 DEF Take, ScriptInv, Types, CountTypes
    <3> QED
      BY <1>2, <2>2, <3>1, TakeReady DEF ReadyInv
  <2>3. ASSUME NEW j \in Key, NEW skew \in Skew, RunScript(j, skew) PROVE Honoured(k)
    <3>1. mode = "redis"
      BY <2>3 DEF RunScript
    <3>2. CASE j = k
      BY <1>2, <2>3, <3>1, <3>2, ScriptPromises DEF ScriptInv, PromiseInv
    <3>3. CASE j # k
      BY <1>2, <2>3, <3>3 DEF RunScript, Answer, Types, CountTypes
    <3> QED
      BY <3>2, <3>3
  <2> QED
    BY <1>2, <2>1, <2>2, <2>3 DEF Next, Insert, Lookup, CleanUp, Tick, Observe, vars
<1>3. Types /\ ScriptInv /\ PromiseInv /\ ReadyInv /\ [Next]_vars =>
        [\A k \in Key : Honoured(k)]_vars
  BY <1>2
<1>4. Types /\ ScriptInv /\ PromiseInv /\ ReadyInv /\ [Next]_vars =>
        Types' /\ ScriptInv' /\ PromiseInv' /\ ReadyInv'
  BY NextTypes, ScriptInvNext, PromiseInvNext, ReadyInvNext, CloseAgree
<1>5. Init => Types /\ ScriptInv /\ PromiseInv /\ ReadyInv
  BY <1>1, InitTypes, ScriptInvInit, ReadyInvInit
<1> QED
  BY <1>3, <1>4, <1>5, PTL DEF Spec, RetryAfterHonoured
=============================================================================
