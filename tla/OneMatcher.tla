----------------------------- MODULE OneMatcher -----------------------------
(***************************************************************************)
(* What a lock with an expiry can promise of the comment in                *)
(* handleEventWithLock: "동시에 하나의 인스턴스만 매칭 처리", only one        *)
(* instance matches at a time.  Instances start matching, stop, and may    *)
(* die while matching.  One that matches past the time of its lock is late *)
(* and keeps nobody out any more; all the others keep everybody out.       *)
(***************************************************************************)
CONSTANT Instance

VARIABLES
  matching,   \* the instances inside the matching handler
  late        \* those of them that have outlived their lock

Init == matching = {} /\ late = {}

Start(i) ==
  /\ matching \subseteq late
  /\ i \notin matching
  /\ matching' = matching \cup {i}
  /\ UNCHANGED late

Overrun(i) ==
  /\ i \in matching \ late
  /\ late' = late \cup {i}
  /\ UNCHANGED matching

Stop(i) ==
  /\ i \in matching
  /\ matching' = matching \ {i}
  /\ late' = late \ {i}

Next == \E i \in Instance : Start(i) \/ Overrun(i) \/ Stop(i)

Spec == Init /\ [][Next]_<<matching, late>>
=============================================================================
