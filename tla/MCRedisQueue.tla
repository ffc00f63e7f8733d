----------------------------- MODULE MCRedisQueue -----------------------------
(***************************************************************************)
(* A retried first task has a lower priority than the second.  The clock   *)
(* of the second goroutine is a second ahead.                              *)
(***************************************************************************)
EXTENDS RedisQueue, TLC

CONSTANTS p1, p2

MCPriorities == (1 :> 8) @@ (2 :> 5)
MCAhead == (p1 :> 0) @@ (p2 :> 1)
MCTimeout == (p1 :> 0) @@ (p2 :> 1)
=============================================================================
