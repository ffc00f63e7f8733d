-------------------------------- MODULE MCHub --------------------------------
(***************************************************************************)
(* Two users; the first connects twice.                                    *)
(***************************************************************************)
EXTENDS Hub, TLC

CONSTANTS u1, u2, c1, c2, c3

MCUserOf == (c1 :> u1) @@ (c2 :> u1) @@ (c3 :> u2)
=============================================================================
