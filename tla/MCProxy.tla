------------------------------ MODULE MCProxy ------------------------------
(* Instances of Proxy for TLC. *)
EXTENDS Proxy, TLC

CONSTANTS r1, r2, r3

\* Requests of two commands, one command and none.
MCRequests == {r1, r2, r3}
MCCmds == r1 :> 2 @@ r2 :> 1 @@ r3 :> 0
=============================================================================
