------------------------------- MODULE Clock -------------------------------
(***************************************************************************)
(* The true time, in ticks, which the rate limiters read by time.Now().    *)
(* Each of them says in a Tick action of its own how long it goes on.      *)
(***************************************************************************)
EXTENDS Integers

VARIABLE now
=============================================================================
