---------------------------- MODULE MCAsyncCheck ----------------------------
(***************************************************************************)
(* AsyncCheck with two callers and three runs of the check.  With no tick  *)
(* left the goroutine waits at its select: that is not a deadlock, a       *)
(* caller can always call.                                                 *)
(***************************************************************************)
EXTENDS AsyncCheck

MCCalls == 1..3

CONSTANTS c1, c2
MCCallers == {c1, c2}
=============================================================================
