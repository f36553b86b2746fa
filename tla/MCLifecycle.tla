---------------------------- MODULE MCLifecycle -----------------------------
(***************************************************************************)
(* A client of the debug server, a silent one, and one nobody claims.      *)
(***************************************************************************)
EXTENDS Lifecycle, TLC

CONSTANTS c1, c2

MCClaims == c1 :> {debug, rpc} @@ c2 :> {}
MCFirst == c1 :> {debug} @@ c2 :> {}
=============================================================================
