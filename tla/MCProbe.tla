------------------------------ MODULE MCProbe -------------------------------
(***************************************************************************)
(* Two checks of one name, one in each map, and a third; one of them may   *)
(* hang and one always fails.  Two probers and one scraper.                *)
(***************************************************************************)
EXTENDS Probe, TLC

CONSTANTS a1, a2, a3, x, y

MCMapOf == a1 :> "liveness" @@ a2 :> "readiness" @@ a3 :> "readiness"
MCNameOf == a1 :> x @@ a2 :> x @@ a3 :> y
MCCheckOf == a1 :> DNSResolveCheck(1) @@ a2 :> HTTPGetCheck(0) @@ a3 :> DatabasePingCheck(0)
=============================================================================
