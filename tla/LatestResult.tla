---------------------------- MODULE LatestResult ----------------------------
(***************************************************************************)
(* What a Check made by Async promises to its callers: a register that     *)
(* holds the result of the latest run, every run written once and in       *)
(* order, and every call reads the register at some moment between its     *)
(* beginning and its end.                                                  *)
(***************************************************************************)
EXTENDS Naturals

CONSTANT Callers

VARIABLES
  latest,   \* number of the latest run, and how it ended
  phase,    \* of a caller: "idle", "called", "read"
  value     \* what a caller has read

lvars == <<latest, phase, value>>

NoData == [run |-> 0, how |-> "nodata"]

Init ==
  /\ latest = NoData
  /\ phase = [p \in Callers |-> "idle"]
  /\ value = [p \in Callers |-> NoData]

Write(how) ==
  /\ latest' = [run |-> latest.run + 1, how |-> how]
  /\ UNCHANGED <<phase, value>>

Begin(p) ==
  /\ phase[p] = "idle"
  /\ phase' = [phase EXCEPT ![p] = "called"]
  /\ UNCHANGED <<latest, value>>

Read(p) ==
  /\ phase[p] = "called"
  /\ phase' = [phase EXCEPT ![p] = "read"]
  /\ value' = [value EXCEPT ![p] = latest]
  /\ UNCHANGED latest

End(p) ==
  /\ phase[p] = "read"
  /\ phase' = [phase EXCEPT ![p] = "idle"]
  /\ UNCHANGED <<latest, value>>

Next ==
  \/ \E how \in {"checked", "timedout"} : Write(how)
  \/ \E p \in Callers : Begin(p) \/ Read(p) \/ End(p)

Spec == Init /\ [][Next]_lvars
=============================================================================
