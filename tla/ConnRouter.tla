----------------------------- MODULE ConnRouter -----------------------------
(***************************************************************************)
(* What the multiplexer of rpc/mux.go promises, without goroutines,        *)
(* channels or matchers.  A connection it takes is held until it is        *)
(* delivered to one listener or closed, once.  It goes to the first        *)
(* listener that claims it; when a read fails while it is sniffed (cut) it *)
(* may go to any listener that claims it, or be closed.  A connection      *)
(* somebody claims is not closed otherwise while the router is up.  When   *)
(* the router is down it holds nothing.                                    *)
(***************************************************************************)
CONSTANTS
  Conns,    \* connections
  Claims,   \* Claims[c]: the listeners that claim c
  First     \* First[c]: the claiming listeners c may go to undisturbed

VARIABLES fate, to, cut, phase
rvars == <<fate, to, cut, phase>>

Init ==
  /\ fate = [c \in Conns |-> "outside"]
  /\ to = [c \in Conns |-> 0]
  /\ cut = [c \in Conns |-> FALSE]
  /\ phase = "up"

Take(c) ==
  /\ phase = "up" /\ fate[c] = "outside"
  /\ fate' = [fate EXCEPT ![c] = "held"]
  /\ UNCHANGED <<to, cut, phase>>

Cut(c) ==
  /\ fate[c] = "held" /\ phase # "down"
  /\ cut' = [cut EXCEPT ![c] = TRUE]
  /\ UNCHANGED <<fate, to, phase>>

Deliver(c, l) ==
  /\ fate[c] = "held" /\ phase # "down"
  /\ l \in IF cut[c] THEN Claims[c] ELSE First[c]
  /\ fate' = [fate EXCEPT ![c] = "delivered"]
  /\ to' = [to EXCEPT ![c] = l]
  /\ UNCHANGED <<cut, phase>>

Drop(c) ==
  /\ fate[c] = "held" /\ phase # "down"
  /\ phase = "stopping" \/ cut[c] \/ First[c] = {}
  /\ fate' = [fate EXCEPT ![c] = "closed"]
  /\ UNCHANGED <<to, cut, phase>>

Stop ==
  /\ phase = "up"
  /\ phase' = "stopping"
  /\ UNCHANGED <<fate, to, cut>>

Finish ==
  /\ phase = "stopping"
  /\ \A c \in Conns : fate[c] # "held"
  /\ phase' = "down"
  /\ UNCHANGED <<fate, to, cut>>

Next ==
  \/ \E c \in Conns : \/ Take(c) \/ Cut(c) \/ Drop(c)
                      \/ \E l \in Claims[c] : Deliver(c, l)
  \/ Stop \/ Finish

Spec == Init /\ [][Next]_rvars
=============================================================================
