----------------------------- MODULE TimedCheck -----------------------------
(***************************************************************************)
(* The Check that Timeout of instrument/probe/health.go returns.  Every    *)
(* call makes a channel of its own and starts a goroutine that runs the    *)
(* wrapped check and sends the result; the call waits for the result or    *)
(* for the timer.  After a timeout the goroutine goes on alone and sends   *)
(* its late result into the buffer of a channel nobody reads.              *)
(* A result is named by the call whose goroutine found it.                 *)
(***************************************************************************)
EXTENDS Naturals, Sequences

CONSTANT Calls   \* calls of the timed check, in the order they are made

ASSUME TimedAssumption == Calls \subseteq Nat \ {0}

VARIABLES
  call,   \* "none", "waiting", then "answered" or "timedout"
  work,   \* goroutine of a call: "none", "checking", "sending", "ended"
  c       \* the channels, of capacity one

timedVars == <<call, work, c>>

(* Faults, substituted for a definition below.                             *)
sharedChannel(r) == 1                               \* one channel for all calls
rendezvous(r) == c[r] = << >> /\ call[r] = "waiting"  \* an unbuffered channel

TimedInit ==
  /\ call = [r \in Calls |-> "none"]
  /\ work = [r \in Calls |-> "none"]
  /\ c = [r \in Calls |-> << >>]

\* The channel call r makes.
channel(r) == r
canSend(r) == c[channel(r)] = << >>

Call(r) ==
  /\ call[r] = "none"
  /\ call' = [call EXCEPT ![r] = "waiting"]
  /\ work' = [work EXCEPT ![r] = "checking"]
  /\ UNCHANGED c

\* The wrapped check returns, if ever.
Checked(r) ==
  /\ work[r] = "checking"
  /\ work' = [work EXCEPT ![r] = "sending"]
  /\ UNCHANGED <<call, c>>

Send(r) ==
  /\ work[r] = "sending" /\ canSend(r)
  /\ c' = [c EXCEPT ![channel(r)] = <<r>>]
  /\ work' = [work EXCEPT ![r] = "ended"]
  /\ UNCHANGED call

\* case err := <-c: the call returns the result of call from.
Answer(r, from) ==
  /\ call[r] = "waiting" /\ c[channel(r)] = <<from>>
  /\ call' = [call EXCEPT ![r] = "answered"]
  /\ c' = [c EXCEPT ![channel(r)] = << >>]
  /\ UNCHANGED work

\* case <-time.After(timeout)
Expire(r) ==
  /\ call[r] = "waiting"
  /\ call' = [call EXCEPT ![r] = "timedout"]
  /\ UNCHANGED <<work, c>>

TimedType ==
  /\ call \in [Calls -> {"none", "waiting", "answered", "timedout"}]
  /\ work \in [Calls -> {"none", "checking", "sending", "ended"}]
  /\ c \in [Calls -> {<< >>} \cup {<<r>> : r \in Calls}]
=============================================================================
