----------------------------- MODULE AsyncCheck -----------------------------
(***************************************************************************)
(* The Check that AsyncWithContext of instrument/probe/health.go returns.  *)
(* The channel result, of capacity one, holds the latest result.  A        *)
(* goroutine runs the check at every tick, takes the old result out and    *)
(* puts the new one in; a caller takes the result out and puts it back.    *)
(* The check may be one that Timeout made (TimedCheck).                    *)
(*                                                                         *)
(* The channel is that of the Go runtime: a receiver that finds it empty   *)
(* joins a queue, and a send serves the head of the queue.                 *)
(***************************************************************************)
EXTENDS TimedCheck

CONSTANTS
  Callers,   \* goroutines that call the Check, again and again
  Update     \* the goroutine of Async, as a receiver of result

ASSUME AsyncAssumption ==
  /\ Update \notin Callers
  /\ 1 \in Calls /\ \A r \in Calls : \A i \in 1..r : i \in Calls

VARIABLES
  timed,   \* the check is wrapped by Timeout
  ctx,     \* the context is done
  tick,    \* a tick is in the ticker's channel
  upd,     \* goroutine: "check", "receive", "blocked", "send", "select", "ended"
  n,       \* number of its run of the check
  err,     \* what the check returned in update()
  result,  \* the buffer of the channel result
  recvq,   \* receivers blocked on it
  pc,      \* of a caller: "idle", "receive", "blocked", "send", "return"
  held     \* what a caller received

asyncVars == <<timed, ctx, tick, upd, n, err, result, recvq, pc, held>>
vars == <<timedVars, asyncVars>>

NoData == [run |-> 0, how |-> "nodata"]

(* Faults, substituted for a definition below.                             *)
ReceiveElseSkip ==        \* select { case <-result: default: }
  /\ upd = "receive"
  /\ result' = << >> /\ upd' = "send"
  /\ UNCHANGED <<timedVars, timed, ctx, tick, n, err, recvq, pc, held>>
ReturnData(p) ==          \* the caller waits until there is data
  /\ pc[p] = "return"
  /\ pc' = [pc EXCEPT ![p] = IF held[p] = NoData THEN "receive" ELSE "idle"]
  /\ UNCHANGED <<timedVars, timed, ctx, tick, upd, n, err, result, recvq, held>>
DoneBreaks ==             \* break leaves the select, not the loop
  /\ upd = "select" /\ ctx
  /\ upd' = "select"
  /\ UNCHANGED <<timedVars, timed, ctx, tick, n, err, result, recvq, pc, held>>

-----------------------------------------------------------------------------
\* result <- ErrNoData comes before the goroutine starts; its first update
\* does not wait for a tick.
Init ==
  /\ TimedInit
  /\ timed \in BOOLEAN /\ ctx = FALSE /\ tick = FALSE
  /\ upd = "check" /\ n = 1 /\ err = NoData
  /\ result = <<NoData>> /\ recvq = << >>
  /\ pc = [p \in Callers |-> "idle"]
  /\ held = [p \in Callers |-> NoData]

\* result <- v: to the first receiver that waits, else into the buffer.
send(v) ==
  IF recvq = << >> THEN
    /\ result' = Append(result, v)
    /\ UNCHANGED <<recvq, held>>
  ELSE
    /\ recvq' = Tail(recvq)
    /\ held' = IF Head(recvq) \in Callers THEN [held EXCEPT ![Head(recvq)] = v] ELSE held
    /\ UNCHANGED result
served(q) == recvq # << >> /\ Head(recvq) = q

-----------------------------------------------------------------------------
(* The goroutine.                                                          *)

\* The timed check is called.
CallCheck ==
  /\ upd = "check" /\ timed /\ Call(n)
  /\ UNCHANGED asyncVars

CheckReturned(how, run) ==
  /\ err' = [run |-> run, how |-> how]
  /\ upd' = "receive"
  /\ UNCHANGED <<timed, ctx, tick, n, result, recvq, pc, held>>

\* check() returns in update(): by itself, with an answer, or timed out.
PlainCheck ==
  upd = "check" /\ ~timed /\ CheckReturned("checked", n) /\ UNCHANGED timedVars
CheckAnswers ==
  upd = "check" /\ \E r \in Calls : Answer(n, r) /\ CheckReturned("checked", r)
CheckExpires ==
  upd = "check" /\ Expire(n) /\ CheckReturned("timedout", n)

\* <-result in update()
Receive ==
  /\ upd = "receive"
  /\ IF result # << >>
     THEN result' = << >> /\ upd' = "send" /\ UNCHANGED recvq
     ELSE recvq' = Append(recvq, Update) /\ upd' = "blocked" /\ UNCHANGED result
  /\ UNCHANGED <<timedVars, timed, ctx, tick, n, err, pc, held>>

\* result <- err; the first time, the ticker is made next.
SendNew ==
  /\ upd = "send"
  /\ send(err)
  /\ pc' = [p \in Callers |-> IF served(p) THEN "send" ELSE pc[p]]
  /\ upd' = "select"
  /\ UNCHANGED <<timedVars, timed, ctx, tick, n, err>>

\* The select takes either case when both are ready.
NextUpdate ==
  /\ upd = "select" /\ tick
  /\ n + 1 \in Calls
  /\ tick' = FALSE /\ n' = n + 1 /\ upd' = "check"
  /\ UNCHANGED <<timedVars, timed, ctx, err, result, recvq, pc, held>>
Done ==
  /\ upd = "select" /\ ctx
  /\ upd' = "ended"
  /\ UNCHANGED <<timedVars, timed, ctx, tick, n, err, result, recvq, pc, held>>

-----------------------------------------------------------------------------
(* The callers of the Check.                                               *)

Check(p) ==
  /\ pc[p] = "idle"
  /\ pc' = [pc EXCEPT ![p] = "receive"]
  /\ UNCHANGED <<timedVars, timed, ctx, tick, upd, n, err, result, recvq, held>>

\* err := <-result
Take(p) ==
  /\ pc[p] = "receive"
  /\ IF result # << >>
     THEN /\ result' = << >> /\ held' = [held EXCEPT ![p] = Head(result)]
          /\ pc' = [pc EXCEPT ![p] = "send"]
          /\ UNCHANGED recvq
     ELSE /\ recvq' = Append(recvq, p) /\ pc' = [pc EXCEPT ![p] = "blocked"]
          /\ UNCHANGED <<result, held>>
  /\ UNCHANGED <<timedVars, timed, ctx, tick, upd, n, err>>

\* result <- err
PutBack(p) ==
  /\ pc[p] = "send"
  /\ send(held[p])
  /\ pc' = [q \in Callers |-> IF q = p THEN "return"
                              ELSE IF served(q) THEN "send" ELSE pc[q]]
  /\ upd' = IF served(Update) THEN "send" ELSE upd
  /\ UNCHANGED <<timedVars, timed, ctx, tick, n, err>>

Return(p) ==
  /\ pc[p] = "return"
  /\ pc' = [pc EXCEPT ![p] = "idle"]
  /\ UNCHANGED <<timedVars, timed, ctx, tick, upd, n, err, result, recvq, held>>

-----------------------------------------------------------------------------
(* The clock, the context and the goroutines of Timeout.                   *)

Tick ==
  /\ ~tick /\ (n > 1 \/ upd = "select")
  /\ tick' = TRUE
  /\ UNCHANGED <<timedVars, timed, ctx, upd, n, err, result, recvq, pc, held>>

Cancel ==
  /\ ~ctx
  /\ ctx' = TRUE
  /\ UNCHANGED <<timedVars, timed, tick, upd, n, err, result, recvq, pc, held>>

Worker(r) == (Checked(r) \/ Send(r)) /\ UNCHANGED asyncVars

Goroutine == CheckAnswers \/ CheckExpires \/ CallCheck \/ Receive \/ SendNew

Next ==
  \/ Goroutine \/ PlainCheck \/ NextUpdate \/ Done
  \/ \E p \in Callers : Check(p) \/ Take(p) \/ PutBack(p) \/ Return(p)
  \/ Tick \/ Cancel
  \/ \E r \in Calls : Worker(r)

(***************************************************************************)
(* Goroutines that can run do, timers fire, and a select does not for ever *)
(* ignore a case that is ready.  The wrapped check need not return, nobody *)
(* need call, and ticks and cancellation need not come.                    *)
(***************************************************************************)
Fairness ==
  /\ WF_vars(Goroutine) /\ SF_vars(Done)
  /\ \A p \in Callers : WF_vars(Take(p)) /\ WF_vars(PutBack(p)) /\ WF_vars(Return(p))
  /\ \A r \in Calls : WF_vars(Send(r) /\ UNCHANGED asyncVars)

Spec == Init /\ [][Next]_vars /\ Fairness

-----------------------------------------------------------------------------
(* Correctness.                                                            *)

Holders == {p \in Callers : pc[p] = "send"} \cup (IF upd = "send" THEN {Update} ELSE {})

Typed ==
  /\ TimedType
  /\ timed \in BOOLEAN /\ ctx \in BOOLEAN /\ tick \in BOOLEAN
  /\ upd \in {"check", "receive", "blocked", "send", "select", "ended"}
  /\ n \in Calls
  /\ pc \in [Callers -> {"idle", "receive", "blocked", "send", "return"}]
  /\ recvq \in Seq(Callers \cup {Update})

\* Type invariant.  There is one result: it is in the channel or somebody who
\* took it out is about to put it back; so no send ever waits.
TypeOK ==
  /\ Typed
  /\ Len(result) <= 1
  /\ result # << >> => Holders = {} /\ recvq = << >>
  /\ result = << >> => \E h \in Holders : Holders = {h}

\* The register the callers see: the result in the channel, or in the hands of
\* whoever took it out.  An update takes effect when the old result is out.
Latest ==
  IF result # << >> THEN Head(result)
  ELSE IF upd = "send" THEN err
  ELSE held[CHOOSE p \in Callers : pc[p] = "send"]
Phase(p) == CASE pc[p] = "idle"                   -> "idle"
              [] pc[p] \in {"receive", "blocked"} -> "called"
              [] OTHER                            -> "read"
Register == INSTANCE LatestResult WITH
  latest <- Latest, phase <- [p \in Callers |-> Phase(p)], value <- held

\* Refinement: taking the result out and putting it back ("peek at the head of
\* the channel, then put it back") is an atomic read of the latest result, with
\* any number of callers: no run is lost, repeated, or answered by the late
\* goroutine of an earlier run that timed out.
AtomicRegister == Register!Spec

\* Liveness: a call of the Check returns, whether or not the wrapped check ever
\* does and whether or not the context is done.
ChecksReturn == \A p \in Callers : []<>(pc[p] = "idle")

\* Liveness: the goroutine ends after its context is done, unless it is in a
\* check that has no timeout.
UpdaterEnds == []<>(~ctx \/ upd = "ended" \/ (upd = "check" /\ ~timed))

\* Liveness: the goroutine of a timed check whose result came too late gets rid
\* of it and ends; timeouts leave nothing behind but checks that hang.
LateAnswersEnd == \A r \in Calls : []<>(work[r] # "sending")
=============================================================================
