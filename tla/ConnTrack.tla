----------------------------- MODULE ConnTrack -----------------------------
(***************************************************************************)
(* Connection tracking: the tracked dialer and listener of rpc/mux.go and  *)
(* of instrument/metrics, which have the same code.  A tracked connection  *)
(* carries a trace event (x/net/trace) that lives from the dial or accept  *)
(* to the first Close, and counters say what happened under which name.    *)
(* Any goroutine may call Close, several may at once.  WrapListener and    *)
(* WrapDialer of instrument/metrics register the global counters in a      *)
(* goroutine of their own; a panic there ends the program.                 *)
(***************************************************************************)
EXTENDS Naturals, FiniteSets

CONSTANTS
  Clients,    \* connections to be dialed
  Servers,    \* connections to be accepted
  Names,      \* names of dialers and listeners, "default" among them
  OptFuncs,   \* OptFuncs[c]: the options of the dialer or listener of c
  WithName,   \* WithName[c]: the name given by option, or NoName
  CtxName,    \* CtxName[c]: the name in the context of the dial, or NoName
  NoName,
  Closers,    \* calls of Close
  Wraps,      \* calls of WrapListener and WrapDialer, all on one registry
  WrapKind,   \* WrapKind[w]: "listener" or "dialer"
  NoOne

Conns == Clients \cup Servers

ASSUME TrackAssumption ==
  /\ IsFiniteSet(Conns) /\ Clients \cap Servers = {}
  /\ IsFiniteSet(Closers) /\ NoOne \notin Closers \cup Conns
  /\ "default" \in Names /\ NoName \notin Names
  /\ OptFuncs \in [Conns -> SUBSET {"WithTracing", "WithoutMonitoring"}]
  /\ WithName \in [Conns -> Names \cup {NoName}]
  /\ CtxName \in [Conns -> Names \cup {NoName}]
  /\ \A c \in Servers : CtxName[c] = NoName
  /\ WrapKind \in [Wraps -> {"listener", "dialer"}]

VARIABLES
  st,           \* of a connection: "new", "dialing", "failed", "open"
  sock,         \* the connection inside: "none", "open", "closed"
  log,          \* the trace.EventLog: "none", "live", "finished"
  event,        \* ct.event is not nil
  mu,           \* holder of ct.mu
  pc, on,       \* program counter of a Close call and its connection
  opened,       \* attempted_total of dialers, by name
  established,  \* established_total of dialers, accepted_total of listeners
  failed,       \* failed_total by name and reason
  closed,       \* closed_total of dialers and of listeners
  wrap,         \* goroutine of a wrap: "new", "first", "rest", "done", "panic"
  registered    \* collectors in the registry

closeVars == <<sock, event, mu, pc, on, closed>>
countVars == <<opened, established, failed>>
wrapVars == <<wrap, registered>>
vars == <<st, log, closeVars, countVars, wrapVars>>

\* The options applied to the defaults of NewDialContextFunc and NewListener.
Traced == {c \in Conns : "WithTracing" \in OptFuncs[c]}
Monitored == {c \in Conns : "WithoutMonitoring" \notin OptFuncs[c]}
optName(c) == IF WithName[c] # NoName THEN WithName[c] ELSE "default"

Reasons == {"resolution", "refused", "timeout", "unknown"}
Labels == {"dialer", "listener"} \X Names

(* Faults: what a plausible slip would make of a definition below.  Nothing *)
(* refers to them; substituted for it, each breaks a property.             *)
DialUnderOptName(c) ==      \* the attempt counted before the context is asked
  /\ c \in Clients /\ st[c] = "new"
  /\ st' = [st EXCEPT ![c] = "dialing"]
  /\ log' = [log EXCEPT ![c] = IF c \in Traced THEN "live" ELSE "none"]
  /\ opened' = [opened EXCEPT ![optName(c)] = IF c \in Monitored THEN @ + 1 ELSE @]
  /\ UNCHANGED <<closeVars, established, failed, wrapVars>>
DialFailsUnfinished(c, e) == \* the error path forgets the event
  /\ st[c] = "dialing"
  /\ st' = [st EXCEPT ![c] = "failed"]
  /\ UNCHANGED <<log, closeVars, countVars, wrapVars>>
LockFree(g) ==              \* no ct.mu
  /\ pc[g] = "lock"
  /\ pc' = [pc EXCEPT ![g] = IF event[on[g]] THEN "log" ELSE "unlock"]
  /\ UNCHANGED <<st, log, sock, event, mu, on, closed, countVars, wrapVars>>
FinishUnlocks(g) ==         \* ct.mu released before ct.event is cleared
  /\ pc[g] = "log"
  /\ log' = [log EXCEPT ![on[g]] = "finished"]
  /\ mu' = [mu EXCEPT ![on[g]] = NoOne]
  /\ pc' = [pc EXCEPT ![g] = "clear"]
  /\ UNCHANGED <<st, sock, event, on, closed, countVars, wrapVars>>
CountOptName(g) ==          \* counted under opts.name
  /\ pc[g] = "count"
  /\ closed' = [closed EXCEPT ![<<IF on[g] \in Clients THEN "dialer" ELSE "listener",
                                  optName(on[g])>>] =
                  IF on[g] \in Monitored THEN @ + 1 ELSE @]
  /\ pc' = [pc EXCEPT ![g] = "done"]
  /\ UNCHANGED <<st, log, sock, event, mu, on, countVars, wrapVars>>
nextShared(w) == [first |-> "accepted", rest |-> {"lclosed"}]  \* one vector for both

Init ==
  /\ st = [c \in Conns |-> "new"] /\ sock = [c \in Conns |-> "none"]
  /\ log = [c \in Conns |-> "none"] /\ event = [c \in Conns |-> FALSE]
  /\ mu = [c \in Conns |-> NoOne]
  /\ pc = [g \in Closers |-> "idle"] /\ on = [g \in Closers |-> NoOne]
  /\ opened = [n \in Names |-> 0] /\ established = [l \in Labels |-> 0]
  /\ failed = [n \in Names |-> [r \in Reasons |-> 0]]
  /\ closed = [l \in Labels |-> 0]
  /\ wrap = [w \in Wraps |-> "new"] /\ registered = {}

-----------------------------------------------------------------------------
(* Dialing and accepting.                                                  *)

\* The name of the context, if it has one, overrides that of the dialer.
name(c) == IF CtxName[c] # NoName THEN CtxName[c] ELSE optName(c)

label(c) == <<IF c \in Clients THEN "dialer" ELSE "listener", name(c)>>

\* counter.WithLabelValues(...).Inc() of a monitored connection
inc(counter, l, c) == [counter EXCEPT ![l] = IF c \in Monitored THEN @ + 1 ELSE @]

newLog(c) == [log EXCEPT ![c] = IF c \in Traced THEN "live" ELSE "none"]

Dial(c) ==
  /\ c \in Clients /\ st[c] = "new"
  /\ st' = [st EXCEPT ![c] = "dialing"]
  /\ log' = newLog(c)
  /\ opened' = inc(opened, name(c), c)
  /\ UNCHANGED <<closeVars, established, failed, wrapVars>>

DialOk(c) ==
  /\ st[c] = "dialing"
  /\ st' = [st EXCEPT ![c] = "open"] /\ sock' = [sock EXCEPT ![c] = "open"]
  /\ established' = inc(established, label(c), c)
  /\ event' = [event EXCEPT ![c] = log[c] = "live"]
  /\ UNCHANGED <<log, mu, pc, on, closed, opened, failed, wrapVars>>

\* What the dial may return: a *net.OpError around a DNSError, a SyscallError
\* or another error, the error of the context itself, or any other error.
Errors == {"dns", "refused", "syscall", "timeout", "op", "context", "other"}

\* The reasons an error is counted under.
reportDialerConnFailed(e) ==
  CASE e = "dns"     -> {"resolution"}
    [] e = "refused" -> {"refused", "unknown"}  \* no return after the Inc
    [] e = "timeout" -> {"timeout", "unknown"}  \* no return after the Inc
    [] e = "context" -> {"timeout"}
    [] OTHER         -> {"unknown"}

\* event.Finish
finishLog(c) == [log EXCEPT ![c] = IF @ = "live" THEN "finished" ELSE @]

DialFails(c, e) ==
  /\ st[c] = "dialing"
  /\ st' = [st EXCEPT ![c] = "failed"]
  /\ log' = finishLog(c)
  /\ failed' = [failed EXCEPT ![name(c)] =
                  [r \in Reasons |->
                     IF c \in Monitored /\ r \in reportDialerConnFailed(e)
                     THEN @[r] + 1 ELSE @[r]]]
  /\ UNCHANGED <<closeVars, opened, established, wrapVars>>

\* connTrackListener.Accept; a failed Accept changes nothing here.
Accept(c) ==
  /\ c \in Servers /\ st[c] = "new"
  /\ st' = [st EXCEPT ![c] = "open"] /\ sock' = [sock EXCEPT ![c] = "open"]
  /\ log' = newLog(c) /\ event' = [event EXCEPT ![c] = c \in Traced]
  /\ established' = inc(established, label(c), c)
  /\ UNCHANGED <<mu, pc, on, closed, opened, failed, wrapVars>>

-----------------------------------------------------------------------------
(* Close, step by step.                                                    *)

at(g, l) == [pc EXCEPT ![g] = l]

\* ct.Conn.Close(): only the first call closes the socket.
CloseConn(g, c) ==
  /\ pc[g] = "idle" /\ st[c] = "open"
  /\ on' = [on EXCEPT ![g] = c]
  /\ sock' = [sock EXCEPT ![c] = "closed"]
  /\ pc' = at(g, "lock")
  /\ UNCHANGED <<st, log, event, mu, closed, countVars, wrapVars>>

Lock(g) ==
  /\ pc[g] = "lock" /\ mu[on[g]] = NoOne
  /\ mu' = [mu EXCEPT ![on[g]] = g]
  /\ pc' = at(g, IF event[on[g]] THEN "log" ELSE "unlock")
  /\ UNCHANGED <<st, log, sock, event, on, closed, countVars, wrapVars>>

\* ct.event.Printf or Errorf, ct.event.Finish()
Finish(g) ==
  /\ pc[g] = "log"
  /\ log' = finishLog(on[g])
  /\ pc' = at(g, "clear")
  /\ UNCHANGED <<st, sock, event, mu, on, closed, countVars, wrapVars>>

Clear(g) ==
  /\ pc[g] = "clear"
  /\ event' = [event EXCEPT ![on[g]] = FALSE]
  /\ pc' = at(g, "unlock")
  /\ UNCHANGED <<st, log, sock, mu, on, closed, countVars, wrapVars>>

Unlock(g) ==
  /\ pc[g] = "unlock"
  /\ mu' = [mu EXCEPT ![on[g]] = NoOne]
  /\ pc' = at(g, "count")
  /\ UNCHANGED <<st, log, sock, event, on, closed, countVars, wrapVars>>

\* reportDialerConnClosed, reportListenerConnClosed: every call counts.
Count(g) ==
  /\ pc[g] = "count"
  /\ closed' = inc(closed, label(on[g]), on[g])
  /\ pc' = at(g, "done")
  /\ UNCHANGED <<st, log, sock, event, mu, on, countVars, wrapVars>>

-----------------------------------------------------------------------------
(* The goroutine of a wrap: MustRegister panics on what is registered.     *)

StartWrap(w) ==
  /\ wrap[w] = "new"
  /\ wrap' = [wrap EXCEPT ![w] = "first"]
  /\ UNCHANGED <<st, log, closeVars, countVars, registered>>

\* Its collectors, in the order they are registered.
next(w) ==
  IF WrapKind[w] = "listener" THEN [first |-> "accepted", rest |-> {"lclosed"}]
  ELSE [first |-> "attempted", rest |-> {"established", "failed", "dclosed"}]

MustRegister(w, collectors, then) ==
  /\ registered' = registered \cup collectors
  /\ wrap' = [wrap EXCEPT ![w] =
                IF collectors \cap registered = {} THEN then ELSE "panic"]
  /\ UNCHANGED <<st, log, closeVars, countVars>>

RegisterFirst(w) == wrap[w] = "first" /\ MustRegister(w, {next(w).first}, "rest")
RegisterRest(w) == wrap[w] = "rest" /\ MustRegister(w, next(w).rest, "done")

-----------------------------------------------------------------------------
crashed == \E w \in Wraps : wrap[w] = "panic"

CloseStep(g) == Lock(g) \/ Finish(g) \/ Clear(g) \/ Unlock(g) \/ Count(g)
Stopped ==
  /\ \/ crashed
     \/ /\ \A c \in Conns : st[c] \in {"open", "failed"}
        /\ \A g \in Closers : pc[g] \in {"idle", "done"}
        /\ \A w \in Wraps : wrap[w] \in {"new", "done"}
  /\ UNCHANGED vars

Next ==
  \/ /\ ~crashed
     /\ \/ \E c \in Conns : \/ Dial(c) \/ DialOk(c) \/ Accept(c)
                            \/ \E e \in Errors : DialFails(c, e)
                            \/ \E g \in Closers : CloseConn(g, c)
        \/ \E g \in Closers : CloseStep(g)
        \/ \E w \in Wraps : StartWrap(w) \/ RegisterFirst(w) \/ RegisterRest(w)
  \/ Stopped

Spec == Init /\ [][Next]_vars

-----------------------------------------------------------------------------
(* Correctness.                                                            *)

\* Type invariant.  ct.mu is held by the one Close between its Lock and Unlock.
TypeOK ==
  /\ st \in [Conns -> {"new", "dialing", "failed", "open"}]
  /\ sock \in [Conns -> {"none", "open", "closed"}]
  /\ log \in [Conns -> {"none", "live", "finished"}]
  /\ event \in [Conns -> BOOLEAN]
  /\ mu \in [Conns -> Closers \cup {NoOne}]
  /\ pc \in [Closers -> {"idle", "lock", "log", "clear", "unlock", "count", "done"}]
  /\ on \in [Closers -> Conns \cup {NoOne}]
  /\ opened \in [Names -> Nat] /\ failed \in [Names -> [Reasons -> Nat]]
  /\ established \in [Labels -> Nat] /\ closed \in [Labels -> Nat]
  /\ wrap \in [Wraps -> {"new", "first", "rest", "done", "panic"}]
  /\ registered \subseteq {"accepted", "lclosed", "attempted", "established", "failed", "dclosed"}
  /\ \A g \in Closers :
       pc[g] \in {"log", "clear", "unlock"} => on[g] \in Conns /\ mu[on[g]] = g

\* However many goroutines close a connection, its event is written to and
\* finished while it is live: an EventLog must not be used after Finish.
EventUsedLive == \A g \in Closers : pc[g] = "log" => log[on[g]] = "live"

\* The event of a connection that failed or was closed is finished: the trace
\* package keeps a live one for ever.
EventEnds ==
  \A c \in Conns :
    st[c] = "failed" \/ (\E g \in Closers : on[g] = c /\ pc[g] \in {"count", "done"})
      => log[c] # "live"

\* Under every name, also one that a context overrides, the attempts are the
\* established, the failed and the pending dials.
DialsAddUp ==
  \A n \in Names :
    opened[n] = established[<<"dialer", n>>]
      + Cardinality({c \in Clients \cap Monitored :
                       name(c) = n /\ st[c] \in {"dialing", "failed"}})

Closing(c) == {g \in Closers : on[g] = c}

\* While no connection of a name is closed twice, established (or accepted)
\* minus closed is the number of its connections that are open.
OpenGauge ==
  \A l \in Labels :
    LET mine == {c \in Conns \cap Monitored : label(c) = l /\ st[c] = "open"} IN
    (\A c \in mine : Cardinality(Closing(c)) <= 1) =>
      established[l] = closed[l]
        + Cardinality({c \in mine : \A g \in Closing(c) : pc[g] # "done"})

\* The program crashes in a wrap only if an earlier wrap of the same kind
\* shares the registry: a listener and a dialer may be wrapped in any order.
CrashNeedsSharedWrap ==
  \A w \in Wraps : wrap[w] = "panic" =>
    \E v \in Wraps \ {w} : WrapKind[v] = WrapKind[w] /\ wrap[v] \in {"rest", "done"}

\* "Total number of connections failed to dial by the dialer a given name"
\* (mux.go:307): the failures counted are the dials that failed.
FailedIsTotal ==
  \A n \in Names :
    failed[n]["resolution"] + failed[n]["refused"] + failed[n]["timeout"] + failed[n]["unknown"]
      = Cardinality({c \in Clients \cap Monitored : name(c) = n /\ st[c] = "failed"})
=============================================================================
