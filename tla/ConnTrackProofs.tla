-------------------------- MODULE ConnTrackProofs --------------------------
(***************************************************************************)
(* Proofs about ConnTrack, for any finite number of connections and calls  *)
(* of Close, any options and any number of wraps on the registry.          *)
(***************************************************************************)
EXTENDS ConnTrack, FiniteSetTheorems, TLAPS

\* A connection is closed only once it is open, and only an open one has an
\* event; the event of one that is being dialed is held by the dial alone.
OpenInv ==
  /\ \A g \in Closers : pc[g] = "idle" <=> on[g] = NoOne
  /\ \A g \in Closers : pc[g] # "idle" => st[on[g]] = "open"
  /\ \A c \in Conns :
       /\ event[c] => st[c] = "open"
       /\ st[c] = "failed" => log[c] # "live"
       /\ st[c] = "new" => log[c] = "none"
       /\ c \in Servers => st[c] \in {"new", "open"}

\* ct.event and the event itself: they part only while a Close that holds
\* ct.mu is between Finish and the assignment of nil.
EventInv ==
  /\ \A g \in Closers : pc[g] \in {"log", "clear"} => event[on[g]]
  /\ \A g \in Closers : pc[g] = "clear" => log[on[g]] # "live"
  /\ \A g \in Closers : pc[g] \in {"unlock", "count", "done"} => ~event[on[g]]
  /\ \A c \in Conns :
       /\ st[c] = "open" /\ log[c] = "live" => event[c]
       /\ event[c] /\ log[c] # "live" => \E g \in Closers : on[g] = c /\ pc[g] = "clear"

\* What is registered was registered by a wrap that is past it.
RegisteredInv ==
  ~crashed =>
    \A w \in Wraps :
      /\ next(w).first \in registered =>
           \E v \in Wraps : WrapKind[v] = WrapKind[w] /\ wrap[v] \in {"rest", "done"}
      /\ next(w).rest \cap registered # {} =>
           \E v \in Wraps : WrapKind[v] = WrapKind[w] /\ wrap[v] = "done"

\* Inductive: the events and the locks.
EInv == TypeOK /\ OpenInv /\ EventInv

-----------------------------------------------------------------------------
(* Counters.                                                               *)

LEMMA NameFacts == \A c \in Conns : name(c) \in Names /\ label(c) \in Labels
BY TrackAssumption DEF name, optName, label, Labels

\* An Inc adds one under its own label if the connection is monitored.
LEMMA IncFacts ==
  ASSUME NEW L, NEW counter \in [L -> Nat], NEW l \in L, NEW c
  PROVE  /\ inc(counter, l, c) \in [L -> Nat]
         /\ \A m \in L : inc(counter, l, c)[m] =
              IF m = l /\ c \in Monitored THEN counter[m] + 1 ELSE counter[m]
BY DEF inc

-----------------------------------------------------------------------------
(* The life of an event.                                                   *)

LEMMA InitEvents == Init => EInv
BY TrackAssumption DEF Init, EInv, TypeOK, OpenInv, EventInv, Labels, Reasons

\* A connection becomes open with ct.event set just if its event is live.
LEMMA OpenedEvent ==
  ASSUME NEW c \in Conns, EInv,
         \A d \in Conns \ {c} : UNCHANGED <<st[d], log[d], event[d]>>,
         \A g \in Closers : UNCHANGED <<pc[g], on[g]>> /\ (pc[g] # "idle" => on[g] # c),
         log'[c] = "live" => event'[c], event'[c] => log'[c] = "live"
  PROVE  EventInv'
<1> USE DEF EInv, TypeOK, OpenInv, EventInv
<1>1. \A g \in Closers : pc[g] # "idle" =>
         on'[g] \in Conns \ {c} /\ log'[on[g]] = log[on[g]] /\ event'[on[g]] = event[on[g]]
  BY TrackAssumption
<1>2. \A d \in Conns \ {c} :
        /\ st'[d] = "open" /\ log'[d] = "live" => event'[d]
        /\ event'[d] /\ log'[d] # "live" => \E g \in Closers : on'[g] = d /\ pc'[g] = "clear"
  OBVIOUS
<1>3. \A d \in Conns :
        /\ st'[d] = "open" /\ log'[d] = "live" => event'[d]
        /\ event'[d] /\ log'[d] # "live" => \E g \in Closers : on'[g] = d /\ pc'[g] = "clear"
  BY <1>2
<1>4. \A g \in Closers :
        /\ pc'[g] \in {"log", "clear"} => event'[on'[g]]
        /\ pc'[g] = "clear" => log'[on'[g]] # "live"
        /\ pc'[g] \in {"unlock", "count", "done"} => ~event'[on'[g]]
  BY <1>1
<1> QED
  BY <1>3, <1>4

LEMMA DialStep ==
  ASSUME NEW c \in Conns, EInv, Dial(c) \/ DialOk(c) \/ Accept(c)
  PROVE  EInv'
<1>0. /\ name(c) \in Names /\ label(c) \in Labels
      /\ opened \in [Names -> Nat] /\ established \in [Labels -> Nat]
  BY NameFacts DEF EInv, TypeOK
<1>1. /\ inc(opened, name(c), c) \in [Names -> Nat]
      /\ inc(established, label(c), c) \in [Labels -> Nat]
  BY <1>0, IncFacts
<1> USE DEF EInv, TypeOK, OpenInv, EventInv
<1>a. \A g \in Closers : st[c] # "open" => on[g] # c
  BY TrackAssumption
<1>2. CASE Dial(c)
  BY <1>1, <1>2, TrackAssumption DEF Dial, newLog, closeVars, wrapVars, Conns
<1>3. CASE DialOk(c)
  <2>1. TypeOK'
    BY <1>1, <1>3 DEF DialOk, wrapVars
  <2>2. OpenInv'
    BY <1>3, <1>a DEF DialOk
  <2>3. /\ \A d \in Conns \ {c} : UNCHANGED <<st[d], log[d], event[d]>>
        /\ \A g \in Closers : UNCHANGED <<pc[g], on[g]>> /\ (pc[g] # "idle" => on[g] # c)
    BY <1>3, <1>a DEF DialOk
  <2>4. (log'[c] = "live" => event'[c]) /\ (event'[c] => log'[c] = "live")
    <3>1. event'[c] = (log[c] = "live") /\ log' = log
      BY <1>3 DEF DialOk
    <3> QED
      BY <3>1, Zenon
  <2>5. EventInv'
    BY <2>3, <2>4, OpenedEvent
  <2> QED
    BY <2>1, <2>2, <2>5
<1>4. CASE Accept(c)
  <2>1. TypeOK'
    BY <1>1, <1>4 DEF Accept, newLog, wrapVars
  <2>2. OpenInv'
    BY <1>4, <1>a DEF Accept, newLog
  <2>3. /\ \A d \in Conns \ {c} : UNCHANGED <<st[d], log[d], event[d]>>
        /\ \A g \in Closers : UNCHANGED <<pc[g], on[g]>> /\ (pc[g] # "idle" => on[g] # c)
    BY <1>4, <1>a DEF Accept, newLog
  <2>4. (log'[c] = "live" => event'[c]) /\ (event'[c] => log'[c] = "live")
    <3>1. event'[c] = (c \in Traced) /\ log'[c] = IF c \in Traced THEN "live" ELSE "none"
      BY <1>4 DEF Accept, newLog
    <3>2. (c \in Traced => event'[c]) /\ (event'[c] => c \in Traced)
      BY <3>1, Zenon
    <3> QED
      BY <3>1, <3>2
  <2>5. EventInv'
    BY <2>3, <2>4, OpenedEvent
  <2> QED
    BY <2>1, <2>2, <2>5
<1> QED
  BY <1>2, <1>3, <1>4

LEMMA FailStep ==
  ASSUME NEW c \in Conns, NEW e \in Errors, EInv, DialFails(c, e)
  PROVE  EInv'
<1>1. failed' \in [Names -> [Reasons -> Nat]]
  <2>1. failed \in [Names -> [Reasons -> Nat]] /\ name(c) \in Names
    BY NameFacts DEF EInv, TypeOK
  <2> QED
    BY <2>1 DEF DialFails
<1> QED
  BY <1>1, TrackAssumption
     DEF DialFails, finishLog, closeVars, wrapVars, EInv, TypeOK, OpenInv, EventInv

LEMMA CloseEvents ==
  ASSUME NEW g \in Closers, EInv,
         (\E c \in Conns : CloseConn(g, c)) \/ CloseStep(g)
  PROVE  EInv'
<1> USE TrackAssumption DEF EInv, TypeOK, OpenInv, EventInv, at
<1>1. ASSUME NEW c \in Conns, CloseConn(g, c) PROVE EInv'
  BY <1>1 DEF CloseConn, countVars, wrapVars
<1>2. CASE Lock(g)
  BY <1>2 DEF Lock, countVars, wrapVars
<1>3. CASE Finish(g)
  BY <1>3 DEF Finish, finishLog, countVars, wrapVars
<1>4. CASE Clear(g)
  <2>1. TypeOK' /\ OpenInv'
    BY <1>4 DEF Clear, countVars, wrapVars
  <2>2. log[on[g]] # "live"
    BY <1>4 DEF Clear
  <2>3. EventInv'
    BY <1>4, <2>2 DEF Clear
  <2> QED
    BY <2>1, <2>3
<1>5. CASE Unlock(g)
  BY <1>5 DEF Unlock, countVars, wrapVars
<1>6. CASE Count(g)
  <2>1. on[g] \in Conns
    BY <1>6 DEF Count
  <2>2. closed' \in [Labels -> Nat]
    BY <1>6, <2>1, NameFacts, IncFacts DEF Count
  <2> QED
    BY <1>6, <2>2 DEF Count, countVars, wrapVars
<1> QED
  BY <1>1, <1>2, <1>3, <1>4, <1>5, <1>6 DEF CloseStep

LEMMA WrapEvents ==
  ASSUME NEW w \in Wraps, EInv, StartWrap(w) \/ RegisterFirst(w) \/ RegisterRest(w)
  PROVE  EInv'
<1>1. UNCHANGED <<st, log, closeVars, countVars>>
  BY DEF StartWrap, RegisterFirst, RegisterRest, MustRegister
<1>2. wrap' \in [Wraps -> {"new", "first", "rest", "done", "panic"}]
  BY DEF EInv, TypeOK, StartWrap, RegisterFirst, RegisterRest, MustRegister
<1>3. registered' \subseteq {"accepted", "lclosed", "attempted", "established", "failed", "dclosed"}
  <2>1. registered' \subseteq registered \cup {next(w).first} \cup next(w).rest
    BY DEF StartWrap, RegisterFirst, RegisterRest, MustRegister
  <2>2. {next(w).first} \cup next(w).rest \subseteq
          {"accepted", "lclosed", "attempted", "established", "failed", "dclosed"}
    BY DEF next
  <2> QED
    BY <2>1, <2>2 DEF EInv, TypeOK
<1> QED
  BY <1>1, <1>2, <1>3 DEF closeVars, countVars, EInv, TypeOK, OpenInv, EventInv

LEMMA EventsStep == EInv /\ [Next]_vars => EInv'
<1> SUFFICES ASSUME EInv, [Next]_vars PROVE EInv'
  OBVIOUS
<1>1. CASE UNCHANGED vars
  BY <1>1 DEF vars, closeVars, countVars, wrapVars, EInv, TypeOK, OpenInv, EventInv
<1> QED
  BY <1>1, DialStep, FailStep, CloseEvents, WrapEvents DEF Next, Stopped

\* The events and the locks stay as the invariant says.
THEOREM EventsInvariant == Spec => []EInv
BY InitEvents, EventsStep, PTL DEF Spec

-----------------------------------------------------------------------------
(* What follows for the events.                                            *)

\* TypeOK: the states are typed, and ct.mu has one holder, the Close between
\* its Lock and its Unlock.
THEOREM TypeCorrect == Spec => []TypeOK
<1>1. EInv => TypeOK
  BY DEF EInv
<1> QED
  BY <1>1, EventsInvariant, PTL

\* EventUsedLive: Close writes to and finishes only a live event, however many
\* goroutines close the connection.
THEOREM EventsUsedLive == Spec => []EventUsedLive
<1>1. EInv => EventUsedLive
  <2> SUFFICES ASSUME EInv, NEW g \in Closers, pc[g] = "log" PROVE log[on[g]] = "live"
    BY DEF EventUsedLive
  <2>1. event[on[g]] /\ on[g] \in Conns /\ mu[on[g]] = g
    BY DEF EInv, TypeOK, EventInv
  <2>2. \A h \in Closers : pc[h] = "clear" => on[h] # on[g]
    BY <2>1 DEF EInv, TypeOK
  <2> QED
    BY <2>1, <2>2 DEF EInv, EventInv
<1> QED
  BY <1>1, EventsInvariant, PTL

\* EventEnds: the event of a connection that failed or was closed is finished.
THEOREM EventsEnd == Spec => []EventEnds
<1>1. EInv => EventEnds
  BY TrackAssumption DEF EInv, TypeOK, OpenInv, EventInv, EventEnds
<1> QED
  BY <1>1, EventsInvariant, PTL

-----------------------------------------------------------------------------
(* The counters of dials.                                                  *)

\* The monitored dials under a name that are not established.
Pending(nm) ==
  {c \in Clients \cap Monitored : name(c) = nm /\ st[c] \in {"dialing", "failed"}}

LEMMA FiniteConns ==
  ASSUME NEW S \in SUBSET Conns
  PROVE  /\ IsFiniteSet(S) /\ Cardinality(S) \in Nat
         /\ \A c \in Conns \ S : Cardinality(S \cup {c}) = Cardinality(S) + 1
         /\ \A c \in S : Cardinality(S \ {c}) = Cardinality(S) - 1
<1>1. IsFiniteSet(S)
  BY TrackAssumption, FS_Subset
<1> QED
  BY <1>1, FS_CardinalityType, FS_AddElement, FS_RemoveElement

LEMMA PendingFacts == \A nm : Pending(nm) \in SUBSET Conns
BY DEF Pending, Conns

LEMMA DialsStep == EInv /\ DialsAddUp /\ [Next]_vars => DialsAddUp'
<1> SUFFICES ASSUME EInv, DialsAddUp, [Next]_vars, NEW nm \in Names
             PROVE  opened'[nm] = established'[<<"dialer", nm>>] + Cardinality(Pending(nm)')
  BY DEF DialsAddUp, Pending, name, optName, Monitored
<1> DEFINE l == <<"dialer", nm>>
<1>0. /\ opened \in [Names -> Nat] /\ established \in [Labels -> Nat] /\ l \in Labels
      /\ st \in [Conns -> {"new", "dialing", "failed", "open"}]
      /\ opened[nm] = established[l] + Cardinality(Pending(nm))
  BY DEF EInv, TypeOK, DialsAddUp, Pending, Labels
<1>1. ASSUME NEW c \in Conns, Dial(c)
      PROVE  opened'[nm] = established'[l] + Cardinality(Pending(nm)')
  <2>1. /\ established' = established /\ c \notin Pending(nm)
        /\ opened'[nm] = IF nm = name(c) /\ c \in Monitored THEN opened[nm] + 1 ELSE opened[nm]
    BY <1>0, <1>1, NameFacts, IncFacts DEF Dial, Pending
  <2>2. Pending(nm)' = IF nm = name(c) /\ c \in Monitored THEN Pending(nm) \cup {c}
                       ELSE Pending(nm)
    BY <1>0, <1>1 DEF Dial, Pending, name, optName, Monitored
  <2> QED
    BY <1>0, <2>1, <2>2, FiniteConns, PendingFacts
<1>2. ASSUME NEW c \in Conns, DialOk(c)
      PROVE  opened'[nm] = established'[l] + Cardinality(Pending(nm)')
  <2>1. c \in Clients
    BY <1>2 DEF DialOk, EInv, OpenInv, Conns
  <2>2. label(c) = <<"dialer", name(c)>>
    BY <2>1 DEF label
  <2>3. /\ opened' = opened
        /\ established'[l] = IF nm = name(c) /\ c \in Monitored THEN established[l] + 1
                             ELSE established[l]
    <3>1. opened' = opened /\ established' = inc(established, label(c), c)
      BY <1>2 DEF DialOk
    <3>2. l = label(c) <=> nm = name(c)
      BY <2>2
    <3> HIDE DEF l
    <3> QED
      BY <1>0, <3>1, <3>2, NameFacts, IncFacts
  <2>4. Pending(nm)' = IF nm = name(c) /\ c \in Monitored THEN Pending(nm) \ {c}
                       ELSE Pending(nm)
    BY <1>0, <1>2, <2>1 DEF DialOk, Pending, name, optName, Monitored
  <2>5. nm = name(c) /\ c \in Monitored => c \in Pending(nm)
    BY <1>2, <2>1 DEF DialOk, Pending
  <2> QED
    BY <1>0, <2>3, <2>4, <2>5, FiniteConns, PendingFacts
<1>3. ASSUME NEW c \in Conns, Accept(c)
      PROVE  opened'[nm] = established'[l] + Cardinality(Pending(nm)')
  <2>1. label(c) = <<"listener", name(c)>> /\ l # label(c)
    BY <1>3, TrackAssumption DEF Accept, label
  <2>2. opened' = opened /\ established'[l] = established[l]
    BY <1>0, <1>3, <2>1, NameFacts, IncFacts DEF Accept
  <2>3. Pending(nm)' = Pending(nm)
    BY <1>0, <1>3, TrackAssumption DEF Accept, Pending, name, optName, Monitored
  <2> QED
    BY <1>0, <2>2, <2>3
<1>4. ASSUME NEW c \in Conns, NEW e \in Errors, DialFails(c, e)
      PROVE  opened'[nm] = established'[l] + Cardinality(Pending(nm)')
  <2>1. Pending(nm)' = Pending(nm)
    BY <1>0, <1>4 DEF DialFails, Pending, name, optName, Monitored
  <2> QED
    BY <1>0, <1>4, <2>1 DEF DialFails
<1>5. CASE UNCHANGED <<st, countVars>>
  BY <1>0, <1>5 DEF countVars, Pending, name, optName, Monitored
<1>6. ASSUME NEW g \in Closers, (\E c \in Conns : CloseConn(g, c)) \/ CloseStep(g)
      PROVE  UNCHANGED <<st, countVars>>
  BY <1>6 DEF CloseStep, CloseConn, Lock, Finish, Clear, Unlock, Count
<1>7. ASSUME NEW w \in Wraps, StartWrap(w) \/ RegisterFirst(w) \/ RegisterRest(w)
      PROVE  UNCHANGED <<st, countVars>>
  BY <1>7 DEF StartWrap, RegisterFirst, RegisterRest, MustRegister
<1>8. CASE UNCHANGED vars
  BY <1>5, <1>8 DEF vars
<1> QED
  BY <1>1, <1>2, <1>3, <1>4, <1>5, <1>6, <1>7, <1>8 DEF Next, Stopped

\* DialsAddUp: under every name, also one a context overrides, the attempts
\* counted are the established, the failed and the pending dials.
THEOREM DialsAreCounted == Spec => []DialsAddUp
<1>1. Init => DialsAddUp
  <2> SUFFICES ASSUME Init, NEW nm \in Names
               PROVE  opened[nm] = established[<<"dialer", nm>>] + Cardinality(Pending(nm))
    BY DEF DialsAddUp, Pending
  <2>1. Pending(nm) = {}
    BY DEF Init, Pending, Conns
  <2>2. opened[nm] = 0 /\ established[<<"dialer", nm>>] = 0
    BY DEF Init, Labels
  <2> QED
    BY <2>1, <2>2, FS_EmptySet
<1> QED
  BY <1>1, EventsInvariant, DialsStep, PTL DEF Spec

-----------------------------------------------------------------------------
(* The registration of the collectors.                                     *)

\* Wraps of different kinds register different collectors.
LEMMA Collectors ==
  \A u, w \in Wraps :
    /\ next(u).first = next(w).first => WrapKind[u] = WrapKind[w]
    /\ next(u).rest \cap next(w).rest # {} => WrapKind[u] = WrapKind[w]
    /\ next(u).first \notin next(w).rest
BY TrackAssumption DEF next

WInv == EInv /\ RegisteredInv /\ CrashNeedsSharedWrap

LEMMA RegisterStep ==
  ASSUME NEW w \in Wraps, WInv, ~crashed, RegisterFirst(w) \/ RegisterRest(w)
  PROVE  RegisteredInv' /\ CrashNeedsSharedWrap'
<1>0. /\ wrap \in [Wraps -> {"new", "first", "rest", "done", "panic"}]
      /\ \A u \in Wraps : wrap[u] # "panic"
  BY DEF WInv, EInv, TypeOK, crashed
<1>1. /\ \A u \in Wraps : next(u).first \in registered =>
           \E v \in Wraps : WrapKind[v] = WrapKind[u] /\ wrap[v] \in {"rest", "done"}
      /\ \A u \in Wraps : next(u).rest \cap registered # {} =>
           \E v \in Wraps : WrapKind[v] = WrapKind[u] /\ wrap[v] = "done"
  BY DEF WInv, RegisteredInv
<1>2. \A u \in Wraps \ {w} : wrap'[u] = wrap[u]
  BY <1>0 DEF RegisterFirst, RegisterRest, MustRegister
<1>3. CASE RegisterFirst(w)
  <2>1. /\ wrap[w] = "first" /\ registered' = registered \cup {next(w).first}
        /\ wrap'[w] = IF next(w).first \in registered THEN "panic" ELSE "rest"
    BY <1>0, <1>3 DEF RegisterFirst, MustRegister
  <2>2. CASE next(w).first \in registered
    <3>1. \E v \in Wraps \ {w} : WrapKind[v] = WrapKind[w] /\ wrap'[v] \in {"rest", "done"}
      BY <1>1, <1>2, <2>1, <2>2
    <3> QED
      BY <1>0, <1>2, <2>1, <2>2, <3>1 DEF RegisteredInv, CrashNeedsSharedWrap, crashed
  <2>3. CASE next(w).first \notin registered
    <3>1. CrashNeedsSharedWrap'
      BY <1>0, <1>2, <2>1, <2>3 DEF CrashNeedsSharedWrap
    <3>2. ASSUME NEW u \in Wraps, next(u).first \in registered'
          PROVE  \E v \in Wraps : WrapKind[v] = WrapKind[u] /\ wrap'[v] \in {"rest", "done"}
      BY <1>1, <1>2, <2>1, <2>3, <3>2, Collectors
    <3>3. ASSUME NEW u \in Wraps, next(u).rest \cap registered' # {}
          PROVE  \E v \in Wraps : WrapKind[v] = WrapKind[u] /\ wrap'[v] = "done"
      <4>1. next(u).rest \cap registered # {}
        BY <2>1, <3>3, Collectors
      <4> QED
        BY <1>1, <1>2, <2>1, <4>1
    <3> QED
      BY <3>1, <3>2, <3>3 DEF RegisteredInv, next
  <2> QED
    BY <2>2, <2>3
<1>4. CASE RegisterRest(w)
  <2>1. /\ wrap[w] = "rest" /\ registered' = registered \cup next(w).rest
        /\ wrap'[w] = IF next(w).rest \cap registered = {} THEN "done" ELSE "panic"
    BY <1>0, <1>4 DEF RegisterRest, MustRegister
  <2>2. CASE next(w).rest \cap registered # {}
    <3>1. \E v \in Wraps \ {w} : WrapKind[v] = WrapKind[w] /\ wrap'[v] \in {"rest", "done"}
      BY <1>1, <1>2, <2>1, <2>2
    <3> QED
      BY <1>0, <1>2, <2>1, <2>2, <3>1 DEF RegisteredInv, CrashNeedsSharedWrap, crashed
  <2>3. CASE next(w).rest \cap registered = {}
    <3>1. CrashNeedsSharedWrap'
      BY <1>0, <1>2, <2>1, <2>3 DEF CrashNeedsSharedWrap
    <3>2. ASSUME NEW u \in Wraps, next(u).first \in registered'
          PROVE  \E v \in Wraps : WrapKind[v] = WrapKind[u] /\ wrap'[v] \in {"rest", "done"}
      <4>1. next(u).first \in registered
        BY <2>1, <3>2, Collectors
      <4> QED
        BY <1>1, <1>2, <2>1, <2>3, <4>1
    <3>3. ASSUME NEW u \in Wraps, next(u).rest \cap registered' # {}
          PROVE  \E v \in Wraps : WrapKind[v] = WrapKind[u] /\ wrap'[v] = "done"
      <4>1. CASE next(u).rest \cap registered # {}
        BY <1>1, <1>2, <2>1, <2>3, <4>1
      <4>2. CASE next(u).rest \cap next(w).rest # {}
        BY <2>1, <2>3, <4>2, Collectors
      <4> QED
        BY <2>1, <3>3, <4>1, <4>2
    <3> QED
      BY <3>1, <3>2, <3>3 DEF RegisteredInv, next
  <2> QED
    BY <2>2, <2>3
<1> QED
  BY <1>3, <1>4

LEMMA WrapsStep == WInv /\ [Next]_vars => WInv'
<1> SUFFICES ASSUME WInv, [Next]_vars PROVE RegisteredInv' /\ CrashNeedsSharedWrap'
  BY EventsStep DEF WInv
<1>1. CASE UNCHANGED wrapVars
  BY <1>1 DEF wrapVars, WInv, RegisteredInv, CrashNeedsSharedWrap, crashed, next
<1>2. CASE \E c \in Conns : \/ Dial(c) \/ DialOk(c) \/ Accept(c)
                            \/ \E e \in Errors : DialFails(c, e)
                            \/ \E g \in Closers : CloseConn(g, c)
  BY <1>1, <1>2 DEF Dial, DialOk, Accept, DialFails, CloseConn
<1>5. CASE \E g \in Closers : CloseStep(g)
  BY <1>1, <1>5 DEF CloseStep, Lock, Finish, Clear, Unlock, Count
<1>3. ASSUME NEW w \in Wraps, StartWrap(w) PROVE RegisteredInv' /\ CrashNeedsSharedWrap'
  BY <1>3 DEF StartWrap, WInv, EInv, TypeOK, RegisteredInv, CrashNeedsSharedWrap, crashed, next
<1>4. CASE UNCHANGED vars
  BY <1>1, <1>4 DEF vars, wrapVars
<1> QED
  BY <1>1, <1>2, <1>3, <1>4, <1>5, RegisterStep DEF Next, Stopped

\* CrashNeedsSharedWrap: a wrap panics only over an earlier one of its kind on
\* the same registry; a listener and a dialer never get into each other's way.
THEOREM CrashesAreShared == Spec => []CrashNeedsSharedWrap
<1>1. Init => WInv
  BY InitEvents DEF Init, WInv, RegisteredInv, CrashNeedsSharedWrap
<1>2. WInv => CrashNeedsSharedWrap
  BY DEF WInv
<1> QED
  BY <1>1, <1>2, WrapsStep, PTL DEF Spec

-----------------------------------------------------------------------------
(* The connections that are open.                                          *)

\* The monitored connections with a label, those of them whose Close has not
\* been counted, and that none of them is closed twice.
Mine(l) == {c \in Conns \cap Monitored : label(c) = l /\ st[c] = "open"}
Uncounted(l) == {c \in Mine(l) : \A g \in Closing(c) : pc[g] # "done"}
Single(l) == \A c \in Mine(l) : Cardinality(Closing(c)) <= 1

LEMMA GaugeFacts ==
  /\ OpenGauge <=>
       \A l \in Labels : Single(l) => established[l] = closed[l] + Cardinality(Uncounted(l))
  /\ \A l : Uncounted(l) \in SUBSET Conns
BY DEF OpenGauge, Single, Uncounted, Mine

\* A connection closed once has one closer.
LEMMA OneCloser ==
  ASSUME NEW c \in Conns, Cardinality(Closing(c)) <= 1, NEW g \in Closing(c)
  PROVE  Closing(c) = {g}
<1>1. IsFiniteSet(Closing(c))
  BY TrackAssumption, FS_Subset DEF Closing
<1>2. Cardinality(Closing(c)) \in Nat /\ Cardinality(Closing(c)) # 0
  BY <1>1, FS_CardinalityType, FS_EmptySet
<1>3. Cardinality(Closing(c)) = 1
  BY <1>2
<1> QED
  BY <1>1, <1>3, FS_Singleton

\* What has been closed twice stays so.
LEMMA SingleBefore ==
  ASSUME NEW l, Single(l)',
         \A c \in Conns : st[c] = "open" => st'[c] = "open",
         \A g \in Closers : on[g] \in Conns => on'[g] = on[g]
  PROVE  Single(l)
<1> SUFFICES ASSUME NEW c \in Mine(l) PROVE Cardinality(Closing(c)) <= 1
  BY DEF Single
<1>1. c \in Conns /\ c \in Mine(l)'
  BY DEF Mine, label, name, optName, Monitored
<1>2. Cardinality(Closing(c)') <= 1
  BY <1>1 DEF Single, Closing
<1>3. IsFiniteSet(Closing(c)') /\ Closing(c) \subseteq Closing(c)'
  BY <1>1, TrackAssumption, FS_Subset DEF Closing
<1> QED
  BY <1>2, <1>3, FS_Subset, FS_CardinalityType

LEMMA GaugeOpens ==
  ASSUME EInv, OpenGauge, NEW l \in Labels, Single(l)',
         NEW c \in Conns, DialOk(c) \/ Accept(c)
  PROVE  established'[l] = closed'[l] + Cardinality(Uncounted(l)')
<1>1. /\ st[c] # "open" /\ st' = [st EXCEPT ![c] = "open"]
      /\ UNCHANGED <<pc, on, closed>> /\ established' = inc(established, label(c), c)
  BY DEF DialOk, Accept
<1>2. /\ established \in [Labels -> Nat] /\ closed \in [Labels -> Nat] /\ label(c) \in Labels
      /\ st \in [Conns -> {"new", "dialing", "failed", "open"}]
  BY NameFacts DEF EInv, TypeOK
<1>3. established[l] = closed[l] + Cardinality(Uncounted(l))
  BY <1>1, <1>2, SingleBefore, GaugeFacts
<1>4. \A g \in Closers : on[g] # c
  BY <1>1, TrackAssumption DEF EInv, OpenInv
<1>5. c \notin Uncounted(l)
  BY <1>1 DEF Uncounted, Mine
<1>6. Uncounted(l)' = IF label(c) = l /\ c \in Monitored THEN Uncounted(l) \cup {c}
                      ELSE Uncounted(l)
  BY <1>1, <1>2, <1>4 DEF Uncounted, Mine, Closing, label, name, optName, Monitored
<1>7. established'[l] = IF label(c) = l /\ c \in Monitored THEN established[l] + 1
                        ELSE established[l]
  BY <1>1, <1>2, IncFacts
<1> QED
  BY <1>1, <1>2, <1>3, <1>5, <1>6, <1>7, FiniteConns, GaugeFacts

LEMMA GaugeCloses ==
  ASSUME EInv, OpenGauge, NEW l \in Labels, Single(l)', NEW g \in Closers,
         (\E c \in Conns : CloseConn(g, c)) \/ CloseStep(g)
  PROVE  established'[l] = closed'[l] + Cardinality(Uncounted(l)')
<1>0. /\ established \in [Labels -> Nat] /\ closed \in [Labels -> Nat]
      /\ pc \in [Closers -> {"idle", "lock", "log", "clear", "unlock", "count", "done"}]
      /\ on \in [Closers -> Conns \cup {NoOne}]
  BY DEF EInv, TypeOK
<1>1. UNCHANGED <<st, established>> /\ \A h \in Closers : on[h] \in Conns => on'[h] = on[h]
  BY <1>0, TrackAssumption
     DEF CloseConn, CloseStep, Lock, Finish, Clear, Unlock, Count, countVars, EInv, OpenInv
<1>2. Single(l) /\ established[l] = closed[l] + Cardinality(Uncounted(l))
  BY <1>1, SingleBefore, GaugeFacts
<1>3. ASSUME NEW c \in Conns, CloseConn(g, c)
      PROVE  established'[l] = closed'[l] + Cardinality(Uncounted(l)')
  <2>1. Uncounted(l)' = Uncounted(l)
    BY <1>0, <1>3, TrackAssumption
       DEF CloseConn, at, Uncounted, Mine, Closing, label, name, optName, Monitored, EInv, OpenInv
  <2> QED
    BY <1>1, <1>2, <1>3, <2>1 DEF CloseConn
<1>4. CASE Lock(g) \/ Finish(g) \/ Clear(g) \/ Unlock(g)
  <2>1. /\ UNCHANGED <<st, on, closed>> /\ pc[g] # "done" /\ pc'[g] # "done"
        /\ \A h \in Closers \ {g} : pc'[h] = pc[h]
    BY <1>0, <1>4 DEF Lock, Finish, Clear, Unlock, at
  <2>2. Uncounted(l)' = Uncounted(l)
    BY <2>1 DEF Uncounted, Mine, Closing, label, name, optName, Monitored
  <2> QED
    BY <1>1, <1>2, <2>1, <2>2
<1>5. CASE Count(g)
  <2> DEFINE c == on[g]
  <2>1. c \in Conns /\ label(c) \in Labels /\ st[c] = "open" /\ pc[g] = "count"
    BY <1>0, <1>5, TrackAssumption, NameFacts DEF Count, EInv, OpenInv
  <2>2. /\ UNCHANGED <<st, on>> /\ pc' = [pc EXCEPT ![g] = "done"]
        /\ closed' = inc(closed, label(c), c)
    BY <1>5 DEF Count, at
  <2>3. closed'[l] = IF label(c) = l /\ c \in Monitored THEN closed[l] + 1 ELSE closed[l]
    BY <1>0, <2>1, <2>2, IncFacts
  <2> HIDE DEF c
  <2>4. CASE label(c) = l /\ c \in Monitored
    <3>1. c \in Mine(l) /\ g \in Closing(c)
      BY <2>1, <2>4 DEF Mine, Closing, c
    <3>2. Closing(c) = {g}
      BY <1>2, <2>1, <3>1, OneCloser DEF Single
    <3>3. c \in Uncounted(l)
      BY <2>1, <3>1, <3>2 DEF Uncounted
    <3>4. Uncounted(l)' = Uncounted(l) \ {c}
      BY <1>0, <2>2, <3>1, <3>2
         DEF Uncounted, Mine, Closing, label, name, optName, Monitored, c
    <3> QED
      BY <1>0, <1>1, <1>2, <2>3, <2>4, <3>3, <3>4, FiniteConns, GaugeFacts
  <2>5. CASE ~(label(c) = l /\ c \in Monitored)
    <3>1. Uncounted(l)' = Uncounted(l)
      BY <1>0, <2>2, <2>5 DEF Uncounted, Mine, Closing, label, name, optName, Monitored, c
    <3> QED
      BY <1>1, <1>2, <2>3, <2>5, <3>1
  <2> QED
    BY <2>4, <2>5
<1> QED
  BY <1>3, <1>4, <1>5 DEF CloseStep

LEMMA GaugeStep == EInv /\ OpenGauge /\ [Next]_vars => OpenGauge'
<1> SUFFICES ASSUME EInv, OpenGauge, [Next]_vars, NEW l \in Labels, Single(l)'
             PROVE  established'[l] = closed'[l] + Cardinality(Uncounted(l)')
  BY DEF OpenGauge, Labels, Single, Uncounted, Mine, label, name, optName, Monitored, Closing
<1> DEFINE Goal == established'[l] = closed'[l] + Cardinality(Uncounted(l)')
<1>1. ASSUME UNCHANGED <<established, closed, pc, on>>,
             \A c \in Conns : st'[c] = "open" <=> st[c] = "open"
      PROVE  Goal
  <2>1. Uncounted(l)' = Uncounted(l)
    BY <1>1 DEF Uncounted, Mine, Closing, label, name, optName, Monitored
  <2>2. Single(l)
    BY <1>1, SingleBefore
  <2> QED
    BY <1>1, <2>1, <2>2, GaugeFacts
<1>2. ASSUME NEW c \in Conns, Dial(c) \/ \E e \in Errors : DialFails(c, e) PROVE Goal
  BY <1>1, <1>2 DEF Dial, DialFails, closeVars, EInv, TypeOK
<1>3. ASSUME NEW w \in Wraps, StartWrap(w) \/ RegisterFirst(w) \/ RegisterRest(w) PROVE Goal
  BY <1>1, <1>3 DEF StartWrap, RegisterFirst, RegisterRest, MustRegister, closeVars, countVars
<1>4. CASE UNCHANGED vars
  BY <1>1, <1>4 DEF vars, closeVars, countVars
<1> QED
  BY <1>2, <1>3, <1>4, GaugeOpens, GaugeCloses DEF Next, Stopped

\* OpenGauge: while no connection of a name is closed twice, the established or
\* accepted minus the closed are the connections that are open.
THEOREM OpenIsCounted == Spec => []OpenGauge
<1>1. Init => OpenGauge
  <2> SUFFICES ASSUME Init, NEW l \in Labels
               PROVE  established[l] = closed[l] + Cardinality(Uncounted(l))
    BY GaugeFacts
  <2>1. Uncounted(l) = {}
    BY DEF Init, Uncounted, Mine
  <2> QED
    BY <2>1, FS_EmptySet DEF Init
<1> QED
  BY <1>1, EventsInvariant, GaugeStep, PTL DEF Spec

-----------------------------------------------------------------------------
(* Failures: a dial that fails may be counted under two reasons.           *)

\* The monitored dials under a name that failed.
Failures(nm) == {c \in Clients \cap Monitored : name(c) = nm /\ st[c] = "failed"}

\* What the failure counters of a name say of the dials that failed: one adds
\* at most one to "resolution" and "unknown" together, at most one to the three
\* known reasons together, and at least one to the four.
Between(f, n) ==
  /\ f["resolution"] + f["unknown"] <= n
  /\ f["resolution"] + f["refused"] + f["timeout"] <= n
  /\ n <= f["resolution"] + f["refused"] + f["timeout"] + f["unknown"]

FailuresBetween == \A nm \in Names : Between(failed[nm], Cardinality(Failures(nm)))

\* What failed is a set of connections.
LEMMA FailuresFacts == \A nm : Failures(nm) \in SUBSET Conns
BY DEF Failures, Conns

\* The counters of one name after a dial under it has failed.
LEMMA CountedFailure ==
  ASSUME NEW f \in [Reasons -> Nat], NEW n \in Nat, NEW e \in Errors, Between(f, n)
  PROVE  Between([r \in Reasons |->
                    IF r \in reportDialerConnFailed(e) THEN f[r] + 1 ELSE f[r]], n + 1)
<1> DEFINE R == reportDialerConnFailed(e)
           g == [r \in Reasons |-> IF r \in R THEN f[r] + 1 ELSE f[r]]
<1>1. R \in {{"resolution"}, {"refused", "unknown"}, {"timeout", "unknown"},
             {"timeout"}, {"unknown"}}
  BY DEF reportDialerConnFailed, Errors
<1>2. \A r \in Reasons : f[r] \in Nat
  OBVIOUS
<1>3. /\ g["resolution"] = IF "resolution" \in R THEN f["resolution"] + 1 ELSE f["resolution"]
      /\ g["refused"] = IF "refused" \in R THEN f["refused"] + 1 ELSE f["refused"]
      /\ g["timeout"] = IF "timeout" \in R THEN f["timeout"] + 1 ELSE f["timeout"]
      /\ g["unknown"] = IF "unknown" \in R THEN f["unknown"] + 1 ELSE f["unknown"]
  BY DEF Reasons
<1> HIDE DEF R, g
<1>4. Between(g, n + 1)
  BY <1>1, <1>2, <1>3 DEF Between, Reasons
<1> QED
  BY <1>4 DEF g, R

\* Only a dial that fails changes the counters or the failures, and both.
LEMMA FailuresStep == EInv /\ FailuresBetween /\ [Next]_vars => FailuresBetween'
<1> SUFFICES ASSUME EInv, FailuresBetween, [Next]_vars, NEW nm \in Names
             PROVE  Between(failed'[nm], Cardinality(Failures(nm)'))
  BY DEF FailuresBetween, Between, Failures, name, optName, Monitored
<1>0. /\ failed \in [Names -> [Reasons -> Nat]] /\ failed[nm] \in [Reasons -> Nat]
      /\ st \in [Conns -> {"new", "dialing", "failed", "open"}]
      /\ Between(failed[nm], Cardinality(Failures(nm)))
  BY DEF EInv, TypeOK, FailuresBetween
<1>1. ASSUME NEW c \in Conns, NEW e \in Errors, DialFails(c, e)
      PROVE  Between(failed'[nm], Cardinality(Failures(nm)'))
  <2>1. c \in Clients /\ c \notin Failures(nm)
    BY <1>1 DEF DialFails, EInv, OpenInv, Conns, Failures
  <2>2. CASE nm = name(c) /\ c \in Monitored
    <3>1. Failures(nm)' = Failures(nm) \cup {c}
      BY <1>0, <1>1, <2>1, <2>2 DEF DialFails, Failures, name, optName, Monitored
    <3>2. failed'[nm] = [r \in Reasons |-> IF r \in reportDialerConnFailed(e)
                                           THEN failed[nm][r] + 1 ELSE failed[nm][r]]
      BY <1>0, <1>1, <2>2 DEF DialFails
    <3>3. /\ Cardinality(Failures(nm)) \in Nat
          /\ Cardinality(Failures(nm) \cup {c}) = Cardinality(Failures(nm)) + 1
      BY <2>1, FiniteConns, FailuresFacts
    <3> QED
      BY <1>0, <3>1, <3>2, <3>3, CountedFailure
  <2>3. CASE ~(nm = name(c) /\ c \in Monitored)
    <3>1. Failures(nm)' = Failures(nm)
      BY <1>0, <1>1, <2>3 DEF DialFails, Failures, name, optName, Monitored
    <3>2. failed'[nm] = failed[nm]
      <4>1. CASE nm = name(c)
        <5>1. failed'[nm] = [r \in Reasons |-> failed[nm][r]]
          BY <1>0, <1>1, <2>3, <4>1 DEF DialFails
        <5> QED
          BY <1>0, <5>1
      <4>2. CASE nm # name(c)
        BY <1>0, <1>1, <4>2 DEF DialFails
      <4> QED
        BY <4>1, <4>2
    <3> QED
      BY <1>0, <3>1, <3>2
  <2> QED
    BY <2>2, <2>3
<1>2. ASSUME failed' = failed,
             \A c \in Conns : st'[c] = "failed" <=> st[c] = "failed"
      PROVE  Between(failed'[nm], Cardinality(Failures(nm)'))
  <2>1. Failures(nm)' = Failures(nm)
    BY <1>2 DEF Failures, name, optName, Monitored, Conns
  <2> QED
    BY <1>0, <1>2, <2>1
<1>3. ASSUME NEW c \in Conns, Dial(c) \/ DialOk(c) \/ Accept(c)
      PROVE  failed' = failed /\ \A d \in Conns : st'[d] = "failed" <=> st[d] = "failed"
  BY <1>0, <1>3 DEF Dial, DialOk, Accept
<1>4. ASSUME NEW g \in Closers, (\E c \in Conns : CloseConn(g, c)) \/ CloseStep(g)
      PROVE  UNCHANGED <<st, failed>>
  BY <1>4 DEF CloseStep, CloseConn, Lock, Finish, Clear, Unlock, Count, countVars
<1>5. ASSUME NEW w \in Wraps, StartWrap(w) \/ RegisterFirst(w) \/ RegisterRest(w)
      PROVE  UNCHANGED <<st, failed>>
  BY <1>5 DEF StartWrap, RegisterFirst, RegisterRest, MustRegister, countVars
<1>6. CASE UNCHANGED vars
  BY <1>2, <1>6 DEF vars, countVars
<1> QED
  BY <1>1, <1>2, <1>3, <1>4, <1>5, <1>6 DEF Next, Stopped

\* What the counters of failed dials are good for: the number of dials that
\* failed lies between the sums of two or three reasons and the sum of all.
THEOREM FailuresAreBounded == Spec => []FailuresBetween
<1>1. Init => FailuresBetween
  <2> SUFFICES ASSUME Init, NEW nm \in Names
               PROVE  Between(failed[nm], Cardinality(Failures(nm)))
    BY DEF FailuresBetween
  <2>1. Failures(nm) = {}
    BY DEF Init, Failures, Conns
  <2>2. \A r \in Reasons : failed[nm][r] = 0
    BY DEF Init
  <2> QED
    BY <2>1, <2>2, FS_EmptySet DEF Between, Reasons
<1> QED
  BY <1>1, FailuresStep, EventsInvariant, PTL DEF Spec

\* FailedIsTotal as long as the counters of refused and timed out dials are zero:
\* the missing returns of reportDialerConnFailed are all that breaks it.
THEOREM TotalUnlessDoubled ==
  Spec => []((\A nm \in Names : failed[nm]["refused"] = 0 /\ failed[nm]["timeout"] = 0)
               => FailedIsTotal)
<1>1. ASSUME TypeOK, FailuresBetween,
             \A nm \in Names : failed[nm]["refused"] = 0 /\ failed[nm]["timeout"] = 0
      PROVE  FailedIsTotal
  <2> SUFFICES ASSUME NEW nm \in Names
               PROVE  failed[nm]["resolution"] + failed[nm]["refused"] + failed[nm]["timeout"]
                        + failed[nm]["unknown"] = Cardinality(Failures(nm))
    BY DEF FailedIsTotal, Failures
  <2>1. /\ failed[nm]["resolution"] \in Nat /\ failed[nm]["unknown"] \in Nat
        /\ Cardinality(Failures(nm)) \in Nat
    BY <1>1, FiniteConns, FailuresFacts DEF TypeOK, Reasons
  <2>2. Between(failed[nm], Cardinality(Failures(nm)))
    BY <1>1 DEF FailuresBetween
  <2> QED
    BY <1>1, <2>1, <2>2 DEF Between
<1> QED
  BY <1>1, FailuresAreBounded, TypeCorrect, PTL
=============================================================================
