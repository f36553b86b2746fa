------------------------------- MODULE Probe --------------------------------
(***************************************************************************)
(* The health handlers of instrument/probe/health.go: basicHandler, and    *)
(* metricsHandler, which registers a gauge for every check.  Programs add  *)
(* checks while probes ("/live", "/ready") and scrapes of the gauges run   *)
(* them.  A check is named by the call that adds it.                       *)
(***************************************************************************)
EXTENDS Naturals, Sequences, FiniteSets

CONSTANTS
  Adds,       \* calls of AddLivenessCheck and AddReadinessCheck
  MapOf,      \* MapOf[a]: "readiness" or "liveness"
  NameOf,     \* NameOf[a]: the name it is added under
  CheckOf,    \* CheckOf[a]: what the check may do, one of the records below
  Probers,    \* goroutines of the HTTP server that answer probes
  Scrapers,   \* goroutines that collect a gauge
  NoOne

Maps == {"readiness", "liveness"}
Names == {NameOf[a] : a \in Adds}

ASSUME ProbeAssumption ==
  /\ IsFiniteSet(Adds) /\ NoOne \notin Adds /\ Probers \cap Scrapers = {}
  /\ MapOf \in [Adds -> Maps]
  /\ \A a \in Adds : /\ CheckOf[a].results \subseteq {"OK", "error"}
                     /\ CheckOf[a].results # {} /\ CheckOf[a].hangs \in BOOLEAN

(***************************************************************************)
(* The checks of the package: what a call returns, and whether it may      *)
(* never return.  A timeout of zero is no timeout to a dialer and an HTTP  *)
(* client, and one that has run out to context.WithTimeout.                *)
(***************************************************************************)
TCPDialCheck(timeout) == [hangs |-> timeout = 0, results |-> {"OK", "error"}]
HTTPGetCheck(timeout) == [hangs |-> timeout = 0, results |-> {"OK", "error"}]
DatabasePingCheck(timeout) ==
  [hangs |-> FALSE, results |-> {"error"} \cup (IF timeout = 0 THEN {} ELSE {"OK"})]
DNSResolveCheck(timeout) == [hangs |-> FALSE, results |-> {"OK", "error"}]
GoroutineCountCheck == [hangs |-> FALSE, results |-> {"OK", "error"}]

VARIABLES
  wrapped,    \* the handler is a metricsHandler
  checks,     \* livenessChecks and readinessChecks
  gauges,     \* the gauges in the registry
  add,        \* a call of Add*: "new", "lock", "wait", "unlock", "done", "panicked"
  writer,     \* checksMutex: the call of Add* that has, or waits for, the lock
  readers,    \* checksMutex: probers that have the read lock
  pc,         \* of probers and scrapers: "idle", "rlock", "queued", "range",
              \* "check", "answer"
  maps,       \* maps whose checks are still to be run, the first in progress
  visited,    \* names the range over the first map has passed
  running,    \* the check that is called
  status, body,   \* the answer
  before      \* history: calls of Add* that had returned when the request came

lock == <<writer, readers>>
answers == <<status, body>>
vars == <<wrapped, checks, gauges, add, lock, pc, maps, visited, running, answers, before>>

Askers == Probers \cup Scrapers
NoChecks == [name \in Names |-> NoOne]
Empty == [name \in Names |-> "absent"]
Added(table) == {name \in Names : table[name] # NoOne}

(* Faults, substituted for a definition below.                             *)
RegisterIgnored(a) ==     \* Register, its error ignored
  /\ add[a] = "new"
  /\ gauges' = IF wrapped /\ gauges[NameOf[a]] = NoOne
               THEN [gauges EXCEPT ![NameOf[a]] = a] ELSE gauges
  /\ add' = [add EXCEPT ![a] = "lock"]
  /\ UNCHANGED <<wrapped, checks, lock, pc, maps, visited, running, answers, before>>
WriteUnlocked(a) ==       \* no wait for the readers
  /\ add[a] = "wait"
  /\ checks' = [checks EXCEPT ![MapOf[a]][NameOf[a]] = a]
  /\ add' = [add EXCEPT ![a] = "unlock"]
  /\ UNCHANGED <<wrapped, gauges, lock, pc, maps, visited, running, answers, before>>
EndRangeFresh(p) ==       \* a table for every map
  /\ pc[p] = "range" /\ p \in Probers
  /\ Added(checks[Head(maps[p])]) \subseteq visited[p]
  /\ maps' = [maps EXCEPT ![p] = Tail(@)]
  /\ visited' = [visited EXCEPT ![p] = {}]
  /\ readers' = readers \ {p}
  /\ pc' = [pc EXCEPT ![p] = IF Len(maps[p]) = 1 THEN "answer" ELSE "rlock"]
  /\ body' = [body EXCEPT ![p] = IF Len(maps[p]) = 1 THEN @ ELSE Empty]
  /\ UNCHANGED <<wrapped, checks, gauges, add, writer, running, status, before>>
RetryFailed(p, r) ==      \* a check that fails is called again
  /\ pc[p] = "check" /\ p \in Probers /\ r \in CheckOf[running[p]].results
  /\ body' = [body EXCEPT ![p][NameOf[running[p]]] = r]
  /\ status' = IF r = "error" THEN [status EXCEPT ![p] = 503] ELSE status
  /\ visited' = IF r = "error" THEN [visited EXCEPT ![p] = @ \ {NameOf[running[p]]}] ELSE visited
  /\ running' = [running EXCEPT ![p] = NoOne]
  /\ pc' = [pc EXCEPT ![p] = "range"]
  /\ UNCHANGED <<wrapped, checks, gauges, add, lock, maps, before>>
RLockBarges(p) ==         \* a lock that favours readers
  /\ pc[p] = "rlock"
  /\ IF \A a \in Adds : add[a] # "unlock"
     THEN readers' = readers \cup {p} /\ pc' = [pc EXCEPT ![p] = "range"]
     ELSE pc' = [pc EXCEPT ![p] = "queued"] /\ UNCHANGED readers
  /\ UNCHANGED <<wrapped, checks, gauges, add, writer, maps, visited, running, answers, before>>

-----------------------------------------------------------------------------
Init ==
  /\ wrapped \in BOOLEAN
  /\ checks = [m \in Maps |-> NoChecks]
  /\ gauges = NoChecks
  /\ add = [a \in Adds |-> "new"]
  /\ writer = NoOne /\ readers = {}
  /\ pc = [p \in Askers |-> "idle"]
  /\ maps = [p \in Askers |-> << >>]
  /\ visited = [p \in Askers |-> {}]
  /\ running = [p \in Askers |-> NoOne]
  /\ status = [p \in Askers |-> 200]
  /\ body = [p \in Askers |-> Empty]
  /\ before = [p \in Askers |-> {}]

-----------------------------------------------------------------------------
(* AddLivenessCheck, AddReadinessCheck.                                    *)

\* metricsHandler wraps the check first: MustRegister panics when a gauge with
\* this name exists, and the check is not added.
Wrap(a) ==
  /\ add[a] = "new"
  /\ IF wrapped /\ gauges[NameOf[a]] # NoOne
     THEN add' = [add EXCEPT ![a] = "panicked"] /\ UNCHANGED gauges
     ELSE /\ add' = [add EXCEPT ![a] = "lock"]
          /\ gauges' = IF wrapped THEN [gauges EXCEPT ![NameOf[a]] = a] ELSE gauges
  /\ UNCHANGED <<wrapped, checks, lock, pc, maps, visited, running, answers, before>>

\* checksMutex.Lock(): one writer at a time; from here on no reader enters,
Lock(a) ==
  /\ add[a] = "lock" /\ writer = NoOne
  /\ writer' = a
  /\ add' = [add EXCEPT ![a] = "wait"]
  /\ UNCHANGED <<wrapped, checks, gauges, readers, pc, maps, visited, running, answers, before>>

\* and the writer waits for those inside.
Write(a) ==
  /\ add[a] = "wait" /\ readers = {}
  /\ checks' = [checks EXCEPT ![MapOf[a]][NameOf[a]] = a]
  /\ add' = [add EXCEPT ![a] = "unlock"]
  /\ UNCHANGED <<wrapped, gauges, lock, pc, maps, visited, running, answers, before>>

\* checksMutex.Unlock(): every reader that waits gets the lock.
Unlock(a) ==
  /\ add[a] = "unlock"
  /\ writer' = NoOne
  /\ readers' = readers \cup {p \in Probers : pc[p] = "queued"}
  /\ pc' = [p \in Askers |-> IF pc[p] = "queued" THEN "range" ELSE pc[p]]
  /\ add' = [add EXCEPT ![a] = "done"]
  /\ UNCHANGED <<wrapped, checks, gauges, maps, visited, running, answers, before>>

-----------------------------------------------------------------------------
(* LiveEndpoint, ReadyEndpoint and the gauges.                             *)

Returned == {a \in Adds : add[a] = "done"}

\* A method other than GET is not allowed.
Request(p, todo) ==
  /\ pc[p] = "idle" /\ p \in Probers
  /\ pc' = [pc EXCEPT ![p] = IF todo = << >> THEN "answer" ELSE "rlock"]
  /\ status' = [status EXCEPT ![p] = IF todo = << >> THEN 405 ELSE 200]
  /\ maps' = [maps EXCEPT ![p] = todo]
  /\ before' = [before EXCEPT ![p] = {a \in Returned : MapOf[a] \in {todo[i] : i \in DOMAIN todo}}]
  /\ UNCHANGED <<wrapped, checks, gauges, add, lock, visited, running, body>>
LiveEndpoint(p) == Request(p, <<"liveness">>)
ReadyEndpoint(p) == Request(p, <<"readiness", "liveness">>)
OtherMethod(p) == Request(p, << >>)

\* checksMutex.RLock()
RLock(p) ==
  /\ pc[p] = "rlock"
  /\ IF writer = NoOne
     THEN readers' = readers \cup {p} /\ pc' = [pc EXCEPT ![p] = "range"]
     ELSE pc' = [pc EXCEPT ![p] = "queued"] /\ UNCHANGED readers
  /\ UNCHANGED <<wrapped, checks, gauges, add, writer, maps, visited, running, answers, before>>

\* for name, check := range checks, in any order
CallCheck(p, name) ==
  /\ pc[p] = "range" /\ p \in Probers
  /\ name \in Added(checks[Head(maps[p])]) \ visited[p]
  /\ visited' = [visited EXCEPT ![p] = @ \cup {name}]
  /\ running' = [running EXCEPT ![p] = checks[Head(maps[p])][name]]
  /\ pc' = [pc EXCEPT ![p] = "check"]
  /\ UNCHANGED <<wrapped, checks, gauges, add, lock, maps, answers, before>>

\* check() returns to collectChecks.
CheckReturns(p, r) ==
  /\ pc[p] = "check" /\ p \in Probers /\ r \in CheckOf[running[p]].results
  /\ body' = [body EXCEPT ![p][NameOf[running[p]]] = r]
  /\ status' = IF r = "error" THEN [status EXCEPT ![p] = 503] ELSE status
  /\ running' = [running EXCEPT ![p] = NoOne]
  /\ pc' = [pc EXCEPT ![p] = "range"]
  /\ UNCHANGED <<wrapped, checks, gauges, add, lock, maps, visited, before>>

\* The end of collectChecks, with RUnlock, and on to the next map.
EndRange(p) ==
  /\ pc[p] = "range" /\ p \in Probers
  /\ Added(checks[Head(maps[p])]) \subseteq visited[p]
  /\ maps' = [maps EXCEPT ![p] = Tail(@)]
  /\ visited' = [visited EXCEPT ![p] = {}]
  /\ readers' = readers \ {p}
  /\ pc' = [pc EXCEPT ![p] = IF Len(maps[p]) = 1 THEN "answer" ELSE "rlock"]
  /\ UNCHANGED <<wrapped, checks, gauges, add, writer, running, answers, before>>

\* The status is written, and with ?full=1 the table.
Answer(p) ==
  /\ pc[p] = "answer"
  /\ pc' = [pc EXCEPT ![p] = "idle"]
  /\ status' = [status EXCEPT ![p] = 200]
  /\ body' = [body EXCEPT ![p] = Empty]
  /\ before' = [before EXCEPT ![p] = {}]
  /\ UNCHANGED <<wrapped, checks, gauges, add, lock, maps, visited, running>>

\* A goroutine of a scrape runs the check of one gauge, without checksMutex.
Collect(p, name) ==
  /\ pc[p] = "idle" /\ p \in Scrapers
  /\ name \in Added(gauges)
  /\ running' = [running EXCEPT ![p] = gauges[name]]
  /\ pc' = [pc EXCEPT ![p] = "check"]
  /\ UNCHANGED <<wrapped, checks, gauges, add, lock, maps, visited, answers, before>>
Collected(p) ==
  /\ pc[p] = "check" /\ p \in Scrapers
  /\ running' = [running EXCEPT ![p] = NoOne]
  /\ pc' = [pc EXCEPT ![p] = "idle"]
  /\ UNCHANGED <<wrapped, checks, gauges, add, lock, maps, visited, answers, before>>

Adding(a) == Wrap(a) \/ Lock(a) \/ Write(a) \/ Unlock(a)
Asking(p) == RLock(p) \/ EndRange(p) \/ Answer(p) \/ \E name \in Names : CallCheck(p, name)
Returning(p) == Collected(p) \/ \E r \in {"OK", "error"} : CheckReturns(p, r)

Next ==
  \/ \E a \in Adds : Adding(a)
  \/ \E p \in Askers :
       \/ LiveEndpoint(p) \/ ReadyEndpoint(p) \/ OtherMethod(p)
       \/ \E name \in Names : Collect(p, name)
       \/ Asking(p) \/ Returning(p)

\* A check that may never return is in progress.
Hangs(p) == pc[p] = "check" /\ CheckOf[running[p]].hangs
LockHeld == \E p \in readers : Hangs(p)

\* Goroutines that can run do, and a mutex that is free again and again is
\* obtained; the checks that cannot hang return.  Nobody need add or ask.
Fairness ==
  /\ \A a \in Adds : WF_vars(Write(a) \/ Unlock(a)) /\ SF_vars(Lock(a))
  /\ \A p \in Askers :
       /\ WF_vars(Asking(p))
       /\ WF_vars(~Hangs(p) /\ Returning(p))

Spec == Init /\ [][Next]_vars /\ Fairness

-----------------------------------------------------------------------------
Typed ==
  /\ wrapped \in BOOLEAN
  /\ checks \in [Maps -> [Names -> Adds \cup {NoOne}]]
  /\ gauges \in [Names -> Adds \cup {NoOne}]
  /\ add \in [Adds -> {"new", "lock", "wait", "unlock", "done", "panicked"}]
  /\ writer \in Adds \cup {NoOne} /\ readers \subseteq Probers
  /\ pc \in [Askers -> {"idle", "rlock", "queued", "range", "check", "answer"}]
  /\ visited \in [Askers -> SUBSET Names]
  /\ running \in [Askers -> Adds \cup {NoOne}]
  /\ status \in [Askers -> {200, 405, 503}]
  /\ body \in [Askers -> [Names -> {"absent", "OK", "error"}]]
  /\ before \in [Askers -> SUBSET Adds]

\* Type invariant.  No check is added while anybody ranges over a map of checks
\* (Go ends a program that does this), and a probe waits only for a writer.
TypeOK ==
  /\ Typed
  /\ \A p \in Probers : pc[p] \in {"range", "check"} <=> p \in readers
  /\ \A p \in Probers : pc[p] = "queued" => writer # NoOne
  /\ \A a \in Adds : add[a] \in {"wait", "unlock"} <=> writer = a
  /\ \A a \in Adds : add[a] = "unlock" => readers = {}

\* The table and the status agree: 503 iff the table shows an error.  With
\* metricsHandler this needs no care of the program, because a second check of
\* one name panics; with basicHandler a name must not be used in both maps.
NamesDistinct == \A name \in Names : \E m \in Maps : checks[m][name] = NoOne
BodyExplains ==
  \A p \in Probers :
    pc[p] = "answer" /\ (wrapped \/ NamesDistinct) =>
      (status[p] = 503 <=> \E name \in Names : body[p][name] = "error")

\* A check whose Add returned before the request came is in the table of every
\* probe it belongs to (/ready runs the liveness checks too, in a table that
\* both maps share), and with metricsHandler the gauge of its name is its own.
AddedAreReported ==
  /\ \A p \in Probers : pc[p] = "answer" =>
       \A a \in before[p] : body[p][NameOf[a]] # "absent"
  /\ \A a \in Returned : wrapped =>
       gauges[NameOf[a]] = a /\ checks[MapOf[a]][NameOf[a]] = a


\* Liveness: probes and scrapes are answered however many checks are added,
\* unless a check they run hangs, or an Add waits for one that another runs:
\* without an Add a hanging readiness check does not hold up "/live".
ProbeAnswers ==
  \A p \in Askers :
    []<>(pc[p] = "idle") \/ <>[]Hangs(p) \/ <>[](pc[p] = "queued" /\ LockHeld)

\* Liveness: an Add gets through whatever the probes do, unless a check hangs
\* while the read lock is held.
AddsGetThrough ==
  \A a \in Adds :
    []<>(add[a] \in {"new", "done", "panicked"}) \/ <>[]LockHeld
=============================================================================
