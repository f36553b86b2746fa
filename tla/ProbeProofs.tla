---------------------------- MODULE ProbeProofs -----------------------------
(***************************************************************************)
(* Proofs about Probe, for any checks, probers and scrapers, with and      *)
(* without metrics.                                                        *)
(***************************************************************************)
EXTENDS Probe, TLAPS

Live == <<"liveness">>
Ready == <<"readiness", "liveness">>
Busy == {"rlock", "queued", "range", "check"}

\* How far a request is with its maps; a scraper has nothing to do with them.
MapsInv ==
  /\ maps \in [Askers -> {<< >>, Live, Ready}]
  /\ \A s \in Scrapers : pc[s] \in {"idle", "check"}
  /\ \A p \in Probers :
       /\ pc[p] \in Busy => maps[p] \in {Live, Ready}
       /\ pc[p] \notin Busy => maps[p] = << >>
       /\ pc[p] \notin {"range", "check"} => visited[p] = {}

\* A check that is called is an entry of the map that is ranged over, and the
\* names that were passed are those of entries.
CallInv ==
  /\ \A p \in Askers : pc[p] = "check" => running[p] \in Adds
  /\ \A p \in Probers : pc[p] = "check" =>
       MapOf[running[p]] = Head(maps[p]) /\ NameOf[running[p]] \in visited[p]
  /\ \A p \in Probers : pc[p] \in {"range", "check"} =>
       visited[p] \subseteq Added(checks[Head(maps[p])])

\* An entry is a check that was added under its name, and stays; with metrics
\* a name has one gauge and so one check.
TableInv ==
  /\ \A m \in Maps, x \in Names : checks[m][x] # NoOne =>
       /\ MapOf[checks[m][x]] = m /\ NameOf[checks[m][x]] = x
       /\ add[checks[m][x]] \in {"unlock", "done"}
  /\ \A a \in Adds : add[a] \in {"unlock", "done"} => checks[MapOf[a]][NameOf[a]] # NoOne
  /\ wrapped => \A a \in Adds : add[a] \in {"lock", "wait", "unlock", "done"} =>
       gauges[NameOf[a]] = a

LockInv == TypeOK /\ MapsInv /\ CallInv /\ TableInv

-----------------------------------------------------------------------------
(* The lock, the maps and the gauges.                                      *)

LEMMA MapLists ==
  /\ Head(Live) = "liveness" /\ Tail(Live) = << >> /\ Len(Live) = 1
  /\ Head(Ready) = "readiness" /\ Tail(Ready) = Live /\ Len(Ready) # 1
  /\ Live # << >> /\ Ready # << >> /\ Live # Ready
BY DEF Live, Ready

LEMMA ConstantFacts ==
  /\ NoOne \notin Adds /\ \A p \in Probers : p \notin Scrapers
  /\ Askers = Probers \cup Scrapers
  /\ \A a \in Adds : NameOf[a] \in Names /\ MapOf[a] \in Maps
                     /\ CheckOf[a].results \subseteq {"OK", "error"}
BY ProbeAssumption DEF Askers, Names

LEMMA LockInit == Init => LockInv
<1> SUFFICES ASSUME Init PROVE LockInv
  OBVIOUS
<1>1. TypeOK
  BY ConstantFacts DEF Init, TypeOK, Typed, NoChecks, Empty
<1>2. MapsInv /\ CallInv /\ TableInv
  BY ConstantFacts DEF Init, MapsInv, CallInv, TableInv, NoChecks, Busy
<1> QED
  BY <1>1, <1>2 DEF LockInv

\* What the steps of an Add do.
LEMMA AddStep ==
  ASSUME LockInv, NEW a \in Adds, Adding(a)
  PROVE  LockInv'
<1> USE ConstantFacts DEF LockInv, TypeOK, Typed
<1>1. CASE Wrap(a)
  <2>1. TypeOK'
    BY <1>1 DEF Wrap, lock, answers
  <2>2. MapsInv' /\ CallInv'
    BY <1>1 DEF Wrap, lock, MapsInv, CallInv, Added
  <2>3. TableInv'
    BY <1>1 DEF Wrap, TableInv
  <2> QED
    BY <2>1, <2>2, <2>3
<1>2. CASE Lock(a)
  <2>1. TypeOK'
    BY <1>2 DEF Lock, answers
  <2>2. MapsInv' /\ CallInv'
    BY <1>2 DEF Lock, MapsInv, CallInv, Added
  <2>3. TableInv'
    BY <1>2 DEF Lock, TableInv
  <2> QED
    BY <2>1, <2>2, <2>3
<1>3. CASE Write(a)
  <2>1. TypeOK'
    BY <1>3 DEF Write, lock, answers
  <2>2. MapsInv' /\ CallInv'
    <3>1. \A p \in Probers : pc[p] \notin {"range", "check"}
      BY <1>3 DEF Write
    <3> QED
      BY <1>3, <3>1 DEF Write, lock, MapsInv, CallInv
  <2>3. TableInv'
    <3>1. \A m \in Maps, x \in Names :
            checks'[m][x] = IF m = MapOf[a] /\ x = NameOf[a] THEN a ELSE checks[m][x]
      BY <1>3 DEF Write
    <3>2. add' = [add EXCEPT ![a] = "unlock"] /\ add[a] = "wait" /\ UNCHANGED <<gauges, wrapped>>
      BY <1>3 DEF Write
    <3> QED
      BY <3>1, <3>2 DEF TableInv
  <2> QED
    BY <2>1, <2>2, <2>3
<1>4. CASE Unlock(a)
  <2>1. TypeOK'
    BY <1>4 DEF Unlock, answers
  <2>2. MapsInv' /\ CallInv'
    BY <1>4 DEF Unlock, MapsInv, CallInv, Added, Busy
  <2>3. TableInv'
    BY <1>4 DEF Unlock, TableInv
  <2> QED
    BY <2>1, <2>2, <2>3
<1> QED
  BY <1>1, <1>2, <1>3, <1>4 DEF Adding

\* What the steps of a prober or a scraper do: none changes the checks.
LEMMA AskStep ==
  ASSUME LockInv, NEW p \in Askers,
         \/ LiveEndpoint(p) \/ ReadyEndpoint(p) \/ OtherMethod(p)
         \/ \E x \in Names : Collect(p, x)
         \/ Asking(p) \/ Returning(p)
  PROVE  LockInv'
<1> USE ConstantFacts, MapLists DEF LockInv, TypeOK, Typed
<1>0. TableInv'
  <2>1. UNCHANGED <<checks, add, gauges, wrapped>>
    BY DEF LiveEndpoint, ReadyEndpoint, OtherMethod, Request, Collect, Asking, RLock, CallCheck,
           EndRange, Answer, Returning, Collected, CheckReturns
  <2> QED
    BY <2>1 DEF TableInv
<1>1. ASSUME NEW todo \in {<< >>, Live, Ready}, Request(p, todo) PROVE LockInv'
  <2>1. before' \in [Askers -> SUBSET Adds]
    BY <1>1 DEF Request, Returned
  <2>2. TypeOK'
    BY <1>1, <2>1 DEF Request, lock
  <2>3. /\ p \in Probers /\ pc[p] = "idle" /\ maps' = [maps EXCEPT ![p] = todo]
        /\ pc' = [pc EXCEPT ![p] = IF todo = << >> THEN "answer" ELSE "rlock"]
        /\ UNCHANGED <<checks, visited, running>>
    BY <1>1 DEF Request
  <2>4. MapsInv'
    <3>1. CASE todo = << >>
      BY <2>3, <3>1 DEF MapsInv, Busy
    <3>2. CASE todo \in {Live, Ready}
      <4>1. pc' = [pc EXCEPT ![p] = "rlock"]
        BY <2>3, <3>2
      <4> QED
        BY <2>3, <3>2, <4>1 DEF MapsInv, Busy
    <3> QED
      BY <3>1, <3>2
  <2>5. CallInv'
    BY <2>3 DEF CallInv, Added
  <2> QED
    BY <1>0, <2>2, <2>4, <2>5
<1>2. CASE RLock(p)
  <2>0. /\ p \in Probers /\ pc[p] = "rlock"
        /\ UNCHANGED <<wrapped, checks, gauges, add, writer, maps, visited, running, answers, before>>
    BY <1>2 DEF RLock, MapsInv
  <2>1. CASE writer = NoOne /\ readers' = readers \cup {p} /\ pc' = [pc EXCEPT ![p] = "range"]
    <3>1. TypeOK'
      BY <2>0, <2>1 DEF answers
    <3>2. MapsInv' /\ CallInv'
      BY <2>0, <2>1 DEF MapsInv, CallInv, Added, Busy
    <3> QED
      BY <1>0, <3>1, <3>2
  <2>2. CASE writer # NoOne /\ UNCHANGED readers /\ pc' = [pc EXCEPT ![p] = "queued"]
    <3>1. TypeOK'
      BY <2>0, <2>2 DEF answers
    <3>2. MapsInv' /\ CallInv'
      BY <2>0, <2>2 DEF MapsInv, CallInv, Added, Busy
    <3> QED
      BY <1>0, <3>1, <3>2
  <2> QED
    BY <1>2, <2>1, <2>2 DEF RLock
<1>3. ASSUME NEW x \in Names, CallCheck(p, x) PROVE LockInv'
  <2> DEFINE a == checks[Head(maps[p])][x]
  <2>1. Head(maps[p]) \in Maps /\ p \in Probers /\ maps[p] # << >>
    BY <1>3 DEF CallCheck, MapsInv, Busy, Maps
  <2>2. a \in Adds /\ MapOf[a] = Head(maps[p]) /\ NameOf[a] = x
    BY <1>3, <2>1 DEF CallCheck, Added, TableInv
  <2>3. /\ pc[p] = "range" /\ pc' = [pc EXCEPT ![p] = "check"]
        /\ visited' = [visited EXCEPT ![p] = @ \cup {x}] /\ running' = [running EXCEPT ![p] = a]
        /\ x \in Added(checks[Head(maps[p])])
        /\ UNCHANGED <<wrapped, checks, gauges, add, lock, maps, answers, before>>
    BY <1>3 DEF CallCheck
  <2> HIDE DEF a
  <2>4. TypeOK'
    BY <2>1, <2>2, <2>3 DEF lock, answers
  <2>5. MapsInv' /\ CallInv'
    BY <2>1, <2>2, <2>3 DEF lock, answers, MapsInv, CallInv, Busy, Added
  <2> QED
    BY <1>0, <2>4, <2>5
<1>4. ASSUME NEW r \in {"OK", "error"}, CheckReturns(p, r) PROVE LockInv'
  <2>1. TypeOK'
    <3>1. running[p] \in Adds /\ NameOf[running[p]] \in Names
      BY <1>4 DEF CheckReturns, CallInv
    <3>2. body' \in [Askers -> [Names -> {"absent", "OK", "error"}]]
      BY <1>4, <3>1 DEF CheckReturns
    <3>3. status' \in [Askers -> {200, 405, 503}]
      BY <1>4 DEF CheckReturns
    <3> QED
      BY <1>4, <3>2, <3>3 DEF CheckReturns, lock
  <2>2. MapsInv' /\ CallInv'
    BY <1>4 DEF CheckReturns, lock, MapsInv, CallInv, Busy, Added
  <2> QED
    BY <1>0, <2>1, <2>2
<1>5. CASE EndRange(p)
  <2>1. p \in Probers /\ maps[p] \in {Live, Ready} /\ pc[p] = "range"
    BY <1>5 DEF EndRange, MapsInv, Busy
  <2>2. /\ visited' = [visited EXCEPT ![p] = {}] /\ readers' = readers \ {p}
        /\ maps' = [maps EXCEPT ![p] = Tail(maps[p])]
        /\ pc' = [pc EXCEPT ![p] = IF Len(maps[p]) = 1 THEN "answer" ELSE "rlock"]
        /\ UNCHANGED <<wrapped, checks, gauges, add, writer, running, answers, before>>
    BY <1>5 DEF EndRange
  <2>3. \/ maps' = [maps EXCEPT ![p] = << >>] /\ pc' = [pc EXCEPT ![p] = "answer"]
        \/ maps' = [maps EXCEPT ![p] = Live] /\ pc' = [pc EXCEPT ![p] = "rlock"]
    <3>1. CASE maps[p] = Live
      BY <2>2, <3>1
    <3>2. CASE maps[p] = Ready
      BY <2>2, <3>2
    <3> QED
      BY <2>1, <3>1, <3>2
  <2> HIDE MapLists
  <2>4. TypeOK'
    BY <2>1, <2>2, <2>3 DEF answers
  <2>5. MapsInv'
    <3>1. CASE maps' = [maps EXCEPT ![p] = << >>] /\ pc' = [pc EXCEPT ![p] = "answer"]
      BY <2>1, <2>2, <3>1 DEF MapsInv, Busy
    <3>2. CASE maps' = [maps EXCEPT ![p] = Live] /\ pc' = [pc EXCEPT ![p] = "rlock"]
      BY <2>1, <2>2, <3>2, MapLists DEF MapsInv, Busy
    <3> QED
      BY <2>3, <3>1, <3>2
  <2>6. CallInv'
    BY <2>1, <2>2, <2>3 DEF CallInv, Added
  <2> QED
    BY <1>0, <2>4, <2>5, <2>6
<1>6. CASE Answer(p)
  <2>1. TypeOK'
    BY <1>6 DEF Answer, lock, Empty
  <2>2. MapsInv' /\ CallInv'
    BY <1>6 DEF Answer, lock, MapsInv, CallInv, Busy, Added
  <2> QED
    BY <1>0, <2>1, <2>2
<1>7. ASSUME NEW x \in Names, Collect(p, x) PROVE LockInv'
  <2>1. gauges[x] \in Adds
    BY <1>7 DEF Collect, Added
  <2>2. TypeOK'
    BY <1>7, <2>1 DEF Collect, lock, answers
  <2>3. MapsInv' /\ CallInv'
    BY <1>7, <2>1 DEF Collect, lock, MapsInv, CallInv, Busy, Added
  <2> QED
    BY <1>0, <2>2, <2>3
<1>8. CASE Collected(p)
  <2>1. TypeOK'
    BY <1>8 DEF Collected, lock, answers
  <2>2. MapsInv' /\ CallInv'
    BY <1>8 DEF Collected, lock, MapsInv, CallInv, Busy, Added
  <2> QED
    BY <1>0, <2>1, <2>2
<1>9. LiveEndpoint(p) \/ ReadyEndpoint(p) \/ OtherMethod(p)
        => \E todo \in {<< >>, Live, Ready} : Request(p, todo)
  BY DEF LiveEndpoint, ReadyEndpoint, OtherMethod, Live, Ready
<1> QED
  BY <1>1, <1>2, <1>3, <1>4, <1>5, <1>6, <1>7, <1>8, <1>9 DEF Asking, Returning

LEMMA LockStep == LockInv /\ [Next]_vars => LockInv'
<1> SUFFICES ASSUME LockInv, [Next]_vars PROVE LockInv'
  OBVIOUS
<1>1. CASE UNCHANGED vars
  BY <1>1 DEF vars, lock, answers, LockInv, TypeOK, Typed, MapsInv, CallInv, TableInv, Added
<1> QED
  BY <1>1, AddStep, AskStep DEF Next

\* The lock, the maps and the gauges are as the invariant says.
THEOREM LockInvariant == Spec => []LockInv
BY LockInit, LockStep, PTL DEF Spec

\* TypeOK: no check is added while a probe ranges over a map, and a probe waits
\* for a writer only.
THEOREM TypeCorrect == Spec => []TypeOK
<1>1. LockInv => TypeOK
  BY DEF LockInv
<1> QED
  BY <1>1, LockInvariant, PTL

-----------------------------------------------------------------------------
(* The table of a probe.                                                   *)

\* The names of the map in progress whose check has returned.
Seen(p) == IF pc[p] = "check" THEN visited[p] \ {NameOf[running[p]]} ELSE visited[p]
Errs(p) == \E x \in Names : body[p][x] = "error"

\* Check a is still to be run for this probe.
Todo(p, a) ==
  /\ pc[p] \in Busy
  /\ maps[p] = Ready \/ MapOf[a] = "liveness"
  /\ MapOf[a] = Head(maps[p]) => NameOf[a] \notin Seen(p)

\* The table has the results of the checks seen so far, in this map or in the
\* one before.  An error in it was not overwritten by another check, if there
\* is no other of that name.
StatusInv(p) ==
  /\ pc[p] = "idle" => body[p] = Empty /\ before[p] = {}
  /\ pc[p] \in Busy => \A x \in Names : body[p][x] # "absent" =>
       x \in Seen(p) \/ (maps[p] = Live /\ x \in Added(checks["readiness"]))
  /\ Errs(p) => status[p] = 503
  /\ status[p] = 503 /\ (wrapped \/ NamesDistinct) => Errs(p)
ReportInv(p) ==
  \A a \in before[p] : add[a] = "done" /\ (body[p][NameOf[a]] # "absent" \/ Todo(p, a))

PInv == LockInv /\ \A p \in Probers : StatusInv(p) /\ ReportInv(p)

\* Checks that are added change nothing for the probes under way.
LEMMA Undisturbed ==
  ASSUME LockInv, NEW p \in Probers, StatusInv(p), ReportInv(p),
         UNCHANGED <<wrapped, maps[p], visited[p], running[p], status[p], body[p], before[p]>>,
         \A m \in Maps, x \in Names : checks[m][x] # NoOne => checks'[m][x] # NoOne,
         \A a \in Adds : add[a] = "done" => add'[a] = "done",
         pc'[p] = pc[p] \/ (pc[p] = "queued" /\ pc'[p] = "range")
  PROVE  StatusInv(p)' /\ ReportInv(p)'
<1>1. before[p] \in SUBSET Adds
  BY ConstantFacts DEF LockInv, TypeOK, Typed
<1>2. NamesDistinct' => NamesDistinct
  BY DEF NamesDistinct
<1>3. Added(checks["readiness"]) \subseteq Added(checks'["readiness"])
  BY DEF Added, Maps
<1>4. /\ pc'[p] \in Busy <=> pc[p] \in Busy
      /\ pc'[p] = "idle" <=> pc[p] = "idle"
      /\ Seen(p)' = Seen(p) /\ (Errs(p)' <=> Errs(p))
  BY DEF Busy, Seen, Errs
<1>5. StatusInv(p)'
  BY <1>2, <1>3, <1>4 DEF StatusInv
<1>6. ReportInv(p)'
  BY <1>1, <1>4 DEF ReportInv, Todo
<1> QED
  BY <1>5, <1>6

LEMMA PInit == Init => PInv
<1> SUFFICES ASSUME Init PROVE PInv
  OBVIOUS
<1>1. ASSUME NEW p \in Probers PROVE StatusInv(p) /\ ReportInv(p)
  BY <1>1, ConstantFacts DEF Init, StatusInv, ReportInv, Errs, Empty, Busy
<1> QED
  BY <1>1, LockInit DEF PInv

LEMMA AddTable ==
  ASSUME PInv, NEW a \in Adds, Adding(a), NEW p \in Probers
  PROVE  StatusInv(p)' /\ ReportInv(p)'
<1>1. UNCHANGED <<wrapped, maps, visited, running, answers, before>>
  BY DEF Adding, Wrap, Lock, Write, Unlock
<1>2. \A m \in Maps, x \in Names : checks[m][x] # NoOne => checks'[m][x] # NoOne
  <2>1. CASE Write(a)
    BY <2>1, ConstantFacts DEF Write, PInv, LockInv, TypeOK, Typed
  <2>2. CASE ~Write(a)
    BY <2>2 DEF Adding, Wrap, Lock, Unlock
  <2> QED
    BY <2>1, <2>2
<1>3. \A b \in Adds : add[b] = "done" => add'[b] = "done"
  BY DEF Adding, Wrap, Lock, Write, Unlock, PInv, LockInv, TypeOK, Typed
<1>4. pc'[p] = pc[p] \/ (pc[p] = "queued" /\ pc'[p] = "range")
  BY ConstantFacts DEF Adding, Wrap, Lock, Write, Unlock, PInv, LockInv, TypeOK, Typed
<1> QED
  BY <1>1, <1>2, <1>3, <1>4, Undisturbed DEF PInv, answers

\* With metrics, or if the program takes care, a name is in one map.
LEMMA OneMap ==
  ASSUME LockInv, wrapped \/ NamesDistinct, NEW x \in Names,
         x \in Added(checks["readiness"]), x \in Added(checks["liveness"])
  PROVE  FALSE
<1> DEFINE a == checks["readiness"][x]
           b == checks["liveness"][x]
<1>1. a \in Adds /\ b \in Adds
  BY DEF LockInv, TypeOK, Typed, Added, Maps
<1>2. /\ MapOf[a] = "readiness" /\ NameOf[a] = x /\ add[a] \in {"unlock", "done"}
      /\ MapOf[b] = "liveness" /\ NameOf[b] = x /\ add[b] \in {"unlock", "done"}
  BY <1>1, ConstantFacts DEF LockInv, TableInv, Maps
<1>3. CASE wrapped
  BY <1>1, <1>2, <1>3 DEF LockInv, TableInv
<1>4. CASE NamesDistinct
  BY <1>1, <1>4, ConstantFacts DEF NamesDistinct, Maps
<1> QED
  BY <1>3, <1>4

\* A check returns to its prober: its result is the first under its name, if
\* the name is in one map.
LEMMA ReturnTable ==
  ASSUME PInv, NEW p \in Probers, NEW r \in {"OK", "error"}, CheckReturns(p, r)
  PROVE  StatusInv(p)' /\ ReportInv(p)'
<1> DEFINE x == NameOf[running[p]]
<1>0. /\ LockInv /\ StatusInv(p) /\ ReportInv(p) /\ pc[p] = "check" /\ p \in Askers
      /\ running[p] \in Adds /\ x \in visited[p] /\ x \in Names
      /\ maps[p] \in {Live, Ready}
      /\ visited[p] \subseteq Added(checks[Head(maps[p])])
  BY ConstantFacts DEF PInv, LockInv, CallInv, MapsInv, Busy, CheckReturns
<1>1. /\ body' = [body EXCEPT ![p][x] = r] /\ body \in [Askers -> [Names -> {"absent", "OK", "error"}]]
      /\ status' = IF r = "error" THEN [status EXCEPT ![p] = 503] ELSE status
      /\ status \in [Askers -> {200, 405, 503}] /\ p \in DOMAIN pc
      /\ pc' = [pc EXCEPT ![p] = "range"]
      /\ UNCHANGED <<wrapped, checks, add, maps, visited, before>>
      /\ before[p] \in SUBSET Adds
  BY <1>0 DEF CheckReturns, LockInv, TypeOK, Typed
<1> HIDE DEF x
<1>2. /\ pc'[p] = "range" /\ Seen(p) = visited[p] \ {x} /\ Seen(p)' = visited[p]
      /\ body'[p][x] = r /\ \A y \in Names \ {x} : body'[p][y] = body[p][y]
  BY <1>0, <1>1 DEF Seen, x
<1>3. \A y \in Names : body'[p][y] # "absent" =>
        y \in Seen(p)' \/ (maps'[p] = Live /\ y \in Added(checks'["readiness"]))
  BY <1>0, <1>1, <1>2 DEF StatusInv, Busy
<1>4. Errs(p)' => status'[p] = 503
  BY <1>0, <1>1, <1>2 DEF StatusInv, Errs
<1>5. ASSUME status'[p] = 503, wrapped \/ NamesDistinct PROVE Errs(p)'
  <2>1. CASE r = "error"
    BY <1>0, <1>2, <2>1 DEF Errs
  <2>2. CASE r = "OK"
    <3>1. Errs(p)
      BY <1>0, <1>1, <1>5, <2>2 DEF StatusInv
    <3>2. body[p][x] = "absent"
      <4> SUFFICES ASSUME body[p][x] # "absent" PROVE FALSE
        OBVIOUS
      <4>1. maps[p] = Live /\ x \in Added(checks["readiness"])
        BY <1>0, <1>2 DEF StatusInv, Busy
      <4>2. x \in Added(checks["liveness"])
        BY <1>0, <4>1, MapLists
      <4> QED
        BY <1>0, <1>5, <4>1, <4>2, OneMap
    <3> QED
      BY <1>2, <3>1, <3>2 DEF Errs
  <2> QED
    BY <2>1, <2>2
<1>6. StatusInv(p)'
  BY <1>1, <1>2, <1>3, <1>4, <1>5 DEF StatusInv, NamesDistinct
<1>7. ReportInv(p)'
  <2> SUFFICES ASSUME NEW a \in before[p]
               PROVE  add[a] = "done" /\ (body'[p][NameOf[a]] # "absent" \/ Todo(p, a)')
    BY <1>1 DEF ReportInv
  <2>1. NameOf[a] \in Names /\ add[a] = "done" /\ (body[p][NameOf[a]] # "absent" \/ Todo(p, a))
    BY <1>0, <1>1, ConstantFacts DEF ReportInv
  <2>2. CASE NameOf[a] = x
    BY <1>2, <2>1, <2>2
  <2>3. CASE NameOf[a] # x
    BY <1>1, <1>2, <2>1, <2>3 DEF Todo, Busy
  <2> QED
    BY <2>2, <2>3
<1> QED
  BY <1>6, <1>7

\* The end of a map: every check of it is in the table.
LEMMA EndTable ==
  ASSUME PInv, NEW p \in Probers, EndRange(p)
  PROVE  StatusInv(p)' /\ ReportInv(p)'
<1>0. /\ LockInv /\ StatusInv(p) /\ ReportInv(p) /\ pc[p] = "range" /\ p \in Askers
      /\ maps[p] \in {Live, Ready} /\ before[p] \in SUBSET Adds
      /\ visited[p] \subseteq Added(checks[Head(maps[p])])
      /\ Added(checks[Head(maps[p])]) \subseteq visited[p]
      /\ p \in DOMAIN pc /\ p \in DOMAIN maps /\ p \in DOMAIN visited
      /\ body[p] \in [Names -> {"absent", "OK", "error"}]
  BY ConstantFacts DEF PInv, LockInv, TypeOK, Typed, CallInv, MapsInv, Busy, EndRange
<1>1. /\ visited'[p] = {} /\ UNCHANGED <<wrapped, checks, add, status, body, before>>
      /\ maps'[p] = Tail(maps[p])
      /\ pc'[p] = IF Len(maps[p]) = 1 THEN "answer" ELSE "rlock"
  BY <1>0 DEF EndRange, answers
<1>2. Seen(p) = visited[p] /\ Seen(p)' = {}
  BY <1>0, <1>1 DEF Seen
<1>3. /\ maps[p] = Live => pc'[p] = "answer"
      /\ maps[p] = Ready => pc'[p] = "rlock" /\ maps'[p] = Live
  BY <1>1, MapLists
<1>4. StatusInv(p)'
  <2>1. ASSUME maps[p] = Ready, NEW x \in Names, body[p][x] # "absent"
        PROVE  x \in Added(checks["readiness"])
    BY <1>0, <1>2, <2>1, MapLists DEF StatusInv, Busy
  <2>2. pc'[p] \in Busy => maps[p] = Ready
    BY <1>0, <1>3 DEF Busy
  <2>3. (Errs(p)' <=> Errs(p)) /\ (NamesDistinct' <=> NamesDistinct) /\ pc'[p] # "idle"
    BY <1>1 DEF Errs, NamesDistinct
  <2> QED
    BY <1>0, <1>1, <1>3, <2>1, <2>2, <2>3 DEF StatusInv
<1>5. ReportInv(p)'
  <2> SUFFICES ASSUME NEW a \in before[p]
               PROVE  add[a] = "done" /\ (body[p][NameOf[a]] # "absent" \/ Todo(p, a)')
    BY <1>1 DEF ReportInv
  <2>1. /\ a \in Adds /\ NameOf[a] \in Names /\ MapOf[a] \in {"readiness", "liveness"}
        /\ add[a] = "done" /\ (body[p][NameOf[a]] # "absent" \/ Todo(p, a))
    BY <1>0, ConstantFacts DEF ReportInv, Maps
  <2>2. NameOf[a] \in Added(checks[MapOf[a]])
    BY <1>0, <2>1 DEF LockInv, TableInv, Added
  <2>3. Todo(p, a) => MapOf[a] # Head(maps[p])
    BY <1>0, <1>2, <2>2 DEF Todo
  <2>4. Todo(p, a) => maps[p] = Ready /\ MapOf[a] = "liveness"
    BY <1>0, <2>1, <2>3, MapLists DEF Todo
  <2>5. Todo(p, a) => Todo(p, a)'
    BY <1>2, <1>3, <2>4 DEF Todo, Busy
  <2> QED
    BY <2>1, <2>5
<1> QED
  BY <1>4, <1>5

\* The other steps of a prober.
LEMMA AskTable ==
  ASSUME PInv, NEW p \in Probers,
         \/ LiveEndpoint(p) \/ ReadyEndpoint(p) \/ OtherMethod(p)
         \/ RLock(p) \/ Answer(p) \/ \E x \in Names : CallCheck(p, x)
  PROVE  StatusInv(p)' /\ ReportInv(p)'
<1>0. /\ LockInv /\ StatusInv(p) /\ ReportInv(p) /\ p \in Askers /\ MapsInv
      /\ p \in DOMAIN pc /\ p \in DOMAIN maps /\ p \in DOMAIN visited /\ p \in DOMAIN running
      /\ p \in DOMAIN status /\ p \in DOMAIN body /\ p \in DOMAIN before
      /\ status[p] \in {200, 405, 503} /\ before[p] \in SUBSET Adds
      /\ checks \in [Maps -> [Names -> Adds \cup {NoOne}]]
  BY ConstantFacts DEF PInv, LockInv, TypeOK, Typed, MapsInv
<1>1. ASSUME NEW todo \in {<< >>, Live, Ready}, Request(p, todo)
      PROVE  StatusInv(p)' /\ ReportInv(p)'
  <2>1. /\ pc[p] = "idle" /\ body'[p] = Empty /\ visited'[p] = {} /\ maps'[p] = todo
        /\ pc'[p] = IF todo = << >> THEN "answer" ELSE "rlock"
        /\ status'[p] # 503 /\ UNCHANGED <<checks, add>>
        /\ before'[p] = {a \in Returned : MapOf[a] \in {todo[i] : i \in DOMAIN todo}}
    BY <1>0, <1>1 DEF Request, MapsInv, StatusInv
  <2>2. StatusInv(p)'
    BY <2>1 DEF StatusInv, Errs, Empty
  <2>3. ASSUME NEW a \in before'[p] PROVE add[a] = "done" /\ Todo(p, a)'
    <3>1. a \in Adds /\ add[a] = "done" /\ \E i \in DOMAIN todo : MapOf[a] = todo[i]
      BY <2>1, <2>3 DEF Returned
    <3>2. todo \in {Live, Ready} /\ (todo = Live => MapOf[a] = "liveness")
      BY <3>1 DEF Live
    <3>3. pc'[p] = "rlock" /\ Seen(p)' = {}
      BY <2>1, <3>2, MapLists DEF Seen
    <3> QED
      BY <2>1, <3>1, <3>2, <3>3 DEF Todo, Busy
  <2> QED
    BY <2>1, <2>2, <2>3 DEF ReportInv
<1>2. CASE RLock(p)
  <2>1. /\ pc[p] = "rlock" /\ pc'[p] \in {"range", "queued"}
        /\ UNCHANGED <<wrapped, checks, add, maps, visited, running, status, body, before>>
    BY <1>0, <1>2 DEF RLock, answers
  <2>2. Seen(p)' = Seen(p) /\ (Errs(p)' <=> Errs(p)) /\ (NamesDistinct' <=> NamesDistinct)
    BY <2>1 DEF Seen, Errs, NamesDistinct
  <2>3. StatusInv(p)'
    BY <1>0, <2>1, <2>2 DEF StatusInv, Busy
  <2>4. ReportInv(p)'
    BY <1>0, <2>1, <2>2 DEF ReportInv, Todo, Busy
  <2> QED
    BY <2>3, <2>4
<1>3. CASE Answer(p)
  <2>1. pc'[p] = "idle" /\ status'[p] = 200 /\ body'[p] = Empty /\ before'[p] = {}
    BY <1>0, <1>3 DEF Answer
  <2> QED
    BY <2>1 DEF StatusInv, ReportInv, Errs, Empty, Busy
<1>4. ASSUME NEW x \in Names, CallCheck(p, x) PROVE StatusInv(p)' /\ ReportInv(p)'
  <2>1. /\ pc[p] = "range" /\ pc'[p] = "check" /\ visited'[p] = visited[p] \cup {x}
        /\ running'[p] = checks[Head(maps[p])][x] /\ x \notin visited[p]
        /\ checks[Head(maps[p])][x] # NoOne
        /\ UNCHANGED <<wrapped, checks, add, maps, status, body, before>>
    BY <1>0, <1>4 DEF CallCheck, answers, Added
  <2>2. Head(maps[p]) \in Maps
    BY <1>0, <2>1, MapLists DEF MapsInv, Busy, Maps
  <2>3. NameOf[running'[p]] = x
    BY <1>0, <2>1, <2>2 DEF LockInv, TableInv
  <2>4. Seen(p)' = Seen(p) /\ (Errs(p)' <=> Errs(p)) /\ (NamesDistinct' <=> NamesDistinct)
    BY <2>1, <2>3 DEF Seen, Errs, NamesDistinct
  <2>5. StatusInv(p)'
    BY <1>0, <2>1, <2>4 DEF StatusInv, Busy
  <2>6. ReportInv(p)'
    BY <1>0, <2>1, <2>4 DEF ReportInv, Todo, Busy
  <2> QED
    BY <2>5, <2>6
<1>5. LiveEndpoint(p) \/ ReadyEndpoint(p) \/ OtherMethod(p)
        => \E todo \in {<< >>, Live, Ready} : Request(p, todo)
  BY DEF LiveEndpoint, ReadyEndpoint, OtherMethod, Live, Ready
<1> QED
  BY <1>1, <1>2, <1>3, <1>4, <1>5

\* A step of somebody else: at most it frees the lock.
LEMMA OtherTable ==
  ASSUME PInv, NEW q \in Askers, NEW p \in Probers, p # q,
         \/ LiveEndpoint(q) \/ ReadyEndpoint(q) \/ OtherMethod(q)
         \/ \E x \in Names : Collect(q, x)
         \/ Asking(q) \/ Returning(q)
  PROVE  StatusInv(p)' /\ ReportInv(p)'
<1>1. /\ LockInv /\ StatusInv(p) /\ ReportInv(p) /\ p \in Askers
      /\ p \in DOMAIN pc /\ p \in DOMAIN maps /\ p \in DOMAIN visited /\ p \in DOMAIN running
      /\ p \in DOMAIN status /\ p \in DOMAIN body /\ p \in DOMAIN before
  BY ConstantFacts DEF PInv, LockInv, TypeOK, Typed, MapsInv
<1>2. UNCHANGED <<wrapped, checks, add>>
  BY DEF LiveEndpoint, ReadyEndpoint, OtherMethod, Request, Collect, Asking, RLock, CallCheck,
         EndRange, Answer, Returning, Collected, CheckReturns
<1>3. UNCHANGED <<maps[p], visited[p], running[p], before[p], pc[p]>>
  BY <1>1 DEF LiveEndpoint, ReadyEndpoint, OtherMethod, Request, Collect, Asking, RLock, CallCheck,
         EndRange, Answer, Returning, Collected, CheckReturns, answers
<1>4. UNCHANGED <<status[p], body[p]>>
  BY <1>1 DEF LiveEndpoint, ReadyEndpoint, OtherMethod, Request, Collect, Asking, RLock, CallCheck,
         EndRange, Answer, Returning, Collected, CheckReturns, answers
<1> QED
  BY <1>1, <1>2, <1>3, <1>4, Undisturbed

LEMMA PStep == PInv /\ [Next]_vars => PInv'
<1> SUFFICES ASSUME PInv, [Next]_vars PROVE PInv'
  OBVIOUS
<1>1. LockInv'
  BY LockStep DEF PInv
<1> SUFFICES ASSUME NEW p \in Probers PROVE StatusInv(p)' /\ ReportInv(p)'
  BY <1>1 DEF PInv
<1>2. CASE UNCHANGED vars
  BY <1>2, Undisturbed DEF vars, lock, answers, PInv
<1>3. ASSUME NEW a \in Adds, Adding(a) PROVE StatusInv(p)' /\ ReportInv(p)'
  BY <1>3, AddTable
<1>4. ASSUME NEW q \in Askers,
             \/ LiveEndpoint(q) \/ ReadyEndpoint(q) \/ OtherMethod(q)
             \/ \E x \in Names : Collect(q, x)
             \/ Asking(q) \/ Returning(q)
      PROVE  StatusInv(p)' /\ ReportInv(p)'
  <2>1. CASE p # q
    BY <1>4, <2>1, OtherTable
  <2>2. CASE p = q
    <3>1. ~Collected(p) /\ \A x \in Names : ~Collect(p, x)
      BY ConstantFacts DEF Collected, Collect
    <3>2. CASE EndRange(p)
      BY <3>2, EndTable
    <3>3. ASSUME NEW r \in {"OK", "error"}, CheckReturns(p, r)
          PROVE  StatusInv(p)' /\ ReportInv(p)'
      BY <3>3, ReturnTable
    <3>4. CASE \/ LiveEndpoint(p) \/ ReadyEndpoint(p) \/ OtherMethod(p)
               \/ RLock(p) \/ Answer(p) \/ \E x \in Names : CallCheck(p, x)
      BY <3>4, AskTable
    <3> QED
      BY <1>4, <2>2, <3>1, <3>2, <3>3, <3>4 DEF Asking, Returning
  <2> QED
    BY <2>1, <2>2
<1> QED
  BY <1>2, <1>3, <1>4 DEF Next

\* The table of a probe is as the invariant says, however many checks are added
\* and probes and scrapes run beside it.
THEOREM TableInvariant == Spec => []PInv
BY PInit, PStep, PTL DEF Spec

\* BodyExplains: the answer is 503 iff its table shows an error (collectChecks
\* and the status that handle writes), if a name is in one map only.
THEOREM StatusIsExplained == Spec => []BodyExplains
<1>1. PInv => BodyExplains
  BY DEF PInv, StatusInv, BodyExplains, Errs
<1> QED
  BY <1>1, TableInvariant, PTL

\* AddedAreReported: a check added before the request is in the answer's table,
\* and with metricsHandler its gauge is the one under its name.
THEOREM NoCheckIsMissed == Spec => []AddedAreReported
<1>1. PInv => AddedAreReported
  <2> SUFFICES ASSUME PInv PROVE AddedAreReported
    OBVIOUS
  <2>1. ASSUME NEW p \in Probers, pc[p] = "answer", NEW a \in before[p]
        PROVE  body[p][NameOf[a]] # "absent"
    BY <2>1 DEF PInv, ReportInv, Todo, Busy
  <2>2. ASSUME NEW a \in Returned, wrapped
        PROVE  gauges[NameOf[a]] = a /\ checks[MapOf[a]][NameOf[a]] = a
    <3> DEFINE b == checks[MapOf[a]][NameOf[a]]
    <3>1. a \in Adds /\ add[a] = "done"
      BY <2>2 DEF Returned
    <3>2. b \in Adds \cup {NoOne} /\ b # NoOne
      BY <3>1, ConstantFacts DEF PInv, LockInv, TypeOK, Typed, TableInv
    <3>3. NameOf[b] = NameOf[a] /\ add[b] \in {"unlock", "done"}
      BY <3>1, <3>2, ConstantFacts DEF PInv, LockInv, TableInv
    <3>4. gauges[NameOf[a]] = a /\ gauges[NameOf[b]] = b
      BY <2>2, <3>1, <3>2, <3>3 DEF PInv, LockInv, TableInv
    <3> QED
      BY <3>3, <3>4
  <2> QED
    BY <2>1, <2>2 DEF AddedAreReported
<1> QED
  BY <1>1, TableInvariant, PTL
=============================================================================
