-------------------------- MODULE AsyncCheckProofs --------------------------
(***************************************************************************)
(* Proofs about AsyncCheck, for any number of callers and of runs of the   *)
(* check, with and without a timeout.                                      *)
(***************************************************************************)
EXTENDS AsyncCheck, TLAPS

Data == [run : Calls \cup {0}, how : {"nodata", "checked", "timedout"}]

\* What is received is what the runs of the check returned; the channel of a
\* timed call holds no result but its own.
DataInv ==
  /\ err \in Data /\ held \in [Callers -> Data]
  /\ result = << >> \/ \E d \in Data : result = <<d>>
  /\ \A r \in Calls : c[r] # << >> => c[r] = <<r>>

\* The one result is in the channel or with the one who took it out.
OneResult ==
  /\ result # << >> =>
       recvq = << >> /\ upd # "send" /\ \A p \in Callers : pc[p] # "send"
  /\ result = << >> =>
       \/ upd = "send" /\ \A p \in Callers : pc[p] # "send"
       \/ /\ upd # "send"
          /\ \E p \in Callers : pc[p] = "send" /\ \A q \in Callers \ {p} : pc[q] # "send"

InQueue(x, q) == \E i \in 1..Len(q) : q[i] = x
Distinct(q) == \A i, j \in 1..Len(q) : q[i] = q[j] => i = j

\* The receivers that are blocked are in the queue of the channel, once.
QueueInv ==
  /\ Distinct(recvq)
  /\ \A p \in Callers : pc[p] = "blocked" <=> InQueue(p, recvq)
  /\ upd = "blocked" <=> InQueue(Update, recvq)

IInv == Typed /\ DataInv /\ OneResult /\ QueueInv

-----------------------------------------------------------------------------
(* Queues.                                                                 *)

LEMMA Dequeue ==
  ASSUME NEW S, NEW q \in Seq(S), q # << >>, Distinct(q)
  PROVE  /\ Head(q) \in S /\ Tail(q) \in Seq(S) /\ Distinct(Tail(q))
         /\ InQueue(Head(q), q)
         /\ \A x : InQueue(x, Tail(q)) <=> InQueue(x, q) /\ x # Head(q)
<1>1. /\ Len(q) \in Nat \ {0} /\ Head(q) = q[1] /\ q[1] \in S
      /\ Tail(q) \in Seq(S) /\ Len(Tail(q)) = Len(q) - 1
      /\ \A i \in 1..Len(Tail(q)) : Tail(q)[i] = q[i + 1]
  OBVIOUS
<1>2. Distinct(Tail(q))
  BY <1>1 DEF Distinct
<1>3. ASSUME NEW x, InQueue(x, Tail(q)) PROVE InQueue(x, q) /\ x # Head(q)
  <2>1. PICK i \in 1..Len(Tail(q)) : Tail(q)[i] = x
    BY <1>3 DEF InQueue
  <2>2. i + 1 \in 1..Len(q) /\ q[i + 1] = x /\ i + 1 # 1
    BY <1>1, <2>1
  <2> QED
    BY <1>1, <2>2 DEF InQueue, Distinct
<1>4. ASSUME NEW x, InQueue(x, q), x # Head(q) PROVE InQueue(x, Tail(q))
  <2>1. PICK i \in 1..Len(q) : q[i] = x
    BY <1>4 DEF InQueue
  <2>2. i - 1 \in 1..Len(Tail(q)) /\ Tail(q)[i - 1] = x
    BY <1>1, <1>4, <2>1
  <2> QED
    BY <2>2 DEF InQueue
<1> QED
  BY <1>1, <1>2, <1>3, <1>4 DEF InQueue

LEMMA Enqueue ==
  ASSUME NEW S, NEW q \in Seq(S), NEW x \in S, Distinct(q), ~InQueue(x, q)
  PROVE  /\ Append(q, x) \in Seq(S) /\ Distinct(Append(q, x))
         /\ \A y : InQueue(y, Append(q, x)) <=> InQueue(y, q) \/ y = x
<1>1. /\ Append(q, x) \in Seq(S) /\ Len(q) \in Nat /\ Len(Append(q, x)) = Len(q) + 1
      /\ \A i \in 1..Len(q) : Append(q, x)[i] = q[i]
      /\ Append(q, x)[Len(q) + 1] = x
  OBVIOUS
<1> QED
  BY <1>1 DEF Distinct, InQueue

-----------------------------------------------------------------------------
(* The inductive invariant.                                                *)

LEMMA CallFacts == 1 \in Calls /\ Calls \subseteq Nat \ {0} /\ Update \notin Callers
BY AsyncAssumption, TimedAssumption

LEMMA InitInv == Init => IInv
<1> SUFFICES ASSUME Init PROVE IInv
  OBVIOUS
<1>1. NoData \in Data
  BY DEF NoData, Data
<1>2. \A x : ~InQueue(x, recvq)
  BY DEF Init, InQueue
<1>3. Typed
  <2>1. recvq \in Seq(Callers \cup {Update}) /\ n \in Calls
    BY CallFacts DEF Init
  <2> QED
    BY <2>1 DEF Init, TimedInit, Typed, TimedType
<1>4. DataInv /\ OneResult
  BY <1>1 DEF Init, TimedInit, DataInv, OneResult
<1>5. QueueInv
  BY <1>2 DEF Init, QueueInv, Distinct
<1> QED
  BY <1>3, <1>4, <1>5 DEF IInv

\* Whoever holds the result sends it: it goes to the first receiver in the
\* queue, who holds it next, or into the channel.
LEMMA SendStep ==
  ASSUME IInv, NEW v \in Data, send(v), NEW s \in Callers \cup {Update},
         IF s = Update THEN upd = "send" ELSE pc[s] = "send",
         pc' = [q \in Callers |-> IF q = s THEN "return"
                                  ELSE IF served(q) THEN "send" ELSE pc[q]],
         upd' = IF s = Update THEN "select" ELSE IF served(Update) THEN "send" ELSE upd,
         UNCHANGED <<timedVars, timed, ctx, tick, n, err>>
  PROVE  IInv'
<1>0. /\ recvq \in Seq(Callers \cup {Update})
      /\ pc \in [Callers -> {"idle", "receive", "blocked", "send", "return"}]
      /\ upd \in {"check", "receive", "blocked", "send", "select", "ended"}
      /\ held \in [Callers -> Data] /\ Update \notin Callers
  BY CallFacts DEF IInv, Typed, DataInv
<1>1. result = << >>
  BY DEF IInv, OneResult
<1>2. /\ s # Update => upd # "send"
      /\ \A q \in Callers \ {s} : pc[q] # "send"
  BY <1>1 DEF IInv, OneResult
<1>3. CASE recvq = << >>
  <2>1. /\ result' = <<v>> /\ UNCHANGED <<recvq, held>>
        /\ pc' = [q \in Callers |-> IF q = s THEN "return" ELSE pc[q]]
        /\ upd' = IF s = Update THEN "select" ELSE upd
    BY <1>1, <1>3 DEF send, served
  <2>2. Typed' /\ DataInv'
    BY <1>0, <2>1 DEF IInv, Typed, DataInv, TimedType, timedVars
  <2>3. OneResult'
    BY <1>0, <1>2, <1>3, <2>1 DEF OneResult
  <2>4. QueueInv'
    BY <1>0, <2>1 DEF IInv, QueueInv
  <2> QED
    BY <2>2, <2>3, <2>4 DEF IInv
<1>4. CASE recvq # << >>
  <2> DEFINE h == Head(recvq)
  <2>1. /\ recvq' = Tail(recvq) /\ result' = << >>
        /\ held' = IF h \in Callers THEN [held EXCEPT ![h] = v] ELSE held
        /\ pc' = [q \in Callers |-> IF q = s THEN "return" ELSE IF q = h THEN "send" ELSE pc[q]]
        /\ upd' = IF s = Update THEN "select" ELSE IF h = Update THEN "send" ELSE upd
    BY <1>1, <1>4 DEF send, served
  <2>2. /\ h \in Callers \cup {Update} /\ Tail(recvq) \in Seq(Callers \cup {Update})
        /\ Distinct(Tail(recvq)) /\ InQueue(h, recvq)
        /\ \A x : InQueue(x, Tail(recvq)) <=> InQueue(x, recvq) /\ x # h
    BY <1>0, <1>4, Dequeue DEF IInv, QueueInv
  <2>3. /\ h # s
        /\ \A q \in Callers : pc[q] = "blocked" <=> InQueue(q, recvq)
        /\ upd = "blocked" <=> InQueue(Update, recvq)
    BY <2>2 DEF IInv, QueueInv
  <2> HIDE DEF h
  <2>4. Typed' /\ DataInv'
    <3>1. held' \in [Callers -> Data]
      BY <1>0, <2>1
    <3>2. pc' \in [Callers -> {"idle", "receive", "blocked", "send", "return"}]
      BY <1>0, <2>1
    <3> QED
      BY <1>0, <2>1, <2>2, <3>1, <3>2 DEF IInv, Typed, DataInv, TimedType, timedVars
  <2>5. OneResult'
    BY <1>0, <1>2, <2>1, <2>2, <2>3 DEF OneResult
  <2>6. QueueInv'
    BY <1>0, <2>1, <2>2, <2>3 DEF QueueInv
  <2> QED
    BY <2>4, <2>5, <2>6 DEF IInv
<1> QED
  BY <1>3, <1>4

\* A receiver takes the result out of the channel or joins the queue.
LEMMA ReceiveStep == IInv /\ Receive => IInv'
<1> SUFFICES ASSUME IInv, Receive PROVE IInv'
  OBVIOUS
<1>0. /\ recvq \in Seq(Callers \cup {Update}) /\ upd = "receive" /\ Update \notin Callers
      /\ UNCHANGED <<timedVars, timed, ctx, tick, n, err, pc, held>>
  BY CallFacts DEF IInv, Typed, Receive
<1>1. CASE result # << >>
  <2>1. result' = << >> /\ upd' = "send" /\ UNCHANGED recvq
    BY <1>1 DEF Receive
  <2> QED
    BY <1>0, <1>1, <2>1
       DEF IInv, Typed, TimedType, timedVars, DataInv, OneResult, QueueInv
<1>2. CASE result = << >>
  <2>1. recvq' = Append(recvq, Update) /\ upd' = "blocked" /\ UNCHANGED result
    BY <1>2 DEF Receive
  <2>2. /\ recvq' \in Seq(Callers \cup {Update}) /\ Distinct(recvq')
        /\ \A y : InQueue(y, recvq') <=> InQueue(y, recvq) \/ y = Update
    BY <1>0, <2>1, Enqueue DEF IInv, QueueInv
  <2>3. Typed' /\ DataInv' /\ OneResult'
    BY <1>0, <1>2, <2>1, <2>2 DEF IInv, Typed, TimedType, timedVars, DataInv, OneResult
  <2>4. QueueInv'
    BY <1>0, <2>1, <2>2 DEF IInv, QueueInv
  <2> QED
    BY <2>3, <2>4 DEF IInv
<1> QED
  BY <1>1, <1>2

LEMMA TakeStep == ASSUME NEW p \in Callers, IInv, Take(p) PROVE IInv'
<1>0. /\ recvq \in Seq(Callers \cup {Update}) /\ pc[p] = "receive" /\ Update \notin Callers
      /\ pc \in [Callers -> {"idle", "receive", "blocked", "send", "return"}]
      /\ UNCHANGED <<timedVars, timed, ctx, tick, upd, n, err>>
  BY CallFacts DEF IInv, Typed, Take
<1>1. CASE result # << >>
  <2>1. /\ result' = << >> /\ held' = [held EXCEPT ![p] = Head(result)]
        /\ pc' = [pc EXCEPT ![p] = "send"] /\ UNCHANGED recvq
    BY <1>1 DEF Take
  <2>2. Head(result) \in Data
    BY <1>1 DEF IInv, DataInv
  <2>3. Typed' /\ DataInv'
    BY <1>0, <2>1, <2>2 DEF IInv, Typed, TimedType, timedVars, DataInv
  <2>4. OneResult' /\ QueueInv'
    BY <1>0, <1>1, <2>1 DEF IInv, OneResult, QueueInv
  <2> QED
    BY <2>3, <2>4 DEF IInv
<1>2. CASE result = << >>
  <2>1. /\ recvq' = Append(recvq, p) /\ pc' = [pc EXCEPT ![p] = "blocked"]
        /\ UNCHANGED <<result, held>>
    BY <1>2 DEF Take
  <2>2. /\ recvq' \in Seq(Callers \cup {Update}) /\ Distinct(recvq')
        /\ \A y : InQueue(y, recvq') <=> InQueue(y, recvq) \/ y = p
    BY <1>0, <2>1, Enqueue DEF IInv, QueueInv
  <2>3. Typed' /\ DataInv' /\ OneResult'
    BY <1>0, <1>2, <2>1, <2>2 DEF IInv, Typed, TimedType, timedVars, DataInv, OneResult
  <2>4. QueueInv'
    BY <1>0, <2>1, <2>2 DEF IInv, QueueInv
  <2> QED
    BY <2>3, <2>4 DEF IInv
<1> QED
  BY <1>1, <1>2

\* Steps that leave the channel and those who wait for it alone.
LEMMA AsideStep ==
  ASSUME IInv, Typed', UNCHANGED <<result, recvq, held>>, err' \in Data,
         \A r \in Calls : c'[r] # << >> => c'[r] = <<r>>,
         \A p \in Callers : \A l \in {"send", "blocked"} : pc'[p] = l <=> pc[p] = l,
         \A l \in {"send", "blocked"} : upd' = l <=> upd = l
  PROVE  IInv'
<1>1. DataInv' /\ OneResult'
  BY DEF IInv, DataInv, OneResult
<1>2. QueueInv'
  BY DEF IInv, QueueInv
<1> QED
  BY <1>1, <1>2 DEF IInv

LEMMA CheckStep == IInv /\ (CallCheck \/ PlainCheck \/ CheckAnswers \/ CheckExpires) => IInv'
<1> SUFFICES ASSUME IInv, CallCheck \/ PlainCheck \/ CheckAnswers \/ CheckExpires PROVE IInv'
  OBVIOUS
<1> USE DEF IInv, Typed, TimedType, DataInv
<1>1. CASE CallCheck
  <2>1. Typed'
    BY <1>1 DEF CallCheck, Call, asyncVars
  <2> QED
    BY <1>1, <2>1, AsideStep DEF CallCheck, Call, asyncVars
<1>2. ASSUME NEW how \in {"checked", "timedout"}, NEW r \in Calls, upd = "check",
             CheckReturned(how, r),
             call' \in [Calls -> {"none", "waiting", "answered", "timedout"}], work' = work,
             \/ c' = c
             \/ c' = [c EXCEPT ![n] = << >>]
      PROVE  IInv'
  <2>1. /\ err' \in Data /\ upd' = "receive"
        /\ UNCHANGED <<timed, ctx, tick, n, result, recvq, pc, held>>
    BY <1>2 DEF CheckReturned, Data
  <2>2. /\ c' \in [Calls -> {<< >>} \cup {<<x>> : x \in Calls}]
        /\ \A x \in Calls : c'[x] # << >> => c'[x] = <<x>>
    BY <1>2
  <2>3. Typed'
    BY <1>2, <2>1, <2>2
  <2> QED
    BY <1>2, <2>1, <2>2, <2>3, AsideStep
<1>3. CASE PlainCheck
  BY <1>2, <1>3 DEF PlainCheck, timedVars
<1>4. CASE CheckAnswers
  <2>1. PICK r \in Calls : upd = "check" /\ Answer(n, r) /\ CheckReturned("checked", r)
    BY <1>4 DEF CheckAnswers
  <2> QED
    BY <1>2, <2>1 DEF Answer, channel
<1>5. CASE CheckExpires
  BY <1>2, <1>5 DEF CheckExpires, Expire
<1> QED
  BY <1>1, <1>3, <1>4, <1>5

LEMMA OtherStep ==
  ASSUME IInv,
         \/ NextUpdate \/ Done \/ Tick \/ Cancel \/ UNCHANGED vars
         \/ \E p \in Callers : Check(p) \/ Return(p)
         \/ \E r \in Calls : Worker(r)
  PROVE  IInv'
<1> USE DEF IInv, Typed, DataInv
<1>1. CASE NextUpdate \/ Done \/ Tick \/ Cancel \/ UNCHANGED vars
  <2>1. /\ UNCHANGED <<timedVars, timed, err, result, recvq, pc, held>>
        /\ ctx' \in BOOLEAN /\ tick' \in BOOLEAN /\ n' \in Calls
        /\ upd' = upd \/ (upd = "select" /\ upd' \in {"check", "ended"})
    BY <1>1 DEF NextUpdate, Done, Tick, Cancel, vars, asyncVars
  <2>2. Typed'
    BY <2>1 DEF TimedType, timedVars
  <2> QED
    BY <2>1, <2>2, AsideStep DEF timedVars
<1>2. ASSUME NEW p \in Callers, Check(p) \/ Return(p) PROVE IInv'
  <2>1. /\ UNCHANGED <<timedVars, timed, ctx, tick, upd, n, err, result, recvq, held>>
        /\ \/ pc[p] = "idle" /\ pc' = [pc EXCEPT ![p] = "receive"]
           \/ pc[p] = "return" /\ pc' = [pc EXCEPT ![p] = "idle"]
    BY <1>2 DEF Check, Return
  <2>2. Typed'
    BY <2>1 DEF TimedType, timedVars
  <2> QED
    BY <2>1, <2>2, AsideStep DEF timedVars
<1>3. ASSUME NEW r \in Calls, Worker(r) PROVE IInv'
  <2>1. /\ UNCHANGED asyncVars /\ call' = call
        /\ work' \in [Calls -> {"none", "checking", "sending", "ended"}]
        /\ c' \in [Calls -> {<< >>} \cup {<<x>> : x \in Calls}]
        /\ \A x \in Calls : c'[x] # << >> => c'[x] = <<x>>
    BY <1>3 DEF Worker, Checked, Send, channel, TimedType
  <2>2. Typed'
    BY <2>1 DEF TimedType, asyncVars
  <2> QED
    BY <2>1, <2>2, AsideStep DEF asyncVars
<1> QED
  BY <1>1, <1>2, <1>3

LEMMA SendersStep ==
  ASSUME IInv, SendNew \/ \E p \in Callers : PutBack(p)
  PROVE  IInv'
<1>0. err \in Data /\ held \in [Callers -> Data] /\ Update \notin Callers
  BY CallFacts DEF IInv, DataInv
<1>1. CASE SendNew
  BY <1>0, <1>1, SendStep DEF SendNew
<1>2. ASSUME NEW p \in Callers, PutBack(p) PROVE IInv'
  BY <1>0, <1>2, SendStep DEF PutBack
<1> QED
  BY <1>1, <1>2

LEMMA InvStep == IInv /\ [Next]_vars => IInv'
BY ReceiveStep, TakeStep, CheckStep, OtherStep, SendersStep DEF Next, Goroutine

\* The one result of Async is in the channel or with one goroutine, and the
\* queue of the channel holds those that wait for it.
THEOREM Inductive == Spec => []IInv
BY InitInv, InvStep, PTL DEF Spec

\* TypeOK: however many callers there are, the one result is in the channel or
\* in the hands of one of them or of the goroutine, so no send ever waits.
THEOREM TypeCorrect == Spec => []TypeOK
<1>1. IInv => TypeOK
  <2> SUFFICES ASSUME IInv PROVE TypeOK
    OBVIOUS
  <2>1. result # << >> => Len(result) = 1
    BY DEF IInv, DataInv
  <2>2. result # << >> => Holders = {} /\ recvq = << >>
    BY DEF IInv, OneResult, Holders
  <2>3. ASSUME result = << >> PROVE \E h \in Holders : Holders = {h}
    <3>1. CASE upd = "send"
      BY <2>3, <3>1 DEF IInv, OneResult, Holders
    <3>2. CASE upd # "send"
      <4>1. PICK p \in Callers : pc[p] = "send" /\ \A q \in Callers \ {p} : pc[q] # "send"
        BY <2>3, <3>2 DEF IInv, OneResult
      <4>2. Holders = {p}
        BY <3>2, <4>1 DEF Holders
      <4> QED
        BY <4>2
    <3> QED
      BY <3>1, <3>2
  <2>4. Len(result) <= 1
    <3>1. Len(<< >>) = 0
      OBVIOUS
    <3>2. Len(result) = 0 \/ Len(result) = 1
      BY <2>1, <3>1, Zenon
    <3>3. \A k \in {0, 1} : k <= 1
      OBVIOUS
    <3> QED
      BY <3>2, <3>3, Zenon
  <2> QED
    BY <2>2, <2>3, <2>4 DEF TypeOK, IInv
<1> QED
  BY <1>1, Inductive, PTL

-----------------------------------------------------------------------------
(* Every caller reads the latest result.                                   *)

\* Who holds the one result knows the latest.
HolderKnows ==
  /\ result # << >> => Latest = Head(result)
  /\ upd = "send" => Latest = err
  /\ \A p \in Callers : pc[p] = "send" => Latest = held[p]

LEMMA LatestFacts == IInv => HolderKnows
<1> SUFFICES ASSUME IInv PROVE HolderKnows
  OBVIOUS
<1>1. upd = "send" => result = << >>
  BY DEF IInv, OneResult
<1>2. ASSUME NEW p \in Callers, pc[p] = "send"
      PROVE  result = << >> /\ upd # "send" /\ p = CHOOSE q \in Callers : pc[q] = "send"
  BY <1>2 DEF IInv, OneResult
<1> QED
  BY <1>1, <1>2 DEF Latest, HolderKnows

\* Somebody always does.
LEMMA Holder ==
  IInv => result # << >> \/ upd = "send" \/ \E p \in Callers : pc[p] = "send"
BY DEF IInv, OneResult

\* The latest result is that of the run before this one until the goroutine has
\* taken the old result out, and that of this run from then on.
RunInv ==
  /\ upd \in {"check", "receive", "blocked"} => n = Latest.run + 1
  /\ upd \in {"send", "select", "ended"} => n = Latest.run
  /\ upd \in {"receive", "blocked", "send"} =>
       err.run = n /\ err.how \in {"checked", "timedout"}

PhaseFun == [p \in Callers |-> Phase(p)]

\* What a step does to the register.
Stutters == UNCHANGED <<Latest, PhaseFun, held>>
Reads(p) ==
  /\ Phase(p) = "called" /\ PhaseFun' = [PhaseFun EXCEPT ![p] = "read"]
  /\ held' = [held EXCEPT ![p] = Latest] /\ Latest' = Latest
Writes ==
  /\ upd \in {"receive", "blocked"} /\ upd' = "send"
  /\ Latest' = err /\ err' = err /\ n' = n /\ UNCHANGED <<PhaseFun, held>>

\* Sending the result does nothing to the register, unless it serves a receiver.
LEMMA SendMaps ==
  ASSUME IInv, IInv', NEW v \in Data, v = Latest, send(v), NEW s \in Callers \cup {Update},
         IF s = Update THEN upd = "send" ELSE pc[s] = "send",
         pc' = [q \in Callers |-> IF q = s THEN "return"
                                  ELSE IF served(q) THEN "send" ELSE pc[q]],
         upd' = IF s = Update THEN "select" ELSE IF served(Update) THEN "send" ELSE upd,
         UNCHANGED <<n, err>>
  PROVE  \/ Stutters /\ (upd' = upd \/ (upd = "send" /\ upd' = "select"))
         \/ Writes
         \/ (\E p \in Callers : Reads(p)) /\ (upd' = upd \/ (upd = "send" /\ upd' = "select"))
<1>0. /\ result = << >> /\ recvq \in Seq(Callers \cup {Update}) /\ held \in [Callers -> Data]
      /\ pc \in [Callers -> {"idle", "receive", "blocked", "send", "return"}]
      /\ Update \notin Callers
  BY CallFacts DEF IInv, OneResult, Typed, DataInv
<1>a. /\ result' # << >> => Latest' = Head(result')
      /\ upd' = "send" => Latest' = err'
      /\ \A p \in Callers : pc'[p] = "send" => Latest' = held'[p]
  <2>1. IInv' => HolderKnows'
    BY LatestFacts, PTL
  <2> QED
    BY <2>1 DEF HolderKnows
<1>1. CASE recvq = << >>
  <2>1. /\ result' = <<v>> /\ held' = held
        /\ pc' = [q \in Callers |-> IF q = s THEN "return" ELSE pc[q]]
        /\ upd' = IF s = Update THEN "select" ELSE upd
    BY <1>0, <1>1 DEF send, served
  <2>2. Latest' = Latest
    BY <1>a, <2>1
  <2>3. PhaseFun' = PhaseFun
    BY <1>0, <2>1 DEF PhaseFun, Phase
  <2> QED
    BY <2>1, <2>2, <2>3 DEF Stutters
<1>2. CASE recvq # << >>
  <2> DEFINE h == Head(recvq)
  <2>1. /\ held' = IF h \in Callers THEN [held EXCEPT ![h] = v] ELSE held
        /\ pc' = [q \in Callers |-> IF q = s THEN "return" ELSE IF q = h THEN "send" ELSE pc[q]]
        /\ upd' = IF s = Update THEN "select" ELSE IF h = Update THEN "send" ELSE upd
    BY <1>0, <1>2 DEF send, served
  <2>2. h \in Callers \cup {Update} /\ InQueue(h, recvq)
    BY <1>0, <1>2, Dequeue DEF IInv, QueueInv
  <2>3. h # s /\ (h \in Callers => pc[h] = "blocked") /\ (h = Update => upd = "blocked")
    BY <1>0, <2>2 DEF IInv, QueueInv
  <2> HIDE DEF h
  <2>4. CASE h = Update
    <3>1. s \in Callers /\ held' = held /\ upd' = "send" /\ Latest' = err
      BY <1>0, <1>a, <2>1, <2>3, <2>4
    <3>2. PhaseFun' = PhaseFun
      BY <1>0, <2>1, <2>4, <3>1 DEF PhaseFun, Phase
    <3> QED
      BY <2>3, <2>4, <3>1, <3>2 DEF Writes
  <2>5. CASE h \in Callers
    <3>1. held' = [held EXCEPT ![h] = v] /\ held'[h] = v /\ pc'[h] = "send"
      BY <1>0, <2>1, <2>3, <2>5
    <3>2. Latest' = Latest
      BY <1>a, <2>5, <3>1
    <3>3. Phase(h) = "called" /\ PhaseFun' = [PhaseFun EXCEPT ![h] = "read"]
      BY <1>0, <2>1, <2>3, <2>5 DEF PhaseFun, Phase
    <3> QED
      BY <1>0, <2>1, <2>5, <3>1, <3>2, <3>3 DEF Reads
  <2> QED
    BY <2>2, <2>4, <2>5
<1> QED
  BY <1>1, <1>2

\* Steps that move neither the result nor what anybody holds.
LEMMA LatestStays ==
  ASSUME IInv, IInv', UNCHANGED <<result, held>>, upd' = "send" <=> upd = "send",
         upd = "send" => err' = err,
         \A p \in Callers : pc'[p] = "send" <=> pc[p] = "send"
  PROVE  Latest' = Latest
<1>1. HolderKnows /\ HolderKnows'
  <2>1. IInv' => HolderKnows'
    BY LatestFacts, PTL
  <2> QED
    BY <2>1, LatestFacts
<1> QED
  BY <1>1, Holder DEF HolderKnows

\* The actions of the register.
LEMMA RegisterMap ==
  /\ Stutters => UNCHANGED Register!lvars
  /\ \A p \in Callers : Reads(p) => Register!Next
  /\ \A p \in Callers :
       /\ Phase(p) = "idle" /\ PhaseFun' = [PhaseFun EXCEPT ![p] = "called"]
       /\ UNCHANGED <<Latest, held>>
       => Register!Next
  /\ \A p \in Callers :
       /\ Phase(p) = "read" /\ PhaseFun' = [PhaseFun EXCEPT ![p] = "idle"]
       /\ UNCHANGED <<Latest, held>>
       => Register!Next
<1>1. Stutters => UNCHANGED Register!lvars
  BY DEF Stutters, Register!lvars, PhaseFun
<1>2. ASSUME NEW p \in Callers, Reads(p) PROVE Register!Read(p)
  BY <1>2 DEF Reads, PhaseFun, Register!Read
<1>3. ASSUME NEW p \in Callers, Phase(p) = "idle",
             PhaseFun' = [PhaseFun EXCEPT ![p] = "called"], UNCHANGED <<Latest, held>>
      PROVE  Register!Begin(p)
  BY <1>3 DEF PhaseFun, Register!Begin
<1>4. ASSUME NEW p \in Callers, Phase(p) = "read",
             PhaseFun' = [PhaseFun EXCEPT ![p] = "idle"], UNCHANGED <<Latest, held>>
      PROVE  Register!End(p)
  BY <1>4 DEF PhaseFun, Register!End
<1> QED
  BY <1>1, <1>2, <1>3, <1>4 DEF Register!Next

LEMMA WriteMap == IInv /\ RunInv /\ Writes => Register!Next
<1> SUFFICES ASSUME IInv, RunInv, Writes PROVE Register!Next
  OBVIOUS
<1>1. /\ err \in Data /\ err.run = Latest.run + 1 /\ err.how \in {"checked", "timedout"}
      /\ Latest' = err
  BY DEF IInv, DataInv, RunInv, Writes
<1>2. Latest' = [run |-> Latest.run + 1, how |-> err.how]
  BY <1>1 DEF Data
<1>3. Register!Write(err.how)
  BY <1>2 DEF Writes, PhaseFun, Register!Write
<1> QED
  BY <1>1, <1>3 DEF Register!Next

LEMMA InitMap == Init => RunInv /\ Register!Init
<1> SUFFICES ASSUME Init PROVE RunInv /\ Register!Init
  OBVIOUS
<1>1. Latest = NoData
  BY DEF Init, Latest
<1>2. RunInv
  BY <1>1 DEF Init, RunInv, NoData
<1>3. Register!Init
  BY <1>1 DEF Init, Register!Init, Register!NoData, NoData, Phase
<1> QED
  BY <1>2, <1>3

\* A send, by the goroutine or by a caller.
LEMMA SendRefines ==
  ASSUME IInv, IInv', RunInv, SendNew \/ \E p \in Callers : PutBack(p)
  PROVE  RunInv' /\ [Register!Next]_(Register!lvars)
<1>1. /\ n' = n /\ err' = err
      /\ \/ Stutters /\ (upd' = upd \/ (upd = "send" /\ upd' = "select"))
         \/ Writes
         \/ (\E p \in Callers : Reads(p)) /\ (upd' = upd \/ (upd = "send" /\ upd' = "select"))
  <2>0. HolderKnows /\ err \in Data /\ held \in [Callers -> Data] /\ Update \notin Callers
    BY CallFacts, LatestFacts DEF IInv, DataInv
  <2>1. CASE SendNew
    BY <2>0, <2>1, SendMaps DEF SendNew, HolderKnows
  <2>2. ASSUME NEW p \in Callers, PutBack(p)
        PROVE  /\ n' = n /\ err' = err
               /\ \/ Stutters /\ (upd' = upd \/ (upd = "send" /\ upd' = "select"))
                  \/ Writes
                  \/ /\ \E q \in Callers : Reads(q)
                     /\ upd' = upd \/ (upd = "send" /\ upd' = "select")
    BY <2>0, <2>2, SendMaps DEF PutBack, HolderKnows
  <2> QED
    BY <2>1, <2>2
<1>2. CASE Writes
  BY <1>1, <1>2, WriteMap DEF RunInv, Writes
<1>3. CASE ~Writes
  <2>1. Latest' = Latest /\ (upd' = upd \/ (upd = "send" /\ upd' = "select"))
    BY <1>1, <1>3 DEF Stutters, Reads
  <2>2. RunInv'
    BY <1>1, <2>1 DEF RunInv
  <2> QED
    BY <1>1, <1>3, <2>2, RegisterMap
<1> QED
  BY <1>2, <1>3

LEMMA TakeRefines ==
  ASSUME IInv, IInv', RunInv, NEW p \in Callers, Take(p)
  PROVE  RunInv' /\ [Register!Next]_(Register!lvars)
<1>0. /\ pc \in [Callers -> {"idle", "receive", "blocked", "send", "return"}]
      /\ held \in [Callers -> Data] /\ UNCHANGED <<upd, n, err>> /\ pc[p] = "receive"
  BY DEF IInv, Typed, DataInv, Take
<1>1. CASE result # << >>
  <2>1. /\ held' = [held EXCEPT ![p] = Head(result)] /\ pc' = [pc EXCEPT ![p] = "send"]
    BY <1>1 DEF Take
  <2>2. Latest = Head(result)
    BY <1>1, LatestFacts DEF HolderKnows
  <2>3. Latest' = Head(result)
    <3>1. IInv' => HolderKnows'
      BY LatestFacts, PTL
    <3> QED
      BY <1>0, <2>1, <3>1 DEF HolderKnows
  <2>4. Reads(p)
    BY <1>0, <2>1, <2>2, <2>3 DEF Reads, PhaseFun, Phase
  <2> QED
    BY <1>0, <2>2, <2>3, <2>4, RegisterMap DEF RunInv
<1>2. CASE result = << >>
  <2>1. UNCHANGED <<result, held>> /\ pc' = [pc EXCEPT ![p] = "blocked"]
    BY <1>2 DEF Take
  <2>2. Latest' = Latest
    BY <1>0, <2>1, LatestStays
  <2>3. PhaseFun' = PhaseFun
    BY <1>0, <2>1 DEF PhaseFun, Phase
  <2> QED
    BY <1>0, <2>1, <2>2, <2>3, RegisterMap DEF RunInv, Stutters
<1> QED
  BY <1>1, <1>2

\* An update takes effect when the goroutine has the old result out.
LEMMA ReceiveRefines ==
  ASSUME IInv, IInv', RunInv, Receive
  PROVE  RunInv' /\ [Register!Next]_(Register!lvars)
<1>0. upd = "receive" /\ UNCHANGED <<n, err, pc, held>> /\ PhaseFun' = PhaseFun
  BY DEF Receive, PhaseFun, Phase
<1>1. CASE result # << >>
  <2>1. upd' = "send"
    BY <1>1 DEF Receive
  <2>2. Latest' = err
    <3>1. IInv' => HolderKnows'
      BY LatestFacts, PTL
    <3> QED
      BY <1>0, <2>1, <3>1 DEF HolderKnows
  <2> QED
    BY <1>0, <2>1, <2>2, WriteMap DEF RunInv, Writes
<1>2. CASE result = << >>
  <2>1. UNCHANGED result /\ upd' = "blocked"
    BY <1>2 DEF Receive
  <2>2. Latest' = Latest
    BY <1>0, <2>1, LatestStays
  <2> QED
    BY <1>0, <2>1, <2>2, RegisterMap DEF RunInv, Stutters
<1> QED
  BY <1>1, <1>2

\* The check returns the result of this run: an answer that comes after its
\* timeout went into a channel of its own.
LEMMA CheckRefines ==
  ASSUME IInv, IInv', RunInv, CallCheck \/ PlainCheck \/ CheckAnswers \/ CheckExpires
  PROVE  RunInv' /\ [Register!Next]_(Register!lvars)
<1>0. PhaseFun' = PhaseFun /\ UNCHANGED <<n, result, pc, held>> /\ upd = "check"
  BY DEF CallCheck, PlainCheck, CheckAnswers, CheckExpires, CheckReturned, asyncVars,
         PhaseFun, Phase
<1>1. CASE CallCheck
  <2>1. upd' = upd /\ err' = err
    BY <1>1 DEF CallCheck, asyncVars
  <2>2. Latest' = Latest
    BY <1>0, <2>1, LatestStays
  <2> QED
    BY <1>0, <2>1, <2>2, RegisterMap DEF RunInv, Stutters
<1>2. CASE PlainCheck \/ CheckAnswers \/ CheckExpires
  <2>1. n \in Calls
    BY DEF IInv, Typed
  <2>2. ASSUME NEW r \in Calls, Answer(n, r) PROVE r = n
    <3>1. c[n] = <<r>> /\ c[n] # << >>
      BY <2>2 DEF Answer, channel
    <3>2. c[n] = <<n>>
      BY <2>1, <3>1, Zenon DEF IInv, DataInv
    <3> QED
      BY <3>1, <3>2
  <2>3. upd' = "receive" /\ err'.run = n /\ err'.how \in {"checked", "timedout"}
    BY <1>2, <2>2 DEF PlainCheck, CheckAnswers, CheckExpires, CheckReturned
  <2>4. Latest' = Latest
    BY <1>0, <2>3, LatestStays
  <2> QED
    BY <1>0, <2>3, <2>4, RegisterMap DEF RunInv, Stutters
<1> QED
  BY <1>1, <1>2

LEMMA OtherRefines ==
  ASSUME IInv, IInv', RunInv,
         \/ NextUpdate \/ Done \/ Tick \/ Cancel \/ UNCHANGED vars
         \/ \E p \in Callers : Check(p) \/ Return(p)
         \/ \E r \in Calls : Worker(r)
  PROVE  RunInv' /\ [Register!Next]_(Register!lvars)
<1>0. /\ UNCHANGED <<err, result, held>>
      /\ pc \in [Callers -> {"idle", "receive", "blocked", "send", "return"}]
      /\ n \in Nat
  BY CallFacts DEF NextUpdate, Done, Tick, Cancel, vars, asyncVars, Check, Return, Worker,
                   IInv, Typed
<1>1. CASE \E p \in Callers : Check(p) \/ Return(p)
  <2>1. PICK p \in Callers : Check(p) \/ Return(p)
    BY <1>1
  <2>2. /\ UNCHANGED <<upd, n>>
        /\ \/ pc[p] = "idle" /\ pc' = [pc EXCEPT ![p] = "receive"]
           \/ pc[p] = "return" /\ pc' = [pc EXCEPT ![p] = "idle"]
    BY <2>1 DEF Check, Return
  <2>3. Latest' = Latest
    BY <1>0, <2>2, LatestStays
  <2>4. \/ Phase(p) = "idle" /\ PhaseFun' = [PhaseFun EXCEPT ![p] = "called"]
        \/ Phase(p) = "read" /\ PhaseFun' = [PhaseFun EXCEPT ![p] = "idle"]
    BY <1>0, <2>2 DEF PhaseFun, Phase
  <2> QED
    BY <1>0, <2>2, <2>3, <2>4, RegisterMap DEF RunInv
<1>2. CASE \/ NextUpdate \/ Done \/ Tick \/ Cancel \/ UNCHANGED vars
           \/ \E r \in Calls : Worker(r)
  <2>1. /\ UNCHANGED pc
        /\ \/ UNCHANGED <<upd, n>>
           \/ upd = "select" /\ upd' = "check" /\ n' = n + 1
           \/ upd = "select" /\ upd' = "ended" /\ n' = n
    BY <1>2 DEF NextUpdate, Done, Tick, Cancel, vars, asyncVars, Worker
  <2>2. Latest' = Latest
    BY <1>0, <2>1, LatestStays
  <2>3. RunInv'
    BY <1>0, <2>1, <2>2 DEF RunInv
  <2>4. Stutters
    BY <1>0, <2>1, <2>2 DEF Stutters, PhaseFun, Phase
  <2> QED
    BY <2>3, <2>4, RegisterMap
<1> QED
  BY <1>1, <1>2

\* AtomicRegister: every step of the goroutine, the callers and the timed checks
\* is a step of the register, or none: taking the result out and putting it
\* back reads the latest result at one moment.
THEOREM ReadsAreAtomic == Spec => AtomicRegister
<1>1. IInv /\ RunInv /\ IInv' /\ [Next]_vars => RunInv' /\ [Register!Next]_(Register!lvars)
  BY SendRefines, TakeRefines, ReceiveRefines, CheckRefines, OtherRefines DEF Next, Goroutine
<1> QED
  BY <1>1, InitMap, Inductive, PTL DEF Spec, AtomicRegister, Register!Spec
=============================================================================
