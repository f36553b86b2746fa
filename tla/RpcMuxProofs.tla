---------------------------- MODULE RpcMuxProofs ----------------------------
(***************************************************************************)
(* Proofs about RpcMux, for every number of connections, listeners and     *)
(* matchers, every capacity and every error handler: the inductive         *)
(* invariant IInv, the safety properties it implies, and the refinement of *)
(* ConnRouter.                                                             *)
(***************************************************************************)
EXTENDS RpcMux, SequenceTheorems, TLAPS

\* Serve has closed and drained connc of l.
Past(l) == Serve = "returned" \/ (Serve \in {"close", "drain"} /\ l < at)

Queued(c, l) == \E i \in 1..Len(connc[l]) : connc[l][i] = c

\* The channels are closed in order, after every goroutine has ended, and
\* those closed and drained are empty.
ShutdownOrder ==
  /\ Serve \in {"idle", "accept", "wait"} => at = 1
  /\ \A l \in Sls : closed[l] <=> Past(l) \/ (Serve = "drain" /\ l = at)
  /\ \A l \in Sls : Past(l) => connc[l] = << >>
  /\ \A l \in Sls : told[l] => closed[l] /\ connc[l] = << >>
  /\ Serve \in {"close", "drain", "returned"} => \A c \in Conns : ~Running(c)

\* What the goroutine of c has done, its socket, and who has the connection.
Ownership ==
  \A c \in Conns :
    /\ sock[c] = "none" <=> pc[c] = "none"
    /\ pc[c] \in {"sniff", "select"} => sock[c] = "open"
    /\ pc[c] = "report" => sock[c] = "closed"
    /\ got[c] # 0 => pc[c] = "done" /\ sock[c] = "open"
    /\ pc[c] = "done" /\ sock[c] = "open" /\ got[c] = 0
         => k[c] \in Ms /\ Queued(c, Ss[k[c]])

\* A queue holds, once each, open connections nobody else has.
Queues ==
  \A l \in Sls : \A i \in 1..Len(connc[l]) :
    LET c == connc[l][i] IN
    /\ pc[c] = "done" /\ sock[c] = "open" /\ got[c] = 0
    /\ k[c] \in Ms /\ Ss[k[c]] = l
    /\ \A j \in 1..Len(connc[l]) : connc[l][j] = c => j = i

\* Only a connection that is being sniffed or was closed has a deadline.
Deadlines ==
  /\ Serve = "idle" => \A c \in Conns : pc[c] = "none"
  /\ \A c \in Conns :
       /\ ~readTimeout \/ pc[c] \in {"none", "select"} => deadline[c] = "none"
       /\ pc[c] = "done" /\ sock[c] = "open" => deadline[c] = "none"

\* Unless a read failed, no earlier matcher would have taken the connection.
Priority ==
  \A c \in Conns :
    /\ ~cut[c] => \A j \in Ms : j < k[c] => ~Sniffs[c][j].full
    /\ pc[c] = "select" \/ (pc[c] = "done" /\ sock[c] = "open")
         => k[c] \in Ms /\ Sniffs[c][k[c]].full

IInv == TypeOK /\ ShutdownOrder /\ Ownership /\ Queues /\ Deadlines /\ Priority
-----------------------------------------------------------------------------
(* Facts about the operators and the channels.                             *)

\* Receiving from a channel: the rest of the queue moves up by one.
LEMMA TailFacts ==
  ASSUME NEW S, NEW q \in Seq(S), q # << >>
  PROVE  /\ Head(q) = q[1] /\ Head(q) \in S /\ 1 \in 1..Len(q)
         /\ Tail(q) \in Seq(S) /\ Len(Tail(q)) = Len(q) - 1
         /\ \A i \in 1..Len(Tail(q)) : i + 1 \in 1..Len(q) /\ Tail(q)[i] = q[i + 1]
BY HeadTailProperties, EmptySeq

LEMMA Received ==
  ASSUME Typed, NEW l \in Sls, connc[l] # << >>
  PROVE  LET q == connc[l] IN
         /\ q \in Seq(Conns) /\ Len(q) \in Nat
         /\ Head(q) = q[1] /\ Head(q) \in Conns /\ 1 \in 1..Len(q)
         /\ Tail(q) \in Seq(Conns) /\ Len(Tail(q)) = Len(q) - 1
         /\ \A i \in 1..Len(Tail(q)) : i + 1 \in 1..Len(q) /\ Tail(q)[i] = q[i + 1]
<1>1. connc[l] \in Seq(Conns)
  BY DEF Typed
<1> QED
  BY <1>1, TailFacts, LenProperties

\* Sending to a channel: the connection is behind the others.
LEMMA AppendFacts ==
  ASSUME NEW S, NEW q \in Seq(S), NEW c \in S
  PROVE  /\ Append(q, c) \in Seq(S) /\ Len(Append(q, c)) = Len(q) + 1
         /\ \A i \in 1..Len(q) : Append(q, c)[i] = q[i]
         /\ Append(q, c)[Len(q) + 1] = c
BY AppendProperties

LEMMA Sent ==
  ASSUME Typed, NEW l \in Sls, NEW c \in Conns
  PROVE  LET q == connc[l] IN
         /\ q \in Seq(Conns) /\ Len(q) \in Nat
         /\ Append(q, c) \in Seq(Conns) /\ Len(Append(q, c)) = Len(q) + 1
         /\ \A i \in 1..Len(q) : Append(q, c)[i] = q[i]
         /\ Append(q, c)[Len(q) + 1] = c
<1>1. connc[l] \in Seq(Conns)
  BY DEF Typed
<1> QED
  BY <1>1, AppendFacts, LenProperties

\* handleErr answers yes or no.
LEMMA handleErrType == \A temporary \in BOOLEAN : handleErr(temporary) \subseteq BOOLEAN
BY MuxAssumption DEF handleErr

\* The matchers are numbered from 1, and each has a listener.
LEMMA MatcherType ==
  /\ Len(Ss) \in Nat /\ Ms = 1..Len(Ss)
  /\ \A m \in Ms : Ss[m] \in Sls
  /\ 1 \in Sls /\ NumSls \in Sls
BY MuxAssumption, LenProperties, ElementOfSeq DEF Ms, Sls

-----------------------------------------------------------------------------
(* The inductive invariant.                                                *)

LEMMA InitInv == Init => IInv
<1> SUFFICES ASSUME Init PROVE IInv
  OBVIOUS
<1> USE DEF Init
<1>1. TypeOK
  <2>1. Typed
    <3>1. connc \in [Sls -> Seq(Conns)]
      BY EmptySeq
    <3>2. at \in Sls /\ k \in [Conns -> 1..(Len(Ss) + 1)]
      BY MatcherType
    <3> QED
      BY <3>1, <3>2 DEF Typed
  <2>2. \A l \in Sls : Len(connc[l]) = 0
    BY EmptySeq
  <2> QED
    BY <2>1, <2>2, MuxAssumption DEF TypeOK
<1>2. ShutdownOrder
  BY MatcherType DEF ShutdownOrder, Past, Sls
<1>3. Ownership /\ Queues /\ Deadlines
  BY EmptySeq DEF Ownership, Queues, Deadlines
<1>4. Priority
  <2>1. \A c \in Conns : \A j \in Ms : ~(j < k[c])
    BY MatcherType
  <2> QED
    BY <2>1 DEF Priority
<1> QED
  BY <1>1, <1>2, <1>3, <1>4 DEF IInv

LEMMA TypeStep == TypeOK /\ [Next]_vars => TypeOK'
<1> SUFFICES ASSUME TypeOK, [Next]_vars PROVE TypeOK'
  OBVIOUS
<1> USE DEF TypeOK, Typed, sniffVars, serveVars
<1>1. ASSUME NEW t \in BOOLEAN, SetReadTimeout(t) PROVE TypeOK'
  BY <1>1 DEF SetReadTimeout
<1>2. CASE ServeStep
  <2>1. CASE StartServe \/ WaitGroup \/ CloseConnc
    BY <2>1 DEF StartServe, WaitGroup, CloseConnc
  <2>2. CASE AcceptFails
    BY <2>2 DEF AcceptFails
  <2>3. CASE DrainOne
    <3>1. connc[at] # << >>
      BY <2>3 DEF DrainOne, drained
    <3> QED
      BY <2>3, <3>1, Received, MuxAssumption DEF DrainOne
  <2>4. CASE DrainDone
    <3>1. at' \in Sls /\ Serve' \in {"returned", "close"}
      BY <2>4, MuxAssumption DEF DrainDone, Sls
    <3> QED
      BY <2>4, <3>1 DEF DrainDone
  <2> QED
    BY <1>2, <2>1, <2>2, <2>3, <2>4 DEF ServeStep
<1>3. ASSUME NEW c \in Conns, AcceptRoot(c) \/ HangUp(c) \/ DeadlineFires(c)
      PROVE  TypeOK'
  BY <1>3 DEF AcceptRoot, HangUp, DeadlineFires
<1>4. ASSUME NEW c \in Conns, Goroutine(c) PROVE TypeOK'
  <2>1. CASE ReadChunk(c)
    BY <2>1 DEF ReadChunk
  <2>2. CASE Match(c)
    BY <2>2 DEF Match, Answers, deadlineAfterMatch
  <2>3. CASE Mismatch(c)
    <3>1. k[c] + 1 \in 1..(Len(Ss) + 1)
      BY <2>3, MatcherType DEF Mismatch, Answers
    <3>2. /\ k' = [k EXCEPT ![c] = @ + 1] /\ cut' \in [Conns -> BOOLEAN]
          /\ UNCHANGED <<serveVars, pc, sock, received, hup, deadline, connc, closed, got, told>>
          /\ pc[c] = "sniff"
      BY <2>3 DEF Mismatch, Answers
    <3>3. k' \in [Conns -> 1..(Len(Ss) + 1)] /\ \A d \in Conns : d # c => k'[d] = k[d]
      BY <3>1, <3>2
    <3>4. Typed'
      BY <3>2, <3>3
    <3> QED
      BY <3>2, <3>3, <3>4
  <2>4. CASE Enqueue(c)
    <3>1. Ss[k[c]] \in Sls
      BY <2>4, MatcherType DEF Enqueue
    <3>2. Typed'
      BY <2>4, <3>1, Sent DEF Enqueue
    <3>3. \A l \in Sls : (Len(connc[l]) <= BufLen)'
      BY <2>4, <3>1, Sent, MuxAssumption DEF Enqueue, canSend
    <3>4. \A d \in Conns : (pc[d] = "select" => k[d] \in Ms)'
      BY <2>4 DEF Enqueue
    <3> QED
      BY <3>2, <3>3, <3>4
  <2>5. CASE Abandon(c) \/ Reject(c)
    BY <2>5 DEF Abandon, Reject
  <2>6. CASE Report(c)
    BY <2>6, handleErrType DEF Report
  <2> QED
    BY <1>4, <2>1, <2>2, <2>3, <2>4, <2>5, <2>6 DEF Goroutine, Select
<1>5. ASSUME NEW l \in Sls, Accept(l) \/ AcceptClosed(l) PROVE TypeOK'
  <2>1. CASE Accept(l)
    <3>1. connc[l] # << >>
      BY <2>1 DEF Accept
    <3>2. Typed'
      BY <2>1, <3>1, Received DEF Accept
    <3>3. \A m \in Sls : (Len(connc[m]) <= BufLen)'
      BY <2>1, <3>1, Received, MuxAssumption DEF Accept
    <3> QED
      BY <2>1, <3>2, <3>3 DEF Accept
  <2>2. CASE AcceptClosed(l)
    BY <2>2 DEF AcceptClosed
  <2> QED
    BY <1>5, <2>1, <2>2
<1>6. CASE CloseSub
  BY <1>6 DEF CloseSub
<1>7. CASE Terminated \/ UNCHANGED vars
  BY <1>7 DEF Terminated, vars
<1> QED
  BY <1>1, <1>2, <1>3, <1>4, <1>5, <1>6, <1>7 DEF Next

\* Receiving from the channel of l takes the first connection, and no other,
\* out of the queues; a connection is in one place of one queue.
LEMMA Dequeued ==
  ASSUME IInv, NEW l \in Sls, connc[l] # << >>,
         connc' = [connc EXCEPT ![l] = Tail(@)]
  PROVE  LET h == Head(connc[l]) IN
         /\ h \in Conns /\ pc[h] = "done" /\ sock[h] = "open" /\ got[h] = 0
         /\ \A c \in Conns : \A m \in Sls : c # h /\ Queued(c, m) => Queued(c, m)'
         /\ \A m \in Sls : \A i \in 1..Len(connc'[m]) :
              /\ connc'[m][i] # h
              /\ \E j \in 1..Len(connc[m]) : connc'[m][i] = connc[m][j]
              /\ \A j \in 1..Len(connc'[m]) : connc'[m][j] = connc'[m][i] => j = i
<1> DEFINE h == Head(connc[l])
<1>1. Typed /\ Queues
  BY DEF IInv, TypeOK
<1>2. h = connc[l][1] /\ 1 \in 1..Len(connc[l]) /\ h \in Conns /\ Len(connc[l]) \in Nat
  BY <1>1, Received
<1>3. pc[h] = "done" /\ sock[h] = "open" /\ got[h] = 0 /\ Ss[k[h]] = l
  BY <1>1, <1>2 DEF Queues
<1>4. /\ connc'[l] = Tail(connc[l]) /\ Len(connc'[l]) = Len(connc[l]) - 1
      /\ \A i \in 1..Len(connc'[l]) :
           i + 1 \in 1..Len(connc[l]) /\ connc'[l][i] = connc[l][i + 1]
      /\ \A m \in Sls : m # l => connc'[m] = connc[m]
  BY <1>1, Received DEF Typed
<1>5. ASSUME NEW c \in Conns, NEW m \in Sls, c # h, Queued(c, m)
      PROVE  Queued(c, m)'
  <2>1. CASE m # l
    BY <1>4, <1>5, <2>1 DEF Queued
  <2>2. CASE m = l
    <3>1. PICK j \in 1..Len(connc[l]) : connc[l][j] = c
      BY <1>5, <2>2 DEF Queued
    <3>2. j # 1
      BY <3>1, <1>2, <1>5
    <3>3. j - 1 \in 1..Len(connc'[l])
      BY <3>2, <1>2, <1>4
    <3>4. connc'[l][j - 1] = c
      BY <3>1, <3>3, <1>4
    <3> QED
      BY <2>2, <3>3, <3>4 DEF Queued
  <2> QED
    BY <2>1, <2>2
<1>6. ASSUME NEW m \in Sls, NEW i \in 1..Len(connc'[m])
      PROVE  /\ connc'[m][i] # h
             /\ \E j \in 1..Len(connc[m]) : connc'[m][i] = connc[m][j]
             /\ \A j \in 1..Len(connc'[m]) : connc'[m][j] = connc'[m][i] => j = i
  <2>1. CASE m # l
    <3>1. connc'[m] = connc[m]
      BY <1>4, <2>1
    <3>2. Ss[k[connc[m][i]]] = m
      BY <1>1, <3>1 DEF Queues
    <3> QED
      BY <1>1, <1>3, <2>1, <3>1, <3>2 DEF Queues
  <2>2. CASE m = l
    <3>1. i + 1 \in 1..Len(connc[l]) /\ connc'[l][i] = connc[l][i + 1] /\ i \in Nat
      BY <1>4, <2>2
    <3>2. \A j \in 1..Len(connc[l]) : connc[l][j] = connc[l][i + 1] => j = i + 1
      BY <3>1, <1>1 DEF Queues
    <3>3. connc'[l][i] # h
      BY <3>1, <3>2, <1>2
    <3>4. \A j \in 1..Len(connc'[l]) : connc'[l][j] = connc'[l][i] => j = i
      BY <3>1, <3>2, <1>4
    <3> QED
      BY <2>2, <3>1, <3>3, <3>4
  <2> QED
    BY <2>1, <2>2
<1> HIDE DEF h
<1>7. /\ \A c \in Conns : \A m \in Sls : c # h /\ Queued(c, m) => Queued(c, m)'
      /\ \A m \in Sls : \A i \in 1..Len(connc'[m]) :
           /\ connc'[m][i] # h
           /\ \E j \in 1..Len(connc[m]) : connc'[m][i] = connc[m][j]
           /\ \A j \in 1..Len(connc'[m]) : connc'[m][j] = connc'[m][i] => j = i
  BY <1>5, <1>6
<1> QED
  BY <1>2, <1>3, <1>7 DEF h

\* Serve closes and drains the channels one after the other, when no
\* goroutine is left that could send.
LEMMA OrderStep == IInv /\ [Next]_vars => ShutdownOrder'
<1> SUFFICES ASSUME IInv, [Next]_vars PROVE ShutdownOrder'
  OBVIOUS
<1> USE DEF IInv, ShutdownOrder, Past, sniffVars, serveVars
<1>0. Typed /\ at \in Nat /\ NumSls \in Nat /\ Sls \subseteq Nat
  BY MuxAssumption DEF TypeOK, Typed, Sls
<1>1. ASSUME NEW t \in BOOLEAN, SetReadTimeout(t) PROVE ShutdownOrder'
  BY <1>1 DEF SetReadTimeout, Running
<1>2. CASE ServeStep
  <2>1. CASE StartServe
    BY <2>1 DEF StartServe, Running
  <2>2. CASE AcceptFails
    BY <2>2 DEF AcceptFails, Running
  <2>3. CASE WaitGroup
    BY <2>3, <1>0 DEF WaitGroup, Running, Sls
  <2>4. CASE CloseConnc
    BY <2>4, <1>0 DEF CloseConnc, Running, Typed
  <2>5. CASE DrainOne
    BY <2>5, <1>0 DEF DrainOne, drained, Running, Typed
  <2>6. CASE DrainDone
    BY <2>6, <1>0 DEF DrainDone, drained, Running, Sls
  <2> QED
    BY <1>2, <2>1, <2>2, <2>3, <2>4, <2>5, <2>6 DEF ServeStep
<1>3. ASSUME NEW c \in Conns, AcceptRoot(c) \/ HangUp(c) \/ DeadlineFires(c)
      PROVE  ShutdownOrder'
  BY <1>3, <1>0 DEF AcceptRoot, HangUp, DeadlineFires, Running, Typed
<1>4. ASSUME NEW c \in Conns, Goroutine(c) PROVE ShutdownOrder'
  <2>1. Running(c)
    BY <1>4 DEF Goroutine, ReadChunk, Match, Mismatch, Answers, Select, Enqueue,
                Abandon, Reject, Report, Running
  <2>2. Serve \in {"accept", "idle", "wait"}
    BY <2>1, <1>0 DEF Typed
  <2>3. UNCHANGED <<Serve, at, closed, told>>
    BY <1>4 DEF Goroutine, ReadChunk, Match, Mismatch, Select, Enqueue, Abandon,
                Reject, Report
  <2> QED
    BY <2>2, <2>3
<1>5. ASSUME NEW l \in Sls, Accept(l) \/ AcceptClosed(l) PROVE ShutdownOrder'
  <2>1. CASE Accept(l)
    BY <2>1, <1>0 DEF Accept, Running, Typed
  <2>2. CASE AcceptClosed(l)
    BY <2>2, <1>0 DEF AcceptClosed, noMore, Running, Typed
  <2> QED
    BY <1>5, <2>1, <2>2
<1>6. CASE CloseSub
  BY <1>6 DEF CloseSub, Running
<1>7. CASE Terminated \/ UNCHANGED vars
  BY <1>7 DEF Terminated, vars, Running
<1> QED
  BY <1>1, <1>2, <1>3, <1>4, <1>5, <1>6, <1>7 DEF Next

\* A connection is always with its goroutine, in a queue, with a program or
\* closed.
LEMMA OwnershipStep == IInv /\ [Next]_vars => Ownership'
<1> SUFFICES ASSUME IInv, [Next]_vars PROVE Ownership'
  OBVIOUS
<1>0. Typed /\ Ownership /\ Queues
  BY DEF IInv, TypeOK
<1>b. connc' = connc => \A c \in Conns : \A m \in Sls : Queued(c, m) => Queued(c, m)'
  BY DEF Queued
<1> USE DEF Ownership, sniffVars, serveVars
<1>1. ASSUME NEW t \in BOOLEAN, SetReadTimeout(t) PROVE Ownership'
  BY <1>0, <1>1 DEF SetReadTimeout, Queued
<1>2. CASE ServeStep
  <2>1. CASE StartServe \/ AcceptFails \/ WaitGroup \/ CloseConnc \/ DrainDone
    <3>1. UNCHANGED <<pc, k, sock, connc, got>>
      BY <2>1 DEF StartServe, AcceptFails, WaitGroup, CloseConnc, DrainDone
    <3> QED
      BY <1>0, <3>1 DEF Queued
  <2>2. CASE DrainOne
    <3>1. connc[at] # << >> /\ at \in Sls
      BY <2>2, <1>0 DEF DrainOne, drained, Typed
    <3>2. connc' = [connc EXCEPT ![at] = Tail(@)]
      BY <2>2 DEF DrainOne
    <3> DEFINE h == Head(connc[at])
    <3>3. h \in Conns /\ pc[h] = "done" /\ got[h] = 0 /\ sock[h] = "open"
      BY <3>1, <3>2, Dequeued
    <3>4. \A c \in Conns : \A m \in Sls : c # h /\ Queued(c, m) => Queued(c, m)'
      BY <3>1, <3>2, Dequeued
    <3>5. UNCHANGED <<pc, k, got>> /\ sock' = [sock EXCEPT ![h] = "closed"]
      BY <2>2 DEF DrainOne
    <3> HIDE DEF h
    <3> QED
      BY <1>0, <3>3, <3>4, <3>5, MatcherType DEF Typed
  <2> QED
    BY <1>2, <2>1, <2>2 DEF ServeStep
<1>3. ASSUME NEW c \in Conns, AcceptRoot(c) \/ HangUp(c) \/ DeadlineFires(c)
      PROVE  Ownership'
  <2>1. connc' = connc /\ UNCHANGED <<k, got>>
    BY <1>3 DEF AcceptRoot, HangUp, DeadlineFires
  <2>2. \/ UNCHANGED <<pc, sock>>
        \/ /\ sock[c] = "none" /\ pc' = [pc EXCEPT ![c] = "sniff"]
           /\ sock' = [sock EXCEPT ![c] = "open"]
    BY <1>3 DEF AcceptRoot, HangUp, DeadlineFires
  <2>3. CASE UNCHANGED <<pc, sock>>
    BY <1>0, <1>b, <2>1, <2>3, MatcherType
  <2>4. CASE /\ sock[c] = "none" /\ pc' = [pc EXCEPT ![c] = "sniff"]
             /\ sock' = [sock EXCEPT ![c] = "open"]
    <3>1. /\ \A d \in Conns : d # c => pc'[d] = pc[d] /\ sock'[d] = sock[d]
          /\ pc'[c] = "sniff" /\ sock'[c] = "open" /\ got[c] = 0
      BY <1>0, <2>4 DEF Typed
    <3> QED
      BY <1>0, <1>b, <2>1, <3>1, MatcherType
  <2> QED
    BY <2>2, <2>3, <2>4
<1>4. ASSUME NEW c \in Conns, Goroutine(c) PROVE Ownership'
  <2>1. CASE ReadChunk(c) \/ Match(c) \/ Mismatch(c)
    <3>1. UNCHANGED <<sock, connc, got>> /\ pc[c] = "sniff"
      BY <2>1 DEF ReadChunk, Match, Mismatch, Answers
    <3>2. /\ \A d \in Conns : d # c => pc'[d] = pc[d] /\ k'[d] = k[d]
          /\ pc'[c] \in {"sniff", "select"}
      BY <1>0, <2>1, <3>1 DEF ReadChunk, Match, Mismatch, Typed
    <3> QED
      BY <1>0, <1>b, <3>1, <3>2, MatcherType DEF Typed
  <2>2. CASE Enqueue(c)
    <3>1. PICK l \in Sls : l = Ss[k[c]] /\ k[c] \in Ms
      BY <2>2, MatcherType DEF Enqueue, IInv, TypeOK
    <3>a. /\ \A m \in Sls : m # l => connc'[m] = connc[m]
          /\ Len(connc[l]) \in Nat /\ Len(connc'[l]) = Len(connc[l]) + 1
          /\ \A i \in 1..Len(connc[l]) : connc'[l][i] = connc[l][i]
          /\ connc'[l][Len(connc[l]) + 1] = c
      BY <2>2, <3>1, <1>0, Sent DEF Enqueue, Typed
    <3>2. Queued(c, l)'
      BY <3>a DEF Queued
    <3>3. ASSUME NEW d \in Conns, NEW m \in Sls, Queued(d, m) PROVE Queued(d, m)'
      <4>1. CASE m = l
        BY <3>3, <3>a, <4>1 DEF Queued
      <4>2. CASE m # l
        BY <3>3, <3>a, <4>2 DEF Queued
      <4> QED
        BY <4>1, <4>2
    <3>4. UNCHANGED <<k, sock, got>> /\ pc' = [pc EXCEPT ![c] = "done"] /\ pc[c] = "select"
      BY <2>2 DEF Enqueue
    <3> QED
      BY <1>0, <3>1, <3>2, <3>3, <3>4, MatcherType DEF Typed
  <2>3. CASE Abandon(c) \/ Reject(c) \/ Report(c)
    <3>1. UNCHANGED <<k, connc, got>> /\ pc[c] \in {"sniff", "select", "report"}
      BY <2>3 DEF Abandon, Reject, Report
    <3>2. /\ \A d \in Conns : d # c => pc'[d] = pc[d] /\ sock'[d] = sock[d]
          /\ pc'[c] \in {"report", "done"} /\ sock'[c] = "closed"
      BY <1>0, <2>3 DEF Abandon, Reject, Report, Typed
    <3> QED
      BY <1>0, <1>b, <3>1, <3>2, MatcherType DEF Typed
  <2> QED
    BY <1>4, <2>1, <2>2, <2>3 DEF Goroutine, Select
<1>5. ASSUME NEW l \in Sls, Accept(l) \/ AcceptClosed(l) PROVE Ownership'
  <2>1. CASE Accept(l)
    <3>1. connc[l] # << >> /\ connc' = [connc EXCEPT ![l] = Tail(@)]
      BY <2>1 DEF Accept
    <3> DEFINE h == Head(connc[l])
    <3>2. h \in Conns /\ pc[h] = "done" /\ got[h] = 0 /\ sock[h] = "open"
      BY <3>1, Dequeued
    <3>3. \A c \in Conns : \A m \in Sls : c # h /\ Queued(c, m) => Queued(c, m)'
      BY <3>1, Dequeued
    <3>4. UNCHANGED <<pc, k, sock>> /\ got' = [got EXCEPT ![h] = l] /\ l # 0
      BY <2>1, MuxAssumption DEF Accept, Sls
    <3> HIDE DEF h
    <3> QED
      BY <1>0, <3>2, <3>3, <3>4, MatcherType DEF Typed
  <2>2. CASE AcceptClosed(l)
    BY <1>0, <2>2 DEF AcceptClosed, Queued
  <2> QED
    BY <1>5, <2>1, <2>2
<1>6. CASE CloseSub
  BY <1>0, <1>6 DEF CloseSub, Queued
<1>7. CASE Terminated \/ UNCHANGED vars
  BY <1>0, <1>7 DEF Terminated, vars, Queued
<1> QED
  BY <1>1, <1>2, <1>3, <1>4, <1>5, <1>6, <1>7 DEF Next

LEMMA QueuesStep == IInv /\ [Next]_vars => Queues'
<1> SUFFICES ASSUME IInv, [Next]_vars PROVE Queues'
  OBVIOUS
<1>0. Typed /\ Ownership /\ Queues
  BY DEF IInv, TypeOK
<1>a. \A l \in Sls : \A i \in 1..Len(connc[l]) : connc[l][i] \in Conns
  BY <1>0, ElementOfSeq DEF Typed
<1> USE DEF Queues, sniffVars, serveVars
<1>1. ASSUME NEW t \in BOOLEAN, SetReadTimeout(t) PROVE Queues'
  BY <1>0, <1>1 DEF SetReadTimeout
<1>2. CASE ServeStep
  <2>1. CASE StartServe \/ AcceptFails \/ WaitGroup \/ CloseConnc \/ DrainDone
    <3>1. UNCHANGED <<pc, k, sock, connc, got>>
      BY <2>1 DEF StartServe, AcceptFails, WaitGroup, CloseConnc, DrainDone
    <3> QED
      BY <1>0, <3>1
  <2>2. CASE DrainOne
    <3>1. connc[at] # << >> /\ at \in Sls
      BY <2>2, <1>0 DEF DrainOne, drained, Typed
    <3>2. /\ connc' = [connc EXCEPT ![at] = Tail(@)] /\ UNCHANGED <<pc, k, got>>
          /\ sock' = [sock EXCEPT ![Head(connc[at])] = "closed"]
      BY <2>2 DEF DrainOne
    <3> DEFINE h == Head(connc[at])
    <3>3. \A m \in Sls : \A i \in 1..Len(connc'[m]) :
           /\ connc'[m][i] # h
           /\ \E j \in 1..Len(connc[m]) : connc'[m][i] = connc[m][j]
           /\ \A j \in 1..Len(connc'[m]) : connc'[m][j] = connc'[m][i] => j = i
      BY <3>1, <3>2, Dequeued
    <3>4. \A c \in Conns : c # h => sock'[c] = sock[c]
      BY <3>2, <1>0 DEF Typed
    <3> HIDE DEF h
    <3> QED
      BY <1>0, <1>a, <3>2, <3>3, <3>4
  <2> QED
    BY <1>2, <2>1, <2>2 DEF ServeStep
<1>3. ASSUME NEW c \in Conns, AcceptRoot(c) \/ HangUp(c) \/ DeadlineFires(c)
      PROVE  Queues'
  BY <1>0, <1>a, <1>3 DEF AcceptRoot, HangUp, DeadlineFires, Typed, Ownership
<1>4. ASSUME NEW c \in Conns, Goroutine(c) PROVE Queues'
  <2>1. CASE ReadChunk(c) \/ Match(c) \/ Mismatch(c)
    <3>1. UNCHANGED <<sock, connc, got>> /\ pc[c] = "sniff"
      BY <2>1 DEF ReadChunk, Match, Mismatch, Answers
    <3>2. \A d \in Conns : d # c => pc'[d] = pc[d] /\ k'[d] = k[d]
      BY <1>0, <2>1, <3>1 DEF ReadChunk, Match, Mismatch, Typed
    <3> QED
      BY <1>0, <1>a, <3>1, <3>2
  <2>2. CASE Enqueue(c)
    <3> DEFINE l == Ss[k[c]]
    <3>1. l \in Sls /\ k[c] \in Ms
      BY <2>2, MatcherType DEF Enqueue, IInv, TypeOK
    <3>2. UNCHANGED <<k, sock, got>> /\ pc' = [pc EXCEPT ![c] = "done"] /\ pc[c] = "select"
      BY <2>2 DEF Enqueue
    <3>3. pc'[c] = "done" /\ sock[c] = "open" /\ got[c] = 0
      BY <1>0, <3>2 DEF Ownership, Typed
    <3>4. \A m \in Sls : \A i \in 1..Len(connc[m]) : connc[m][i] # c
      BY <1>0, <3>2
    <3>5. /\ \A m \in Sls : m # l => connc'[m] = connc[m]
          /\ Len(connc[l]) \in Nat /\ Len(connc'[l]) = Len(connc[l]) + 1
          /\ \A i \in 1..Len(connc[l]) : connc'[l][i] = connc[l][i]
          /\ connc'[l][Len(connc[l]) + 1] = c
      BY <2>2, <3>1, <1>0, Sent DEF Enqueue, Typed
    <3>6. \A m \in Sls : \A i \in 1..Len(connc[m]) : pc'[connc[m][i]] = "done"
      BY <1>0, <1>a, <3>2 DEF Typed
    <3> SUFFICES ASSUME NEW m \in Sls, NEW i \in 1..Len(connc'[m])
                 PROVE  LET d == connc'[m][i] IN
                        /\ pc'[d] = "done" /\ sock[d] = "open" /\ got[d] = 0
                        /\ k[d] \in Ms /\ Ss[k[d]] = m
                        /\ \A j \in 1..Len(connc'[m]) : connc'[m][j] = d => j = i
      BY <3>2
    <3>7. CASE m # l
      <4>1. connc'[m] = connc[m] /\ i \in 1..Len(connc[m])
        BY <3>5, <3>7
      <4> QED
        BY <1>0, <3>6, <4>1
    <3>8. CASE m = l /\ i = Len(connc[l]) + 1
      <4>1. \A j \in 1..Len(connc'[l]) : connc'[l][j] = c => j = i
        <5>1. \A j \in 1..Len(connc'[l]) : j \in 1..Len(connc[l]) \/ j = i
          BY <3>5, <3>8
        <5>2. \A j \in 1..Len(connc[l]) : connc'[l][j] # c
          BY <3>1, <3>4, <3>5
        <5> QED
          BY <5>1, <5>2
      <4> QED
        BY <3>1, <3>3, <3>5, <3>8, <4>1
    <3>9. CASE m = l /\ i # Len(connc[l]) + 1
      <4>1. i \in 1..Len(connc[l]) /\ connc'[l][i] = connc[l][i] /\ connc[l][i] # c
        BY <3>1, <3>4, <3>5, <3>9
      <4>2. \A j \in 1..Len(connc'[l]) : connc'[l][j] = connc[l][i] => j = i
        <5>1. \A j \in 1..Len(connc[l]) : connc[l][j] = connc[l][i] => j = i
          BY <1>0, <3>1, <4>1
        <5>2. \A j \in 1..Len(connc'[l]) : j \in 1..Len(connc[l]) \/ j = Len(connc[l]) + 1
          BY <3>5
        <5> QED
          BY <3>5, <4>1, <5>1, <5>2
      <4> QED
        BY <1>0, <3>1, <3>9, <3>6, <4>1, <4>2
    <3> QED
      BY <3>7, <3>8, <3>9
  <2>3. CASE Abandon(c) \/ Reject(c) \/ Report(c)
    <3>1. UNCHANGED <<k, connc, got>> /\ pc[c] \in {"sniff", "select", "report"}
      BY <2>3 DEF Abandon, Reject, Report
    <3>2. \A d \in Conns : d # c => pc'[d] = pc[d] /\ sock'[d] = sock[d]
      <4>1. CASE Abandon(c) \/ Reject(c)
        BY <1>0, <4>1 DEF Abandon, Reject, Typed
      <4>2. CASE Report(c)
        BY <1>0, <4>2 DEF Report, Typed
      <4> QED
        BY <2>3, <4>1, <4>2
    <3> QED
      BY <1>0, <1>a, <3>1, <3>2
  <2> QED
    BY <1>4, <2>1, <2>2, <2>3 DEF Goroutine, Select
<1>5. ASSUME NEW l \in Sls, Accept(l) \/ AcceptClosed(l) PROVE Queues'
  <2>1. CASE Accept(l)
    <3>1. /\ connc[l] # << >> /\ connc' = [connc EXCEPT ![l] = Tail(@)]
          /\ UNCHANGED <<pc, k, sock>> /\ got' = [got EXCEPT ![Head(connc[l])] = l]
      BY <2>1 DEF Accept
    <3> DEFINE h == Head(connc[l])
    <3>2. \A m \in Sls : \A i \in 1..Len(connc'[m]) :
           /\ connc'[m][i] # h
           /\ \E j \in 1..Len(connc[m]) : connc'[m][i] = connc[m][j]
           /\ \A j \in 1..Len(connc'[m]) : connc'[m][j] = connc'[m][i] => j = i
      BY <3>1, Dequeued
    <3>3. \A c \in Conns : c # h => got'[c] = got[c]
      BY <3>1, <1>0 DEF Typed
    <3> HIDE DEF h
    <3> QED
      BY <1>0, <1>a, <3>1, <3>2, <3>3
  <2>2. CASE AcceptClosed(l)
    BY <1>0, <2>2 DEF AcceptClosed
  <2> QED
    BY <1>5, <2>1, <2>2
<1>6. CASE CloseSub
  BY <1>0, <1>6 DEF CloseSub
<1>7. CASE Terminated \/ UNCHANGED vars
  BY <1>0, <1>7 DEF Terminated, vars
<1> QED
  BY <1>1, <1>2, <1>3, <1>4, <1>5, <1>6, <1>7 DEF Next

LEMMA DeadlinesStep == IInv /\ [Next]_vars => Deadlines'
<1> SUFFICES ASSUME IInv, [Next]_vars PROVE Deadlines'
  OBVIOUS
<1>0. Typed /\ Ownership /\ Deadlines
  BY DEF IInv, TypeOK
<1> USE DEF Deadlines, Typed, sniffVars, serveVars
<1>1. ASSUME NEW t \in BOOLEAN, SetReadTimeout(t) PROVE Deadlines'
  BY <1>0, <1>1 DEF SetReadTimeout
<1>2. CASE ServeStep
  <2>1. CASE StartServe \/ AcceptFails \/ WaitGroup \/ CloseConnc \/ DrainDone
    <3>1. UNCHANGED <<pc, sock, deadline, readTimeout>> /\ Serve' # "idle"
      BY <1>0, <2>1 DEF StartServe, AcceptFails, WaitGroup, CloseConnc, DrainDone
    <3> QED
      BY <1>0, <3>1
  <2>2. CASE DrainOne
    <3>1. /\ UNCHANGED <<pc, deadline, readTimeout, Serve>> /\ Serve = "drain"
          /\ \A d \in Conns : sock'[d] = "open" => sock[d] = "open"
      BY <1>0, <2>2 DEF DrainOne
    <3> QED
      BY <1>0, <3>1
  <2> QED
    BY <1>2, <2>1, <2>2 DEF ServeStep
<1>3. ASSUME NEW c \in Conns, AcceptRoot(c) \/ HangUp(c) \/ DeadlineFires(c)
      PROVE  Deadlines'
  <2>1. CASE AcceptRoot(c)
    BY <1>0, <2>1 DEF AcceptRoot
  <2>2. CASE HangUp(c)
    BY <1>0, <2>2 DEF HangUp
  <2>3. CASE DeadlineFires(c)
    BY <1>0, <2>3 DEF DeadlineFires
  <2> QED
    BY <1>3, <2>1, <2>2, <2>3
<1>4. ASSUME NEW c \in Conns, Goroutine(c) PROVE Deadlines'
  <2>0. UNCHANGED <<readTimeout, Serve>>
    BY <1>4 DEF Goroutine, ReadChunk, Match, Mismatch, Select, Enqueue, Abandon,
                Reject, Report
  <2>1. CASE ReadChunk(c) \/ Mismatch(c)
    BY <1>0, <2>0, <2>1 DEF ReadChunk, Mismatch
  <2>2. CASE Match(c)
    <3>1. /\ pc' = [pc EXCEPT ![c] = "select"] /\ pc[c] = "sniff" /\ sock' = sock
          /\ deadline' = [deadline EXCEPT ![c] = "none"]
      BY <1>0, <2>2 DEF Match, Answers, deadlineAfterMatch
    <3> QED
      BY <1>0, <2>0, <3>1
  <2>3. CASE Enqueue(c)
    BY <1>0, <2>0, <2>3 DEF Enqueue
  <2>4. CASE Abandon(c)
    BY <1>0, <2>0, <2>4 DEF Abandon
  <2>5. CASE Reject(c)
    BY <1>0, <2>0, <2>5 DEF Reject
  <2>6. CASE Report(c)
    <3>1. sock[c] = "closed"
      BY <1>0, <2>6 DEF Report, Ownership
    <3> QED
      BY <1>0, <2>0, <2>6, <3>1 DEF Report
  <2> QED
    BY <1>4, <2>1, <2>2, <2>3, <2>4, <2>5, <2>6 DEF Goroutine, Select
<1>5. ASSUME NEW l \in Sls, Accept(l) \/ AcceptClosed(l) PROVE Deadlines'
  BY <1>0, <1>5 DEF Accept, AcceptClosed
<1>6. CASE CloseSub
  BY <1>0, <1>6 DEF CloseSub
<1>7. CASE Terminated \/ UNCHANGED vars
  BY <1>0, <1>7 DEF Terminated, vars
<1> QED
  BY <1>1, <1>2, <1>3, <1>4, <1>5, <1>6, <1>7 DEF Next

\* A matcher that says no after a read that did not fail would not have
\* matched: the parsers need every byte they ask for.
LEMMA NoMeansNo ==
  ASSUME Typed, NEW c \in Conns, k[c] \in Ms, ~Matches(c), ~Starved(c)
  PROVE  ~Sniffs[c][k[c]].full
<1>1. /\ Sniffs[c][k[c]].least <= Sniffs[c][k[c]].need
      /\ Sniffs[c][k[c]].least \in Nat /\ Sniffs[c][k[c]].need \in Nat
  BY MuxAssumption DEF Ms
<1>2. received[c] \in Nat
  BY DEF Typed
<1> QED
  BY <1>1, <1>2 DEF Matches, Starved

LEMMA PriorityStep == IInv /\ [Next]_vars => Priority'
<1> SUFFICES ASSUME IInv, [Next]_vars PROVE Priority'
  OBVIOUS
<1>0. Typed /\ Ownership /\ Priority
  BY DEF IInv, TypeOK
<1> USE DEF Priority, sniffVars, serveVars
<1>1. ASSUME NEW t \in BOOLEAN, SetReadTimeout(t) PROVE Priority'
  BY <1>0, <1>1 DEF SetReadTimeout
<1>2. CASE ServeStep
  <2>1. /\ UNCHANGED <<pc, k, cut>>
        /\ \A d \in Conns : sock'[d] = "open" => sock[d] = "open"
    <3>1. CASE DrainOne
      BY <1>0, <3>1 DEF DrainOne, Typed
    <3>2. CASE StartServe \/ AcceptFails \/ WaitGroup \/ CloseConnc \/ DrainDone
      BY <3>2 DEF StartServe, AcceptFails, WaitGroup, CloseConnc, DrainDone
    <3> QED
      BY <1>2, <3>1, <3>2 DEF ServeStep
  <2> QED
    BY <1>0, <2>1
<1>3. ASSUME NEW c \in Conns, AcceptRoot(c) \/ HangUp(c) \/ DeadlineFires(c)
      PROVE  Priority'
  BY <1>0, <1>3 DEF AcceptRoot, HangUp, DeadlineFires, Typed, Ownership
<1>4. ASSUME NEW c \in Conns, Goroutine(c) PROVE Priority'
  <2>1. CASE ReadChunk(c)
    BY <1>0, <2>1 DEF ReadChunk
  <2>2. CASE Match(c)
    <3>1. /\ pc' = [pc EXCEPT ![c] = "select"] /\ pc[c] = "sniff"
          /\ UNCHANGED <<k, sock>> /\ k[c] \in Ms /\ Sniffs[c][k[c]].full
      BY <2>2 DEF Match, Answers, Matches
    <3>2. \A d \in Conns : cut[d] => cut'[d]
      BY <1>0, <2>2 DEF Match, Typed
    <3> QED
      BY <1>0, <3>1, <3>2 DEF Typed
  <2>3. CASE Mismatch(c)
    <3>1. /\ pc[c] = "sniff" /\ UNCHANGED <<pc, sock>> /\ k[c] \in Ms
          /\ k' = [k EXCEPT ![c] = @ + 1] /\ ~Matches(c)
      BY <2>3 DEF Mismatch, Answers
    <3>2. \A d \in Conns : cut[d] => cut'[d]
      BY <1>0, <2>3 DEF Mismatch, Typed
    <3>3. ~cut'[c] => ~Sniffs[c][k[c]].full
      BY <1>0, <2>3, <3>1, NoMeansNo DEF Mismatch, Typed
    <3>4. \A j \in Ms : j < k[c] + 1 => j < k[c] \/ j = k[c]
      BY <1>0, MatcherType DEF Typed
    <3> QED
      BY <1>0, <3>1, <3>2, <3>3, <3>4 DEF Typed
  <2>4. CASE Enqueue(c)
    BY <1>0, <2>4 DEF Enqueue, Typed
  <2>5. CASE Abandon(c) \/ Reject(c)
    BY <1>0, <2>5 DEF Abandon, Reject, Typed
  <2>6. CASE Report(c)
    BY <1>0, <2>6 DEF Report, Ownership, Typed
  <2> QED
    BY <1>4, <2>1, <2>2, <2>3, <2>4, <2>5, <2>6 DEF Goroutine, Select
<1>5. ASSUME NEW l \in Sls, Accept(l) \/ AcceptClosed(l) PROVE Priority'
  BY <1>0, <1>5 DEF Accept, AcceptClosed
<1>6. CASE CloseSub
  BY <1>0, <1>6 DEF CloseSub
<1>7. CASE Terminated \/ UNCHANGED vars
  BY <1>0, <1>7 DEF Terminated, vars
<1> QED
  BY <1>1, <1>2, <1>3, <1>4, <1>5, <1>6, <1>7 DEF Next

\* IInv is an invariant of the mux.
THEOREM Invariance == Spec => []IInv
<1>1. IInv /\ [Next]_vars => IInv'
  BY TypeStep, OrderStep, OwnershipStep, QueuesStep, DeadlinesStep, PriorityStep DEF IInv
<1> QED
  BY InitInv, <1>1, PTL DEF Spec

-----------------------------------------------------------------------------
(* The safety properties.                                                  *)

\* Type correctness: channels stay within their capacity.
THEOREM TypeCorrect == Spec => []TypeOK
<1>1. IInv => TypeOK
  BY DEF IInv
<1> QED
  BY Invariance, <1>1, PTL

\* serve never sends on a channel that Serve has closed.
THEOREM SendsAreSafe == Spec => []NoSendOnClosed
<1>1. IInv => NoSendOnClosed
  <2> SUFFICES ASSUME IInv, NEW c \in Conns, pc[c] = "select"
               PROVE  ~closed[Ss[k[c]]]
    BY DEF NoSendOnClosed
  <2>1. Ss[k[c]] \in Sls
    BY MatcherType DEF IInv, TypeOK
  <2>2. Serve \notin {"close", "drain", "returned"}
    BY DEF IInv, ShutdownOrder, Running
  <2> QED
    BY <2>1, <2>2 DEF IInv, ShutdownOrder, Past
<1> QED
  BY Invariance, <1>1, PTL

\* Serve returns only when every connection was handed over or closed.
LEMMA LeakFree == IInv => NoLeak
<1> SUFFICES ASSUME IInv, Serve = "returned", NEW c \in Conns, sock[c] = "open",
                    got[c] = 0
             PROVE  FALSE
  BY DEF NoLeak
<1>1. pc[c] = "done"
  BY DEF IInv, ShutdownOrder, Running, Ownership, TypeOK, Typed
<1>2. Queued(c, Ss[k[c]]) /\ Ss[k[c]] \in Sls
  BY <1>1, MatcherType DEF IInv, Ownership
<1>3. connc[Ss[k[c]]] = << >>
  BY <1>2 DEF IInv, ShutdownOrder, Past
<1> QED
  BY <1>2, <1>3, EmptySeq DEF Queued

\* No connection is left behind in a channel or a goroutine.
THEOREM NothingLeaks == Spec => []NoLeak
BY Invariance, LeakFree, PTL

\* What Accept returned is open and has no deadline of the mux.
THEOREM DeliveryIsIntact == Spec => []DeliveredIntact
<1>1. IInv => DeliveredIntact
  BY DEF IInv, Ownership, Deadlines, DeliveredIntact
<1> QED
  BY Invariance, <1>1, PTL

\* ErrListenerClosed is the last answer of a sub-listener, and nothing is lost.
THEOREM ClosingIsFinal == Spec => []ClosedIsFinal
<1>1. IInv => ClosedIsFinal
  <2> SUFFICES ASSUME IInv, NEW l \in Sls, told[l]
               PROVE  connc[l] = << >> /\ \A c \in Conns : ~Running(c)
    BY DEF ClosedIsFinal
  <2>1. connc[l] = << >> /\ closed[l]
    BY DEF IInv, ShutdownOrder
  <2>2. Serve \in {"close", "drain", "returned"}
    BY <2>1 DEF IInv, ShutdownOrder, Past
  <2> QED
    BY <2>1, <2>2 DEF IInv, ShutdownOrder
<1> QED
  BY Invariance, <1>1, PTL

-----------------------------------------------------------------------------
(* The mux implements the router: a step of RpcMux is a step of ConnRouter *)
(* or leaves it unchanged.                                                 *)

LEMMA RouterInit == Init => Router!Init
BY DEF Init, Router!Init, fate, phase

\* A connection the router may hand to a listener or close, without a failed
\* read: the matcher that matched it is the first that fully matches.
LEMMA FirstMatch ==
  ASSUME Priority, NEW c \in Conns, NEW m \in Ms, k[c] = m, Sniffs[c][m].full
  PROVE  Ss[m] \in Claims[c] /\ (~cut[c] => Ss[m] \in First[c])
<1>1. m \in FullMatchers(c)
  BY DEF FullMatchers
<1>2. ASSUME ~cut[c], NEW j \in FullMatchers(c) PROVE m <= j
  BY <1>2, MatcherType DEF Priority, FullMatchers
<1> QED
  BY <1>1, <1>2 DEF Claims, First

LEMMA RouterStep == IInv /\ IInv' /\ [Next]_vars => [Router!Next]_Router!rvars
<1> DEFINE RStep == Router!Next \/ UNCHANGED Router!rvars
<1> SUFFICES ASSUME IInv, IInv', [Next]_vars PROVE RStep
  OBVIOUS
<1>0. Typed /\ Ownership /\ Queues /\ Priority
  BY DEF IInv, TypeOK
<1>u. UNCHANGED <<sock, got, cut, Serve>> => RStep
  BY DEF Router!rvars, fate, phase
<1> USE DEF sniffVars, serveVars
<1>1. ASSUME NEW t \in BOOLEAN, SetReadTimeout(t) PROVE RStep
  BY <1>1, <1>u DEF SetReadTimeout
<1>2. CASE ServeStep
  <2>1. CASE StartServe
    BY <2>1 DEF StartServe, Router!rvars, fate, phase
  <2>2. CASE AcceptFails
    <3>1. CASE Serve' = "accept"
      BY <2>2, <3>1, <1>u DEF AcceptFails
    <3>2. CASE Serve' = "wait"
      <4>1. Router!Stop
        BY <2>2, <3>2 DEF AcceptFails, Router!Stop, fate, phase
      <4> QED
        BY <4>1 DEF Router!Next
    <3> QED
      BY <2>2, <3>1, <3>2 DEF AcceptFails
  <2>3. CASE WaitGroup \/ CloseConnc
    BY <2>3 DEF WaitGroup, CloseConnc, Router!rvars, fate, phase
  <2>4. CASE DrainOne
    <3>1. connc[at] # << >> /\ at \in Sls /\ connc' = [connc EXCEPT ![at] = Tail(@)]
      BY <2>4, <1>0 DEF DrainOne, drained, Typed
    <3>2. PICK h \in Conns : /\ h = Head(connc[at]) /\ sock[h] = "open" /\ got[h] = 0
                             /\ sock' = [sock EXCEPT ![h] = "closed"]
      BY <2>4, <3>1, Dequeued DEF DrainOne
    <3>3. UNCHANGED <<got, cut, Serve>> /\ Serve = "drain"
      BY <2>4 DEF DrainOne
    <3>4. fate' = [fate EXCEPT ![h] = "closed"] /\ fate[h] = "held"
      BY <1>0, <3>2, <3>3 DEF fate, Typed
    <3>5. Router!Drop(h)
      BY <3>3, <3>4 DEF Router!Drop, phase
    <3> QED
      BY <3>5 DEF Router!Next
  <2>5. CASE DrainDone
    <3>1. CASE Serve' = "close"
      BY <2>5, <3>1 DEF DrainDone, Router!rvars, fate, phase
    <3>2. CASE Serve' = "returned"
      <4>1. NoLeak'
        BY LeakFree, PTL
      <4>2. \A c \in Conns : fate[c] # "held"
        BY <2>5, <3>2, <4>1, <1>0 DEF NoLeak, DrainDone, fate, Typed
      <4>3. Router!Finish
        BY <2>5, <3>2, <4>2 DEF DrainDone, Router!Finish, fate, phase
      <4> QED
        BY <4>3 DEF Router!Next
    <3> QED
      BY <2>5, <3>1, <3>2 DEF DrainDone
  <2> QED
    BY <1>2, <2>1, <2>2, <2>3, <2>4, <2>5 DEF ServeStep
<1>3. ASSUME NEW c \in Conns, AcceptRoot(c) \/ HangUp(c) \/ DeadlineFires(c)
      PROVE  RStep
  <2>1. CASE AcceptRoot(c)
    <3>1. got[c] = 0
      BY <1>0, <2>1 DEF AcceptRoot, Ownership
    <3>2. fate' = [fate EXCEPT ![c] = "held"] /\ fate[c] = "outside"
      BY <1>0, <2>1, <3>1 DEF AcceptRoot, fate, Typed
    <3>3. Router!Take(c)
      BY <2>1, <3>2 DEF AcceptRoot, Router!Take, phase
    <3> QED
      BY <3>3 DEF Router!Next
  <2>2. CASE HangUp(c) \/ DeadlineFires(c)
    BY <2>2, <1>u DEF HangUp, DeadlineFires
  <2> QED
    BY <1>3, <2>1, <2>2
<1>4. ASSUME NEW c \in Conns, Goroutine(c) PROVE RStep
  <2>0. /\ Serve' = Serve /\ UNCHANGED phase
        /\ Serve # "returned"
    <3>1. Running(c)
      BY <1>4 DEF Goroutine, ReadChunk, Match, Mismatch, Answers, Select, Enqueue,
                  Abandon, Reject, Report, Running
    <3>2. Serve' = Serve
      BY <1>4 DEF Goroutine, ReadChunk, Match, Mismatch, Select, Enqueue, Abandon,
                  Reject, Report
    <3> QED
      BY <3>1, <3>2 DEF phase, IInv, ShutdownOrder
  <2>1. CASE ReadChunk(c) \/ Enqueue(c) \/ Report(c)
    BY <2>0, <2>1, <1>u DEF ReadChunk, Enqueue, Report
  <2>2. CASE Match(c) \/ Mismatch(c)
    <3>1. pc[c] = "sniff" /\ UNCHANGED <<sock, got>> /\ UNCHANGED fate
      BY <2>2 DEF Match, Mismatch, Answers, fate
    <3>2. CASE Starved(c)
      <4>1. cut' = [cut EXCEPT ![c] = TRUE]
        BY <2>2, <3>2 DEF Match, Mismatch
      <4>2. fate[c] = "held" /\ phase # "down"
        BY <1>0, <2>0, <3>1 DEF fate, phase, Ownership
      <4>3. Router!Cut(c)
        BY <2>0, <3>1, <4>1, <4>2 DEF Router!Cut
      <4> QED
        BY <4>3 DEF Router!Next
    <3>3. CASE ~Starved(c)
      <4>1. cut' = [cut EXCEPT ![c] = cut[c]]
        BY <1>0, <2>2, <3>3 DEF Match, Mismatch, Typed
      <4>2. cut' = cut
        BY <1>0, <4>1 DEF Typed
      <4> QED
        BY <2>0, <3>1, <4>2, <1>u
    <3> QED
      BY <3>2, <3>3
  <2>3. CASE Abandon(c) \/ Reject(c)
    <3>1. /\ pc[c] \in {"sniff", "select"} /\ sock' = [sock EXCEPT ![c] = "closed"]
          /\ UNCHANGED <<got, cut>>
      BY <2>3 DEF Abandon, Reject
    <3>2. sock[c] = "open" /\ got[c] = 0
      BY <1>0, <3>1 DEF Ownership
    <3>3. fate' = [fate EXCEPT ![c] = "closed"] /\ fate[c] = "held"
      BY <1>0, <3>1, <3>2 DEF fate, Typed
    <3>4. phase = "stopping" \/ cut[c] \/ First[c] = {}
      <4>1. CASE Abandon(c)
        BY <2>0, <4>1 DEF Abandon, donecClosed, phase
      <4>2. CASE Reject(c) /\ ~cut[c]
        <5>1. \A j \in Ms : j < k[c]
          BY <1>0, <4>2, MatcherType DEF Reject, Typed
        <5>2. FullMatchers(c) = {}
          BY <1>0, <4>2, <5>1 DEF Priority, FullMatchers
        <5> QED
          BY <5>2 DEF First
      <4> QED
        BY <2>3, <4>1, <4>2
    <3>5. Router!Drop(c)
      BY <2>0, <3>1, <3>3, <3>4 DEF Router!Drop, phase
    <3> QED
      BY <3>5 DEF Router!Next
  <2> QED
    BY <1>4, <2>1, <2>2, <2>3 DEF Goroutine, Select
<1>5. ASSUME NEW l \in Sls, Accept(l) \/ AcceptClosed(l) PROVE RStep
  <2>1. CASE Accept(l)
    <3>1. connc[l] # << >> /\ connc' = [connc EXCEPT ![l] = Tail(@)]
      BY <2>1 DEF Accept
    <3>2. PICK h \in Conns : /\ h = Head(connc[l]) /\ sock[h] = "open" /\ got[h] = 0
                             /\ pc[h] = "done"
      BY <3>1, Dequeued
    <3>3. k[h] \in Ms /\ Ss[k[h]] = l
      BY <1>0, <3>1, <3>2, Received DEF Queues
    <3>4. l \in Claims[h] /\ (~cut[h] => l \in First[h])
      BY <1>0, <3>2, <3>3, FirstMatch DEF Priority
    <3>5. UNCHANGED <<sock, cut, Serve>> /\ got' = [got EXCEPT ![h] = l] /\ l # 0
      BY <2>1, <3>2, MuxAssumption DEF Accept, Sls
    <3>6. fate' = [fate EXCEPT ![h] = "delivered"] /\ fate[h] = "held"
      BY <1>0, <3>2, <3>5 DEF fate, Typed
    <3>7. Serve # "returned"
      BY <3>1 DEF IInv, ShutdownOrder, Past
    <3>8. Router!Deliver(h, l)
      BY <1>0, <3>4, <3>5, <3>6, <3>7 DEF Router!Deliver, phase, Typed
    <3> QED
      BY <3>4, <3>8 DEF Router!Next
  <2>2. CASE AcceptClosed(l)
    BY <2>2, <1>u DEF AcceptClosed
  <2> QED
    BY <1>5, <2>1, <2>2
<1>6. CASE CloseSub
  BY <1>6, <1>u DEF CloseSub
<1>7. CASE Terminated \/ UNCHANGED vars
  BY <1>7, <1>u DEF Terminated, vars
<1> QED
  BY <1>1, <1>2, <1>3, <1>4, <1>5, <1>6, <1>7 DEF Next

\* The mux routes as ConnRouter promises: by priority, to one listener, and
\* nothing is held when Serve has returned.
THEOREM MuxRoutes == Spec => Routes
<1>1. IInv /\ IInv' /\ [Next]_vars => [Router!Next]_Router!rvars
  BY RouterStep
<1> QED
  BY RouterInit, <1>1, Invariance, PTL DEF Spec, Routes, Router!Spec
=============================================================================
