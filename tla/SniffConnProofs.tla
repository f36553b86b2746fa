--------------------------- MODULE SniffConnProofs ---------------------------
(***************************************************************************)
(* Proofs about SniffConn, for streams and slices of any length: while     *)
(* matchers read, the buffer holds every byte taken from the connection,   *)
(* and a reader has seen a prefix of the stream.                           *)
(***************************************************************************)
EXTENDS SniffConn, SequenceTheorems, TLAPS

\* What the buffer holds, and how far the reader has come: it is given the
\* buffer again, or has been given all that was taken from the connection.
BufferInv ==
  /\ reader = "matcher" => sniffing
  /\ reader = "program" => ~sniffing
  /\ reader # "program" => buffer = Bytes(0, pos)
  /\ bufferSize > bufferRead => buffer = Bytes(0, pos) /\ bufferSize = pos

ViewInv == view = Bytes(0, IF bufferSize > bufferRead THEN bufferRead ELSE pos)

\* Only a connection that returns bytes together with EOF leaves EOF in lastErr.
ErrInv ==
  /\ ~DataWithErr => lastErr = "nil"
  /\ ~DataWithErr /\ err = "EOF" =>
       pos = NumBytes /\ bufferSize <= bufferRead

IInv == TypeOK /\ BufferInv /\ ViewInv /\ ErrInv

-----------------------------------------------------------------------------
(* The stream.                                                             *)

LEMMA BytesType ==
  \A a, b \in 0..NumBytes : a <= b =>
    /\ Bytes(a, b) \in Seq(1..NumBytes) /\ Len(Bytes(a, b)) = b - a
    /\ \A i \in 1..(b - a) : Bytes(a, b)[i] = a + i
BY SniffAssumption DEF Bytes

LEMMA PrefixType ==
  \A b \in 0..NumBytes :
    /\ Bytes(0, b) \in Seq(1..NumBytes) /\ Len(Bytes(0, b)) = b
    /\ \A i \in 1..b : Bytes(0, b)[i] = i
BY SniffAssumption DEF Bytes

\* Bytes read one after the other are the stream without a gap.
LEMMA BytesJoin ==
  ASSUME NEW a \in 0..NumBytes, NEW b \in 0..NumBytes, a <= b
  PROVE  Bytes(0, a) \o Bytes(a, b) = Bytes(0, b)
<1> DEFINE q == Bytes(0, a)
           r == Bytes(a, b)
           s == Bytes(0, b)
<1>0. a \in Nat /\ b \in Nat
  BY SniffAssumption
<1>1. q \in Seq(1..NumBytes) /\ Len(q) = a /\ \A i \in 1..a : q[i] = i
  BY PrefixType
<1>2. r \in Seq(1..NumBytes) /\ Len(r) = b - a /\ \A i \in 1..(b - a) : r[i] = a + i
  BY BytesType
<1>3. s \in Seq(1..NumBytes) /\ Len(s) = b /\ \A i \in 1..b : s[i] = i
  BY PrefixType
<1> HIDE DEF q, r, s
<1>4. /\ q \o r \in Seq(1..NumBytes) /\ Len(q \o r) = Len(q) + Len(r)
      /\ \A i \in 1..Len(q) + Len(r) :
           (q \o r)[i] = IF i <= Len(q) THEN q[i] ELSE r[i - Len(q)]
  BY <1>1, <1>2, ConcatProperties
<1>5. Len(q \o r) = b
  BY <1>0, <1>1, <1>2, <1>4
<1>6. ASSUME NEW i \in 1..b PROVE (q \o r)[i] = s[i]
  <2>1. (q \o r)[i] = IF i <= a THEN q[i] ELSE r[i - a]
    BY <1>0, <1>1, <1>2, <1>4
  <2>2. CASE i <= a
    BY <1>0, <1>1, <1>3, <2>1, <2>2
  <2>3. CASE ~(i <= a)
    <3>1. i - a \in 1..(b - a)
      BY <1>0, <2>3
    <3> QED
      BY <1>0, <1>2, <1>3, <2>1, <2>3, <3>1
  <2> QED
    BY <2>2, <2>3
<1>7. q \o r = s
  BY <1>3, <1>4, <1>5, <1>6, SeqEqual
<1> QED
  BY <1>7 DEF q, r, s

\* A piece of the sniffed bytes is that piece of the stream.
LEMMA BytesPiece ==
  ASSUME NEW a \in 0..NumBytes, NEW b \in 0..NumBytes, NEW p \in 0..NumBytes,
         a <= b, b <= p
  PROVE  SubSeq(Bytes(0, p), a + 1, b) = Bytes(a, b)
<1> DEFINE q == Bytes(0, p)
           r == Bytes(a, b)
           s == SubSeq(q, a + 1, b)
<1>0. a \in Nat /\ b \in Nat /\ p \in Nat
  BY SniffAssumption
<1>1. q \in Seq(1..NumBytes) /\ Len(q) = p /\ \A i \in 1..p : q[i] = i
  BY PrefixType
<1>2. r \in Seq(1..NumBytes) /\ Len(r) = b - a /\ \A i \in 1..(b - a) : r[i] = a + i
  BY BytesType
<1> HIDE DEF q, r
<1>3. s \in Seq(1..NumBytes) /\ Len(s) = b - a /\ \A i \in 1..(b - a) : s[i] = q[a + i]
  <2>1. \A i \in (a + 1)..b : q[i] \in 1..NumBytes
    BY <1>0, <1>1, SniffAssumption
  <2>2. /\ SubSeq(q, a + 1, b) \in Seq(1..NumBytes)
        /\ Len(SubSeq(q, a + 1, b)) = IF a + 1 <= b THEN b - (a + 1) + 1 ELSE 0
        /\ \A i \in 1..(b - (a + 1) + 1) : SubSeq(q, a + 1, b)[i] = q[(a + 1) + i - 1]
    BY <1>0, <2>1, SubSeqProperties
  <2>3. Len(s) = b - a /\ s \in Seq(1..NumBytes)
    BY <1>0, <2>2
  <2>4. ASSUME NEW i \in 1..(b - a) PROVE s[i] = q[a + i]
    <3>1. i \in 1..(b - (a + 1) + 1) /\ (a + 1) + i - 1 = a + i
      BY <1>0
    <3> QED
      BY <2>2, <3>1
  <2> QED
    BY <2>3, <2>4
<1> HIDE DEF s
<1>4. ASSUME NEW i \in 1..(b - a) PROVE s[i] = r[i]
  <2>1. a + i \in 1..p
    BY <1>0
  <2> QED
    BY <1>1, <1>2, <1>3, <2>1
<1>5. s = r
  BY <1>2, <1>3, <1>4, SeqEqual
<1> QED
  BY <1>5 DEF q, r, s

LEMMA SourceReadType ==
  ASSUME NEW len \in 1..MaxRead, pos \in 0..NumBytes, NEW r \in SourceRead(len)
  PROVE  /\ r.sn \in Nat /\ pos + r.sn <= NumBytes /\ r.sErr \in Errors
         /\ r.sErr = "EOF" => pos + r.sn = NumBytes
         /\ r.sErr = "EOF" /\ ~DataWithErr => r.sn = 0
BY SniffAssumption DEF SourceRead, Smaller, Errors

-----------------------------------------------------------------------------
(* The inductive invariant.                                                *)

LEMMA InitInv == Init => IInv
<1> SUFFICES ASSUME Init PROVE IInv
  OBVIOUS
<1>1. Bytes(0, 0) = << >>
  BY PrefixType, SniffAssumption, EmptySeq
<1>2. TypeOK
  <2>1. << >> \in Seq(1..NumBytes) /\ Len(<< >>) = 0 /\ 0 \in 0..NumBytes
    BY SniffAssumption, EmptySeq
  <2> QED
    <3>1. /\ pos = 0 /\ buffer = << >> /\ view = << >> /\ bufferRead = 0 /\ bufferSize = 0
          /\ sniffing = FALSE /\ lastErr = "nil" /\ err = "nil" /\ reader = "serve"
      BY DEF Init
    <3>2. bufferRead \in 0..bufferSize /\ bufferSize \in Nat /\ bufferSize <= Len(buffer)
      BY <2>1, <3>1
    <3> QED
      BY <2>1, <3>1, <3>2 DEF TypeOK, Errors
<1> QED
  BY <1>1, <1>2 DEF Init, IInv, BufferInv, ViewInv, ErrInv

LEMMA ReplayStep ==
  ASSUME IInv, NEW len \in 1..MaxRead, Replay(len), reader # "serve", err = "nil"
  PROVE  IInv'
<1> DEFINE bn == Smaller(len, bufferSize - bufferRead)
<1>1. /\ pos \in Nat /\ pos <= NumBytes /\ bufferRead \in Nat /\ bufferSize \in Nat
      /\ bufferSize > bufferRead /\ bufferSize = pos /\ buffer = Bytes(0, pos)
      /\ view = Bytes(0, bufferRead)
  BY SniffAssumption DEF IInv, TypeOK, BufferInv, ViewInv, Replay
<1>2. bn \in Nat /\ bn > 0 /\ bufferRead + bn <= bufferSize
  BY <1>1, SniffAssumption DEF Smaller
<1>3. /\ view' = view \o SubSeq(buffer, bufferRead + 1, bufferRead + bn)
      /\ bufferRead' = bufferRead + bn /\ err' = lastErr
      /\ UNCHANGED <<pos, buffer, bufferSize, sniffing, lastErr, reader>>
  BY DEF Replay
<1> HIDE DEF bn
<1> DEFINE next == bufferRead + bn
<1>a. /\ bufferRead \in 0..NumBytes /\ next \in 0..NumBytes /\ pos \in 0..NumBytes
      /\ bufferRead <= next /\ next <= pos
  BY <1>1, <1>2, SniffAssumption
<1>b. SubSeq(buffer, bufferRead + 1, next) = Bytes(bufferRead, next)
  BY <1>1, <1>a, BytesPiece
<1>4. view' = Bytes(0, bufferRead')
  <2>1. Bytes(0, bufferRead) \o Bytes(bufferRead, next) = Bytes(0, next)
    BY <1>a, BytesJoin
  <2> QED
    BY <1>1, <1>3, <1>b, <2>1
<1>5. view' \in Seq(1..NumBytes)
  BY <1>3, <1>4, <1>a, PrefixType
<1>6. TypeOK'
  BY <1>1, <1>2, <1>3, <1>5 DEF IInv, TypeOK
<1>7. BufferInv' /\ ErrInv'
  BY <1>1, <1>3 DEF IInv, BufferInv, ErrInv
<1>8. ViewInv'
  <2>1. (IF bufferSize > bufferRead THEN bufferRead ELSE pos)' = bufferRead'
    BY <1>1, <1>2, <1>3
  <2> QED
    BY <1>4, <2>1 DEF ViewInv
<1> QED
  BY <1>6, <1>7, <1>8 DEF IInv

LEMMA ReadThroughStep ==
  ASSUME IInv, NEW len \in 1..MaxRead, ReadThrough(len), reader # "serve", err = "nil"
  PROVE  IInv'
<1>1. /\ pos \in Nat /\ pos <= NumBytes /\ view = Bytes(0, pos)
      /\ bufferRead \in Nat /\ bufferSize \in Nat /\ bufferSize <= bufferRead
  BY SniffAssumption DEF IInv, TypeOK, ViewInv, ReadThrough
<1>2. PICK r \in SourceRead(len) :
        /\ pos' = pos + r.sn /\ view' = view \o Bytes(pos, pos + r.sn) /\ err' = r.sErr
        /\ lastErr' = IF records(r.sn) THEN r.sErr ELSE lastErr
        /\ buffer' = LET kept == IF drops THEN << >> ELSE buffer IN
                     IF records(r.sn) THEN kept \o Bytes(pos, pos + r.sn) ELSE kept
        /\ UNCHANGED <<bufferRead, bufferSize, sniffing, reader>>
  BY DEF ReadThrough
<1>3. /\ r.sn \in Nat /\ pos + r.sn <= NumBytes /\ r.sErr \in Errors
      /\ r.sErr = "EOF" => pos + r.sn = NumBytes
      /\ r.sErr = "EOF" /\ ~DataWithErr => r.sn = 0
      /\ r.sn > 0 /\ ~DataWithErr => r.sErr = "nil"
  <2>1. pos \in 0..NumBytes
    BY DEF IInv, TypeOK
  <2>2. r.sn > 0 /\ ~DataWithErr => r.sErr = "nil"
    BY <2>1, SniffAssumption DEF SourceRead, Smaller
  <2> QED
    BY <2>1, <2>2, SourceReadType
<1>a. pos \in 0..NumBytes /\ pos + r.sn \in 0..NumBytes /\ pos <= pos + r.sn
  BY <1>1, <1>3, SniffAssumption
<1>b. Bytes(0, pos) \o Bytes(pos, pos + r.sn) = Bytes(0, pos')
  <2>1. Bytes(0, pos) \o Bytes(pos, pos + r.sn) = Bytes(0, pos + r.sn)
    BY <1>a, BytesJoin
  <2> QED
    BY <1>2, <2>1
<1>4. view' = Bytes(0, pos')
  BY <1>1, <1>2, <1>b
<1>5. reader = "matcher" => buffer' = Bytes(0, pos')
  <2> SUFFICES ASSUME reader = "matcher" PROVE buffer' = Bytes(0, pos')
    OBVIOUS
  <2>1. sniffing /\ buffer = Bytes(0, pos)
    BY DEF IInv, BufferInv
  <2>2. CASE r.sn > 0
    BY <1>2, <1>b, <2>1, <2>2 DEF records, drops
  <2>3. CASE r.sn = 0
    BY <1>1, <1>2, <2>1, <2>3 DEF records, drops
  <2> QED
    BY <1>3, <2>2, <2>3
<1>6. reader = "program" => buffer' = << >>
  BY <1>2 DEF IInv, BufferInv, records, drops
<1>7. reader \in {"matcher", "program"}
  BY DEF IInv, TypeOK
<1>8. TypeOK'
  <2>1. Bytes(0, pos') \in Seq(1..NumBytes) /\ Len(Bytes(0, pos')) = pos'
    BY <1>2, <1>a, PrefixType
  <2>2. reader = "matcher" => bufferSize <= pos'
    <3>1. reader = "matcher" => bufferSize <= pos
      BY <1>a, PrefixType DEF IInv, TypeOK, BufferInv
    <3> QED
      BY <3>1, <1>1, <1>2, <1>3
  <2>3. buffer' \in Seq(1..NumBytes) /\ (reader = "matcher" => Len(buffer') = pos')
    BY <1>5, <1>6, <1>7, <2>1, EmptySeq
  <2>4. lastErr' \in Errors /\ err' \in Errors
    BY <1>2, <1>3 DEF IInv, TypeOK
  <2>5. view' \in Seq(1..NumBytes) /\ pos' \in 0..NumBytes
    BY <1>2, <1>4, <1>a, <2>1
  <2>6. /\ UNCHANGED <<bufferRead, bufferSize, sniffing, reader>>
        /\ reader = "program" \/ bufferSize <= Len(buffer')
    BY <1>2, <1>7, <2>2, <2>3
  <2> QED
    BY <2>3, <2>4, <2>5, <2>6 DEF IInv, TypeOK
<1>9. BufferInv' /\ ViewInv'
  BY <1>1, <1>2, <1>4, <1>5, <1>7 DEF IInv, BufferInv, ViewInv
<1>10. ErrInv'
  BY <1>1, <1>2, <1>3 DEF IInv, ErrInv, records
<1> QED
  BY <1>8, <1>9, <1>10 DEF IInv

LEMMA NextStep == IInv /\ [Next]_vars => IInv'
<1> SUFFICES ASSUME IInv, [Next]_vars PROVE IInv'
  OBVIOUS
<1>0. /\ pos \in Nat /\ pos <= NumBytes /\ buffer \in Seq(1..NumBytes)
      /\ Bytes(0, 0) = << >> /\ Len(Bytes(0, pos)) = pos
  <2>1. pos \in 0..NumBytes /\ 0 \in 0..NumBytes /\ buffer \in Seq(1..NumBytes)
    BY SniffAssumption DEF IInv, TypeOK
  <2>2. Len(Bytes(0, pos)) = pos
    BY <2>1, PrefixType
  <2>3. Bytes(0, 0) = << >>
    BY <2>1, PrefixType, EmptySeq
  <2> QED
    BY <2>1, <2>2, <2>3, SniffAssumption
<1>1. CASE startSniffing \/ doneSniffing
  <2>1. /\ reader # "program" /\ reader' # "serve" /\ bufferRead' = 0
        /\ bufferSize' = Len(buffer) /\ view' = << >> /\ err' = "nil"
        /\ UNCHANGED <<pos, buffer, lastErr>> /\ reader' \in {"matcher", "program"}
        /\ sniffing' \in BOOLEAN /\ (sniffing' <=> reader' = "matcher")
    BY <1>1 DEF startSniffing, doneSniffing, reset
  <2>2. buffer = Bytes(0, pos) /\ Len(buffer) = pos
    BY <1>0, <2>1 DEF IInv, BufferInv
  <2>3. TypeOK'
    BY <1>0, <2>1, <2>2, EmptySeq DEF IInv, TypeOK, Errors
  <2> QED
    BY <1>0, <2>1, <2>2, <2>3 DEF IInv, BufferInv, ViewInv, ErrInv
<1>2. CASE Mismatch
  BY <1>2 DEF Mismatch, bufVars, IInv, TypeOK, BufferInv, ViewInv, ErrInv
<1>3. CASE Read
  BY <1>3, ReplayStep, ReadThroughStep DEF Read
<1>4. CASE Finished \/ UNCHANGED vars
  BY <1>4 DEF Finished, vars, IInv, TypeOK, BufferInv, ViewInv, ErrInv
<1> QED
  BY <1>1, <1>2, <1>3, <1>4 DEF Next

\* IInv is an invariant of the buffer.
THEOREM Invariance == Spec => []IInv
BY InitInv, NextStep, PTL DEF Spec

-----------------------------------------------------------------------------
(* The properties.                                                         *)

LEMMA SeenSoFar ==
  IInv => /\ view = Bytes(0, Len(view))
          /\ Len(view) = IF bufferSize > bufferRead THEN bufferRead ELSE pos
<1> DEFINE n == IF bufferSize > bufferRead THEN bufferRead ELSE pos
<1> SUFFICES ASSUME IInv PROVE view = Bytes(0, Len(view)) /\ Len(view) = n
  OBVIOUS
<1>1. view = Bytes(0, n)
  BY DEF IInv, ViewInv
<1>2. n \in 0..NumBytes
  BY SniffAssumption DEF IInv, TypeOK, BufferInv
<1> HIDE DEF n
<1>3. Len(view) = n
  BY <1>1, <1>2, PrefixType
<1> QED
  BY <1>1, <1>3

\* Type correctness of the buffer's offsets.
THEOREM TypeCorrect == Spec => []TypeOK
<1>1. IInv => TypeOK
  BY DEF IInv
<1> QED
  BY Invariance, <1>1, PTL

\* Sniffing is transparent: each matcher, and the program, reads the stream
\* from its first byte, whatever was read before.
THEOREM SniffingIsTransparent == Spec => []Transparent
<1>1. IInv => Transparent
  BY SeenSoFar DEF Transparent
<1> QED
  BY Invariance, <1>1, PTL

\* Every byte taken from the connection is given to the program or is still
\* in the buffer.
THEOREM NoByteIsLost == Spec => []NothingLost
<1>1. IInv => NothingLost
  <2> SUFFICES ASSUME IInv PROVE Len(view) + Unread = pos
    BY DEF NothingLost
  <2>1. bufferRead \in Nat /\ bufferSize \in Nat /\ pos \in Nat
    BY SniffAssumption DEF IInv, TypeOK
  <2>2. bufferSize > bufferRead => bufferSize = pos
    BY DEF IInv, BufferInv
  <2> QED
    BY <2>1, <2>2, SeenSoFar DEF Unread
<1> QED
  BY Invariance, <1>1, PTL

\* If the connection never returns bytes together with EOF (a TCP connection
\* does not), a reader that is told EOF has seen the whole stream.
THEOREM EofIsTrue == ~DataWithErr => (Spec => []EofIsEnd)
<1>1. ~DataWithErr /\ IInv => EofIsEnd
  BY SeenSoFar DEF IInv, TypeOK, ErrInv, EofIsEnd
<1>2. ~DataWithErr => (Spec => []EofIsEnd)
  <2> SUFFICES ASSUME ~DataWithErr PROVE Spec => []EofIsEnd
    OBVIOUS
  <2>1. IInv => EofIsEnd
    BY <1>1
  <2> QED
    BY Invariance, <2>1, PTL
<1> QED
  BY <1>2
=============================================================================
