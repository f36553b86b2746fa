----------------------------- MODULE SniffConn -----------------------------
(***************************************************************************)
(* MuxConn and bufferedReader of rpc/mux.go: the buffer that lets several  *)
(* matchers read the first bytes of a connection, one after the other, and *)
(* gives the same bytes to the program that gets the connection.           *)
(* rpcMux.serve calls startSniffing before every matcher and doneSniffing  *)
(* when one has matched; after that the program reads.                     *)
(*                                                                         *)
(* Byte i of the stream is the number i.                                   *)
(***************************************************************************)
EXTENDS Integers, Sequences

CONSTANTS
  NumBytes,     \* bytes the client sends before it closes the connection
  MaxRead,      \* longest slice p a reader passes to Read
  DataWithErr   \* the connection may return its last bytes together with
                \* io.EOF, as io.Reader allows and tls.Conn does

ASSUME SniffAssumption ==
  NumBytes \in Nat /\ MaxRead \in Nat \ {0} /\ DataWithErr \in BOOLEAN

VARIABLES
  pos,          \* bytes taken from the connection
  buffer,       \* bytes sniffed
  bufferRead,   \* of those, bytes the reader has been given again
  bufferSize,   \* bytes to be given again
  sniffing,
  lastErr,      \* error of the last read that put bytes into the buffer
  reader,       \* "serve": rpcMux.serve, between two matchers; or who reads
  view,         \* bytes the reader has been given since it started
  err           \* what the reader's last Read returned

bufVars == <<buffer, bufferRead, bufferSize, sniffing, lastErr>>
vars == <<pos, buffer, bufferRead, bufferSize, sniffing, lastErr, reader, view, err>>

\* The bytes of the stream after the first a, up to b.
Bytes(a, b) == [i \in 1..(b - a) |-> a + i]
Smaller(a, b) == IF a <= b THEN a ELSE b

(* Faults: plausible slips in the operations below, which nothing refers   *)
(* to; in place of the operation, each breaks a property.                  *)
resetKeepsRead(snif) ==       \* bufferRead not reset
  /\ sniffing' = snif
  /\ bufferSize' = Len(buffer)
  /\ UNCHANGED <<buffer, bufferRead, lastErr>>
resetForMatchers(snif) ==     \* nothing to be given again after sniffing
  /\ sniffing' = snif
  /\ bufferRead' = 0
  /\ bufferSize' = IF snif THEN Len(buffer) ELSE 0
  /\ UNCHANGED <<buffer, lastErr>>
dropsAlways == TRUE           \* buffer dropped while matchers still need it
recordsErrors(sn) == sniffing \* lastErr set by reads without bytes

-----------------------------------------------------------------------------
\* bufferedReader.reset
reset(snif) ==
  /\ sniffing' = snif
  /\ bufferRead' = 0
  /\ bufferSize' = Len(buffer)
  /\ UNCHANGED <<buffer, lastErr>>

Init ==
  /\ pos = 0 /\ buffer = << >> /\ bufferRead = 0 /\ bufferSize = 0
  /\ sniffing = FALSE /\ lastErr = "nil"
  /\ reader = "serve" /\ view = << >> /\ err = "nil"

\* serve: s(muc.Conn, muc.startSniffing())
startSniffing ==
  /\ reader = "serve"
  /\ reset(TRUE)
  /\ reader' = "matcher" /\ view' = << >> /\ err' = "nil"
  /\ UNCHANGED pos

\* The matcher returns false: serve goes on to the next one.
Mismatch ==
  /\ reader = "matcher"
  /\ reader' = "serve"
  /\ UNCHANGED <<pos, bufVars, view, err>>

\* The matcher returns true: doneSniffing, and the program gets the connection.
doneSniffing ==
  /\ reader = "matcher"
  /\ reset(FALSE)
  /\ reader' = "program" /\ view' = << >> /\ err' = "nil"
  /\ UNCHANGED pos

\* What Read of the connection may return for a slice of length len: bytes;
\* the last bytes and EOF; EOF at the end; a timeout while matchers read.
SourceRead(len) ==
  LET left == NumBytes - pos IN
  [sn : 1..Smaller(len, left), sErr : {"nil"}]
    \cup {r \in {[sn |-> left, sErr |-> "EOF"]} :
            left = 0 \/ (DataWithErr /\ left <= len)}
    \cup {r \in {[sn |-> 0, sErr |-> "timeout"]} : sniffing}

\* Read, first branch: sniffed bytes are given again, with the last error.
Replay(len) ==
  LET bn == Smaller(len, bufferSize - bufferRead) IN
  /\ bufferSize > bufferRead
  /\ view' = view \o SubSeq(buffer, bufferRead + 1, bufferRead + bn)
  /\ bufferRead' = bufferRead + bn
  /\ err' = lastErr
  /\ UNCHANGED <<pos, buffer, bufferSize, sniffing, lastErr, reader>>

\* Read, second part: after sniffing the buffer, all of it given again, is
\* dropped; the connection is read, and what matchers read is recorded.
drops == ~sniffing
records(sn) == sn > 0 /\ sniffing

ReadThrough(len) ==
  /\ bufferSize <= bufferRead
  /\ \E r \in SourceRead(len) :
       LET bytes == Bytes(pos, pos + r.sn)
           kept == IF drops THEN << >> ELSE buffer
       IN
       /\ pos' = pos + r.sn
       /\ view' = view \o bytes
       /\ err' = r.sErr
       /\ lastErr' = IF records(r.sn) THEN r.sErr ELSE lastErr
       /\ buffer' = IF records(r.sn) THEN kept \o bytes ELSE kept
  /\ UNCHANGED <<bufferRead, bufferSize, sniffing, reader>>

\* A reader reads until it is told of an error.
Read ==
  /\ reader # "serve" /\ err = "nil"
  /\ \E len \in 1..MaxRead : Replay(len) \/ ReadThrough(len)

Finished == reader = "program" /\ err # "nil" /\ UNCHANGED vars

Next == startSniffing \/ Mismatch \/ doneSniffing \/ Read \/ Finished

Spec == Init /\ [][Next]_vars

-----------------------------------------------------------------------------
Unread == IF bufferSize > bufferRead THEN bufferSize - bufferRead ELSE 0
Errors == {"nil", "EOF", "timeout"}

\* Type invariant; the read offset stays within the bytes to be given again,
\* those within the buffer.
TypeOK ==
  /\ pos \in 0..NumBytes
  /\ buffer \in Seq(1..NumBytes) /\ view \in Seq(1..NumBytes)
  /\ bufferSize \in Nat /\ bufferRead \in 0..bufferSize
  /\ reader # "program" => bufferSize <= Len(buffer)
  /\ sniffing \in BOOLEAN /\ lastErr \in Errors /\ err \in Errors
  /\ reader \in {"serve", "matcher", "program"}

\* Every reader, each matcher and the program that gets the connection, sees
\* the bytes of the stream from the first one, in order, whatever the earlier
\* readers read: "transparent sniffing of connection data" (mux.go:235).
Transparent == view = Bytes(0, Len(view))

\* No byte is lost between the readers: what has been taken from the
\* connection has been given to the program or is still in the buffer.
NothingLost == reader = "program" => Len(view) + Unread = pos

\* A reader that is told EOF has seen the whole stream.
EofIsEnd == err = "EOF" => Len(view) = NumBytes
=============================================================================
