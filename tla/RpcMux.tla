------------------------------- MODULE RpcMux -------------------------------
(***************************************************************************)
(* The connection multiplexer of rpc/mux.go: Serve accepts connections of  *)
(* a root listener and starts one goroutine (serve) for each; that         *)
(* goroutine lets the registered matchers sniff the first bytes, in the    *)
(* order of registration, and hands the connection to the channel connc of *)
(* the first listener that matches, or closes it.  The program behind a    *)
(* sub-listener takes connections out of connc with Accept.  When the root *)
(* listener fails, Serve closes donec, waits for its goroutines, then      *)
(* closes and drains every connc.                                          *)
(*                                                                         *)
(* What a client sends is a number of chunks.  Sniffs[c][m] tells what     *)
(* matcher m makes of connection c: it answers after need chunks, it       *)
(* matches iff full, and when a read fails it still matches if it has      *)
(* least chunks (Tree.matchPrefix ignores the error of ReadFull; the       *)
(* parsers do not, and have least = need).  Each matcher sees the bytes    *)
(* from the first one: module SniffConn.                                   *)
(***************************************************************************)
EXTENDS Naturals, Sequences

CONSTANTS
  Conns,        \* connections clients may open
  NumSls,       \* listeners registered by Match before Serve (m.sls)
  Ss,           \* matchers in the order they are tried: Ss[m] is m's listener
  Sniffs,       \* what the matchers make of each connection
  BufLen,       \* capacity of connc (bufLen)
  ErrhAnswers   \* the answers the registered ErrorHandler may give

Sls == 1..NumSls

ASSUME MuxAssumption ==
  /\ NumSls \in Nat \ {0}
  /\ Ss \in Seq(Sls)
  /\ \A i, j \in DOMAIN Ss : i <= j => Ss[i] <= Ss[j]
  /\ Sniffs \in [Conns -> [DOMAIN Ss -> [need : Nat, least : Nat, full : BOOLEAN]]]
  /\ \A c \in Conns : \A m \in DOMAIN Ss : Sniffs[c][m].least <= Sniffs[c][m].need
  /\ BufLen \in Nat \ {0}
  /\ ErrhAnswers \in SUBSET BOOLEAN /\ ErrhAnswers # {}

VARIABLES
  rootOpen,     \* the root listener has not been closed
  readTimeout,  \* m.readTimeout > noTimeout
  Serve,        \* program counter of Serve
  at,           \* listener Serve's deferred function is closing or draining
  pc,           \* program counter of the serve goroutine of a connection
  k,            \* matcher the goroutine is at
  sock,         \* the accepted connection itself
  received,     \* chunks sniffed into the connection's buffer
  hup,          \* the client hung up: a read past the buffer fails
  deadline,     \* the read deadline of the connection
  cut,          \* history: a matcher answered on a failed read
  connc,        \* the channels of the sub-listeners
  closed,       \* connc was closed
  got,          \* listener whose Accept returned the connection, 0: none
  told          \* Accept returned ErrListenerClosed

serveVars == <<rootOpen, readTimeout, Serve, at>>
sniffVars == <<received, hup, deadline, cut>>
vars == <<rootOpen, readTimeout, Serve, at, pc, k, sock, received, hup,
          deadline, cut, connc, closed, got, told>>

Ms == DOMAIN Ss

(* Faults: what a plausible slip would make of a definition below.  Nothing *)
(* refers to them; substituted for it, each breaks a property.             *)
RunningUntilSelect(c) == pc[c] \in {"sniff", "report"}      \* wg.Done before the send
donecAfterWait == Serve \in {"close", "drain", "returned"}  \* close(donec) after wg.Wait
drainedUnread(l) == TRUE                                    \* no drain loop
deadlineKept(c) == deadline[c]                              \* deadline not cleared
canSendOneMore(l) == Len(connc[l]) <= BufLen                \* channel one too large
noMoreOnDonec(l) == connc[l] = << >> /\ Serve \notin {"idle", "accept"}
ReadFailsOnEof(c) == hup[c]                                 \* timeout error retried
MatchesOnFailure(c) == Sniffs[c][k[c]].full \/ hup[c]       \* read error taken for a match

\* The serve goroutine of c has called wg.Add and not yet wg.Done.
Running(c) == pc[c] \in {"sniff", "select", "report"}

Init ==
  /\ rootOpen = TRUE /\ readTimeout = FALSE /\ Serve = "idle" /\ at = 1
  /\ pc = [c \in Conns |-> "none"]
  /\ k = [c \in Conns |-> 1]
  /\ sock = [c \in Conns |-> "none"]
  /\ received = [c \in Conns |-> 0]
  /\ hup = [c \in Conns |-> FALSE]
  /\ deadline = [c \in Conns |-> "none"]
  /\ cut = [c \in Conns |-> FALSE]
  /\ connc = [l \in Sls |-> << >>]
  /\ closed = [l \in Sls |-> FALSE]
  /\ got = [c \in Conns |-> 0]
  /\ told = [l \in Sls |-> FALSE]

-----------------------------------------------------------------------------
(* Serve: the accept loop and its deferred function.                       *)

\* m.handleErr: continue iff the handler says so and the error is temporary.
handleErr(temporary) == {keep /\ temporary : keep \in ErrhAnswers}

SetReadTimeout(t) ==
  /\ Serve = "idle"
  /\ readTimeout' = t
  /\ UNCHANGED <<rootOpen, Serve, at, pc, k, sock, sniffVars, connc, closed, got, told>>

StartServe ==
  /\ Serve = "idle"
  /\ Serve' = "accept"
  /\ UNCHANGED <<rootOpen, readTimeout, at, pc, k, sock, sniffVars, connc, closed, got, told>>

\* A connection arrives: wg.Add(1), go m.serve, which first sets the deadline.
AcceptRoot(c) ==
  /\ Serve = "accept" /\ rootOpen
  /\ sock[c] = "none"
  /\ sock' = [sock EXCEPT ![c] = "open"]
  /\ pc' = [pc EXCEPT ![c] = "sniff"]
  /\ deadline' = [deadline EXCEPT ![c] = IF readTimeout THEN "armed" ELSE "none"]
  /\ UNCHANGED <<serveVars, k, received, hup, cut, connc, closed, got, told>>

\* Accept fails: the listener is closed (never temporary) or the error is
\* temporary or not.  Serve goes on to the next Accept or runs its defer,
\* whose first step is close(donec).
AcceptFails ==
  /\ Serve = "accept"
  /\ \E temporary \in IF rootOpen THEN BOOLEAN ELSE {FALSE} :
       \E continue \in handleErr(temporary) :
         Serve' = IF continue THEN "accept" ELSE "wait"
  /\ UNCHANGED <<rootOpen, readTimeout, at, pc, k, sock, sniffVars, connc, closed, got, told>>

donecClosed == Serve \in {"wait", "close", "drain", "returned"}
drained(l) == connc[l] = << >>

WaitGroup ==
  /\ Serve = "wait"
  /\ \A c \in Conns : ~Running(c)
  /\ Serve' = "close"
  /\ UNCHANGED <<rootOpen, readTimeout, at, pc, k, sock, sniffVars, connc, closed, got, told>>

CloseConnc ==
  /\ Serve = "close"
  /\ closed' = [closed EXCEPT ![at] = TRUE]
  /\ Serve' = "drain"
  /\ UNCHANGED <<rootOpen, readTimeout, at, pc, k, sock, sniffVars, connc, got, told>>

DrainOne ==
  /\ Serve = "drain" /\ ~drained(at)
  /\ sock' = [sock EXCEPT ![Head(connc[at])] = "closed"]
  /\ connc' = [connc EXCEPT ![at] = Tail(@)]
  /\ UNCHANGED <<serveVars, pc, k, sniffVars, closed, got, told>>

DrainDone ==
  /\ Serve = "drain" /\ drained(at)
  /\ IF at = NumSls THEN Serve' = "returned" /\ at' = at
                  ELSE Serve' = "close" /\ at' = at + 1
  /\ UNCHANGED <<rootOpen, readTimeout, pc, k, sock, sniffVars, connc, closed, got, told>>

-----------------------------------------------------------------------------
(* The serve goroutine of connection c.                                    *)

ReadFails(c) == hup[c] \/ deadline[c] = "fired"
Starved(c) == received[c] < Sniffs[c][k[c]].need

\* The matcher's Read returns the next chunk, which goes into the buffer.
ReadChunk(c) ==
  /\ pc[c] = "sniff" /\ k[c] \in Ms
  /\ Starved(c) /\ ~ReadFails(c)
  /\ received' = [received EXCEPT ![c] = @ + 1]
  /\ UNCHANGED <<serveVars, pc, k, sock, hup, deadline, cut, connc, closed, got, told>>

\* The matcher answers, after enough chunks or on a failed read.
Answers(c) ==
  /\ pc[c] = "sniff" /\ k[c] \in Ms
  /\ ~Starved(c) \/ ReadFails(c)
Matches(c) ==
  LET s == Sniffs[c][k[c]] IN s.full /\ received[c] >= s.least

\* The timeout is for the matchers: a matched connection has no deadline.
deadlineAfterMatch(c) == IF readTimeout THEN "none" ELSE deadline[c]

Match(c) ==
  /\ Answers(c) /\ Matches(c)
  /\ pc' = [pc EXCEPT ![c] = "select"]
  /\ deadline' = [deadline EXCEPT ![c] = deadlineAfterMatch(c)]
  /\ cut' = [cut EXCEPT ![c] = @ \/ Starved(c)]
  /\ UNCHANGED <<serveVars, k, sock, received, hup, connc, closed, got, told>>

Mismatch(c) ==
  /\ Answers(c) /\ ~Matches(c)
  /\ k' = [k EXCEPT ![c] = @ + 1]
  /\ cut' = [cut EXCEPT ![c] = @ \/ Starved(c)]
  /\ UNCHANGED <<serveVars, pc, sock, received, hup, deadline, connc, closed, got, told>>

canSend(l) == Len(connc[l]) < BufLen

\* select: case sl.l.connc <- muc
Enqueue(c) ==
  LET l == Ss[k[c]] IN
  /\ pc[c] = "select"
  /\ canSend(l)
  /\ connc' = [connc EXCEPT ![l] = Append(@, c)]
  /\ pc' = [pc EXCEPT ![c] = "done"]
  /\ UNCHANGED <<serveVars, k, sock, sniffVars, closed, got, told>>

\* select: case <-donec
Abandon(c) ==
  /\ pc[c] = "select" /\ donecClosed
  /\ sock' = [sock EXCEPT ![c] = "closed"]
  /\ pc' = [pc EXCEPT ![c] = "done"]
  /\ UNCHANGED <<serveVars, k, sniffVars, connc, closed, got, told>>

\* No matcher matched: the connection is closed before the handler is asked.
Reject(c) ==
  /\ pc[c] = "sniff" /\ k[c] \notin Ms
  /\ sock' = [sock EXCEPT ![c] = "closed"]
  /\ pc' = [pc EXCEPT ![c] = "report"]
  /\ UNCHANGED <<serveVars, k, sniffVars, connc, closed, got, told>>

\* ErrNotMatched is temporary: the handler alone decides whether root is closed.
Report(c) ==
  /\ pc[c] = "report"
  /\ \E continue \in handleErr(TRUE) : rootOpen' = (rootOpen /\ continue)
  /\ pc' = [pc EXCEPT ![c] = "done"]
  /\ UNCHANGED <<readTimeout, Serve, at, k, sock, sniffVars, connc, closed, got, told>>

-----------------------------------------------------------------------------
(* The clients, the clock and the programs behind the sub-listeners.       *)

HangUp(c) ==
  /\ pc[c] = "sniff" /\ ~hup[c]
  /\ hup' = [hup EXCEPT ![c] = TRUE]
  /\ UNCHANGED <<serveVars, pc, k, sock, received, deadline, cut, connc, closed, got, told>>

DeadlineFires(c) ==
  /\ deadline[c] = "armed" /\ sock[c] = "open"
  /\ deadline' = [deadline EXCEPT ![c] = "fired"]
  /\ UNCHANGED <<serveVars, pc, k, sock, received, hup, cut, connc, closed, got, told>>

\* muxListener.Accept receives from connc, closed or not.
Accept(l) ==
  /\ connc[l] # << >>
  /\ got' = [got EXCEPT ![Head(connc[l])] = l]
  /\ connc' = [connc EXCEPT ![l] = Tail(@)]
  /\ UNCHANGED <<serveVars, pc, k, sock, sniffVars, closed, told>>

\* Accept reports ErrListenerClosed: the receive gives ok = false.
noMore(l) == connc[l] = << >> /\ closed[l]

AcceptClosed(l) ==
  /\ noMore(l) /\ ~told[l]
  /\ told' = [told EXCEPT ![l] = TRUE]
  /\ UNCHANGED <<serveVars, pc, k, sock, sniffVars, connc, closed, got>>

\* muxListener embeds the root listener: closing one sub-listener closes root.
CloseSub ==
  /\ rootOpen
  /\ rootOpen' = FALSE
  /\ UNCHANGED <<readTimeout, Serve, at, pc, k, sock, sniffVars, connc, closed, got, told>>

\* Serve and every Accept loop have returned.
Terminated ==
  /\ Serve = "returned" /\ \A l \in Sls : told[l]
  /\ UNCHANGED vars

ServeStep == StartServe \/ AcceptFails \/ WaitGroup \/ CloseConnc \/ DrainOne \/ DrainDone
Select(c) == Enqueue(c) \/ Abandon(c)
Goroutine(c) == ReadChunk(c) \/ Match(c) \/ Mismatch(c) \/ Select(c) \/ Reject(c) \/ Report(c)

Next ==
  \/ \E t \in BOOLEAN : SetReadTimeout(t)
  \/ ServeStep
  \/ \E c \in Conns : AcceptRoot(c) \/ Goroutine(c) \/ HangUp(c) \/ DeadlineFires(c)
  \/ \E l \in Sls : Accept(l) \/ AcceptClosed(l)
  \/ CloseSub
  \/ Terminated

(***************************************************************************)
(* Goroutines that can run do run, deadlines fire, Accept on a closed      *)
(* root fails at once.  Clients send nothing they do not want to, the root *)
(* listener need not fail, and the programs behind the sub-listeners take  *)
(* connections only if they like: Accept(l) is not fair.  AcceptClosed is: *)
(* an Accept loop that waits on a closed, empty channel returns.           *)
(***************************************************************************)
Fairness ==
  /\ WF_vars(~rootOpen /\ AcceptFails)
  /\ WF_vars(WaitGroup \/ CloseConnc \/ DrainOne \/ DrainDone)
  /\ \A c \in Conns : /\ WF_vars(Match(c) \/ Mismatch(c) \/ Reject(c) \/ Report(c))
                      /\ WF_vars(Select(c))
                      /\ WF_vars(DeadlineFires(c))
  /\ \A l \in Sls : WF_vars(AcceptClosed(l))

Spec == Init /\ [][Next]_vars /\ Fairness

-----------------------------------------------------------------------------
(* Correctness.                                                            *)

Typed ==
  /\ rootOpen \in BOOLEAN /\ readTimeout \in BOOLEAN /\ at \in Sls
  /\ Serve \in {"idle", "accept", "wait", "close", "drain", "returned"}
  /\ pc \in [Conns -> {"none", "sniff", "select", "report", "done"}]
  /\ k \in [Conns -> 1..(Len(Ss) + 1)]
  /\ sock \in [Conns -> {"none", "open", "closed"}]
  /\ received \in [Conns -> Nat]
  /\ hup \in [Conns -> BOOLEAN] /\ cut \in [Conns -> BOOLEAN]
  /\ deadline \in [Conns -> {"none", "armed", "fired"}]
  /\ connc \in [Sls -> Seq(Conns)] /\ closed \in [Sls -> BOOLEAN]
  /\ got \in [Conns -> Sls \cup {0}] /\ told \in [Sls -> BOOLEAN]

\* Type invariant.  A channel never holds more than its capacity, and a
\* goroutine reaches the select only with the matcher that matched.
TypeOK ==
  /\ Typed
  /\ \A l \in Sls : Len(connc[l]) <= BufLen
  /\ \A c \in Conns : pc[c] = "select" => k[c] \in Ms

\* No serve goroutine is left at its send when Serve closes the channel
\* (a send on a closed channel panics): wg.Wait comes before close(connc).
NoSendOnClosed ==
  \A c \in Conns : pc[c] = "select" => ~closed[Ss[k[c]]]

\* When Serve has returned, every connection it accepted was handed to a
\* program or closed; none is left behind in a channel or a goroutine.
NoLeak ==
  Serve = "returned" => \A c \in Conns : sock[c] = "open" => got[c] # 0

\* A connection Accept returned stays open (neither the drain nor the donec
\* branch of the select closes it) and carries no deadline meant for matchers.
DeliveredIntact ==
  \A c \in Conns : got[c] # 0 => sock[c] = "open" /\ deadline[c] = "none"

\* A program that stops at ErrListenerClosed misses no connection: none is
\* in its channel, and no goroutine can still put one there.
ClosedIsFinal ==
  \A l \in Sls : told[l] =>
    connc[l] = << >> /\ \A c \in Conns : Running(c) => Ss[k[c]] # l

\* The matcher of c waits for a client that sends nothing, without a deadline.
Silent(c) ==
  /\ pc[c] = "sniff" /\ k[c] \in Ms
  /\ Starved(c) /\ ~ReadFails(c) /\ deadline[c] = "none"

\* The channel c is to be sent to is full, and Serve has not closed donec.
Blocked(c) ==
  pc[c] = "select" /\ ~canSend(Ss[k[c]]) /\ ~donecClosed

\* After the root listener is closed Serve returns and every Accept loop gets
\* ErrListenerClosed, whatever the programs do: only a silent client of a mux
\* without read timeout can hold them up.
ShutdownCompletes ==
  []<>(\/ rootOpen \/ Serve = "idle"
       \/ Serve = "returned" /\ \A l \in Sls : told[l]
       \/ \E c \in Conns : Silent(c))

\* A serve goroutine ends; only a silent client or a full channel of its
\* listener can hold it up.
ConnSettles ==
  \A c \in Conns : []<>(~Running(c) \/ Silent(c) \/ Blocked(c))

\* The mux implements the router.  A connection claimed by a full match of
\* some matcher belongs to the listener of the first such matcher.
FullMatchers(c) == {m \in Ms : Sniffs[c][m].full}
Claims == [c \in Conns |-> {Ss[m] : m \in FullMatchers(c)}]
First ==
  [c \in Conns |->
     {Ss[m] : m \in {i \in FullMatchers(c) : \A j \in FullMatchers(c) : i <= j}}]
fate ==
  [c \in Conns |-> CASE sock[c] = "none" -> "outside"
                     [] sock[c] = "closed" -> "closed"
                     [] sock[c] = "open" /\ got[c] = 0 -> "held"
                     [] OTHER -> "delivered"]
phase ==
  CASE Serve \in {"idle", "accept"} -> "up"
    [] Serve = "returned" -> "down"
    [] OTHER -> "stopping"
Router == INSTANCE ConnRouter WITH to <- got

\* Refinement: every accepted connection meets one of the fates the router
\* promises, in the order of priority of Match, and Serve leaves none held.
Routes == Router!Spec

\* "ErrorHandler handles an error and returns whether the mux should continue
\* serving the listener" (mux.go:30): while it answers true, the mux serves.
HandlerDecides == FALSE \notin ErrhAnswers => ~donecClosed
=============================================================================
