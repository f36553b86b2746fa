# TLA+ verification of gotilities

gotilities is a Go toolbox for network services.  Its own logic is a
connection multiplexer, an error group, health probes, connection tracking
and the glue that starts and stops servers; the rest wraps libraries.  This
directory models that logic in TLA+, checks it with TLC and proves its main
safety properties with TLAPS.

## The system

| Component | Source | State | Operations |
|---|---|---|---|
| Multiplexer `rpcMux`, `muxListener` | `rpc/mux.go:67-233` | root listener, `donec`, listeners `sls` with their matchers and channel `connc`, read timeout, handler | `Match`, `SetReadTimeout`, `HandleError`, `Serve`, `serve`, `Accept` |
| Sniffed connection `MuxConn`, `bufferedReader` | `rpc/mux.go:235-259, 653-684` | `buffer`, `bufferRead`, `bufferSize`, `sniffing`, `lastErr` | `startSniffing`, `doneSniffing`, `Read` |
| Matchers, prefix tree | `rpc/mux.go:686-1050` | a tree of prefixes | HTTP/1, HTTP/2, TLS and prefix matchers |
| Connection tracking | `rpc/mux.go:261-651`, again in `instrument/metrics` | counters, a trace event per connection | dial, accept, close |
| Error group `syncer.Group` | `syncer/sync.go` | WaitGroup, `errOnce`, `err`, context | `Go`, `Wait` |
| Health handler | `instrument/probe/health.go:171-296` | two maps of checks behind an RWMutex | add checks, `/live`, `/ready` |
| `Async`, `Timeout` | `instrument/probe/health.go:50-90, 298-328` | a channel with one result; a channel per call | update, check |
| Servers | `rpc/server.go` | a goroutine and a channel per server | start, stop on context |
| `gotil-serve` | `example/gotil-serve/main.go` | - | puts the above together |

How they interact: `gotil-serve` (`main.go:87-98`) hands one listener to the
mux, gives the two sub-listeners to an HTTP and a gRPC server, and runs the two
servers and `mux.Serve` as the three functions of one error group with a
deadline.  `rpcMux.serve` hands a `MuxConn` from a goroutine through `connc`
to the server behind a sub-listener.  Closing any sub-listener closes the root
listener (`muxListener` embeds it), which is how the servers' shutdown reaches
the mux.

What is hard in it, and what makes each component correct:

* **Mux.** One goroutine per connection, the `Serve` loop and the accepting
  programs share channels that are closed at shutdown.  There must be no send
  on a closed channel, every accepted connection is delivered once or closed,
  priority follows the order of `Match`, a shutdown ends.
* **Sniffed connection.** Many readers in turn on one stream: each must see
  all of it, and errors must not overtake bytes.
* **Error group.** The first error is the cause of the cancellation; `Wait`
  reads it without a lock after the WaitGroup.
* **Async and Timeout.** A result passed around through a channel of capacity
  one; late answers.
* **Health handler.** Checks run while a read lock is held; results of two
  maps share one table.
* **Connection tracking.** Counters against repeated `Close` and nested error
  types.
* **Servers.** Goroutines on unbuffered channels nobody may read any more.

`PROJECT.json` lists each hazard at its line with the properties that cover it.
Where the code simply behaves in a way worth knowing (a late prefix matcher takes a
timed out connection, `Close` counts every call, a check that probes its own handler
hangs, one name in both maps, a field repeated in a later frame) there is no such property:
the properties of that component say what holds outside that case, and the hazard
has a note.

## Modules

| Module | What it is |
|---|---|
| `ConnRouter` | Abstract specification: what the mux promises about a connection, without goroutines, channels or matchers |
| `RpcMux` | The mux with its goroutines, channels, timeouts and shutdown; its properties; its refinement of `ConnRouter` |
| `MCRpcMux` | Clients and matchers for TLC |
| `RpcMuxProofs` | Inductive invariant, safety theorems, refinement theorem of `RpcMux` |
| `SniffConn` | `MuxConn` and `bufferedReader`, byte by byte, with properties |
| `SniffConnProofs` | Theorems about `SniffConn` |
| `ErrGroup` | `syncer.Group`, with properties |
| `ErrGroupProofs` | Theorems about `ErrGroup` |
| `ConnTrack` | The tracked dialer and listener, in both copies; `MCConnTrack` gives its options |
| `ConnTrackProofs` | Theorems about `ConnTrack`: events, counters, failures, registration |
| `TimedCheck` | The check `Timeout` makes |
| `LatestResult` | Abstract specification: a register that holds the latest result |
| `AsyncCheck` | The check `AsyncWithContext` makes, of a `TimedCheck` or a plain one; its refinement of `LatestResult`; `MCAsyncCheck` |
| `AsyncCheckProofs` | The one result of `AsyncCheck` and its refinement theorem |
| `Probe` | `basicHandler`, `metricsHandler` and the checks of the package; `MCProbe` |
| `ProbeProofs` | Theorems about `Probe`: lock, table and status, gauges |
| `Lifecycle` | `gotil-serve`, with or without a TLS server: the start functions of `rpc/server.go` composed with `ErrGroup` and `ConnRouter`; `MCLifecycle` |
| `LifecycleProofs` | Theorems about `Lifecycle`, from those of `ErrGroupProofs`: the types, the fatal end, what is left when `Wait` returns |
| `PrefixTree` | The tree of the prefix matchers, as recursive functions |
| `Matchers` | The matchers reading a connection; `MCMatchers` enumerates small inputs |
| `MatchersProofs` | Theorems about `PrefixTree` and `Matchers`: what `match` computes, every verdict |

### RpcMux

`Serve` is the program counter of the method `Serve`: `idle` (not called),
`accept` (in the loop), `wait` (`donec` closed, in `wg.Wait`), `close` and
`drain` (closing and draining the channel of listener `at`), `returned`.
`pc[c]`, `k[c]` are the position of the goroutine `serve` of connection `c` and
the matcher it is at; the two nested loops over listeners and matchers are one
sequence `Ss` that gives the listener of each matcher.  `sock[c]` is the
accepted socket, `connc[l]`, `closed[l]` a sub-listener's channel, `got[c]` the
listener whose `Accept` returned `c`, `told[l]` whether `Accept` has returned
`ErrListenerClosed`.  `cut[c]` is a history variable: a matcher answered because
a read failed.

Each action is one step another goroutine can interleave with.  Setting the
deadline at the start of `serve`, which nothing observes before the first
read, is part of `AcceptRoot`; `close(donec)` is part of the step that leaves
the loop.  The two cases of the `select` are `Enqueue` and `Abandon`.  A read
fails when the client hung up or the deadline has fired; a matcher then either
says no (the parsers) or decides on what it has (`Tree.matchPrefix`, which
ignores the error of `io.ReadFull`).  `Sniffs[c][m]` abstracts the bytes of a
connection: how many chunks matcher `m` wants, how few it is content with, and
whether it matches.  The reads themselves are the subject of `SniffConn`.

The channel's capacity is `bufLen` (1024), here `BufLen`.  A receiver that
waits at an empty unclosed channel takes no step.  A handler is any set of
answers (`ErrhAnswers`); the default handler always answers true.  At least one
listener is registered; `Match`, `HandleError` and `SetReadTimeout` come before
`Serve`, as in `gotil-serve`.

### SniffConn

Byte `i` of the stream is the number `i`, so "the right bytes in order" is
`view = Bytes(0, Len(view))`.  `reader` says whose turn it is: `serve` between
two matchers, a matcher, the program.  `SourceRead` is the contract of
`net.Conn.Read`: some bytes, EOF, a timeout while the deadline is set, and,
if `DataWithErr`, bytes together with EOF (`io.Reader` allows it, and
`tls.Conn` does it at the closing alert).  A reader reads until it gets an
error.

### ErrGroup

`pc[t]` follows the goroutine of function `t` through `f()`, `errOnce.Do` (in
two steps: `g.err = err`, then `cancel`) and the deferred `wg.Done`.  `ctx`
records who cancelled the context first; it is "none" in the zero `Group`, whose
`cancel` is nil, and then no function sees a cancellation.  `Heeding` are the functions that return
when the context is done.  `Go` is called by the owner before `Wait` or by a
function of the group, the use the WaitGroup allows.

### ConnTrack

`st[c]` is how far a dial or an accepted connection is, `sock[c]` the connection
inside it, `log[c]` its trace event and `event[c]` whether `ct.event` still points to it.
`pc[g]` follows a call of `Close`, cut where another call can come between:
`ct.Conn.Close`, `Lock`, `Finish`, `Clear`, `Unlock`, `Count`.  `name(c)` is the
name `NewDialContextFunc` counts under, where the context's name goes before the
option's; the counters are functions of a name, or of dialer or listener and a
name.  `wrap[w]` is the goroutine in which a call of `WrapListener` or
`WrapDialer` registers its collectors (`metrics/listener.go:17`), the first and
then the others; a collector registered twice ends the program (`crashed`).  In
package `rpc` the counters are the same but are never registered.

### TimedCheck and AsyncCheck

`call[r]` and `work[r]` are call `r` of a timed check and its goroutine; a result
is named by the call whose goroutine found it, so that a late answer can be
told from the right one.  `upd` is the goroutine of `Async`: in the check, at
`<-result` (`receive`, or `blocked` in the queue of the channel), at
`result <- err` (`send`), at the `select`, ended.  Callers have the same
positions.  `result` and `recvq` are the buffer and the queue of the Go channel:
a send serves the receiver that has waited longest.  In `Register` the update
takes effect when the old result is taken out, a read when a caller has got the
result; both are between the beginning and the end of the operation.

### Probe

`writer`, `readers` and the position `queued` are Go's RWMutex: a writer that waits
keeps new readers out, and the readers that waited go before the next writer.
`add[a]` follows a call of `AddLivenessCheck` or `AddReadinessCheck`, first through
`wrap` if the handler is a `metricsHandler`.  `maps[p]` are the maps `handle` has
still to go through, `visited[p]` the keys its `range` has passed.  A check is
called in one step and returns in another, with the read lock held.  The five
checks of the package are records of what they may return and whether they may
hang: a zero timeout means none to the TCP and HTTP checks and is already over
for the database check.  A check that itself waits for the handler's mutex is
one that may hang.  `before[p]` is a history variable.

### Lifecycle

The variables of `ErrGroup` and `ConnRouter` are used with these modules' actions
(`Group!...`, `Router!...`): `RpcMuxProofs` proves that the mux implements
`ConnRouter`, so `Lifecycle` need not repeat it.  `at[s]` is the position of a Start
function, `serve[s]` of the goroutine it starts, between which goes the
unbuffered channel `e`.  `http.Server` and `grpc.Server` are modelled by what the code
relies on: `Serve` closes its listener when it returns, `Shutdown` and `GracefulStop`
close the listener `Serve` has got, and make a later `Serve` return at once.

`rpc/server.go` has a third Start function, for TLS, that `gotil-serve` does not call.
`GoTask(tls)` may happen, before the others, or not: the behaviours without it are
those of `gotil-serve`, and the rest those of the same program with a TLS server on a
port of its own.  Its parameter `gserver` is the gRPC server behind the mux if
`Shared`, else one that serves nothing here.  `GracefulStop` closes the listeners of
`gserver`; `Drained` is the end of its wait for `Serve` and for the calls in progress, after
which that `Serve` returns nil instead of an error (positions "quit" and "nil").
The context comes from `MakeErrGrpWithDeadline`, so it is live at first.

Closing a
listener of the mux closes the port (`muxListener` embeds the root listener) but
does not wake its `Accept`; that ends when the mux closes the channel.

### PrefixTree and Matchers

The strings of a tree are a set: `newNode` splits them by their next byte, so their
order makes no difference, and a string given twice ends in a terminal node
without children, as the leaf of one string is.  `newNode` is a recursive function on
finite sets of strings.  `ptNode.match` calls itself with a child and what follows
in its argument; `calls` is the sequence of these calls (one that finds no child
stays the last), and `match` asks whether one of them `accepts`.

The tree is made by `newNode` before the first read (`tree`).  A matcher reads
what has come, in pieces of any size; `ReadFails` is EOF or the deadline.  The tree
matchers and HTTP1 decide on what they have when a read fails, as
`io.ReadFull` with its error ignored and `ReadLine` do; the HTTP/2 matchers say
no.  A line is a sequence of words, a
header field of a request is one word, HTTP/2 frames are records.  The header
matchers of HTTP/1 leave the parsing to `http.ReadRequest`, which is external: it
wants the header whole, so they do not decide before its end, and a field that is absent
is one with the value "" (of HTTP/2 it is no match).  Only the
SendSettings matchers answer SETTINGS, and a client may wait for that answer
(`in.waits`).  `HasPrefix`, `IsOneOf`, `IsRequestLine`, `IsRequest` and `HasField` say of a whole
stream what the reading matchers find out piece by piece.

## What TLC checks

| Run | Bounds | Shows |
|---|---|---|
| `mux` | 3 clients, 2 listeners, 3 matchers, `BufLen` 1, both handler answers (440,908 states) | `TypeOK`, `NoSendOnClosed`, `NoLeak`, `DeliveredIntact`, `ClosedIsFinal`, and `Routes`: `RpcMux` implements `ConnRouter` |
| `mux_live` | 2 clients (16,590 states) | `ShutdownCompletes`, `ConnSettles` |
| `mux_handler` | 1 client, handler always true | violation of `HandlerDecides` |
| `sniff` | 6 bytes, slices up to 4, no bytes with EOF | `TypeOK`, `Transparent`, `NothingLost`, `EofIsEnd` |
| `sniff_eof` | 5 bytes, slices up to 3, bytes with EOF | violation of `EofIsEnd` |
| `errgroup` | 3 functions, 2 of which heed the context, in a group with and without one (4,695 states) | `TypeOK`, `WaitsForAll`, `RootCause`, `NilMeansAllNil`, `FirstErrorStays`, `ErrorEndsWait` |
| `conntrack` | 2 dials, 1 accept, 3 calls of `Close`, 3 wraps (366,720 states) | `TypeOK`, `EventUsedLive`, `EventEnds`, `DialsAddUp`, `OpenGauge`, `CrashNeedsSharedWrap` |
| `conntrack_failed` | the same | violation of `FailedIsTotal` |
| `async` | 2 callers, 3 runs, with and without timeout (196,756 states) | `TypeOK`, `AtomicRegister` (refinement of `LatestResult`), `ChecksReturn`, `UpdaterEnds`, `LateAnswersEnd` |
| `probe` | 3 calls of Add, 2 probers, 1 scraper, with and without metrics (241,499 states) | `TypeOK`, `BodyExplains`, `AddedAreReported`, `ProbeAnswers`, `AddsGetThrough` |
| `lifecycle` | 2 servers with and without the TLS server, which shares the gRPC server; 1 client and 1 silent one (446,698 states) | `TypeOK`, `AlwaysFatal`, `ProgramEnds`, `StartersReturn` |
| `matchers` | all sets of up to 3 strings of up to 2 bytes on streams of up to 3; lines of up to 6 words; requests with up to 2 header fields; header blocks of up to 2 frames (318,532 states) | `VerdictRight`, `MatcherAnswers` |

Why the bounds are enough to meet the hard cases: with capacity one and three
clients a channel is full while another goroutine is at its `select`, when
`donec` is closed, and when it is drained; two listeners make the order of
closing visible; the three clients are one that an early prefix matcher takes
even after a failed read, one that two matchers claim and that a failed read
sends to the second, and one nobody claims, which asks the handler.  Six bytes
with slices up to four let two matchers read different amounts, a replay end
inside a slice, and a read continue past the buffer.  Three functions give a
failing one, one that echoes the cancellation and one that is deaf to it.  The
theorems below remove the bounds for the safety properties of these three and
of the next five.

In `conntrack` two goroutines can close one connection while a third closes
another, the two dials share a name they got in different ways, and a listener
and two dialers register.  In `async` two callers and the goroutine all want the
one result, and the result of the first timed run can come as late as in the third.
In `probe` two checks have one name, in different maps; one check may hang and
one always fails; two probers are enough to keep the read lock taken for ever if
the lock let them.  In `lifecycle` every server can fail, end before or after the
others and be shut down before it serves, and the gRPC server can be stopped by the
TLS server's `GracefulStop` before, while and after it serves.  In `matchers` the strings fork at the
first, at the second byte and not at all, and streams are shorter, as long and
longer than `maxDepth`; a field can come with the frame that ends the headers
or before it.

The systems may stop only where a `Terminated` or `Finished` action says so:
deadlock is checked in every run but `lifecycle`, which a silent client can
stop for ever, and `matchers`, where a matcher that has answered stops.

### Fairness

* `RpcMux`: Go runs every goroutine that can run, so `Serve` and each `serve`
  goroutine take the steps that are enabled, deadlines fire, `Accept` on a
  closed root listener fails, and an `Accept` that waits on a closed, empty
  channel returns.  Not assumed: that a client sends anything or hangs up, that
  the root listener fails, that a program accepts connections.  The
  goroutine's steps are fair as two groups, so nothing is assumed about which
  case `select` takes.
* `ErrGroup`: goroutines past `f()` and `Wait` run; a function that heeds the
  context returns once it is done.  Nothing else makes a function return.
* `SniffConn` and `ConnTrack` have safety properties only.
* `AsyncCheck`: the goroutines run, the timer of a timed check fires, and a
  `select` does not for ever pass over `ctx.Done()` while ticks come (Go chooses
  at random; strong fairness of `Done`).  The wrapped check need not return, ticks
  and callers need not come.
* `Probe`: goroutines run, a check that cannot hang returns, and a mutex that
  becomes free again and again is got (Go's mutex hands over to a waiter that
  starves; strong fairness of `Lock`).
* `Lifecycle`: goroutines run, a closed listener's `Accept` fails, the mux settles
  every connection that is not silent, the deadline comes.  `GracefulStop` is called,
  but the wait in it (`Drained`) need not end.
* `Matchers`: the client sends its stream and the matcher reads.

The liveness properties name the ways the code can be held up:
`ShutdownCompletes` excuses a client that sends nothing to a mux without read
timeout (the default, `mux.go:73`), `ConnSettles` also a full channel,
`ErrorEndsWait` a function deaf to the context (in the zero `Group` every function), `UpdaterEnds` a check without
timeout, `ProbeAnswers` and `AddsGetThrough` a check that hangs, `ProgramEnds` a
silent client or an endless call, `MatcherAnswers` a silent client or one that
waits for SETTINGS.

## What is proved

All theorems hold for every value of the constants, under the named
assumptions (`MuxAssumption`: there is a listener, matchers are in the order
of their listeners, a matcher is content with no more than it asks for;
`SniffAssumption`, `GroupAssumption`, `TrackAssumption`: types and finiteness;
`TimedAssumption`, `AsyncAssumption`: runs are numbered from one, and the goroutine
is not a caller; `ProbeAssumption`: a check returns "OK" or an error, if at all;
`LifecycleAssumption`: the three servers and the mux are four functions, and the listeners
that claim a connection are those of the mux; nothing about `Shared`;
`MatchersAssumption`: what a matcher reads is a sequence, the preface is not empty,
the limit is positive, and a tree is made of finitely many byte strings and reads
bytes).

**RpcMux.**  `IInv` has six parts.  `ShutdownOrder`: channels are closed in
order, only when no goroutine runs, and those passed are empty; this is what
forbids a send on a closed channel, and none of it is visible in
`NoSendOnClosed` itself.  `Ownership`: a connection whose goroutine has ended
is closed, with a program, or in the queue of the listener that matched.  `Queues`:
a queue holds open connections nobody else has, each once; without it the drain
could close a connection a program already has.  `Deadlines`: only a
connection still being sniffed, or closed, has a deadline.  `Priority`:
unless a read failed, no earlier matcher would have taken the connection.  Each part
is preserved by every action (`TypeStep`, `OrderStep`, `OwnershipStep`,
`QueuesStep`, `DeadlinesStep`, `PriorityStep`), with the lemma `Dequeued` for
the two actions that take a connection out of a channel.  From `IInv` follow
`TypeCorrect`, `SendsAreSafe`, `NothingLeaks`, `DeliveryIsIntact`,
`ClosingIsFinal`, and with `RouterInit` and `RouterStep` the refinement
`MuxRoutes`: `Spec => Router!Spec`.

**SniffConn.**  `IInv`: while matchers read, the buffer is exactly the bytes
taken from the connection, and what a reader has seen is the prefix up to
`bufferRead` or `pos`.  The lemmas `BytesJoin` and `BytesPiece` say that pieces
of the stream put together are the stream.  `SniffingIsTransparent`,
`NoByteIsLost`, `TypeCorrect`; `EofIsTrue` needs that the connection returns no
bytes together with EOF.

**ErrGroup.**  `IInv`: the WaitGroup counts exactly the goroutines that have not
called `Done` (`CountInv`); what errOnce, the error and each goroutine's result
have to do with each other (`OnceInv`); nobody sees the context done before it
was cancelled for a reason (`CauseInv`).  `WaitIsComplete`, `CauseIsRoot`,
`NilIsTrue`, `ErrorIsStable`, `TypeCorrect`.

**ConnTrack.**  `EInv` says when a connection has an event (`OpenInv`) and that
`ct.event` and the event differ only while a `Close` that has the lock is between
`Finish` and the assignment of nil (`EventInv`); from the lock alone it does not
follow that the event a `Close` finds is live.  `EventsUsedLive`, `EventsEnd`,
`TypeCorrect` follow.  `DialsAreCounted` and `OpenIsCounted` are inductive
themselves: each counter equals the cardinality of a set of connections
(`Pending`, `Uncounted`), and one lemma per action says how both change.  For
`OpenGauge` a connection that is closed once has one closer (`OneCloser`), and one that
is closed twice stays so (`SingleBefore`).  `CrashesAreShared` needs
`RegisteredInv`: what is registered, some wrap registered.
`FailuresAreBounded` is what can be relied on where `FailedIsTotal` fails: of one
name, "resolution" and "unknown" together, and the three known reasons together,
are never more than the dials that failed, and all four together never less.
`TotalUnlessDoubled` follows: the total is right as long as nothing was refused or
timed out, so the two missing returns are all that breaks it.

**AsyncCheck.**  `IInv`: the result is in the channel or with one goroutine that is
about to send (`OneResult`); the receivers that wait are in the queue, each once
(`QueueInv`); a timed call's channel holds its own answer (`DataInv`).  So no send
waits (`TypeCorrect`).  For the refinement `ReadsAreAtomic`, `Spec => AtomicRegister`,
`RunInv` adds what the goroutine's run is, and every action is a step of
`LatestResult` or a stutter (`SendRefines`, `TakeRefines`, `ReceiveRefines`,
`CheckRefines`, `OtherRefines`).

**Probe.**  `LockInv`: who holds the mutex, how far a prober is with its maps
(`MapsInv`), that a check that runs is an entry of the map in progress (`CallInv`),
and that an entry stays under its name, the only one if there are metrics
(`TableInv`).  On it rests `PInv`: for every probe the table has exactly the results
seen, an error in it means 503 and is not overwritten if a name is in one map
(`StatusInv`), and a check that was there before the request is in the table or
still to be run (`ReportInv`).  `StatusIsExplained` and `NoCheckIsMissed` are its
values at the answer.

**Lifecycle.**  `ErrGroupProofs` is instantiated: every step of `Lifecycle` is a step of
the group or leaves it alone (`GroupSteps`), so the group's invariant holds in
the program (`GroupStays`).  With `MuxInv`, `mux.Serve` returns nothing but errors, a group
whose functions have all returned has an error, and `main` is fatal
(`MainNeverReturns`).  `ServerInv` orders a Start function, its goroutine, `Shutdown` and
the context (`TypeCorrect`).  `GroupIsCorrect` carries the
promises of `Wait` and the stored error over to the program.  `RouterInv` says that a
connection is delivered only to a listener that claims it first, that a router that is
down holds nothing, and that the group sees `mux.Serve` returned only when the router is
down.  With the group's count of running functions it gives `NothingIsLeft`: when `Wait`
has returned, no connection the mux took is still held, in whatever order the servers
started, failed and shut down.  `MuxEnds` is the step that joins the two components: no
action but `MuxReturns` ends the mux's function.

**PrefixTree and Matchers.**  Induction is by a least counterexample (`Least`,
`SetInduction`), because the theorems of the library that take an operator cannot be used.
A recursive function is only what it is defined to be if some function solves its
equation; `SolutionsExist` builds one for the sets whose strings are no longer than
`n`, for every `n`, and `NewNode` is the equation for all finite sets (`CallsExist`
and `Calls`, of `calls`).  `OneCall` is the step of the search: a call accepts or leaves to a child
exactly what the strings behind its node say.  So `MatchIsPrefix`: for every
finite set of strings, `match` on the tree of them answers whether the input begins
with one, or is one.  The other matchers have a lemma each that what they have
read decides as the whole stream would: `TreeRight` (reading `maxDepth` bytes is
enough, also to tell a string from its extensions), `HTTP1Right`, `HeaderRight`,
`PrefaceRight`, `FieldRight`.

`IInv` adds to the types `Open`: a matcher without a verdict has read nothing that
decides, no end of a line or of the header, no byte against the preface, no frame
that ends the headers.  Without it a verdict could come from what was read before a
frame that should have decided, and `VerdictRight` alone does not exclude that.
`VerdictsRight` covers all matchers, however the stream is cut into reads.

Only model-checked: the liveness properties, which are beyond the prover, and the
three violated ones.

## What the checks found

* `handleErr` continues only if the handler says so *and* the error is
  temporary, so a handler that always answers true does not keep `Serve`
  going as the comment on `ErrorHandler` says (run `mux_handler`).
* `bufferedReader.Read` returns the last error with every replayed piece.  With a
  connection that returns bytes together with EOF, the program is told EOF
  before it has been given the sniffed bytes (run `sniff_eof`).
* A refused or timed out dial is counted under its reason and under "unknown",
  so the total of failures exceeds the dials that failed (run
  `conntrack_failed`).

Two results are not at odds with any text of the repository but worth knowing.
`gotil-serve` never returns from `main`: when the deadline stops it in good
order, `mux.Serve` still ends with the error of the closed listener, which
`ZapErr` makes fatal (`AlwaysFatal`).  And `/ready` of a handler without metrics
can answer 503 with a table of only "OK" when a readiness and a liveness check
have one name (`BodyExplains` excludes it).

## Not modelled

* `Match`, `HandleError` or `SetReadTimeout` after `Serve` has started, and a second
  `Serve`: a data race and a panic no caller in the repository has.
* `TlsConfigWithHttp2Enabled`, the interceptors and the constructors of
  `rpc/server.go`: straight-line code over library types.
  `TlsConfigWithHttp2Enabled` puts `h2-14` after a `http/1.1` that is already in the
  list, against its comment; `CheckClientIsLocal` takes only IPv4.
* The overflow in `MakeErrGrpWithDeadline`, beyond TLC's integers.
* Requests in progress when the servers stop.
* Loggers, tracers, templates, generated protocol code, client options, the
  examples without logic and the facade.

## Plan

All components are done but those listed above, and every safety property the
runs check is proved.  Worth adding: requests in progress in `Lifecycle`, for what
`Shutdown` and `GracefulStop` wait for.
