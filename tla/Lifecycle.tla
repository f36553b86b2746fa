----------------------------- MODULE Lifecycle ------------------------------
(***************************************************************************)
(* The program example/gotil-serve: StartDebugger and StartRpcServer of    *)
(* rpc/server.go serve the two listeners of the multiplexer, and run with  *)
(* it as the three functions of an error group (ErrGroup) whose context    *)
(* has a deadline; the mux is what ConnRouter promises of it.  A program   *)
(* of this kind may have a fourth, StartDynamicTLSServer, on a port of its *)
(* own; gotil-serve does not, and its behaviours are those in which tls is *)
(* never given to the group.                                               *)
(***************************************************************************)
EXTENDS Naturals, FiniteSets

CONSTANTS
  debug, rpc, tls,   \* the servers
  Shared,            \* the TLS server is given the grpc.Server of rpc
  mux,               \* mux.Serve
  Conns, Claims, First,   \* of ConnRouter; the listeners are debug and rpc
  Silent,            \* connections whose client sends nothing and stays
  NoErr

Servers == {debug, rpc, tls}
Muxed == {debug, rpc}
Tasks == Servers \cup {mux}
Heeding == {}        \* nobody returns ctx.Err()

\* The servers that serve the grpc.Server the TLS server is given, gserver; an
\* http.Server needs no listener for it.
gserver == IF Shared THEN {rpc} ELSE {}

ASSUME LifecycleAssumption ==
  /\ Cardinality(Tasks) = 4 /\ NoErr \notin Tasks /\ Silent \subseteq Conns
  /\ Shared \in BOOLEAN
  /\ \A c \in Conns : First[c] \subseteq Claims[c] /\ Claims[c] \subseteq Muxed

VARIABLES
  wg, pc, ret, errOnce, err, ctx, waiter, result,   \* of ErrGroup
  fate, to, cut, phase,                             \* of ConnRouter
  at,      \* a Start function: "none", "select", "graceful", "drain", "stop", "out"
  serve,   \* its goroutine: "none", "start", "accept", "quit" (in Serve, past its
           \* loop), "sending" (an error), "nil" (sending nil), "ended"
  down,    \* servers that Shutdown or GracefulStop was called on
  open,    \* listeners that are open: "port" (of the mux), "tlsport"
  exit     \* the program: "no", "returned", "fatal"

groupVars == <<wg, pc, ret, errOnce, err, ctx, waiter, result>>
routerVars == <<fate, to, cut, phase>>
serverVars == <<at, serve, down, open>>
vars == <<groupVars, routerVars, serverVars, exit>>

Group == INSTANCE ErrGroup
Router == INSTANCE ConnRouter

\* Closing a listener of the mux closes the listener the mux accepts from.
port(s) == IF s \in Muxed THEN "port" ELSE "tlsport"

(* Faults, substituted for a definition below.                             *)
ShutdownKeepsOpen(s) ==    \* the listener is left to the goroutine
  /\ at[s] = "stop"
  /\ down' = down \cup {s} /\ UNCHANGED open
  /\ at' = [at EXCEPT ![s] = "out"]
  /\ Group!ReturnNil(s)
  /\ UNCHANGED <<routerVars, serve, exit>>
ShutdownJoins(s) ==        \* waits for the goroutine
  /\ at[s] = "stop"
  /\ down' = down \cup {s}
  /\ open' = IF serve[s] = "accept" THEN open \ {port(s)} ELSE open
  /\ at' = [at EXCEPT ![s] = IF serve[s] = "sending" THEN "out" ELSE "stop"]
  /\ IF serve[s] = "sending" THEN Group!ReturnNil(s) ELSE UNCHANGED groupVars
  /\ UNCHANGED <<routerVars, serve, exit>>
CtxDoneReturns(s) ==       \* no server is shut down
  /\ at[s] = "select" /\ ctx # "live"
  /\ at' = [at EXCEPT ![s] = "out"]
  /\ Group!ReturnNil(s)
  /\ UNCHANGED <<routerVars, serve, down, open, exit>>
MuxReturnsNil ==           \* a closed listener is no error
  /\ phase = "down"
  /\ Group!ReturnNil(mux)
  /\ UNCHANGED <<routerVars, serverVars, exit>>

-----------------------------------------------------------------------------
Init ==
  /\ Group!Init /\ ctx = "live" /\ Router!Init
  /\ at = [s \in Servers |-> "none"]
  /\ serve = [s \in Servers |-> "none"]
  /\ down = {} /\ open = {"port"}
  /\ exit = "no"

(* main                                                                    *)

\* errsync.Go, in the order of main; a TLS server, if there is one, comes first.
GoTask(t) ==
  /\ waiter = "before" /\ Group!Go(t)
  /\ t = tls => pc[debug] = "new"
  /\ t = rpc => pc[debug] # "new"
  /\ t = mux => pc[rpc] # "new"
  /\ UNCHANGED <<routerVars, serverVars, exit>>

CallWait ==
  /\ pc[mux] # "new" /\ Group!CallWait
  /\ UNCHANGED <<routerVars, serverVars, exit>>
WaitReturns ==
  /\ Group!WaitReturns
  /\ UNCHANGED <<routerVars, serverVars, exit>>

\* g.ZapErr ends the program at an error; else main returns and its deferred
\* calls run.
End ==
  /\ waiter = "after"
  /\ exit' = IF result # NoErr THEN "fatal" ELSE "returned"
  /\ UNCHANGED <<groupVars, routerVars, serverVars>>

-----------------------------------------------------------------------------
(* StartDebugger, StartRpcServer, StartDynamicTLSServer.                   *)

\* The goroutine is started; the TLS server opens its port first.
Start(s) ==
  /\ pc[s] = "run" /\ at[s] = "none"
  /\ at' = [at EXCEPT ![s] = "select"]
  /\ serve' = [serve EXCEPT ![s] = "start"]
  /\ open' = IF s = tls THEN open \cup {"tlsport"} ELSE open
  /\ UNCHANGED <<groupVars, routerVars, down, exit>>

\* net.Listen fails.
ListenFails ==
  /\ at[tls] = "none"
  /\ at' = [at EXCEPT ![tls] = "out"]
  /\ Group!ReturnErr(tls, "own")
  /\ UNCHANGED <<routerVars, serve, down, open, exit>>

\* A certificate or cipher list that will not do: logger.Fatal.
ConfigFails ==
  /\ pc[tls] = "run" /\ at[tls] = "none"
  /\ exit' = "fatal"
  /\ UNCHANGED <<groupVars, routerVars, serverVars>>

\* server.Serve(listener): after Shutdown it closes the listener and returns.
CallServe(s) ==
  /\ serve[s] = "start"
  /\ serve' = [serve EXCEPT ![s] = IF s \in down THEN "sending" ELSE "accept"]
  /\ open' = IF s \in down THEN open \ {port(s)} ELSE open
  /\ UNCHANGED <<groupVars, routerVars, at, down, exit>>

\* Accept fails, on a listener of the mux when the mux has returned; Serve
\* closes the listener and returns, after GracefulStop only when that is over.
ServeReturns(s) ==
  /\ serve[s] = "accept" /\ (s \in Muxed => phase = "down")
  /\ serve' = [serve EXCEPT ![s] = IF s \in gserver \cap down THEN "quit" ELSE "sending"]
  /\ open' = open \ {port(s)}
  /\ UNCHANGED <<groupVars, routerVars, at, down, exit>>

\* case err := <-e: the channel has no buffer.  The error is nil after a
\* GracefulStop.
Receive(s) ==
  /\ at[s] = "select"
  /\ \/ serve[s] = "sending" /\ Group!ReturnErr(s, "own")
     \/ serve[s] = "nil" /\ Group!ReturnNil(s)
  /\ at' = [at EXCEPT ![s] = "out"]
  /\ serve' = [serve EXCEPT ![s] = "ended"]
  /\ UNCHANGED <<routerVars, down, open, exit>>

\* case <-ctx.Done(): the gRPC server is not stopped.
CtxDone(s) ==
  /\ at[s] = "select" /\ ctx # "live"
  /\ IF s = rpc
     THEN at' = [at EXCEPT ![s] = "out"] /\ Group!ReturnNil(s)
     ELSE /\ at' = [at EXCEPT ![s] = IF s = tls THEN "graceful" ELSE "stop"]
          /\ UNCHANGED groupVars
  /\ UNCHANGED <<routerVars, serve, down, open, exit>>

\* gserver.GracefulStop() closes the listeners its Serve has got, and makes a
\* later Serve return at once.
GracefulStop ==
  /\ at[tls] = "graceful"
  /\ down' = down \cup gserver
  /\ open' = open \ {port(s) : s \in {r \in gserver : serve[r] = "accept"}}
  /\ at' = [at EXCEPT ![tls] = "drain"]
  /\ UNCHANGED <<groupVars, routerVars, serve, exit>>

\* Then it waits until no Serve is in its loop and the calls in progress have
\* ended; Serve, which waited for that, returns nil.
Drained ==
  /\ at[tls] = "drain"
  /\ \A s \in gserver : serve[s] # "accept"
  /\ at' = [at EXCEPT ![tls] = "stop"]
  /\ serve' = [s \in Servers |-> IF serve[s] = "quit" THEN "nil" ELSE serve[s]]
  /\ UNCHANGED <<groupVars, routerVars, down, open, exit>>

\* server.Shutdown(ctx) closes the listener if Serve has it already; it does
\* not wait for connections, because ctx is done.
Shutdown(s) ==
  /\ at[s] = "stop"
  /\ down' = down \cup {s}
  /\ open' = IF serve[s] = "accept" THEN open \ {port(s)} ELSE open
  /\ at' = [at EXCEPT ![s] = "out"]
  /\ Group!ReturnNil(s)
  /\ UNCHANGED <<routerVars, serve, exit>>

-----------------------------------------------------------------------------
(* mux.Serve, between its call and its return, as the router.              *)

Take(c) ==
  /\ pc[mux] = "run" /\ "port" \in open
  /\ Router!Take(c)
  /\ UNCHANGED <<groupVars, serverVars, exit>>

\* A connection is sniffed and delivered or closed; without a read timeout the
\* sniffing of a silent one does not end.  (No client hangs up: RpcMux.)
Settle(c) ==
  /\ c \notin Silent
  /\ Router!Drop(c) \/ \E l \in Claims[c] : Router!Deliver(c, l)
  /\ UNCHANGED <<groupVars, serverVars, exit>>

\* Accept of the root listener fails, at the latest when it is closed.
Stop ==
  /\ pc[mux] = "run" /\ Router!Stop
  /\ UNCHANGED <<groupVars, serverVars, exit>>
Finish ==
  /\ Router!Finish
  /\ UNCHANGED <<groupVars, serverVars, exit>>

\* Serve returns the error of Accept.
MuxReturns ==
  /\ phase = "down"
  /\ Group!ReturnErr(mux, "own")
  /\ UNCHANGED <<routerVars, serverVars, exit>>

-----------------------------------------------------------------------------
\* errOnce.Do and wg.Done of the group's goroutines, and the deadline.
GroupStep(t) == Group!Do(t) /\ UNCHANGED <<routerVars, serverVars, exit>>
Deadline == Group!ParentDone /\ UNCHANGED <<routerVars, serverVars, exit>>

Starter(s) == Start(s) \/ Receive(s) \/ CtxDone(s) \/ Shutdown(s)

Step ==
  \/ \E t \in Tasks : GoTask(t) \/ GroupStep(t)
  \/ CallWait \/ WaitReturns \/ End \/ Deadline
  \/ \E s \in Servers : Starter(s) \/ CallServe(s) \/ ServeReturns(s)
  \/ ListenFails \/ ConfigFails \/ GracefulStop \/ Drained
  \/ \E c \in Conns : Take(c) \/ Settle(c)
  \/ Stop \/ Finish \/ MuxReturns

Next == exit = "no" /\ Step

\* Goroutines that can run do, a closed listener's Accept fails, a connection
\* that is not silent is settled, and the deadline comes.  Calls in progress need
\* not end (Drained).
Running(A) == exit = "no" /\ A
Fairness ==
  /\ WF_vars(Running(\E t \in Tasks : GoTask(t)))
  /\ \A t \in Tasks : WF_vars(Running(GroupStep(t)))
  /\ WF_vars(Running(CallWait \/ WaitReturns \/ End)) /\ WF_vars(Running(Deadline))
  /\ WF_vars(Running(GracefulStop))
  /\ \A s \in Servers :
       /\ WF_vars(Running(Starter(s)))
       /\ WF_vars(Running(CallServe(s)))
       /\ WF_vars(Running((s \in Muxed \/ port(s) \notin open) /\ ServeReturns(s)))
  /\ \A c \in Conns : WF_vars(Running(Settle(c)))
  /\ WF_vars(Running("port" \notin open /\ Stop))
  /\ WF_vars(Running(Finish \/ MuxReturns))

Spec == Init /\ [][Next]_vars /\ Fairness

-----------------------------------------------------------------------------
\* Type invariant.  A server that was shut down does not accept on a listener
\* that is open, even if Shutdown came before Serve; and the goroutine of a
\* server is left at a channel nobody reads only if the context is done.
TypeOK ==
  /\ Group!TypeOK
  /\ fate \in [Conns -> {"outside", "held", "delivered", "closed"}]
  /\ phase \in {"up", "stopping", "down"}
  /\ at \in [Servers -> {"none", "select", "graceful", "drain", "stop", "out"}]
  /\ serve \in [Servers -> {"none", "start", "accept", "quit", "sending", "nil", "ended"}]
  /\ down \subseteq Servers /\ open \subseteq {"port", "tlsport"}
  /\ exit \in {"no", "returned", "fatal"}
  /\ \A s \in down : serve[s] = "accept" => port(s) \notin open
  /\ \A s \in Servers : at[s] = "out" /\ serve[s] \in {"sending", "nil"} => ctx # "live"

\* The program never returns from main: mux.Serve ends with an error only, so
\* also at the deadline the group's error is fatal and no deferred call runs.
AlwaysFatal == exit # "returned"

\* Liveness: the deadline ends the program, through Shutdown of the debug server,
\* which closes the listener of the mux; unless a silent client holds up the
\* mux or a call that does not end holds up the TLS server.
ProgramEnds ==
  []<>(exit # "no" \/ (\E c \in Silent : fate[c] = "held") \/ at[tls] = "drain")

\* Liveness: when the context is done each Start function returns, whatever the
\* clients of the mux do.
StartersReturn ==
  \A s \in Servers :
    []<>(ctx = "live" \/ pc[s] # "run" \/ exit # "no" \/ at[s] = "drain")
=============================================================================
