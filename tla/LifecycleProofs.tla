-------------------------- MODULE LifecycleProofs --------------------------
(***************************************************************************)
(* Proofs about Lifecycle, for any connections: what is proved of the      *)
(* error group (ErrGroupProofs) is used for the group of gotil-serve.      *)
(***************************************************************************)
EXTENDS Lifecycle, FiniteSetTheorems, TLAPS

Proved == INSTANCE ErrGroupProofs

\* mux.Serve returns an error or not at all, and Wait is called when the group
\* has got it.
MuxInv ==
  /\ ret[mux] \in {"none", "own"}
  /\ waiter # "before" => pc[mux] # "new"

-----------------------------------------------------------------------------
(* The group.                                                              *)

\* The servers and the mux are four.
LEMMA TaskFacts == mux \notin Servers /\ IsFiniteSet(Tasks)
<1>1. IsFiniteSet({debug}) /\ Cardinality({debug}) = 1
  BY FS_Singleton
<1>2. /\ IsFiniteSet({debug} \cup {rpc})
      /\ Cardinality({debug} \cup {rpc}) \in {1, 2}
  BY <1>1, FS_AddElement
<1>3. IsFiniteSet(Servers) /\ Cardinality(Servers) \in {1, 2, 3}
  <2>1. Servers = ({debug} \cup {rpc}) \cup {tls}
    BY DEF Servers
  <2> QED
    BY <1>2, <2>1, FS_AddElement
<1>4. mux \notin Servers
  <2>1. mux \in Servers => Tasks = Servers
    BY DEF Tasks
  <2>2. Cardinality(Servers) # 4
    BY <1>3
  <2> QED
    BY <2>1, <2>2, LifecycleAssumption
<1> QED
  BY <1>3, <1>4, FS_AddElement DEF Tasks

\* ErrGroupProofs speaks of the same group.
LEMMA SameGroup ==
  /\ Group!Init => Proved!Init
  /\ \A t \in Tasks :
       Group!Go(t) \/ Group!ReturnNil(t) \/ Group!ReturnErr(t, "own") \/ Group!Do(t)
         => Proved!Task(t)
  /\ Group!CallWait => Proved!CallWait
  /\ Group!WaitReturns => Proved!WaitReturns
  /\ Group!ParentDone => Proved!ParentDone
  /\ Group!TypeOK <=> Proved!TypeOK
<1>1. \A t \in Tasks : Group!Go(t) => Proved!Go(t)
  BY DEF Group!Go, Proved!Go
<1>2. \A t \in Tasks : Group!ReturnNil(t) => Proved!ReturnNil(t)
  BY DEF Group!ReturnNil, Proved!ReturnNil
<1>3. \A t \in Tasks : Group!ReturnErr(t, "own") => \E e \in {"own", "ctx"} : Proved!ReturnErr(t, e)
  BY DEF Group!ReturnErr, Proved!ReturnErr
<1>4. \A t \in Tasks : Group!Do(t) => Proved!Do(t)
  BY DEF Group!Do, Group!DoEnter, Group!DoCancel, Group!DoSkip, Group!Done, Group!cancelled,
         Proved!Do, Proved!DoEnter, Proved!DoCancel, Proved!DoSkip, Proved!Done, Proved!cancelled
<1>5. /\ Group!CallWait => Proved!CallWait
      /\ Group!ParentDone => Proved!ParentDone
      /\ Group!WaitReturns => Proved!WaitReturns
  BY DEF Group!CallWait, Proved!CallWait, Group!ParentDone, Proved!ParentDone,
         Group!WaitReturns, Proved!WaitReturns, Group!cancelled, Proved!cancelled
<1>6. Group!Init => Proved!Init
  BY DEF Group!Init, Proved!Init
<1>7. Group!TypeOK <=> Proved!TypeOK
  BY DEF Group!TypeOK, Proved!TypeOK
<1> QED
  BY <1>1, <1>2, <1>3, <1>4, <1>5, <1>6, <1>7 DEF Proved!Task

\* A step of the program is a step of the group or leaves it alone; the mux
\* returns an error, and main calls Wait when it has given the mux to Go.
LEMMA GroupSteps ==
  [Next]_vars =>
    \/ UNCHANGED groupVars
    \/ \E t \in Tasks : Group!Go(t) \/ Group!ReturnErr(t, "own") \/ Group!Do(t)
    \/ \E s \in Servers : Group!ReturnNil(s)
    \/ Group!CallWait /\ pc[mux] # "new"
    \/ Group!WaitReturns \/ Group!ParentDone
<1> SUFFICES ASSUME [Next]_vars
             PROVE  \/ UNCHANGED groupVars
                    \/ \E t \in Tasks : Group!Go(t) \/ Group!ReturnErr(t, "own") \/ Group!Do(t)
                    \/ \E s \in Servers : Group!ReturnNil(s)
                    \/ Group!CallWait /\ pc[mux] # "new"
                    \/ Group!WaitReturns \/ Group!ParentDone
  OBVIOUS
<1>1. CASE UNCHANGED vars
  BY <1>1 DEF vars
<1>2. CASE \E t \in Tasks : GoTask(t) \/ GroupStep(t)
  BY <1>2 DEF GoTask, GroupStep
<1>3. CASE CallWait \/ WaitReturns \/ Deadline \/ MuxReturns \/ ListenFails
  BY <1>3 DEF CallWait, WaitReturns, Deadline, MuxReturns, ListenFails, Tasks, Servers
<1>4. ASSUME NEW s \in Servers, Starter(s)
      PROVE  \/ UNCHANGED groupVars \/ Group!ReturnErr(s, "own") \/ Group!ReturnNil(s)
  BY <1>4 DEF Starter, Start, Receive, CtxDone, Shutdown
<1>5. CASE \/ End \/ ConfigFails \/ GracefulStop \/ Drained \/ Stop \/ Finish
           \/ \E s \in Servers : CallServe(s) \/ ServeReturns(s)
           \/ \E c \in Conns : Take(c) \/ Settle(c)
  BY <1>5 DEF End, ConfigFails, GracefulStop, Drained, Stop, Finish, CallServe, ServeReturns,
              Take, Settle
<1> QED
  BY <1>1, <1>2, <1>3, <1>4, <1>5 DEF Next, Step, Tasks

\* What ErrGroupProofs assumes of the functions holds of these four.
LEMMA Assumed == Proved!GroupAssumption
<1>1. \A S : IsFiniteSet(S) => Proved!IsFiniteSet(S)
  BY DEF IsFiniteSet, Proved!IsFiniteSet
<1> QED
  BY <1>1, TaskFacts, LifecycleAssumption DEF Heeding, Proved!GroupAssumption

\* Every step of the program is one of ErrGroup, or a stutter of it.
LEMMA GroupInProgram == [Next]_vars => [Proved!Next]_(Proved!vars)
BY GroupSteps, SameGroup DEF groupVars, Proved!vars, Proved!Next, Tasks

\* So the inductive invariant of the group is one of the program.
LEMMA GroupStays == Proved!IInv /\ [Next]_vars => Proved!IInv'
<1>1. Proved!IInv /\ [Proved!Next]_(Proved!vars) => Proved!IInv'
  BY Assumed, Proved!InvStep
<1> QED
  BY <1>1, GroupInProgram

-----------------------------------------------------------------------------
(* The mux and the end of the program.                                     *)

\* A Wait that has returned was called after the mux was started, so the mux has
\* returned, an error.
LEMMA MuxFailed ==
  ASSUME Proved!IInv, MuxInv, waiter = "after"
  PROVE  result # NoErr
<1>1. pc[mux] = "done"
  <2>1. Proved!Counted = {} /\ mux \in Tasks
    BY DEF Proved!IInv, Proved!CountInv, Tasks
  <2> QED
    BY <2>1 DEF Proved!Counted, Proved!IInv, Proved!TypeOK, MuxInv
<1>2. ret[mux] = "own"
  BY <1>1 DEF MuxInv, Proved!IInv, Proved!OnceInv, Tasks
<1> QED
  BY <1>2 DEF Proved!IInv, Proved!NilMeansAllNil, Tasks

LEMMA MuxStep == Proved!IInv /\ MuxInv /\ [Next]_vars => MuxInv'
<1> SUFFICES ASSUME Proved!IInv, MuxInv, [Next]_vars PROVE MuxInv'
  OBVIOUS
<1>0. /\ ret \in [Tasks -> {"none", "nil", "own", "ctx"}] /\ mux \in Tasks \ Servers
      /\ pc \in [Tasks -> {"new", "run", "do", "cancel", "leave", "done"}]
      /\ Servers \subseteq Tasks
  BY TaskFacts DEF Proved!IInv, Proved!TypeOK, Tasks
<1> USE DEF MuxInv
<1>1. CASE UNCHANGED groupVars
  BY <1>1 DEF groupVars
<1>2. ASSUME NEW t \in Tasks, Group!Go(t) \/ Group!ReturnErr(t, "own") PROVE MuxInv'
  BY <1>0, <1>2 DEF Group!Go, Group!ReturnErr
<1>3. ASSUME NEW t \in Tasks, Group!Do(t) PROVE MuxInv'
  BY <1>0, <1>3 DEF Group!Do, Group!DoEnter, Group!DoCancel, Group!DoSkip, Group!Done
<1>4. ASSUME NEW s \in Servers, Group!ReturnNil(s) PROVE MuxInv'
  BY <1>0, <1>4 DEF Group!ReturnNil
<1>5. CASE Group!CallWait /\ pc[mux] # "new"
  BY <1>5 DEF Group!CallWait
<1>6. CASE Group!WaitReturns \/ Group!ParentDone
  BY <1>6 DEF Group!WaitReturns, Group!ParentDone
<1> QED
  BY <1>1, <1>2, <1>3, <1>4, <1>5, <1>6, GroupSteps

LEMMA InitGroup == Init => Proved!IInv /\ MuxInv
<1>1. Proved!Init => Proved!IInv
  BY Assumed, Proved!InitInv
<1>2. Group!Init => MuxInv
  BY DEF Group!Init, MuxInv, Tasks
<1> QED
  BY <1>1, <1>2, SameGroup DEF Init

\* AlwaysFatal: main never returns.  The group's error is never nil, because
\* mux.Serve, which Wait waits for, ends with an error only.
THEOREM MainNeverReturns == Spec => []AlwaysFatal
<1> DEFINE Inv == Proved!IInv /\ MuxInv /\ AlwaysFatal
<1>1. Init => Inv
  BY InitGroup DEF Init, AlwaysFatal
<1>2. Inv /\ [Next]_vars => Inv'
  <2> SUFFICES ASSUME Inv, [Next]_vars PROVE AlwaysFatal'
    BY GroupStays, MuxStep
  <2>1. CASE End
    BY <2>1, MuxFailed DEF End, AlwaysFatal
  <2>2. CASE ~End
    <3>1. exit' = exit \/ exit' = "fatal"
      BY <2>2 DEF Next, Step, vars, GoTask, GroupStep, CallWait, WaitReturns, Deadline, Starter,
         Start, Receive, CtxDone, Shutdown, CallServe, ServeReturns, ListenFails, ConfigFails,
         GracefulStop, Drained, Take, Settle, Stop, Finish, MuxReturns
    <3> QED
      BY <3>1 DEF AlwaysFatal
  <2> QED
    BY <2>1, <2>2
<1> QED
  BY <1>1, <1>2, PTL DEF Spec

-----------------------------------------------------------------------------
(* The servers.                                                            *)

\* A Start function leaves its goroutine behind, or begins to stop its server,
\* only after the context was done.
ServerInv ==
  \A s \in Servers :
    /\ at[s] = "none" => serve[s] = "none"
    /\ at[s] \in {"graceful", "drain", "stop"} => ctx # "live"
    /\ at[s] = "out" /\ serve[s] \notin {"none", "ended"} => ctx # "live"

Rest == TypeOK /\ ServerInv

\* The port of the TLS server is its own.
LEMMA PortFacts == tls \notin Muxed /\ \A s \in Servers : port(s) = "tlsport" <=> s = tls
<1>1. tls \notin Muxed
  <2> SUFFICES ASSUME tls \in Muxed PROVE FALSE
    OBVIOUS
  <2>1. IsFiniteSet({debug}) /\ Cardinality({debug}) = 1
    BY FS_Singleton
  <2>2. IsFiniteSet({debug} \cup {rpc}) /\ Cardinality({debug} \cup {rpc}) \in {1, 2}
    BY <2>1, FS_AddElement
  <2>3. Tasks = ({debug} \cup {rpc}) \cup {mux}
    BY DEF Tasks, Servers, Muxed
  <2>4. Cardinality(Tasks) \in {1, 2, 3}
    BY <2>2, <2>3, FS_AddElement
  <2> QED
    BY <2>4, LifecycleAssumption
<1> QED
  BY <1>1 DEF Servers, Muxed, port

\* Nothing makes a context live again.
LEMMA CtxStays == Group!TypeOK /\ [Next]_vars /\ ctx # "live" => ctx' # "live"
<1> SUFFICES ASSUME Group!TypeOK, [Next]_vars, ctx # "live" PROVE ctx' # "live"
  OBVIOUS
<1>1. ctx' = ctx \/ ctx' = Group!cancelled
  BY GroupSteps
     DEF groupVars, Group!Go, Group!ReturnErr, Group!ReturnNil, Group!CallWait, Group!WaitReturns,
         Group!ParentDone, Group!Do, Group!DoEnter, Group!DoCancel, Group!DoSkip, Group!Done
<1> QED
  BY <1>1 DEF Group!cancelled

\* The steps of a Start function and its goroutine.
LEMMA ServerStep ==
  ASSUME Rest, Group!TypeOK', ctx # "live" => ctx' # "live", exit' \in {"no", "returned", "fatal"},
         \/ \E s \in Servers : Starter(s) \/ CallServe(s) \/ ServeReturns(s)
         \/ ListenFails \/ GracefulStop \/ Drained
  PROVE  Rest'
<1> USE PortFacts DEF Rest, TypeOK, ServerInv, Servers
<1>1. ASSUME NEW s \in Servers, Start(s) PROVE Rest'
  BY <1>1 DEF Start, routerVars
<1>2. ASSUME NEW s \in Servers, Receive(s) PROVE Rest'
  BY <1>2 DEF Receive, routerVars
<1>3. ASSUME NEW s \in Servers, CtxDone(s) PROVE Rest'
  BY <1>3 DEF CtxDone, routerVars
<1>4. ASSUME NEW s \in Servers, Shutdown(s) PROVE Rest'
  BY <1>4 DEF Shutdown, routerVars
<1>5. ASSUME NEW s \in Servers, CallServe(s) PROVE Rest'
  BY <1>5 DEF CallServe, routerVars
<1>6. ASSUME NEW s \in Servers, ServeReturns(s) PROVE Rest'
  BY <1>6 DEF ServeReturns, routerVars
<1>7. CASE ListenFails
  BY <1>7 DEF ListenFails, routerVars
<1>8. CASE GracefulStop
  BY <1>8 DEF GracefulStop, routerVars, gserver, Muxed
<1>9. CASE Drained
  BY <1>9 DEF Drained, routerVars
<1> QED
  BY <1>1, <1>2, <1>3, <1>4, <1>5, <1>6, <1>7, <1>8, <1>9 DEF Starter

\* All other steps leave the servers alone.
LEMMA RouterStep ==
  ASSUME Rest, Group!TypeOK', ctx # "live" => ctx' # "live", UNCHANGED serverVars,
         fate' \in [Conns -> {"outside", "held", "delivered", "closed"}],
         phase' \in {"up", "stopping", "down"}, exit' \in {"no", "returned", "fatal"}
  PROVE  Rest'
BY DEF Rest, TypeOK, ServerInv, serverVars, port

\* TypeOK: a server that was shut down does not accept on an open listener, even
\* if Shutdown came before Serve, and no goroutine is left at its channel while
\* the context is live.
THEOREM TypeCorrect == Spec => []TypeOK
<1> DEFINE Inv == Proved!IInv /\ Rest
<1>1. Init => Inv
  <2> SUFFICES ASSUME Init PROVE Rest
    BY InitGroup
  <2>1. Group!TypeOK
    BY InitGroup, SameGroup DEF Proved!IInv
  <2> QED
    BY <2>1 DEF Init, Router!Init, Rest, TypeOK, ServerInv
<1>2. Inv /\ [Next]_vars => Inv'
  <2> SUFFICES ASSUME Inv, [Next]_vars PROVE Rest'
    BY GroupStays
  <2>1. Group!TypeOK'
    <3>1. Proved!IInv'
      BY GroupStays
    <3>2. Proved!TypeOK' => Group!TypeOK'
      BY SameGroup, PTL
    <3> QED
      BY <3>1, <3>2 DEF Proved!IInv
  <2>2. ctx # "live" => ctx' # "live"
    BY CtxStays DEF Rest, TypeOK
  <2>3. exit' \in {"no", "returned", "fatal"}
    BY DEF Next, Step, vars, GoTask, GroupStep, CallWait, WaitReturns, Deadline, Starter, End,
       Start, Receive, CtxDone, Shutdown, CallServe, ServeReturns, ListenFails, ConfigFails,
       GracefulStop, Drained, Take, Settle, Stop, Finish, MuxReturns, Rest, TypeOK
  <2>4. CASE \/ \E s \in Servers : Starter(s) \/ CallServe(s) \/ ServeReturns(s)
             \/ ListenFails \/ GracefulStop \/ Drained
    BY <2>1, <2>2, <2>3, <2>4, ServerStep
  <2>5. CASE \/ UNCHANGED vars
             \/ \E t \in Tasks : GoTask(t) \/ GroupStep(t)
             \/ CallWait \/ WaitReturns \/ End \/ Deadline \/ ConfigFails \/ MuxReturns
    <3>1. UNCHANGED <<fate, phase>> /\ UNCHANGED serverVars
      BY <2>5 DEF vars, GoTask, GroupStep, CallWait, WaitReturns, End, Deadline, ConfigFails,
                  MuxReturns, routerVars
    <3> QED
      BY <2>1, <2>2, <2>3, <3>1, RouterStep DEF Rest, TypeOK
  <2>6. CASE Stop \/ Finish \/ \E c \in Conns : Take(c) \/ Settle(c)
    <3>1. UNCHANGED serverVars
      BY <2>6 DEF Stop, Finish, Take, Settle
    <3>2. /\ fate' \in [Conns -> {"outside", "held", "delivered", "closed"}]
          /\ phase' \in {"up", "stopping", "down"}
      BY <2>6 DEF Stop, Finish, Take, Settle, Router!Take, Router!Drop, Router!Deliver,
                  Router!Stop, Router!Finish, Rest, TypeOK
    <3> QED
      BY <2>1, <2>2, <2>3, <3>1, <3>2, RouterStep
  <2> QED
    BY <2>4, <2>5, <2>6 DEF Next, Step
<1>3. Inv => TypeOK
  BY DEF Rest
<1> QED
  BY <1>1, <1>2, <1>3, PTL DEF Spec

-----------------------------------------------------------------------------
(* What has become of everything when Wait returns.                        *)

\* What Wait and the error promise (WaitsForAll, NilMeansAllNil, FirstErrorStays
\* of ErrGroup) they keep in gotil-serve: when Wait has returned, no Start
\* function and no mux.Serve runs, and its result is the first error of one.
THEOREM GroupIsCorrect ==
  Spec => [](Group!WaitsForAll /\ Group!NilMeansAllNil) /\ Group!FirstErrorStays
<1>1. Spec => []Proved!IInv
  BY InitGroup, GroupStays, PTL DEF Spec
<1>2. Proved!IInv => Group!WaitsForAll /\ Group!NilMeansAllNil
  BY DEF Proved!IInv, Proved!CountInv, Proved!Counted, Proved!NilMeansAllNil,
         Group!WaitsForAll, Group!Counted, Group!NilMeansAllNil
<1>3. Proved!IInv /\ [Next]_vars => [err # NoErr => err' = err]_(Group!vars)
  BY Assumed, GroupInProgram, Proved!ErrStays
<1> QED
  BY <1>1, <1>2, <1>3, PTL DEF Spec, Group!FirstErrorStays

\* The mux has returned, as the group sees it, only when the router is down; that
\* holds no connection, and has delivered each to the first who claims it.
RouterInv ==
  /\ to \in [Conns -> Muxed \cup {0}] /\ cut = [c \in Conns |-> FALSE]
  /\ \A c \in Conns : fate[c] = "delivered" => to[c] \in First[c]
  /\ phase = "down" => \A c \in Conns : fate[c] # "held"
  /\ pc[mux] \notin {"new", "run"} => phase = "down"

\* When Wait has returned, no connection the program took is left behind by the
\* mux, whatever the servers did: each was closed or is with the right server.
AllSettled ==
  waiter = "after" =>
    \A c \in Conns :
      /\ fate[c] \in {"outside", "delivered", "closed"}
      /\ fate[c] = "delivered" => to[c] \in First[c]

\* Only mux.Serve's own return, of a router that is down, ends its function.
LEMMA MuxEnds ==
  ASSUME Proved!IInv, [Next]_vars, pc'[mux] \notin {"new", "run"}
  PROVE  pc[mux] \notin {"new", "run"} \/ phase = "down"
<1> SUFFICES ASSUME ~MuxReturns PROVE pc[mux] \notin {"new", "run"}
  BY DEF MuxReturns
<1>0. /\ pc \in [Tasks -> {"new", "run", "do", "cancel", "leave", "done"}]
      /\ mux \in Tasks \ Servers /\ Servers \subseteq Tasks
  BY TaskFacts DEF Proved!IInv, Proved!TypeOK, Tasks
<1>1. CASE UNCHANGED pc
  BY <1>1
<1>2. ASSUME NEW t \in Tasks, Group!Go(t) \/ Group!Do(t) PROVE pc[mux] \notin {"new", "run"}
  BY <1>0, <1>2
     DEF Group!Go, Group!Do, Group!DoEnter, Group!DoCancel, Group!DoSkip, Group!Done
<1>3. ASSUME NEW s \in Servers, Group!ReturnErr(s, "own") \/ Group!ReturnNil(s)
      PROVE  pc[mux] \notin {"new", "run"}
  BY <1>0, <1>3 DEF Group!ReturnErr, Group!ReturnNil
<1>4. \/ UNCHANGED pc
      \/ \E t \in Tasks : Group!Go(t) \/ Group!Do(t)
      \/ \E s \in Servers : Group!ReturnErr(s, "own") \/ Group!ReturnNil(s)
  <2>1. CASE \/ UNCHANGED vars \/ End \/ ConfigFails \/ GracefulStop \/ Drained
             \/ Stop \/ Finish
             \/ \E s \in Servers : CallServe(s) \/ ServeReturns(s)
             \/ \E c \in Conns : Take(c) \/ Settle(c)
    BY <2>1 DEF vars, groupVars, End, ConfigFails, GracefulStop, Drained, Stop, Finish,
                CallServe, ServeReturns, Take, Settle
  <2>2. CASE \E t \in Tasks : GoTask(t) \/ GroupStep(t)
    BY <2>2 DEF GoTask, GroupStep
  <2>3. CASE CallWait \/ WaitReturns \/ Deadline
    BY <2>3 DEF CallWait, WaitReturns, Deadline, Group!CallWait, Group!WaitReturns,
                Group!ParentDone
  <2>4. ASSUME NEW s \in Servers, Starter(s)
        PROVE  UNCHANGED pc \/ Group!ReturnErr(s, "own") \/ Group!ReturnNil(s)
    BY <2>4 DEF Starter, Start, Receive, CtxDone, Shutdown, groupVars
  <2>5. CASE ListenFails
    BY <2>5 DEF ListenFails, Servers
  <2> QED
    BY <2>1, <2>2, <2>3, <2>4, <2>5 DEF Next, Step
<1> QED
  BY <1>1, <1>2, <1>3, <1>4

\* The connections, step by step.
LEMMA RouterInvStep ==
  Proved!IInv /\ TypeOK /\ RouterInv /\ [Next]_vars => RouterInv'
<1> SUFFICES ASSUME Proved!IInv, TypeOK, RouterInv, [Next]_vars PROVE RouterInv'
  OBVIOUS
<1> DEFINE Kept ==
      /\ to' \in [Conns -> Muxed \cup {0}] /\ cut' = [c \in Conns |-> FALSE]
      /\ \A c \in Conns : fate'[c] = "delivered" => to'[c] \in First[c]
      /\ phase' = "down" => \A c \in Conns : fate'[c] # "held"
      /\ phase = "down" => phase' = "down"
<1>1. Kept => RouterInv'
  BY MuxEnds DEF RouterInv, Muxed
<1> USE DEF TypeOK, RouterInv
<1>2. ASSUME NEW c \in Conns, Take(c) PROVE Kept
  BY <1>2 DEF Take, Router!Take
<1>3. ASSUME NEW c \in Conns, Settle(c) PROVE Kept
  <2>1. CASE Router!Drop(c)
    BY <2>1 DEF Router!Drop
  <2>2. ASSUME NEW l \in Claims[c], Router!Deliver(c, l) PROVE Kept
    <3>1. l \in First[c] /\ l \in Muxed
      BY <2>2, LifecycleAssumption DEF Router!Deliver
    <3> QED
      BY <2>2, <3>1 DEF Router!Deliver
  <2> QED
    BY <1>3, <2>1, <2>2 DEF Settle
<1>4. ASSUME to' = to, cut' = cut, fate' = fate, phase = "down" => phase' = "down",
             phase' = "down" => \A c \in Conns : fate[c] # "held"
      PROVE  Kept
  BY <1>4
<1> HIDE DEF Kept, TypeOK, RouterInv
<1>5. CASE Stop \/ Finish
  BY <1>1, <1>4, <1>5 DEF Stop, Finish, Router!Stop, Router!Finish
<1>6. CASE UNCHANGED routerVars
  BY <1>1, <1>4, <1>6 DEF routerVars, RouterInv
<1>7. ASSUME NEW s \in Servers, Starter(s) \/ CallServe(s) \/ ServeReturns(s)
      PROVE  UNCHANGED routerVars
  BY <1>7 DEF Starter, Start, Receive, CtxDone, Shutdown, CallServe, ServeReturns
<1>8. ASSUME NEW t \in Tasks, GoTask(t) \/ GroupStep(t) PROVE UNCHANGED routerVars
  BY <1>8 DEF GoTask, GroupStep
<1>9. CASE \/ UNCHANGED vars \/ CallWait \/ WaitReturns \/ End \/ Deadline \/ MuxReturns
           \/ ListenFails \/ ConfigFails \/ GracefulStop \/ Drained
  <2>1. UNCHANGED routerVars
    BY <1>9 DEF vars, CallWait, WaitReturns, End, Deadline, MuxReturns, ListenFails,
                ConfigFails, GracefulStop, Drained
  <2> QED
    BY <1>6, <2>1
<1> QED
  BY <1>1, <1>2, <1>3, <1>5, <1>6, <1>7, <1>8, <1>9 DEF Next, Step

\* AllSettled: Wait returns after mux.Serve, which returns when it holds nothing.
THEOREM NothingIsLeft == Spec => []AllSettled
<1> DEFINE Inv == Proved!IInv /\ MuxInv /\ RouterInv
<1>1. Init => Inv
  <2>1. Init => RouterInv
    BY TaskFacts DEF Init, Router!Init, Group!Init, RouterInv, Tasks
  <2> QED
    BY <2>1, InitGroup
<1>2. TypeOK /\ Inv /\ [Next]_vars => Inv'
  BY GroupStays, MuxStep, RouterInvStep
<1>3. TypeOK /\ Inv => AllSettled
  <2> SUFFICES ASSUME TypeOK, Inv, waiter = "after" PROVE phase = "down"
    BY DEF AllSettled, RouterInv, TypeOK
  <2>1. Proved!Counted = {} /\ mux \in Tasks
    BY DEF Proved!IInv, Proved!CountInv, Tasks
  <2>2. pc[mux] = "done"
    BY <2>1 DEF Proved!Counted, Proved!IInv, Proved!TypeOK, MuxInv
  <2> QED
    BY <2>2 DEF RouterInv
<1> QED
  BY <1>1, <1>2, <1>3, TypeCorrect, PTL DEF Spec
=============================================================================
