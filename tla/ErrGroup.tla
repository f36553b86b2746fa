------------------------------ MODULE ErrGroup ------------------------------
(***************************************************************************)
(* The Group of syncer/sync.go: Go runs a function in a goroutine, the     *)
(* first error cancels the context of the group, Wait returns that error   *)
(* when all functions have returned.  The parent of the context may be     *)
(* cancelled or run into its deadline (MakeErrGrpWithDeadline) any time.   *)
(***************************************************************************)
EXTENDS Naturals, FiniteSets

CONSTANTS
  Tasks,    \* functions that may be given to Go
  Heeding,  \* those that return when the context is done
  NoErr

ASSUME GroupAssumption ==
  IsFiniteSet(Tasks) /\ Heeding \subseteq Tasks /\ NoErr \notin Tasks

VARIABLES
  wg,       \* counter of the WaitGroup
  pc,       \* program counter of the goroutine of a task
  ret,      \* what f returned: "nil", an error of its "own", or ctx.Err()
  errOnce,  \* sync.Once: "free", "busy" in its function, "done"
  err,      \* g.err: the task whose error it is
  ctx,      \* "live", who cancelled it first ("group" or "parent"), or
            \* "none": the zero Group has no context and a nil cancel
  waiter,   \* the goroutine that calls Wait
  result    \* what Wait returned

vars == <<wg, pc, ret, errOnce, err, ctx, waiter, result>>

(* Faults: plausible slips in the operations below, which nothing refers   *)
(* to; in place of the operation, each breaks a property.                  *)
GoWithoutAdd(t) ==          \* wg.Add left to the goroutine
  /\ pc[t] = "new"
  /\ waiter = "before" \/ \E u \in Tasks : pc[u] = "run"
  /\ pc' = [pc EXCEPT ![t] = "run"]
  /\ UNCHANGED <<wg, ret, errOnce, err, ctx, waiter, result>>
ReturnErrCancels(t, e) ==   \* cancel before errOnce.Do
  /\ pc[t] = "run"
  /\ e = "ctx" => t \in Heeding /\ ctx \in {"group", "parent"}
  /\ ret' = [ret EXCEPT ![t] = e]
  /\ pc' = [pc EXCEPT ![t] = "do"]
  /\ ctx' = IF ctx = "live" THEN "group" ELSE ctx
  /\ UNCHANGED <<wg, errOnce, err, waiter, result>>
DoWithoutOnce(t) ==         \* no errOnce
  /\ pc[t] = "do"
  /\ errOnce' = "busy" /\ err' = t
  /\ pc' = [pc EXCEPT ![t] = "cancel"]
  /\ UNCHANGED <<wg, ret, ctx, waiter, result>>
DoneEarly(t) ==             \* wg.Done before errOnce.Do
  /\ pc[t] \in {"do", "leave"}
  /\ wg' = wg - 1
  /\ pc' = [pc EXCEPT ![t] = "done"]
  /\ UNCHANGED <<ret, errOnce, err, ctx, waiter, result>>
forgotten == ctx            \* no cancel

-----------------------------------------------------------------------------
Init ==
  /\ wg = 0
  /\ pc = [t \in Tasks |-> "new"]
  /\ ret = [t \in Tasks |-> "none"]
  /\ errOnce = "free" /\ err = NoErr
  /\ ctx \in {"live", "none"}
  /\ waiter = "before" /\ result = NoErr

\* cancel() of the group's context, if it has one; only the first cancellation
\* counts.
cancelled == IF ctx = "live" THEN "group" ELSE ctx

\* Go is called before Wait, or by a function that runs in the group.
Go(t) ==
  /\ pc[t] = "new"
  /\ waiter = "before" \/ \E u \in Tasks : pc[u] = "run"
  /\ wg' = wg + 1
  /\ pc' = [pc EXCEPT ![t] = "run"]
  /\ UNCHANGED <<ret, errOnce, err, ctx, waiter, result>>

ReturnNil(t) ==
  /\ pc[t] = "run"
  /\ ret' = [ret EXCEPT ![t] = "nil"]
  /\ pc' = [pc EXCEPT ![t] = "leave"]
  /\ UNCHANGED <<wg, errOnce, err, ctx, waiter, result>>

\* f returns an error of its own, or the error of the context that is done.
ReturnErr(t, e) ==
  /\ pc[t] = "run"
  /\ e = "ctx" => t \in Heeding /\ ctx \in {"group", "parent"}
  /\ ret' = [ret EXCEPT ![t] = e]
  /\ pc' = [pc EXCEPT ![t] = "do"]
  /\ UNCHANGED <<wg, errOnce, err, ctx, waiter, result>>

\* errOnce.Do: the first caller stores its error, then cancels the context;
\* the others wait until it has done both.
DoEnter(t) ==
  /\ pc[t] = "do" /\ errOnce = "free"
  /\ errOnce' = "busy"
  /\ err' = t
  /\ pc' = [pc EXCEPT ![t] = "cancel"]
  /\ UNCHANGED <<wg, ret, ctx, waiter, result>>

DoCancel(t) ==
  /\ pc[t] = "cancel"
  /\ ctx' = cancelled
  /\ errOnce' = "done"
  /\ pc' = [pc EXCEPT ![t] = "leave"]
  /\ UNCHANGED <<wg, ret, err, waiter, result>>

DoSkip(t) ==
  /\ pc[t] = "do" /\ errOnce = "done"
  /\ pc' = [pc EXCEPT ![t] = "leave"]
  /\ UNCHANGED <<wg, ret, errOnce, err, ctx, waiter, result>>

\* defer g.wg.Done()
Done(t) ==
  /\ pc[t] = "leave"
  /\ wg' = wg - 1
  /\ pc' = [pc EXCEPT ![t] = "done"]
  /\ UNCHANGED <<ret, errOnce, err, ctx, waiter, result>>

CallWait ==
  /\ waiter = "before"
  /\ waiter' = "wait"
  /\ UNCHANGED <<wg, pc, ret, errOnce, err, ctx, result>>

\* g.wg.Wait() returns; the context is cancelled, and Wait returns g.err.
WaitReturns ==
  /\ waiter = "wait" /\ wg = 0
  /\ waiter' = "after" /\ result' = err
  /\ ctx' = cancelled
  /\ UNCHANGED <<wg, pc, ret, errOnce, err>>

ParentDone ==
  /\ ctx = "live"
  /\ ctx' = "parent"
  /\ UNCHANGED <<wg, pc, ret, errOnce, err, waiter, result>>

Terminated == waiter = "after" /\ UNCHANGED vars

Do(t) == DoEnter(t) \/ DoCancel(t) \/ DoSkip(t) \/ Done(t)
Task(t) == Go(t) \/ ReturnNil(t) \/ (\E e \in {"own", "ctx"} : ReturnErr(t, e)) \/ Do(t)

Next ==
  \/ \E t \in Tasks : Task(t)
  \/ CallWait \/ WaitReturns \/ ParentDone \/ Terminated

\* The goroutines and Wait run; of the functions only those that heed the
\* context are known to return, and only when it is done.
Fairness ==
  /\ WF_vars(WaitReturns)
  /\ \A t \in Tasks : WF_vars(Do(t))
  /\ \A t \in Heeding : WF_vars(ReturnErr(t, "ctx"))

Spec == Init /\ [][Next]_vars /\ Fairness

-----------------------------------------------------------------------------
\* Between wg.Add and wg.Done.
Counted == {t \in Tasks : pc[t] \in {"run", "do", "cancel", "leave"}}

\* Type invariant: the counter of the WaitGroup is never negative.
TypeOK ==
  /\ wg \in Nat
  /\ pc \in [Tasks -> {"new", "run", "do", "cancel", "leave", "done"}]
  /\ ret \in [Tasks -> {"none", "nil", "own", "ctx"}]
  /\ errOnce \in {"free", "busy", "done"}
  /\ err \in Tasks \cup {NoErr} /\ result \in Tasks \cup {NoErr}
  /\ ctx \in {"live", "group", "parent", "none"}
  /\ waiter \in {"before", "wait", "after"}

\* When Wait has returned no function given to Go is still running.
WaitsForAll == waiter = "after" => Counted = {}

\* The error of the group is a root cause: a task that only reports that the
\* context was done (g.cancel) never takes the place of the task whose error
\* cancelled it.
RootCause ==
  err # NoErr /\ ret[err] = "ctx" => ctx = "parent"

\* Wait returns nil iff every function returned nil, and else the error that
\* was stored first, although it reads g.err without a lock.
NilMeansAllNil ==
  waiter = "after" =>
    /\ result = err
    /\ (result = NoErr) <=> \A t \in Tasks : ret[t] \in {"none", "nil"}

\* g.err is written once.
FirstErrorStays == [][err # NoErr => err' = err]_vars

\* An error ends the group: Wait returns, unless a function does not heed the
\* context or has none to heed.
ErrorEndsWait ==
  []<>(err = NoErr \/ waiter # "wait"
         \/ \E t \in Tasks : pc[t] = "run" /\ (t \notin Heeding \/ ctx = "none"))
=============================================================================
