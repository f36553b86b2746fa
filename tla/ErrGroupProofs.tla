--------------------------- MODULE ErrGroupProofs ---------------------------
(***************************************************************************)
(* Proofs about ErrGroup, for any finite number of functions, whichever of *)
(* them heed the context.                                                  *)
(***************************************************************************)
EXTENDS ErrGroup, FiniteSetTheorems, TLAPS

\* The counter of the WaitGroup counts the goroutines that have not called
\* wg.Done; after Wait there are none.
CountInv ==
  /\ wg = Cardinality(Counted)
  /\ waiter = "after" => Counted = {}

Failed(t) == ret[t] \in {"own", "ctx"}

\* How far each goroutine is with its result, and errOnce with them all.
OnceInv ==
  /\ errOnce = "free" <=> err = NoErr
  /\ err # NoErr => Failed(err)
  /\ errOnce = "busy" => pc[err] = "cancel"
  /\ \A t \in Tasks :
       /\ pc[t] \in {"new", "run"} <=> ret[t] = "none"
       /\ pc[t] \in {"do", "cancel"} => Failed(t)
       /\ pc[t] = "cancel" => errOnce = "busy" /\ err = t
       /\ pc[t] \in {"leave", "done"} /\ Failed(t) => errOnce = "done"

\* Nobody sees the context done before it was cancelled for a reason.
CauseInv ==
  /\ RootCause
  /\ ctx = "group" => errOnce = "done" \/ waiter = "after"
  /\ \A t \in Tasks : ret[t] = "ctx" => ctx = "parent" \/ err # NoErr

IInv == TypeOK /\ CountInv /\ OnceInv /\ CauseInv /\ NilMeansAllNil

-----------------------------------------------------------------------------
(* The inductive invariant.                                                *)

\* The goroutines that are counted are finitely many, so wg.Add and wg.Done
\* of one of them change the count by one.
LEMMA CountFacts ==
  /\ IsFiniteSet(Counted) /\ Cardinality(Counted) \in Nat
  /\ Cardinality(Counted) = 0 <=> Counted = {}
  /\ \A t \in Tasks \ Counted : Cardinality(Counted \cup {t}) = Cardinality(Counted) + 1
  /\ \A t \in Counted : Cardinality(Counted \ {t}) = Cardinality(Counted) - 1
<1>1. IsFiniteSet(Counted)
  <2>1. Counted \subseteq Tasks
    BY DEF Counted
  <2> QED
    BY <2>1, GroupAssumption, FS_Subset
<1> QED
  BY <1>1, FS_CardinalityType, FS_EmptySet, FS_AddElement, FS_RemoveElement

LEMMA InitInv == Init => IInv
<1> SUFFICES ASSUME Init PROVE IInv
  OBVIOUS
<1>1. Counted = {}
  BY DEF Init, Counted
<1>2. CountInv
  BY <1>1, FS_EmptySet DEF Init, CountInv
<1>3. TypeOK
  BY DEF Init, TypeOK
<1>4. OnceInv /\ CauseInv /\ NilMeansAllNil
  BY GroupAssumption DEF Init, OnceInv, CauseInv, RootCause, NilMeansAllNil, Failed
<1> QED
  BY <1>2, <1>3, <1>4 DEF IInv

LEMMA CountStep == IInv /\ [Next]_vars => wg' \in Nat /\ CountInv'
<1> SUFFICES ASSUME IInv, [Next]_vars PROVE wg' \in Nat /\ CountInv'
  OBVIOUS
<1>0. wg \in Nat /\ CountInv /\ pc \in [Tasks -> {"new", "run", "do", "cancel", "leave", "done"}]
  BY DEF IInv, TypeOK
<1>1. ASSUME NEW t \in Tasks, Go(t) PROVE wg' \in Nat /\ CountInv'
  <2>1. t \notin Counted /\ Counted' = Counted \cup {t}
    BY <1>0, <1>1 DEF Go, Counted
  <2>2. wg' = wg + 1 /\ waiter' = waiter
    BY <1>1 DEF Go
  <2>3. waiter # "after"
    BY <1>0, <1>1 DEF Go, CountInv, Counted
  <2> QED
    BY <1>0, <2>1, <2>2, <2>3, CountFacts DEF CountInv
<1>2. ASSUME NEW t \in Tasks, Done(t) PROVE wg' \in Nat /\ CountInv'
  <2>1. t \in Counted /\ Counted' = Counted \ {t}
    BY <1>0, <1>2 DEF Done, Counted
  <2>2. wg' = wg - 1 /\ waiter' = waiter
    BY <1>2 DEF Done
  <2>3. IsFiniteSet(Counted \ {t})
    BY CountFacts, FS_RemoveElement
  <2>4. Cardinality(Counted \ {t}) \in Nat
    BY <2>3, FS_CardinalityType
  <2> QED
    BY <1>0, <2>1, <2>2, <2>4, CountFacts DEF CountInv
<1>3. ASSUME NEW t \in Tasks,
             \/ ReturnNil(t) \/ \E e \in {"own", "ctx"} : ReturnErr(t, e)
             \/ DoEnter(t) \/ DoCancel(t) \/ DoSkip(t)
      PROVE  wg' \in Nat /\ CountInv'
  <2>1. UNCHANGED <<wg, waiter>>
    BY <1>3 DEF ReturnNil, ReturnErr, DoEnter, DoCancel, DoSkip
  <2>2. Counted' = Counted
    BY <1>0, <1>3 DEF ReturnNil, ReturnErr, DoEnter, DoCancel, DoSkip, Counted
  <2> QED
    BY <1>0, <2>1, <2>2 DEF CountInv
<1>4. CASE WaitReturns
  <2>1. Counted' = Counted /\ wg' = wg /\ wg = 0
    BY <1>4 DEF WaitReturns, Counted
  <2> QED
    BY <1>0, <2>1, CountFacts DEF CountInv
<1>5. CASE CallWait \/ ParentDone \/ Terminated \/ UNCHANGED vars
  <2>1. Counted' = Counted /\ wg' = wg /\ (waiter' = "after" => waiter = "after")
    BY <1>5 DEF CallWait, ParentDone, Terminated, vars, Counted
  <2> QED
    BY <1>0, <2>1 DEF CountInv
<1> QED
  BY <1>1, <1>2, <1>3, <1>4, <1>5 DEF Next, Task, Do

\* All but the count: errOnce, the error and the context.
LEMMA ErrorStep ==
  IInv /\ [Next]_vars => TypeOK' /\ OnceInv' /\ CauseInv' /\ NilMeansAllNil'
<1> DEFINE Goal == TypeOK /\ OnceInv /\ CauseInv /\ NilMeansAllNil
<1> SUFFICES ASSUME IInv, [Next]_vars PROVE Goal'
  OBVIOUS
<1>0. wg' \in Nat
  BY CountStep
<1>a. waiter = "after" => \A t \in Tasks : pc[t] \in {"new", "done"}
  BY DEF IInv, TypeOK, CountInv, Counted
<1> USE GroupAssumption
    DEF IInv, TypeOK, OnceInv, CauseInv, RootCause, NilMeansAllNil, Failed
<1>1. ASSUME NEW t \in Tasks, Go(t) PROVE Goal'
  BY <1>0, <1>1, <1>a DEF Go
<1>2. ASSUME NEW t \in Tasks, ReturnNil(t) PROVE Goal'
  BY <1>0, <1>2, <1>a DEF ReturnNil
<1>3. ASSUME NEW t \in Tasks, NEW e \in {"own", "ctx"}, ReturnErr(t, e) PROVE Goal'
  <2>1. waiter # "after" /\ err # t
    BY <1>3, <1>a DEF ReturnErr
  <2> QED
    BY <1>0, <1>3, <2>1 DEF ReturnErr
<1>4. ASSUME NEW t \in Tasks, DoEnter(t) PROVE Goal'
  BY <1>0, <1>4, <1>a DEF DoEnter
<1>5. ASSUME NEW t \in Tasks, DoCancel(t) PROVE Goal'
  BY <1>0, <1>5, <1>a DEF DoCancel, cancelled
<1>6. ASSUME NEW t \in Tasks, DoSkip(t) PROVE Goal'
  BY <1>0, <1>6, <1>a DEF DoSkip
<1>7. ASSUME NEW t \in Tasks, Done(t) PROVE Goal'
  BY <1>0, <1>7, <1>a DEF Done
<1>8. CASE WaitReturns
  <2>1. \A t \in Tasks : pc[t] \in {"new", "done"}
    BY <1>8, CountFacts DEF WaitReturns, CountInv, Counted
  <2> QED
    BY <1>0, <1>8, <2>1 DEF WaitReturns, cancelled
<1>9. CASE CallWait \/ ParentDone
  BY <1>0, <1>9 DEF CallWait, ParentDone
<1>10. CASE Terminated \/ UNCHANGED vars
  BY <1>10 DEF Terminated, vars
<1> QED
  BY <1>1, <1>2, <1>3, <1>4, <1>5, <1>6, <1>7, <1>8, <1>9, <1>10 DEF Next, Task, Do

LEMMA InvStep == IInv /\ [Next]_vars => IInv'
BY CountStep, ErrorStep DEF IInv

\* IInv is an invariant of the group.
THEOREM Invariance == Spec => []IInv
BY InitInv, InvStep, PTL DEF Spec

-----------------------------------------------------------------------------
(* The properties.                                                         *)

\* Type correctness: the counter of the WaitGroup never becomes negative.
THEOREM TypeCorrect == Spec => []TypeOK
<1>1. IInv => TypeOK
  BY DEF IInv
<1> QED
  BY Invariance, <1>1, PTL

\* Wait returns only after every function given to Go.
THEOREM WaitIsComplete == Spec => []WaitsForAll
<1>1. IInv => WaitsForAll
  BY DEF IInv, CountInv, WaitsForAll
<1> QED
  BY Invariance, <1>1, PTL

\* The error of the group is no echo of its own cancellation.
THEOREM CauseIsRoot == Spec => []RootCause
<1>1. IInv => RootCause
  BY DEF IInv, CauseInv
<1> QED
  BY Invariance, <1>1, PTL

\* Wait returns nil iff no function failed, and the first error otherwise.
THEOREM NilIsTrue == Spec => []NilMeansAllNil
<1>1. IInv => NilMeansAllNil
  BY DEF IInv
<1> QED
  BY Invariance, <1>1, PTL

\* Only the first caller of errOnce.Do writes g.err.
LEMMA ErrStays == IInv /\ [Next]_vars /\ err # NoErr => err' = err
<1> SUFFICES ASSUME IInv, [Next]_vars, err # NoErr PROVE err' = err
  OBVIOUS
<1>1. ASSUME NEW t \in Tasks PROVE ~DoEnter(t)
  BY DEF DoEnter, IInv, OnceInv
<1> QED
  BY <1>1 DEF Next, Task, Do, Go, ReturnNil, ReturnErr, DoCancel, DoSkip, Done,
              CallWait, WaitReturns, ParentDone, Terminated, vars

\* g.err is written once.
THEOREM ErrorIsStable == Spec => FirstErrorStays
<1>1. IInv /\ [Next]_vars => [err # NoErr => err' = err]_vars
  BY ErrStays
<1> QED
  BY Invariance, <1>1, PTL DEF Spec, FirstErrorStays
=============================================================================
