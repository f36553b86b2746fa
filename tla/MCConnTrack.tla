---------------------------- MODULE MCConnTrack ----------------------------
(***************************************************************************)
(* Two dialed connections under one name, given as an option to the first  *)
(* dialer and by the context to the default dialer of the second, one      *)
(* accepted connection, three calls of Close, and a wrapped listener with  *)
(* two wrapped dialers.                                                    *)
(***************************************************************************)
EXTENDS ConnTrack, TLC

CONSTANTS d1, d2, s1, app, w1, w2, w3

MCOptFuncs == [c \in Conns |-> IF c = d2 THEN {} ELSE {"WithTracing"}]
MCWithName == [c \in Conns |-> IF c = d1 THEN app ELSE NoName]
MCCtxName == [c \in Conns |-> IF c = d2 THEN app ELSE NoName]
MCWrapKind == [w \in Wraps |-> IF w = w1 THEN "listener" ELSE "dialer"]
Symmetry == Permutations(Closers)
=============================================================================
