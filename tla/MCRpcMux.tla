------------------------------ MODULE MCRpcMux ------------------------------
(* Two listeners as in example/gotil-serve/main.go, the second with two    *)
(* matchers, and three clients.                                            *)
EXTENDS RpcMux

CONSTANTS http, either, noise

\* A prefix matcher wants need chunks and is content with least.
Prefix(need, least) == [need |-> need, least |-> least, full |-> TRUE]
Parser(need) == [need |-> need, least |-> need, full |-> TRUE]
No(need) == [need |-> need, least |-> need, full |-> FALSE]

MCSs == <<1, 2, 2>>
\* http: the prefix matcher of listener 1 takes it, early if a read fails.
\* either: the parser of listener 1 comes first, but wants more than the
\* prefix matcher of listener 2.  noise: nobody wants it.
MCSniffs ==
  [c \in Conns |->
     CASE c = http   -> <<Prefix(2, 1), No(1), No(0)>>
       [] c = either -> <<Parser(2), No(1), Prefix(1, 1)>>
       [] c = noise  -> <<No(1), No(0), No(1)>>]
=============================================================================
