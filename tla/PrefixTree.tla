----------------------------- MODULE PrefixTree -----------------------------
(***************************************************************************)
(* The tree of rpc/mux.go that PrefixMatcher, HTTP1Fast and TLS match      *)
(* with.  A string is a sequence of bytes, and the strings of a tree are a *)
(* set: their order makes no difference to it, and of a string given twice *)
(* the node made of both is terminal and has no children, as the leaf made *)
(* of one.  nil and the empty map are the empty sequence.                  *)
(***************************************************************************)
EXTENDS Naturals, Sequences, SequencesExt

CONSTANT Bytes

Strings == {strs \in SUBSET Seq(Bytes) : IsFiniteSet(strs)}

\* Fault, substituted for maxDepth: the longest string fills the buffer.
maxDepthTight(strs) == Max({0} \cup {Len(s) : s \in strs})

\* One byte more than the longest string, to tell it from its extensions.
maxDepth(strs) == 1 + Max({0} \cup {Len(s) : s \in strs})

\* What is left of each string after the longest common prefix, and after the
\* byte that follows it.
splitPrefix(strs) ==
  LET prefix == LongestCommonPrefix(strs)
  IN [prefix |-> prefix, rest |-> {SubSeq(s, Len(prefix) + 1, Len(s)) : s \in strs}]
nexts(rest, first) == {Tail(s) : s \in {r \in rest \ {<< >>} : Head(r) = first}}

leaf(prefix) == [prefix |-> prefix, terminal |-> TRUE, next |-> << >>]

newNode[strs \in Strings] ==
  IF strs = {} THEN leaf(<< >>)
  ELSE IF \E s \in strs : strs = {s} THEN leaf(CHOOSE s \in strs : TRUE)
  ELSE LET split == splitPrefix(strs)
       IN [prefix   |-> split.prefix,
           terminal |-> << >> \in split.rest,
           next     |-> [first \in {Head(s) : s \in split.rest \ {<< >>}} |->
                           newNode[nexts(split.rest, first)]]]

(***************************************************************************)
(* ptNode.match: the whole of b, or if prefix holds a beginning of it.  It *)
(* calls itself last, with a child and what follows in b, so the calls are *)
(* a sequence; one that finds no child is the last.                        *)
(***************************************************************************)
child(call) ==
  LET n == call.node
      l == Len(n.prefix)
  IN IF /\ IsPrefix(n.prefix, call.b) /\ l < Len(call.b)
        /\ call.b[l + 1] \in DOMAIN n.next
     THEN [node |-> n.next[call.b[l + 1]], b |-> SubSeq(call.b, l + 2, Len(call.b))]
     ELSE call
calls(root, b) ==
  LET call[i \in Nat] == IF i = 0 THEN [node |-> root, b |-> b] ELSE child(call[i - 1])
  IN call
accepts(call, prefix) ==
  /\ call.node.terminal /\ IsPrefix(call.node.prefix, call.b)
  /\ prefix \/ Len(call.node.prefix) = Len(call.b)
match(root, b, prefix) == \E i \in 0..Len(b) : accepts(calls(root, b)[i], prefix)
=============================================================================
