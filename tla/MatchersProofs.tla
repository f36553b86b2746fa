--------------------------- MODULE MatchersProofs ---------------------------
(***************************************************************************)
(* Proofs about the matchers of rpc/mux.go: the prefix tree accepts what   *)
(* its strings promise, for every finite set of strings and every stream,  *)
(* and every verdict of a matcher is right.                                *)
(*                                                                         *)
(* newNode and the calls of match are recursive.  That their equations     *)
(* have solutions, and what the solutions compute, is proved by induction, *)
(* the one on sets of naturals that WFMin gives: by it a property holds of *)
(* every string length, hence of every set of strings that is bounded.     *)
(***************************************************************************)
EXTENDS Matchers, FiniteSetTheorems, SequenceTheorems, WellFoundedInduction, TLAPS

-----------------------------------------------------------------------------
(* Induction, and the least and the greatest element of a set of naturals. *)

Less == {ss \in Nat \X Nat : ss[1] < ss[2]}

\* The order of the naturals is well founded.
LEMMA LessWellFounded == IsWellFoundedOn(Less, Nat)
BY NatLessThanWellFounded DEF OpToRel, Less

\* A set of naturals has a least element.
LEMMA Least ==
  ASSUME NEW S \in SUBSET Nat, S # {}
  PROVE  \E n \in S : \A m \in S : n <= m
<1>1. PICK n \in S : \A m \in S : <<m, n>> \notin Less
  BY LessWellFounded, WFMin
<1>2. \A m \in S : ~(m < n)
  <2> SUFFICES ASSUME NEW m \in S, m < n PROVE <<m, n>> \in Less
    BY <1>1
  <2>1. m \in Nat /\ n \in Nat
    OBVIOUS
  <2> QED
    BY <2>1 DEF Less
<1> QED
  BY <1>2

\* Induction, with a set in place of a predicate.
LEMMA SetInduction ==
  ASSUME NEW S, 0 \in S, \A n \in Nat : n \in S => n + 1 \in S
  PROVE  Nat \subseteq S
<1> SUFFICES ASSUME Nat \ S # {} PROVE FALSE
  OBVIOUS
<1>1. PICK n \in Nat \ S : \A m \in Nat \ S : n <= m
  BY Least
<1>2. n # 0 /\ n - 1 \in Nat /\ n - 1 \notin Nat \ S
  BY <1>1
<1> QED
  BY <1>2

\* Min of a set of naturals is its least element.
LEMMA MinIsLeast ==
  ASSUME NEW S \in SUBSET Nat, S # {}
  PROVE  Min(S) \in S /\ \A m \in S : Min(S) <= m
<1>1. \E n \in S : \A m \in S : n <= m
  BY Least
<1> QED
  BY <1>1 DEF Min

\* A bounded set of naturals has a greatest element.
LEMMA Greatest ==
  ASSUME NEW S \in SUBSET Nat, S # {}, NEW bound \in Nat, \A m \in S : m <= bound
  PROVE  \E n \in S : \A m \in S : m <= n
<1> DEFINE Above == {n \in Nat : \A m \in S : m <= n}
<1>1. bound \in Above /\ Above \in SUBSET Nat
  OBVIOUS
<1>2. PICK n \in Above : \A k \in Above : n <= k
  <2> HIDE DEF Above
  <2> QED
    BY <1>1, Least
<1>3. n \in S
  <2> SUFFICES ASSUME n \notin S PROVE FALSE
    OBVIOUS
  <2>1. PICK x : x \in S
    OBVIOUS
  <2>2. n \in Nat /\ \A m \in S : m \in Nat /\ m < n
    BY <2>1
  <2>3. n - 1 \in Above
    BY <2>1, <2>2
  <2> QED
    BY <1>2, <2>2, <2>3
<1> QED
  BY <1>3

\* Finite sets of naturals have a greatest element.
LEMMA FiniteMax ==
  ASSUME NEW S \in SUBSET Nat, S # {}, IsFiniteSet(S)
  PROVE  Max(S) \in S /\ \A m \in S : m <= Max(S)
<1> DEFINE c == Cardinality(S)
<1>1. PICK f \in [1..c -> S] : \A x \in S : \E i \in 1..c : f[i] = x
  BY FS_CardinalityType DEF ExistsBijection, Bijection, Surjection
<1>c. c \in Nat
  BY FS_CardinalityType
<1> HIDE DEF c
<1> DEFINE T == {n \in Nat : n <= c => \E b \in Nat : \A i \in 1..n : f[i] <= b}
<1>2. 0 \in T
  OBVIOUS
<1>3. ASSUME NEW n \in Nat, n \in T PROVE n + 1 \in T
  <2> SUFFICES ASSUME n + 1 <= c PROVE \E b \in Nat : \A i \in 1..(n + 1) : f[i] <= b
    OBVIOUS
  <2>1. PICK b \in Nat : \A i \in 1..n : f[i] <= b
    BY <1>c, <1>3
  <2>2. ASSUME NEW i \in 1..(n + 1) PROVE f[i] \in Nat /\ (i \in 1..n \/ i = n + 1)
    <3>1. i \in 1..c
      BY <1>c
    <3>2. f[i] \in Nat
      BY <3>1
    <3>3. i \in 1..n \/ i = n + 1
      OBVIOUS
    <3> QED
      BY <3>2, <3>3
  <2>3. CASE f[n + 1] <= b
    BY <2>1, <2>2, <2>3
  <2>4. CASE b <= f[n + 1]
    <3>1. f[n + 1] \in Nat /\ \A i \in 1..(n + 1) : f[i] <= f[n + 1]
      BY <2>1, <2>2, <2>4
    <3> QED
      BY <3>1
  <2> QED
    BY <2>2, <2>3, <2>4
<1>4. c \in T
  <2> HIDE DEF T
  <2> QED
    BY <1>2, <1>3, <1>c, SetInduction
<1>5. PICK b \in Nat : \A i \in 1..c : f[i] <= b
  BY <1>4, <1>c
<1>6. \A m \in S : m <= b
  BY <1>1, <1>5
<1>7. \E n \in S : \A m \in S : m <= n
  BY <1>6, Greatest
<1> QED
  BY <1>7 DEF Max

-----------------------------------------------------------------------------
\* The image of a finite set is finite.
LEMMA FiniteImage ==
  ASSUME NEW S, IsFiniteSet(S), NEW f, DOMAIN f = S, f = [x \in S |-> f[x]]
  PROVE  IsFiniteSet({f[x] : x \in S})
<1> DEFINE T == {f[x] : x \in S}
<1>1. f \in Surjection(S, T)
  <2>1. f \in [S -> T] /\ \A t \in T : \E x \in S : f[x] = t
    OBVIOUS
  <2> QED
    BY <2>1 DEF Surjection
<1> QED
  BY <1>1, FS_Surjection

\* bytes.Equal on a beginning, element by element.
LEMMA PrefixIs ==
  ASSUME NEW X, NEW s \in Seq(X), NEW t \in Seq(X)
  PROVE  IsPrefix(s, t) <=> Len(s) <= Len(t) /\ \A i \in 1..Len(s) : s[i] = t[i]
<1>1. ASSUME Len(s) <= Len(t)
      PROVE  /\ SubSeq(s, 1, Len(s)) \in Seq(X) /\ SubSeq(t, 1, Len(s)) \in Seq(X)
             /\ Len(SubSeq(s, 1, Len(s))) = Len(s) /\ Len(SubSeq(t, 1, Len(s))) = Len(s)
             /\ \A i \in 1..Len(s) : SubSeq(s, 1, Len(s))[i] = s[i] /\ SubSeq(t, 1, Len(s))[i] = t[i]
  BY <1>1
<1>2. ASSUME Len(s) <= Len(t), \A i \in 1..Len(s) : s[i] = t[i]
      PROVE  SubSeq(s, 1, Len(s)) = SubSeq(t, 1, Len(s))
  BY <1>1, <1>2
<1> QED
  BY <1>1, <1>2 DEF IsPrefix

\* The empty sequence begins every sequence.
LEMMA EmptyPrefix == ASSUME NEW s \in Seq(Bytes) PROVE IsPrefix(<< >>, s)
<1>1. << >> \in Seq(Bytes) /\ Len(<< >>) = 0 /\ Len(s) \in Nat
  OBVIOUS
<1>2. SubSeq(s, 1, 0) = << >> /\ SubSeq(<< >>, 1, 0) = << >> /\ 0 <= Len(s)
  BY <1>1
<1> QED
  BY <1>1, <1>2 DEF IsPrefix

\* The prefix of splitPrefix begins every string.
LEMMA CommonPrefix ==
  ASSUME NEW strs \in Strings, strs # {}
  PROVE  /\ LongestCommonPrefix(strs) \in Seq(Bytes)
         /\ \A s \in strs : IsPrefix(LongestCommonPrefix(strs), s)
<1> DEFINE C == CommonPrefixes(strs)
           L == {Len(p) : p \in C}
<1>1. PICK s0 \in strs : TRUE
  OBVIOUS
<1>2. \A p \in C : p \in Seq(Bytes) /\ \A s \in strs : IsPrefix(p, s)
  BY DEF CommonPrefixes, Prefixes, Strings
<1>3. << >> \in C
  <2>1. << >> \in Prefixes(s0)
    <3>1. 0 \in 0..Len(s0) /\ SubSeq(s0, 1, 0) = << >>
      BY DEF Strings
    <3> QED
      BY <3>1 DEF Prefixes
  <2>2. \A s \in strs : IsPrefix(<< >>, s)
    BY EmptyPrefix DEF Strings
  <2> QED
    BY <1>1, <2>1, <2>2 DEF CommonPrefixes
<1>4. \E p \in C : \A q \in C : Len(q) <= Len(p)
  <2>1. L \in SUBSET Nat /\ Len(s0) \in Nat /\ L # {} /\ \A m \in L : m <= Len(s0)
    <3> HIDE DEF C
    <3>1. \A p \in C : Len(p) \in Nat /\ Len(p) <= Len(s0)
      BY <1>1, <1>2 DEF IsPrefix
    <3>2. Len(s0) \in Nat
      BY DEF Strings
    <3> QED
      BY <1>3, <3>1, <3>2
  <2>2. PICK n \in L : \A m \in L : m <= n
    <3> HIDE DEF L
    <3> QED
      BY <2>1, Greatest
  <2> QED
    BY <2>2
<1>5. LongestCommonPrefix(strs) \in C
  <2> HIDE DEF C
  <2>1. LongestCommonPrefix(strs) = CHOOSE p \in C : \A q \in C : Len(q) <= Len(p)
    BY DEF LongestCommonPrefix, C
  <2> QED
    BY <1>4, <2>1
<1> QED
  BY <1>2, <1>5

-----------------------------------------------------------------------------
Rest(strs) == splitPrefix(strs).rest
Firsts(strs) == {Head(s) : s \in Rest(strs) \ {<< >>}}
Level(n) == {strs \in Strings : \A s \in strs : Len(s) <= n}

\* The rest of splitPrefix: what follows the prefix in each string.
LEMMA RestIs ==
  ASSUME NEW strs \in Strings, strs # {}
  PROVE  LET l == Len(LongestCommonPrefix(strs)) IN
         /\ Rest(strs) = {SubSeq(s, l + 1, Len(s)) : s \in strs}
         /\ \A s \in strs :
              /\ s \in Seq(Bytes) /\ l \in 0..Len(s)
              /\ SubSeq(s, l + 1, Len(s)) \in Seq(Bytes)
              /\ Len(SubSeq(s, l + 1, Len(s))) = Len(s) - l
              /\ \A i \in 1..(Len(s) - l) : SubSeq(s, l + 1, Len(s))[i] = s[l + i]
         /\ Rest(strs) \in Strings
<1> DEFINE p == LongestCommonPrefix(strs)
           l == Len(p)
<1>1. p \in Seq(Bytes) /\ \A s \in strs : IsPrefix(p, s)
  BY CommonPrefix
<1> HIDE DEF p
<1>2. Rest(strs) = {SubSeq(s, l + 1, Len(s)) : s \in strs}
  BY DEF Rest, splitPrefix, p
<1>3. ASSUME NEW s \in strs
      PROVE  /\ s \in Seq(Bytes) /\ l \in 0..Len(s)
             /\ SubSeq(s, l + 1, Len(s)) \in Seq(Bytes)
             /\ Len(SubSeq(s, l + 1, Len(s))) = Len(s) - l
             /\ \A i \in 1..(Len(s) - l) : SubSeq(s, l + 1, Len(s))[i] = s[l + i]
  <2>1. s \in Seq(Bytes) /\ l \in Nat /\ l <= Len(s)
    BY <1>1 DEF Strings, IsPrefix
  <2> HIDE DEF l
  <2> QED
    BY <2>1
<1>4. Rest(strs) \in Strings
  <2> DEFINE f == [s \in strs |-> SubSeq(s, l + 1, Len(s))]
  <2>1. IsFiniteSet({f[s] : s \in strs})
    BY FiniteImage DEF Strings
  <2>2. {f[s] : s \in strs} = Rest(strs)
    BY <1>2
  <2> QED
    BY <1>2, <1>3, <2>1, <2>2 DEF Strings
<1> QED
  BY <1>2, <1>3, <1>4 DEF p

\* nexts holds the tails of the strings that begin with x, and no others.
LEMMA NextsAre ==
  ASSUME NEW rest \in Strings, NEW x \in {Head(s) : s \in rest \ {<< >>}}
  PROVE  /\ nexts(rest, x) \in Strings /\ nexts(rest, x) # {}
         /\ \A t \in nexts(rest, x) : \E s \in rest :
              s # << >> /\ s[1] = x /\ t = Tail(s)
         /\ \A s \in rest : s # << >> /\ s[1] = x => Tail(s) \in nexts(rest, x)
<1> DEFINE R == {r \in rest \ {<< >>} : Head(r) = x}
<1>1. nexts(rest, x) = {Tail(s) : s \in R}
  BY DEF nexts
<1>2. \A r \in rest \ {<< >>} : r \in Seq(Bytes) /\ Head(r) = r[1] /\ Tail(r) \in Seq(Bytes)
  BY DEF Strings
<1>3. IsFiniteSet(R)
  BY FS_Subset DEF Strings
<1>4. IsFiniteSet({Tail(s) : s \in R})
  <2> DEFINE f == [s \in R |-> Tail(s)]
  <2>1. IsFiniteSet({f[s] : s \in R})
    <3> HIDE DEF R
    <3> QED
      BY <1>3, FiniteImage
  <2>2. {f[s] : s \in R} = {Tail(s) : s \in R}
    OBVIOUS
  <2> QED
    BY <2>1, <2>2
<1> QED
  BY <1>1, <1>2, <1>4 DEF Strings

\* The strings behind a byte are shorter than those in front of it.
LEMMA Children ==
  ASSUME NEW strs \in Strings, strs # {}, NEW n \in Nat, strs \in Level(n),
         NEW x \in Firsts(strs)
  PROVE  n # 0 /\ nexts(Rest(strs), x) \in Level(n - 1)
<1>1. Rest(strs) \in Strings /\ \A r \in Rest(strs) : r \in Seq(Bytes) /\ Len(r) <= n
  BY RestIs DEF Level, Strings
<1>2. PICK r \in Rest(strs) : r # << >>
  BY DEF Firsts
<1>3. n # 0
  BY <1>1, <1>2
<1>4. ASSUME NEW t \in nexts(Rest(strs), x) PROVE Len(t) <= n - 1
  <2>1. PICK s \in Rest(strs) : s # << >> /\ t = Tail(s)
    BY <1>1, NextsAre DEF Firsts
  <2> QED
    BY <1>1, <2>1
<1> QED
  BY <1>1, <1>3, <1>4, NextsAre DEF Level, Firsts

-----------------------------------------------------------------------------
NodeWith(strs, next) ==
  IF strs = {} THEN leaf(<< >>)
  ELSE IF \E s \in strs : strs = {s} THEN leaf(CHOOSE s \in strs : TRUE)
  ELSE [prefix |-> LongestCommonPrefix(strs), terminal |-> << >> \in Rest(strs), next |-> next]
Node(g, strs) == NodeWith(strs, [x \in Firsts(strs) |-> g[nexts(Rest(strs), x)]])

Solves(g, S) == g = [strs \in S |-> Node(g, strs)]

\* A node depends on the nodes of shorter strings only.
LEMMA NodeIsLocal ==
  ASSUME NEW n \in Nat, NEW strs \in Level(n), NEW g, NEW h,
         n # 0 => \A T \in Level(n - 1) : g[T] = h[T]
  PROVE  Node(g, strs) = Node(h, strs)
<1>1. CASE strs = {}
  BY <1>1 DEF Node, NodeWith
<1>2. CASE strs # {}
  <2>1. ASSUME NEW x \in Firsts(strs) PROVE g[nexts(Rest(strs), x)] = h[nexts(Rest(strs), x)]
    BY <1>2, Children DEF Level
  <2>2. [x \in Firsts(strs) |-> g[nexts(Rest(strs), x)]]
          = [x \in Firsts(strs) |-> h[nexts(Rest(strs), x)]]
    BY <2>1
  <2> QED
    BY <1>2, <2>2, Zenon DEF Node
<1> QED
  BY <1>1, <1>2

\* The sets of strings of length n, for n larger and larger.
LEMMA Levels ==
  /\ \A n \in Nat : Level(n) \subseteq Strings
  /\ \A m, n \in Nat : m <= n => Level(m) \subseteq Level(n)
BY DEF Level, Strings

\* A solution satisfies its equation everywhere.
LEMMA Solved ==
  ASSUME NEW g, NEW S, Solves(g, S), NEW strs \in S
  PROVE  g[strs] = Node(g, strs)
<1> DEFINE h == [T \in S |-> Node(g, T)]
<1>1. h[strs] = Node(g, strs)
  OBVIOUS
<1>2. g = h
  BY DEF Solves
<1> QED
  BY <1>1, <1>2, Zenon

\* Two solutions agree where both are defined.
LEMMA SolutionsAgree ==
  ASSUME NEW m \in Nat, NEW n \in Nat, m <= n,
         NEW g, Solves(g, Level(m)), NEW h, Solves(h, Level(n))
  PROVE  \A strs \in Level(m) : g[strs] = h[strs]
<1> DEFINE T == {k \in Nat : k <= m => \A strs \in Level(k) : g[strs] = h[strs]}
<1>0. ASSUME NEW k \in Nat, k <= m, NEW strs \in Level(k),
             k # 0 => \A U \in Level(k - 1) : g[U] = h[U]
      PROVE  g[strs] = h[strs]
  <2>1. strs \in Level(m) /\ strs \in Level(n)
    BY <1>0, Levels
  <2>2. g[strs] = Node(g, strs) /\ h[strs] = Node(h, strs)
    BY <2>1, Solved
  <2> QED
    BY <1>0, <2>2, NodeIsLocal
<1>1. 0 \in T
  BY <1>0
<1>2. ASSUME NEW k \in Nat, k \in T PROVE k + 1 \in T
  <2> SUFFICES ASSUME k + 1 <= m, NEW strs \in Level(k + 1) PROVE g[strs] = h[strs]
    OBVIOUS
  <2>1. \A U \in Level((k + 1) - 1) : g[U] = h[U]
    BY <1>2
  <2> QED
    BY <1>0, <2>1
<1>3. m \in T
  <2> HIDE DEF T
  <2> QED
    BY <1>1, <1>2, SetInduction
<1> QED
  BY <1>3

\* The equation of newNode has a solution for strings of every length.
LEMMA SolutionsExist == \A n \in Nat : \E g : Solves(g, Level(n))
<1> DEFINE T == {n \in Nat : \E g : Solves(g, Level(n))}
<1>1. 0 \in T
  <2> DEFINE g == [strs \in Level(0) |-> Node({}, strs)]
  <2>1. \A strs \in Level(0) : Node(g, strs) = Node({}, strs)
    <3> HIDE DEF g
    <3> QED
      BY NodeIsLocal
  <2>2. Solves(g, Level(0))
    BY <2>1 DEF Solves
  <2> QED
    BY <2>2
<1>2. ASSUME NEW n \in Nat, n \in T PROVE n + 1 \in T
  <2>1. PICK g : Solves(g, Level(n))
    BY <1>2
  <2> DEFINE h == [strs \in Level(n + 1) |-> Node(g, strs)]
  <2>2. \A strs \in Level(n) : h[strs] = g[strs]
    BY <2>1, Solved, Levels
  <2>3. \A strs \in Level(n + 1) : Node(h, strs) = Node(g, strs)
    <3> HIDE DEF h
    <3>1. \A strs \in Level((n + 1) - 1) : h[strs] = g[strs]
      BY <2>2
    <3> QED
      BY <3>1, NodeIsLocal
  <2>4. Solves(h, Level(n + 1))
    BY <2>3 DEF Solves
  <2> QED
    BY <2>4
<1>3. Nat \subseteq T
  <2> HIDE DEF T
  <2> QED
    BY <1>1, <1>2, SetInduction
<1> QED
  BY <1>3

\* The strings of a finite set are bounded.
LEMMA Bounded == ASSUME NEW strs \in Strings PROVE \E n \in Nat : strs \in Level(n)
<1> DEFINE f == [s \in strs |-> Len(s)]
           S == {f[s] : s \in strs}
<1>1. S \in SUBSET Nat /\ \A s \in strs : Len(s) \in S
  BY DEF Strings
<1>2. IsFiniteSet(S)
  BY FiniteImage DEF Strings
<1>3. CASE strs = {}
  BY <1>3 DEF Level
<1>4. CASE strs # {}
  <2>1. S # {}
    BY <1>4
  <2> HIDE DEF S
  <2>2. Max(S) \in Nat /\ \A m \in S : m <= Max(S)
    BY <1>1, <1>2, <2>1, FiniteMax
  <2> QED
    BY <1>1, <2>2 DEF Level
<1> QED
  BY <1>3, <1>4

\* newNode is what its equation says.
LEMMA NewNode == \A strs \in Strings : newNode[strs] = Node(newNode, strs)
<1> DEFINE G(n) == CHOOSE g : Solves(g, Level(n))
           bound(strs) == CHOOSE n \in Nat : strs \in Level(n)
           F == [strs \in Strings |-> G(bound(strs))[strs]]
<1>1. \A n \in Nat : Solves(G(n), Level(n))
  BY SolutionsExist
<1>2. \A strs \in Strings : bound(strs) \in Nat /\ strs \in Level(bound(strs))
  BY Bounded
<1> HIDE DEF G, bound
<1>3. ASSUME NEW n \in Nat, NEW strs \in Level(n) PROVE G(n)[strs] = F[strs]
  <2>1. strs \in Strings /\ F[strs] = G(bound(strs))[strs]
    BY Levels
  <2>2. bound(strs) \in Nat /\ strs \in Level(bound(strs))
    BY <1>2, <2>1
  <2>3. G(bound(strs))[strs] = G(n)[strs]
    BY <1>1, <2>2, SolutionsAgree
  <2> QED
    BY <2>1, <2>3
<1>4. ASSUME NEW strs \in Strings PROVE F[strs] = Node(F, strs)
  <2> DEFINE n == bound(strs)
  <2>1. n \in Nat /\ strs \in Level(n)
    BY <1>2
  <2>2. F[strs] = G(n)[strs]
    OBVIOUS
  <2> HIDE DEF n, F
  <2>3. G(n)[strs] = Node(G(n), strs)
    BY <1>1, <2>1, Solved
  <2>4. n # 0 => \A T \in Level(n - 1) : G(n)[T] = F[T]
    <3>1. ASSUME n # 0, NEW T \in Level(n - 1) PROVE T \in Level(n)
      BY <2>1, <3>1, Levels
    <3> QED
      BY <1>3, <2>1, <3>1
  <2>5. Node(G(n), strs) = Node(F, strs)
    BY <2>1, <2>4, NodeIsLocal
  <2> QED
    BY <2>2, <2>3, <2>5
<1>5. Solves(F, Strings)
  <2> HIDE DEF F
  <2>1. DOMAIN F = Strings /\ F = [strs \in Strings |-> F[strs]]
    BY DEF F
  <2> QED
    BY <1>4, <2>1 DEF Solves
<1>6. newNode = CHOOSE g : Solves(g, Strings)
  BY DEF newNode, Solves, Node, NodeWith, Rest, Firsts, splitPrefix
<1>7. Solves(newNode, Strings)
  BY <1>5, <1>6
<1> QED
  BY <1>7, Solved

-----------------------------------------------------------------------------
Fits(s, b, p) == IsPrefix(s, b) /\ (p \/ Len(s) = Len(b))
Accepts(strs, b, p) ==
  IF strs = {} THEN p \/ b = << >> ELSE \E s \in strs : Fits(s, b, p)

\* The three shapes of a node.
LEMMA NodeShapes ==
  ASSUME NEW strs \in Strings
  PROVE  /\ strs = {} => newNode[strs] = leaf(<< >>)
         /\ \A s : strs = {s} => newNode[strs] = leaf(s)
         /\ strs # {} /\ (\A s \in strs : strs # {s}) =>
              newNode[strs] = [prefix   |-> LongestCommonPrefix(strs),
                               terminal |-> << >> \in Rest(strs),
                               next     |-> [x \in Firsts(strs) |-> newNode[nexts(Rest(strs), x)]]]
<1>1. newNode[strs] = Node(newNode, strs)
  BY NewNode
<1>2. ASSUME NEW s, strs = {s} PROVE newNode[strs] = leaf(s)
  <2>1. (CHOOSE t \in strs : TRUE) = s
    BY <1>2
  <2> QED
    BY <1>1, <1>2, <2>1, Zenon DEF Node, NodeWith
<1> QED
  BY <1>1, <1>2, Zenon DEF Node, NodeWith

\* Past a common prefix and the byte after it, s fits b iff what is left does.
LEMMA FitsBehind ==
  ASSUME NEW s \in Seq(Bytes), NEW b \in Seq(Bytes), NEW q \in Seq(Bytes), NEW p \in BOOLEAN,
         IsPrefix(q, s), IsPrefix(q, b), Len(q) < Len(s), Len(q) < Len(b)
  PROVE  Fits(s, b, p) <=>
           /\ s[Len(q) + 1] = b[Len(q) + 1]
           /\ Fits(SubSeq(s, Len(q) + 2, Len(s)), SubSeq(b, Len(q) + 2, Len(b)), p)
<1> DEFINE l == Len(q)
           s1 == SubSeq(s, l + 2, Len(s))
           b1 == SubSeq(b, l + 2, Len(b))
<1>1. l \in Nat /\ Len(s) \in Nat /\ Len(b) \in Nat /\ l < Len(s) /\ l < Len(b)
  OBVIOUS
<1>2. \A i \in 1..l : s[i] = b[i]
  BY PrefixIs
<1> HIDE DEF l
<1>3. /\ s1 \in Seq(Bytes) /\ Len(s1) = Len(s) - l - 1
      /\ \A i \in 1..(Len(s) - l - 1) : s1[i] = s[l + 1 + i]
  BY <1>1
<1>4. /\ b1 \in Seq(Bytes) /\ Len(b1) = Len(b) - l - 1
      /\ \A i \in 1..(Len(b) - l - 1) : b1[i] = b[l + 1 + i]
  BY <1>1
<1> HIDE DEF s1, b1
<1>5. IsPrefix(s1, b1) <=>
        Len(s) <= Len(b) /\ \A i \in 1..(Len(s) - l - 1) : s1[i] = b1[i]
  BY <1>1, <1>3, <1>4, PrefixIs
<1>6. ASSUME IsPrefix(s, b) PROVE s[l + 1] = b[l + 1] /\ IsPrefix(s1, b1)
  <2>1. Len(s) <= Len(b) /\ \A i \in 1..Len(s) : s[i] = b[i]
    BY <1>6, PrefixIs
  <2>2. ASSUME NEW i \in 1..(Len(s) - l - 1) PROVE s1[i] = b1[i]
    <3>1. l + 1 + i \in 1..Len(s) /\ i \in 1..(Len(b) - l - 1)
      BY <1>1, <2>1
    <3> QED
      BY <1>3, <1>4, <2>1, <3>1
  <2> QED
    BY <1>1, <1>5, <2>1, <2>2
<1>7. ASSUME s[l + 1] = b[l + 1], IsPrefix(s1, b1) PROVE IsPrefix(s, b)
  <2>1. Len(s) <= Len(b) /\ \A i \in 1..(Len(s) - l - 1) : s1[i] = b1[i]
    BY <1>5, <1>7
  <2>2. ASSUME NEW i \in 1..Len(s) PROVE s[i] = b[i]
    <3>1. CASE i <= l
      BY <1>1, <1>2, <3>1
    <3>2. CASE i = l + 1
      BY <1>7, <3>2
    <3>3. CASE i > l + 1
      <4> DEFINE j == i - l - 1
      <4>1. j \in 1..(Len(s) - l - 1) /\ j \in 1..(Len(b) - l - 1) /\ l + 1 + j = i
        BY <1>1, <2>1, <3>3
      <4> HIDE DEF j
      <4>2. s1[j] = s[l + 1 + j] /\ b1[j] = b[l + 1 + j]
        BY <1>3, <1>4, <4>1
      <4> QED
        BY <2>1, <4>1, <4>2
    <3> QED
      BY <1>1, <3>1, <3>2, <3>3
  <2> QED
    BY <2>1, <2>2, PrefixIs
<1>8. Len(s) = Len(b) <=> Len(s1) = Len(b1)
  BY <1>1, <1>3, <1>4
<1> QED
  BY <1>6, <1>7, <1>8 DEF Fits, l, s1, b1

-----------------------------------------------------------------------------
First(root, b) == [node |-> root, b |-> b]
Step(g, root, b, i) == IF i = 0 THEN First(root, b) ELSE child(g[i - 1])

AreCalls(g, root, b, n) == \A i \in 0..n : g[i] = Step(g, root, b, i)

\* Two runs of match make the same calls.
LEMMA CallsAgree ==
  ASSUME NEW root, NEW b, NEW m \in Nat, NEW n \in Nat, m <= n, NEW g, NEW h,
         AreCalls(g, root, b, m), AreCalls(h, root, b, n)
  PROVE  g[m] = h[m]
<1> DEFINE T == {i \in Nat : i <= m => g[i] = h[i]}
<1>1. 0 \in T
  BY DEF AreCalls, Step
<1>2. ASSUME NEW i \in Nat, i \in T PROVE i + 1 \in T
  <2> SUFFICES ASSUME i + 1 <= m PROVE g[i + 1] = h[i + 1]
    OBVIOUS
  <2>1. g[i] = h[i]
    BY <1>2
  <2>2. g[i + 1] = child(g[(i + 1) - 1]) /\ h[i + 1] = child(h[(i + 1) - 1])
    BY DEF AreCalls, Step
  <2> QED
    BY <2>1, <2>2
<1>3. m \in T
  <2> HIDE DEF T
  <2> QED
    BY <1>1, <1>2, SetInduction
<1> QED
  BY <1>3

\* There is a run of match of every length.
LEMMA CallsExist ==
  ASSUME NEW root, NEW b
  PROVE  \A n \in Nat : \E g : AreCalls(g, root, b, n)
<1> DEFINE T == {n \in Nat : \E g : AreCalls(g, root, b, n)}
<1>1. 0 \in T
  <2> DEFINE g == [i \in {0} |-> First(root, b)]
  <2>1. g[0] = First(root, b)
    OBVIOUS
  <2>2. \A i \in 0..0 : g[i] = Step(g, root, b, i)
    <3> HIDE DEF g
    <3>1. \A i \in 0..0 : i = 0
      OBVIOUS
    <3> QED
      BY <2>1, <3>1 DEF Step
  <2> HIDE DEF g
  <2> QED
    BY <2>2 DEF AreCalls
<1>2. ASSUME NEW n \in Nat, n \in T PROVE n + 1 \in T
  <2>1. PICK g : \A i \in 0..n : g[i] = Step(g, root, b, i)
    BY <1>2 DEF AreCalls
  <2> DEFINE h == [i \in 0..(n + 1) |-> IF i <= n THEN g[i] ELSE child(g[n])]
  <2>2. (\A i \in 0..n : h[i] = g[i]) /\ h[n + 1] = child(g[n])
    OBVIOUS
  <2> HIDE DEF h
  <2>3. ASSUME NEW i \in 0..(n + 1) PROVE h[i] = Step(h, root, b, i)
    <3>1. CASE i = n + 1
      <4>1. h[(n + 1) - 1] = g[n] /\ n + 1 # 0
        BY <2>2
      <4> QED
        BY <2>2, <3>1, <4>1 DEF Step
    <3>2. CASE i \in 0..n
      <4>1. h[i] = Step(g, root, b, i)
        BY <2>1, <2>2, <3>2
      <4>2. i # 0 => h[i - 1] = g[i - 1]
        BY <2>2, <3>2
      <4> QED
        BY <4>1, <4>2 DEF Step
    <3> QED
      BY <3>1, <3>2
  <2> QED
    BY <2>3 DEF AreCalls
<1>3. Nat \subseteq T
  <2> HIDE DEF T
  <2> QED
    BY <1>1, <1>2, SetInduction
<1> QED
  BY <1>3

\* The calls of match are what their equation says.
LEMMA Calls ==
  ASSUME NEW root, NEW b
  PROVE  /\ calls(root, b)[0] = First(root, b)
         /\ \A i \in Nat : calls(root, b)[i + 1] = child(calls(root, b)[i])
<1> DEFINE G(n) == CHOOSE g : AreCalls(g, root, b, n)
           F == [n \in Nat |-> G(n)[n]]
<1>1. \A n \in Nat : AreCalls(G(n), root, b, n)
  BY CallsExist
<1> HIDE DEF G
<1>2. \A m, n \in Nat : m <= n => G(m)[m] = G(n)[m]
  BY <1>1, CallsAgree
<1>3. ASSUME NEW n \in Nat PROVE F[n] = Step(F, root, b, n)
  <2>1. F[n] = G(n)[n] /\ G(n)[n] = Step(G(n), root, b, n)
    BY <1>1 DEF AreCalls
  <2>2. n # 0 => F[n - 1] = G(n)[n - 1]
    <3>1. ASSUME n # 0 PROVE n - 1 \in Nat /\ n - 1 <= n
      BY <3>1
    <3> QED
      BY <1>2, <3>1
  <2> QED
    BY <2>1, <2>2 DEF Step
<1>4. F = [n \in Nat |-> Step(F, root, b, n)]
  <2>1. F = [n \in Nat |-> F[n]]
    OBVIOUS
  <2> HIDE DEF F
  <2> QED
    BY <1>3, <2>1
<1> HIDE DEF F
<1>5. calls(root, b) = CHOOSE f : f = [n \in Nat |-> Step(f, root, b, n)]
  BY DEF calls, Step, First
<1> DEFINE C == calls(root, b)
<1>6. C = [n \in Nat |-> Step(C, root, b, n)]
  BY <1>4, <1>5
<1> HIDE DEF C
<1>7. \A n \in Nat : C[n] = Step(C, root, b, n)
  <2> DEFINE D == [n \in Nat |-> Step(C, root, b, n)]
  <2>1. \A n \in Nat : D[n] = Step(C, root, b, n)
    OBVIOUS
  <2> QED
    BY <1>6, <2>1, Zenon
<1>8. C[0] = First(root, b)
  BY <1>7 DEF Step
<1>9. ASSUME NEW i \in Nat PROVE C[i + 1] = child(C[i])
  <2>1. i + 1 \in Nat /\ i + 1 # 0 /\ (i + 1) - 1 = i
    OBVIOUS
  <2>2. C[i + 1] = child(C[(i + 1) - 1])
    BY <1>7, <2>1 DEF Step
  <2> QED
    BY <2>1, <2>2
<1> QED
  BY <1>8, <1>9 DEF C

-----------------------------------------------------------------------------
\* The empty string fits the empty stream, and begins every stream.
LEMMA FitsEmpty == ASSUME NEW b \in Seq(Bytes), NEW p \in BOOLEAN
                   PROVE  Fits(<< >>, b, p) <=> p \/ b = << >>
<1>1. << >> \in Seq(Bytes) /\ Len(<< >>) = 0
  OBVIOUS
<1>2. IsPrefix(<< >>, b)
  BY EmptyPrefix
<1>3. Len(b) = 0 <=> b = << >>
  OBVIOUS
<1> QED
  BY <1>1, <1>2, <1>3 DEF Fits

\* The strings that go on after the common prefix and the byte x of b.
LEMMA NextsFit ==
  ASSUME NEW strs \in Strings, strs # {}, NEW b \in Seq(Bytes), NEW p \in BOOLEAN,
         IsPrefix(LongestCommonPrefix(strs), b), Len(LongestCommonPrefix(strs)) < Len(b)
  PROVE  LET l == Len(LongestCommonPrefix(strs))
             x == b[l + 1]
             c == SubSeq(b, l + 2, Len(b))
         IN (\E s \in strs : Len(s) > l /\ Fits(s, b, p)) <=>
              x \in Firsts(strs) /\ \E t \in nexts(Rest(strs), x) : Fits(t, c, p)
<1> DEFINE q == LongestCommonPrefix(strs)
           l == Len(q)
           x == b[l + 1]
           c == SubSeq(b, l + 2, Len(b))
<1>1. q \in Seq(Bytes) /\ \A s \in strs : IsPrefix(q, s)
  BY CommonPrefix
<1>2. /\ Rest(strs) = {SubSeq(s, l + 1, Len(s)) : s \in strs} /\ Rest(strs) \in Strings
      /\ \A s \in strs :
           /\ s \in Seq(Bytes) /\ l \in 0..Len(s) /\ SubSeq(s, l + 1, Len(s)) \in Seq(Bytes)
           /\ Len(SubSeq(s, l + 1, Len(s))) = Len(s) - l
           /\ \A i \in 1..(Len(s) - l) : SubSeq(s, l + 1, Len(s))[i] = s[l + i]
  BY RestIs
<1>3. IsPrefix(q, b) /\ Len(q) < Len(b)
  OBVIOUS
<1> HIDE DEF q
<1>4. ASSUME NEW s \in strs, Len(s) > l
      PROVE  LET r == SubSeq(s, l + 1, Len(s)) IN
             /\ r \in Rest(strs) /\ r # << >> /\ r[1] = s[l + 1] /\ Head(r) = r[1]
             /\ Tail(r) = SubSeq(s, l + 2, Len(s))
             /\ Fits(s, b, p) <=> s[l + 1] = x /\ Fits(Tail(r), c, p)
  <2> DEFINE r == SubSeq(s, l + 1, Len(s))
             t == SubSeq(s, l + 2, Len(s))
  <2>1. /\ s \in Seq(Bytes) /\ l \in Nat /\ Len(s) \in Nat /\ r \in Seq(Bytes) /\ r \in Rest(strs)
        /\ Len(r) = Len(s) - l /\ \A i \in 1..(Len(s) - l) : r[i] = s[l + i]
    BY <1>2
  <2> HIDE DEF r, l
  <2>2. r # << >> /\ r[1] = s[l + 1] /\ Head(r) = r[1]
    BY <1>4, <2>1
  <2>3. Tail(r) = t
    <3>1. t \in Seq(Bytes) /\ Len(t) = Len(s) - l - 1 /\ \A i \in 1..(Len(s) - l - 1) : t[i] = s[l + 1 + i]
      BY <1>4, <2>1
    <3>2. Tail(r) \in Seq(Bytes) /\ Len(Tail(r)) = Len(s) - l - 1 /\ \A i \in 1..(Len(s) - l - 1) : Tail(r)[i] = r[i + 1]
      BY <1>4, <2>1, <2>2
    <3>3. ASSUME NEW i \in 1..(Len(s) - l - 1) PROVE t[i] = Tail(r)[i]
      <4>1. t[i] = s[l + 1 + i] /\ Tail(r)[i] = r[i + 1]
        BY <3>1, <3>2
      <4>2. i + 1 \in 1..(Len(s) - l) /\ l + (i + 1) = l + 1 + i
        BY <1>4, <2>1
      <4>3. r[i + 1] = s[l + (i + 1)]
        BY <2>1, <4>2
      <4> QED
        BY <4>1, <4>2, <4>3
    <3> HIDE DEF t
    <3> QED
      BY <3>1, <3>2, <3>3
  <2>4. Fits(s, b, p) <=> s[l + 1] = x /\ Fits(t, c, p)
    BY <1>1, <1>3, <1>4, <2>1, FitsBehind DEF l
  <2> QED
    BY <2>1, <2>2, <2>3, <2>4 DEF r
<1>5. ASSUME NEW s \in strs, Len(s) > l, Fits(s, b, p)
      PROVE  x \in Firsts(strs) /\ \E t \in nexts(Rest(strs), x) : Fits(t, c, p)
  <2> DEFINE r == SubSeq(s, l + 1, Len(s))
  <2>1. /\ r \in Rest(strs) /\ r # << >> /\ r[1] = x /\ Head(r) = x /\ Fits(Tail(r), c, p)
    BY <1>4, <1>5
  <2> HIDE DEF r, x, c, l
  <2>2. x \in Firsts(strs)
    BY <2>1 DEF Firsts
  <2>3. Tail(r) \in nexts(Rest(strs), x)
    BY <1>2, <2>1, <2>2, NextsAre DEF Firsts
  <2> QED
    BY <2>1, <2>2, <2>3
<1>6. ASSUME x \in Firsts(strs), NEW t \in nexts(Rest(strs), x), Fits(t, c, p)
      PROVE  \E s \in strs : Len(s) > l /\ Fits(s, b, p)
  <2> HIDE DEF x, c
  <2> HIDE DEF l
  <2>0. x \in {Head(r) : r \in Rest(strs) \ {<< >>}} /\ Rest(strs) \in Strings
    BY <1>2, <1>6 DEF Firsts
  <2>1. PICK r \in Rest(strs) : r # << >> /\ r[1] = x /\ t = Tail(r)
    BY <2>0, NextsAre
  <2>2. PICK s \in strs : r = SubSeq(s, l + 1, Len(s))
    BY <1>2
  <2>3. Len(s) > l
    <3>1. s \in Seq(Bytes) /\ l \in 0..Len(s) /\ r \in Seq(Bytes) /\ Len(r) = Len(s) - l
      BY <1>2, <2>2
    <3> QED
      BY <2>1, <3>1
  <2>4. r[1] = s[l + 1] /\ (Fits(s, b, p) <=> s[l + 1] = x /\ Fits(Tail(r), c, p))
    BY <1>4, <2>2, <2>3
  <2> QED
    BY <1>6, <2>1, <2>3, <2>4
<1>7. (\E s \in strs : Len(s) > l /\ Fits(s, b, p)) <=>
        x \in Firsts(strs) /\ \E t \in nexts(Rest(strs), x) : Fits(t, c, p)
  BY <1>5, <1>6
<1> QED
  BY <1>7 DEF q

\* One call of match: it is the last one and says whether b fits, or the next
\* one is for less of b and the strings behind the byte read.
LEMMA OneCall ==
  ASSUME NEW strs \in Strings, NEW b \in Seq(Bytes), NEW p \in BOOLEAN
  PROVE  LET call == First(newNode[strs], b) IN
         \/ child(call) = call /\ (Accepts(strs, b, p) <=> accepts(call, p))
         \/ \E S \in Strings, c \in Seq(Bytes) :
              /\ child(call) = First(newNode[S], c) /\ Len(c) < Len(b)
              /\ Accepts(strs, b, p) <=> accepts(call, p) \/ Accepts(S, c, p)
<1> DEFINE call == First(newNode[strs], b)
           n == newNode[strs]
<1>0. call.node = n /\ call.b = b
  BY DEF First
<1>a. accepts(call, p) <=> n.terminal /\ Fits(n.prefix, b, p)
  BY <1>0 DEF accepts, Fits
<1>1. ASSUME NEW s \in Seq(Bytes), n = leaf(s), Accepts(strs, b, p) <=> Fits(s, b, p)
      PROVE  child(call) = call /\ (Accepts(strs, b, p) <=> accepts(call, p))
  <2>1. n.prefix = s /\ n.terminal = TRUE /\ n.next = << >>
    BY <1>1 DEF leaf
  <2>2. DOMAIN n.next = {}
    BY <2>1
  <2>3. child(call) = call
    BY <1>0, <2>2 DEF child
  <2> QED
    BY <1>1, <1>a, <2>1, <2>3
<1>2. CASE strs = {}
  <2>1. n = leaf(<< >>)
    BY <1>2, NodeShapes
  <2>2. Accepts(strs, b, p) <=> Fits(<< >>, b, p)
    BY <1>2, FitsEmpty DEF Accepts
  <2>3. << >> \in Seq(Bytes)
    OBVIOUS
  <2> QED
    BY <1>1, <2>1, <2>2, <2>3
<1>3. ASSUME NEW s \in strs, strs = {s}
      PROVE  child(call) = call /\ (Accepts(strs, b, p) <=> accepts(call, p))
  <2>1. n = leaf(s)
    BY <1>3, NodeShapes
  <2>2. Accepts(strs, b, p) <=> Fits(s, b, p)
    BY <1>3 DEF Accepts
  <2>3. s \in Seq(Bytes)
    BY DEF Strings
  <2> QED
    BY <1>1, <2>1, <2>2, <2>3
<1>4. CASE strs # {} /\ \A s \in strs : strs # {s}
  <2> DEFINE q == LongestCommonPrefix(strs)
             l == Len(q)
             x == b[l + 1]
             c == SubSeq(b, l + 2, Len(b))
  <2>1. /\ n.prefix = q /\ n.terminal = (<< >> \in Rest(strs))
        /\ n.next = [y \in Firsts(strs) |-> newNode[nexts(Rest(strs), y)]]
    <3>1. n = [prefix   |-> LongestCommonPrefix(strs),
               terminal |-> << >> \in Rest(strs),
               next     |-> [y \in Firsts(strs) |-> newNode[nexts(Rest(strs), y)]]]
      BY <1>4, NodeShapes
    <3> HIDE DEF n
    <3> QED
      BY <3>1, Zenon
  <2>2. q \in Seq(Bytes) /\ (\A s \in strs : IsPrefix(q, s)) /\ l \in Nat /\ Len(b) \in Nat
    BY <1>4, CommonPrefix
  <2>3. Accepts(strs, b, p) <=> \E s \in strs : Fits(s, b, p)
    BY <1>4 DEF Accepts
  <2>4. \A s \in strs : /\ s \in Seq(Bytes) /\ l <= Len(s) /\ Len(s) \in Nat
                         /\ SubSeq(s, l + 1, Len(s)) \in Seq(Bytes)
                         /\ Len(SubSeq(s, l + 1, Len(s))) = Len(s) - l
    BY <1>4, RestIs
  <2>5. Rest(strs) = {SubSeq(s, l + 1, Len(s)) : s \in strs} /\ Rest(strs) \in Strings
    BY <1>4, RestIs
  <2> HIDE DEF n, q
  <2>6. ASSUME NEW s \in strs, Len(s) = l PROVE s = q
    <3>1. s \in Seq(Bytes) /\ IsPrefix(q, s)
      BY <2>2, <2>4
    <3>2. \A i \in 1..l : q[i] = s[i]
      BY <2>2, <3>1, PrefixIs
    <3> QED
      BY <2>2, <2>6, <3>1, <3>2
  <2>7. n.terminal <=> q \in strs
    <3>1. ASSUME q \in strs PROVE << >> \in Rest(strs)
      <4> DEFINE r == SubSeq(q, l + 1, Len(q))
      <4>1. r \in Rest(strs) /\ r \in Seq(Bytes) /\ Len(r) = 0
        BY <2>2, <2>4, <2>5, <3>1
      <4> HIDE DEF r
      <4> QED
        BY <4>1
    <3>2. ASSUME << >> \in Rest(strs) PROVE q \in strs
      <4>1. PICK s \in strs : << >> = SubSeq(s, l + 1, Len(s))
        BY <2>5, <3>2
      <4>2. Len(s) - l = 0
        BY <2>4, <4>1
      <4>3. Len(s) = l
        BY <2>2, <2>4, <4>2
      <4> QED
        BY <2>6, <4>3
    <3> QED
      BY <2>1, <3>1, <3>2
  <2>8. ASSUME NEW s \in strs, Fits(s, b, p) PROVE IsPrefix(q, b) /\ l <= Len(b)
    <3>1. s \in Seq(Bytes) /\ IsPrefix(q, s) /\ IsPrefix(s, b)
      BY <2>2, <2>4, <2>8 DEF Fits
    <3>2. Len(q) <= Len(s) /\ (\A i \in 1..Len(q) : q[i] = s[i])
      BY <2>2, <3>1, PrefixIs
    <3>3. Len(s) <= Len(b) /\ (\A i \in 1..Len(s) : s[i] = b[i])
      BY <3>1, PrefixIs
    <3>4. Len(q) <= Len(b) /\ \A i \in 1..Len(q) : q[i] = b[i]
      BY <2>2, <3>1, <3>2, <3>3
    <3> QED
      BY <2>2, <3>4, PrefixIs
  <2>9. (\E s \in strs : Len(s) = l /\ Fits(s, b, p)) <=> accepts(call, p)
    BY <1>a, <2>1, <2>6, <2>7
  <2>10. CASE ~IsPrefix(q, b)
    <3>1. child(call) = call
      BY <1>0, <2>1, <2>10 DEF child
    <3>2. ~Accepts(strs, b, p)
      BY <2>3, <2>8, <2>10
    <3>3. ~accepts(call, p)
      BY <1>a, <2>1, <2>10 DEF Fits
    <3> QED
      BY <3>1, <3>2, <3>3
  <2>11. CASE IsPrefix(q, b) /\ ~(l < Len(b))
    <3>1. child(call) = call
      BY <1>0, <2>1, <2>11 DEF child
    <3>2. ASSUME NEW s \in strs, Fits(s, b, p) PROVE Len(s) = l
      <4>1. s \in Seq(Bytes) /\ IsPrefix(s, b) /\ l <= Len(s)
        BY <2>4, <3>2 DEF Fits
      <4>2. Len(s) <= Len(b)
        BY <4>1, PrefixIs
      <4> QED
        BY <2>2, <2>4, <2>11, <4>1, <4>2
    <3> QED
      BY <2>3, <2>9, <3>1, <3>2
  <2>12. CASE IsPrefix(q, b) /\ l < Len(b)
    <3>1. (\E s \in strs : Len(s) > l /\ Fits(s, b, p)) <=>
            x \in Firsts(strs) /\ \E t \in nexts(Rest(strs), x) : Fits(t, c, p)
      BY <1>4, <2>12, NextsFit DEF q
    <3>2. Accepts(strs, b, p) <=>
            accepts(call, p) \/ (x \in Firsts(strs) /\ \E t \in nexts(Rest(strs), x) : Fits(t, c, p))
      BY <2>2, <2>3, <2>4, <2>9, <3>1
    <3>3. c \in Seq(Bytes) /\ Len(c) < Len(b)
      BY <2>2, <2>12
    <3>4. CASE x \notin Firsts(strs)
      <4>1. DOMAIN n.next = Firsts(strs)
        BY <2>1
      <4>2. child(call) = call
        BY <1>0, <2>1, <3>4, <4>1 DEF child
      <4> QED
        BY <3>2, <3>4, <4>2
    <3>5. CASE x \in Firsts(strs)
      <4> DEFINE S == nexts(Rest(strs), x)
      <4>1. S \in Strings /\ S # {}
        BY <2>5, <3>5, NextsAre DEF Firsts
      <4>2. DOMAIN n.next = Firsts(strs) /\ n.next[x] = newNode[S]
        BY <2>1, <3>5
      <4>3. child(call) = First(newNode[S], c)
        BY <1>0, <2>1, <2>12, <3>5, <4>2 DEF child, First
      <4>4. Accepts(S, c, p) <=> \E t \in S : Fits(t, c, p)
        BY <4>1 DEF Accepts
      <4> QED
        BY <3>2, <3>3, <3>5, <4>1, <4>3, <4>4
    <3> QED
      BY <3>4, <3>5
  <2> QED
    BY <2>10, <2>11, <2>12
<1> QED
  BY <1>2, <1>3, <1>4

\* ptNode.match on the tree that newNode makes of any finite set of strings: it
\* accepts the streams that begin with one of the strings, or are one of them.
THEOREM MatchIsPrefix ==
  ASSUME NEW strs \in Strings, NEW b \in Seq(Bytes), NEW p \in BOOLEAN
  PROVE  match(newNode[strs], b, p) <=> Accepts(strs, b, p)
<1> DEFINE call == calls(newNode[strs], b)
           Earlier(i) == \E j \in 0..(i - 1) : accepts(call[j], p)
           Here(i) ==
             \E S \in Strings, c \in Seq(Bytes) :
               /\ call[i] = First(newNode[S], c)
               /\ \/ Len(c) + i <= Len(b)
                  \/ child(call[i]) = call[i] /\ (Accepts(S, c, p) <=> accepts(call[i], p))
               /\ Accepts(strs, b, p) <=> Earlier(i) \/ Accepts(S, c, p)
           T == {i \in Nat : Here(i)}
<1>1. call[0] = First(newNode[strs], b) /\ \A i \in Nat : call[i + 1] = child(call[i])
  BY Calls
<1> HIDE DEF call
<1>2. Here(0)
  <2>1. ~Earlier(0)
    OBVIOUS
  <2>2. Len(b) + 0 <= Len(b)
    OBVIOUS
  <2> HIDE DEF Earlier
  <2> QED
    BY <1>1, <2>1, <2>2
<1>3. ASSUME NEW i \in Nat PROVE Earlier(i + 1) <=> Earlier(i) \/ accepts(call[i], p)
  OBVIOUS
<1> HIDE DEF Earlier
<1>4. ASSUME NEW i \in Nat, Here(i) PROVE Here(i + 1)
  <2>1. PICK S \in Strings, c \in Seq(Bytes) :
          /\ call[i] = First(newNode[S], c)
          /\ \/ Len(c) + i <= Len(b)
             \/ child(call[i]) = call[i] /\ (Accepts(S, c, p) <=> accepts(call[i], p))
          /\ Accepts(strs, b, p) <=> Earlier(i) \/ Accepts(S, c, p)
    BY <1>4
  <2>2. CASE child(call[i]) = call[i] /\ (Accepts(S, c, p) <=> accepts(call[i], p))
    <3>1. call[i + 1] = call[i]
      BY <1>1, <2>2
    <3>2. Accepts(strs, b, p) <=> Earlier(i + 1) \/ Accepts(S, c, p)
      BY <1>3, <2>1, <2>2
    <3> QED
      BY <2>1, <2>2, <3>1, <3>2
  <2>3. CASE Len(c) + i <= Len(b) /\ ~(child(call[i]) = call[i] /\ (Accepts(S, c, p) <=> accepts(call[i], p)))
    <3>1. PICK S2 \in Strings, c2 \in Seq(Bytes) :
              /\ child(call[i]) = First(newNode[S2], c2) /\ Len(c2) < Len(c)
              /\ Accepts(S, c, p) <=> accepts(call[i], p) \/ Accepts(S2, c2, p)
      BY <2>1, <2>3, OneCall
    <3>2. call[i + 1] = First(newNode[S2], c2)
      BY <1>1, <3>1
    <3>3. Accepts(strs, b, p) <=> Earlier(i + 1) \/ Accepts(S2, c2, p)
      BY <1>3, <2>1, <3>1
    <3>4. Len(c2) + (i + 1) <= Len(b)
      BY <2>3, <3>1
    <3> QED
      BY <3>2, <3>3, <3>4
  <2> QED
    BY <2>1, <2>2, <2>3
<1>5. Here(Len(b))
  <2>1. 0 \in T /\ \A n \in Nat : n \in T => n + 1 \in T
    <3> HIDE DEF Here
    <3> QED
      BY <1>2, <1>4
  <2>2. Len(b) \in T
    <3> HIDE DEF T
    <3> QED
      BY <2>1, SetInduction
  <2> QED
    BY <2>2
<1>6. Accepts(strs, b, p) <=> Earlier(Len(b) + 1)
  <2>1. PICK S \in Strings, c \in Seq(Bytes) :
          /\ call[Len(b)] = First(newNode[S], c)
          /\ \/ Len(c) + Len(b) <= Len(b)
             \/ child(call[Len(b)]) = call[Len(b)] /\ (Accepts(S, c, p) <=> accepts(call[Len(b)], p))
          /\ Accepts(strs, b, p) <=> Earlier(Len(b)) \/ Accepts(S, c, p)
    BY <1>5
  <2>2. Accepts(S, c, p) <=> accepts(call[Len(b)], p)
    <3>1. CASE Len(c) + Len(b) <= Len(b)
      <4>1. \A c2 \in Seq(Bytes) : ~(Len(c2) < Len(c))
        BY <3>1
      <4> QED
        BY <2>1, <4>1, OneCall
    <3> QED
      BY <2>1, <3>1
  <2>3. Len(b) \in Nat
    OBVIOUS
  <2> QED
    BY <1>3, <2>1, <2>2, <2>3
<1>7. match(newNode[strs], b, p) <=> Earlier(Len(b) + 1)
  <2>1. 0..Len(b) = 0..((Len(b) + 1) - 1)
    OBVIOUS
  <2> QED
    BY <2>1 DEF match, Earlier, call
<1> QED
  BY <1>6, <1>7

-----------------------------------------------------------------------------
Elements(s) == {s[i] : i \in 1..Len(s)}

\* A sequence is a sequence of its elements.
LEMMA Sequences == ASSUME NEW s, IsSequence(s) PROVE s \in Seq(Elements(s)) /\ Len(s) \in Nat
<1>1. s \in [1..Len(s) -> Elements(s)] /\ Len(s) \in Nat
  BY DEF IsSequence, Elements
<1> QED
  BY <1>1, SeqDef

\* All that a matcher may read.
Symbols == Elements(Preface) \cup UNION {Elements(i.stream) : i \in Inputs}

\* The preface and the stream of an input are sequences.
LEMMA StreamsAre ==
  /\ Preface \in Seq(Symbols) /\ Len(Preface) \in Nat \ {0}
  /\ in \in Inputs => in.stream \in Seq(Symbols) /\ Len(in.stream) \in Nat
<1>1. Preface \in Seq(Elements(Preface)) /\ Elements(Preface) \subseteq Symbols
  BY MatchersAssumption, Sequences DEF Symbols
<1>2. Preface \in Seq(Symbols) /\ Len(Preface) \in Nat \ {0}
  BY <1>1, MatchersAssumption
<1>3. ASSUME in \in Inputs PROVE in.stream \in Seq(Symbols) /\ Len(in.stream) \in Nat
  <2>1. in.stream \in Seq(Elements(in.stream)) /\ Elements(in.stream) \subseteq Symbols
    BY <1>3, MatchersAssumption, Sequences DEF Symbols
  <2> QED
    BY <2>1
<1> QED
  BY <1>2, <1>3

\* What has been seen of the stream.
LEMMA SeenIs ==
  ASSUME in \in Inputs, NEW n \in 0..Len(in.stream)
  PROVE  /\ Seen(n) \in Seq(Symbols) /\ Len(Seen(n)) = n
         /\ \A i \in 1..n : Seen(n)[i] = in.stream[i]
BY StreamsAre DEF Seen

\* The stream that has been read to its end is the stream.
LEMMA SeenAll == ASSUME in \in Inputs PROVE Seen(Len(in.stream)) = in.stream
<1> DEFINE n == Len(in.stream)
<1>1. in.stream \in Seq(Symbols) /\ n \in Nat /\ n = Len(in.stream)
  BY StreamsAre
<1>2. Seen(n) \in Seq(Symbols) /\ Len(Seen(n)) = n /\ \A i \in 1..n : Seen(n)[i] = in.stream[i]
  BY <1>1, SeenIs
<1> HIDE DEF n
<1> QED
  BY <1>1, <1>2

\* The first place of a set of places of a sequence, and 0 if there is none.
FirstOf(I) == IF I # {} THEN Min(I) ELSE 0

\* FirstOf gives the least place.
LEMMA FirstIs ==
  ASSUME NEW n \in Nat, NEW I \in SUBSET (1..n)
  PROVE  /\ FirstOf(I) \in 0..n
         /\ FirstOf(I) = 0 => I = {}
         /\ FirstOf(I) # 0 =>
              FirstOf(I) \in I /\ \A i \in 1..(FirstOf(I) - 1) : i \notin I
<1>1. CASE I = {}
  BY <1>1 DEF FirstOf
<1>2. CASE I # {}
  <2>1. Min(I) \in I /\ \A i \in I : Min(I) <= i
    <3>1. I \in SUBSET Nat
      OBVIOUS
    <3> QED
      BY <1>2, <3>1, MinIsLeast
  <2>2. FirstOf(I) = Min(I)
    BY <1>2 DEF FirstOf
  <2>3. FirstOf(I) \in 1..n
    BY <2>1, <2>2
  <2>4. \A i \in 1..(FirstOf(I) - 1) : i \notin I
    BY <2>1, <2>2, <2>3
  <2> QED
    BY <2>1, <2>2, <2>3, <2>4
<1> QED
  BY <1>1, <1>2

\* endOfLine is the place of the first newline that has been read, or 0.
LEMMA EndOfLine ==
  ASSUME in \in Inputs, NEW n \in 0..Len(in.stream)
  PROVE  LET e == endOfLine(n) IN
         /\ e \in 0..n
         /\ e = 0 => \A i \in 1..n : in.stream[i] # "newline"
         /\ e # 0 => in.stream[e] = "newline" /\ \A i \in 1..(e - 1) : in.stream[i] # "newline"
<1>1. n \in Nat /\ Len(Seen(n)) = n /\ \A i \in 1..n : Seen(n)[i] = in.stream[i]
  BY SeenIs, StreamsAre
<1> DEFINE I == {i \in 1..n : in.stream[i] = "newline"}
           e == endOfLine(n)
<1>2. {i \in 1..Len(Seen(n)) : Seen(n)[i] = "newline"} = I
  BY <1>1
<1>3. e = FirstOf(I)
  BY <1>2 DEF endOfLine, SelectInSeq, FirstOf
<1>4. I \in SUBSET (1..n) /\ \A i \in 1..n : in.stream[i] = "newline" <=> i \in I
  OBVIOUS
<1> HIDE DEF I, e
<1>5. e \in 0..n /\ (e = 0 => I = {}) /\ (e # 0 => e \in I /\ \A i \in 1..(e - 1) : i \notin I)
  BY <1>1, <1>3, <1>4, FirstIs
<1>6. e # 0 => \A i \in 1..(e - 1) : i \in 1..n
  BY <1>1, <1>5
<1> QED
  BY <1>4, <1>5, <1>6 DEF e

\* endOfHeader is the place of the first word that ends a header, or 0.
LEMMA EndOfHeader ==
  ASSUME in \in Inputs, NEW n \in 0..Len(in.stream)
  PROVE  LET e == endOfHeader(n) IN
         /\ e \in 0..n
         /\ e = 0 => \A i \in 1..n : in.stream[i] \notin {"blank", "malformed"}
         /\ e # 0 => in.stream[e] \in {"blank", "malformed"} /\ \A i \in 1..(e - 1) : in.stream[i] \notin {"blank", "malformed"}
<1>1. n \in Nat /\ Len(Seen(n)) = n /\ \A i \in 1..n : Seen(n)[i] = in.stream[i]
  BY SeenIs, StreamsAre
<1> DEFINE I == {i \in 1..n : in.stream[i] \in {"blank", "malformed"}}
           e == endOfHeader(n)
<1>2. {i \in 1..Len(Seen(n)) : Seen(n)[i] \in {"blank", "malformed"}} = I
  BY <1>1
<1>3. e = FirstOf(I)
  BY <1>2 DEF endOfHeader, SelectInSeq, FirstOf
<1>4. I \in SUBSET (1..n) /\ \A i \in 1..n : in.stream[i] \in {"blank", "malformed"} <=> i \in I
  OBVIOUS
<1> HIDE DEF I, e
<1>5. e \in 0..n /\ (e = 0 => I = {}) /\ (e # 0 => e \in I /\ \A i \in 1..(e - 1) : i \notin I)
  BY <1>1, <1>3, <1>4, FirstIs
<1>6. e # 0 => \A i \in 1..(e - 1) : i \in 1..n
  BY <1>1, <1>5
<1> QED
  BY <1>4, <1>5, <1>6 DEF e

-----------------------------------------------------------------------------
\* maxDepth is more than the length of any string of the tree.
LEMMA MaxDepth ==
  ASSUME NEW strs \in Strings
  PROVE  maxDepth(strs) \in Nat \ {0} /\ \A s \in strs : Len(s) < maxDepth(strs)
<1> DEFINE f == [s \in strs |-> Len(s)]
           L == {0} \cup {Len(s) : s \in strs}
<1>1. L \in SUBSET Nat /\ 0 \in L /\ \A s \in strs : Len(s) \in L
  BY DEF Strings
<1>2. IsFiniteSet(L)
  <2>1. IsFiniteSet({f[s] : s \in strs})
    BY FiniteImage DEF Strings
  <2>2. L = {f[s] : s \in strs} \cup {0}
    OBVIOUS
  <2> HIDE DEF L
  <2> QED
    BY <2>1, <2>2, FS_AddElement
<1>3. maxDepth(strs) = 1 + Max(L)
  BY DEF maxDepth
<1> HIDE DEF L
<1>4. Max(L) \in L /\ \A m \in L : m <= Max(L)
  BY <1>1, <1>2, FiniteMax
<1>5. Max(L) \in Nat /\ \A s \in strs : Len(s) \in Nat /\ Len(s) <= Max(L)
  BY <1>1, <1>4
<1> QED
  BY <1>3, <1>5

Tree == [maxDepth |-> maxDepth(in.strs), root |-> newNode[in.strs]]
TreeWanted == IF in.kind = "prefix" THEN HasPrefix ELSE IsOneOf

\* maxDepth bytes, or all there are, tell what the whole stream is.
LEMMA TreeRight ==
  ASSUME in \in Inputs, in.kind \in Trees, tree = Tree,
         NEW n \in 0..Len(in.stream), n = tree.maxDepth \/ n = Len(in.stream)
  PROVE  treeMatch(n) = verdictOf(TreeWanted)
<1> DEFINE p == in.kind = "prefix"
           b == Seen(n)
           S == in.strs
           t == in.stream
<1>1. S \in Strings /\ t \in Seq(Bytes) /\ Len(t) \in Nat /\ n \in Nat /\ n <= Len(t)
  BY MatchersAssumption
<1>2. b \in Seq(Bytes) /\ Len(b) = n /\ \A i \in 1..n : b[i] = t[i]
  BY <1>1 DEF Seen
<1>3. n = Len(t) => b = t
  BY SeenAll
<1>4. n = maxDepth(S) \/ n = Len(t)
  BY DEF Tree
<1>5. treeMatch(n) = verdictOf(Accepts(S, b, p))
  <2>1. match(newNode[S], b, p) <=> Accepts(S, b, p)
    BY <1>1, <1>2, MatchIsPrefix
  <2>2. treeMatch(n) = verdictOf(match(newNode[S], b, p))
    BY DEF treeMatch, Tree
  <2> QED
    BY <2>1, <2>2 DEF verdictOf
<1>6. maxDepth(S) \in Nat \ {0} /\ \A s \in S : s \in Seq(Bytes) /\ Len(s) < maxDepth(S)
  BY <1>1, MaxDepth DEF Strings
<1>7. b = << >> <=> t = << >>
  <2>1. (b = << >> <=> n = 0) /\ (t = << >> <=> Len(t) = 0)
    BY <1>1, <1>2
  <2> QED
    BY <1>1, <1>4, <1>6, <2>1
<1> HIDE DEF b, S, t, p
<1>8. ASSUME NEW s \in S PROVE IsPrefix(s, b) <=> IsPrefix(s, t)
  <2>1. s \in Seq(Bytes) /\ Len(s) \in Nat
    BY <1>6
  <2>2. IsPrefix(s, b) <=> Len(s) <= n /\ \A i \in 1..Len(s) : s[i] = b[i]
    BY <1>2, <2>1, PrefixIs
  <2>3. IsPrefix(s, t) <=> Len(s) <= Len(t) /\ \A i \in 1..Len(s) : s[i] = t[i]
    BY <1>1, <2>1, PrefixIs
  <2>4. Len(s) <= n <=> Len(s) <= Len(t)
    BY <1>1, <1>4, <1>6, <2>1
  <2>5. Len(s) <= n => \A i \in 1..Len(s) : b[i] = t[i]
    BY <1>1, <1>2, <2>1
  <2> QED
    BY <2>2, <2>3, <2>4, <2>5
<1>9. ASSUME NEW s \in S PROVE Len(s) = Len(b) <=> Len(s) = Len(t)
  BY <1>1, <1>2, <1>4, <1>6, <1>9
<1>10. ASSUME NEW s \in S PROVE IsPrefix(s, t) /\ Len(s) = Len(t) <=> s = t
  <2>1. s \in Seq(Bytes)
    BY <1>6
  <2>2. IsPrefix(s, t) <=> Len(s) <= Len(t) /\ \A i \in 1..Len(s) : s[i] = t[i]
    BY <1>1, <2>1, PrefixIs
  <2> QED
    BY <1>1, <2>1, <2>2
<1>11. CASE p
  <2>1. Accepts(S, b, p) <=> S = {} \/ \E s \in S : IsPrefix(s, t)
    BY <1>8, <1>11 DEF Accepts, Fits
  <2>2. TreeWanted <=> S = {} \/ \E s \in S : IsPrefix(s, t)
    BY <1>11 DEF TreeWanted, HasPrefix, S, t, p
  <2> QED
    BY <1>5, <2>1, <2>2 DEF verdictOf
<1>12. CASE ~p
  <2>1. Accepts(S, b, p) <=> IF S = {} THEN t = << >> ELSE t \in S
    BY <1>7, <1>8, <1>9, <1>10, <1>12 DEF Accepts, Fits
  <2>2. TreeWanted <=> IF S = {} THEN t = << >> ELSE t \in S
    BY <1>12 DEF TreeWanted, IsOneOf, S, t, p
  <2> QED
    BY <1>5, <2>1, <2>2 DEF verdictOf
<1> QED
  BY <1>11, <1>12

-----------------------------------------------------------------------------
\* Two spaces, counted or named.
LEMMA TwoOf ==
  ASSUME NEW n \in Nat, NEW I \in SUBSET (1..n)
  PROVE  Cardinality(I) >= 2 <=> \E i, j \in I : i # j
<1>1. IsFiniteSet(I) /\ Cardinality(I) \in Nat
  <2>1. IsFiniteSet(1..n)
    BY FS_Interval
  <2> QED
    BY <2>1, FS_Subset, FS_CardinalityType
<1>2. CASE I = {}
  BY <1>1, <1>2, FS_EmptySet
<1>3. ASSUME NEW i \in I PROVE Cardinality(I) >= 2 <=> I \ {i} # {}
  <2>1. IsFiniteSet(I \ {i}) /\ Cardinality(I \ {i}) = Cardinality(I) - 1
    BY <1>1, FS_RemoveElement
  <2>2. Cardinality(I \ {i}) \in Nat /\ (Cardinality(I \ {i}) = 0 <=> I \ {i} = {})
    BY <2>1, FS_CardinalityType, FS_EmptySet
  <2>3. Cardinality(I) >= 2 <=> Cardinality(I \ {i}) # 0
    BY <1>1, <2>1, <2>2
  <2> QED
    BY <2>2, <2>3
<1> QED
  BY <1>2, <1>3

\* The two spaces that strings.Index finds are the first two.
LEMMA SecondSpace ==
  ASSUME NEW n \in Nat, NEW I \in SUBSET (1..n), NEW i \in I, NEW j \in I, i < j,
         \A k \in 1..j : k \in I => k \in {i, j}
  PROVE  LET s1 == CHOOSE x \in I : \A y \in I : x <= y
             s2 == CHOOSE x \in I \ {s1} : \A y \in I \ {s1} : x <= y
         IN s1 = i /\ s2 = j
<1> DEFINE s1 == CHOOSE x \in I : \A y \in I : x <= y
           s2 == CHOOSE x \in I \ {s1} : \A y \in I \ {s1} : x <= y
<1>1. s1 = i
  <2>1. \A y \in I : i <= y
    <3>1. ASSUME NEW y \in I, y < i PROVE FALSE
      <4>1. y \in 1..j
        BY <3>1
      <4> QED
        BY <3>1, <4>1
    <3> QED
      BY <3>1
  <2>2. \A x \in I : (\A y \in I : x <= y) => x = i
    BY <2>1
  <2> QED
    BY <2>1, <2>2
<1> HIDE DEF s1
<1>2. s2 = j
  <2>1. \A y \in I \ {i} : j <= y
    <3>1. ASSUME NEW y \in I, y # i, y < j PROVE FALSE
      <4>1. y \in 1..j
        BY <3>1
      <4> QED
        BY <3>1, <4>1
    <3> QED
      BY <3>1
  <2>2. \A x \in I \ {i} : (\A y \in I \ {i} : x <= y) => x = j
    BY <2>1
  <2>3. j \in I \ {i}
    OBVIOUS
  <2> QED
    BY <1>1, <2>1, <2>2, <2>3
<1> QED
  BY <1>1, <1>2 DEF s1

\* isHTTP1 says of a line whether it is a request line.
LEMMA LineRight ==
  ASSUME Line \in Seq(Symbols)
  PROVE  isHTTP1(Line) <=> IsRequestLine
<1> DEFINE L == Line
           n == Len(L)
           I == {i \in 1..n : L[i] = "space"}
           s1 == CHOOSE x \in I : \A y \in I : x <= y
           s2 == CHOOSE x \in I \ {s1} : \A y \in I \ {s1} : x <= y
<1>1. L \in Seq(Symbols) /\ n \in Nat /\ DOMAIN L = 1..n /\ Len(L) = n
  OBVIOUS
<1>2. isHTTP1(L) <=> Cardinality(I) >= 2 /\ SubSeq(L, s2 + 1, Len(L)) = <<"HTTP/1.1">>
  BY <1>1 DEF isHTTP1
<1>3. IsRequestLine <=>
        \E i, j \in 1..n : /\ i < j /\ i \in I /\ j \in I
                           /\ \A k \in 1..j : k \in I => k \in {i, j}
                           /\ Tail(SubSeq(L, j, n)) = <<"HTTP/1.1">>
  <2> SUFFICES ASSUME NEW i \in 1..n, NEW j \in 1..n
               PROVE  (\A k \in 1..j : L[k] = "space" => k \in {i, j}) <=>
                        \A k \in 1..j : k \in I => k \in {i, j}
    BY <1>1 DEF IsRequestLine
  <2>1. \A k \in 1..j : k \in I <=> L[k] = "space"
    BY <1>1
  <2> QED
    BY <2>1
<1>4. I \in SUBSET (1..n)
  OBVIOUS
<1> HIDE DEF I, n, L, s1, s2
<1>5. ASSUME NEW j \in 1..n PROVE Tail(SubSeq(L, j, n)) = SubSeq(L, j + 1, n)
  <2> DEFINE A == SubSeq(L, j, n)
             B == SubSeq(L, j + 1, n)
  <2>1. A \in Seq(Symbols) /\ Len(A) = n - j + 1 /\ \A i \in 1..(n - j + 1) : A[i] = L[j + i - 1]
    BY <1>1
  <2>2. B \in Seq(Symbols) /\ Len(B) = n - j /\ \A i \in 1..(n - j) : B[i] = L[j + 1 + i - 1]
    BY <1>1
  <2> HIDE DEF A, B
  <2>3. Tail(A) \in Seq(Symbols) /\ Len(Tail(A)) = n - j /\ \A i \in 1..(n - j) : Tail(A)[i] = A[i + 1]
    BY <1>1, <2>1
  <2>4. ASSUME NEW i \in 1..(n - j) PROVE Tail(A)[i] = B[i]
    <3>1. i + 1 \in 1..(n - j + 1) /\ j + (i + 1) - 1 = j + 1 + i - 1
      BY <1>1
    <3>2. A[i + 1] = L[j + (i + 1) - 1]
      BY <2>1, <3>1
    <3> QED
      BY <2>2, <2>3, <3>1, <3>2
  <2>5. Tail(A) = B
    BY <1>1, <2>2, <2>3, <2>4
  <2> QED
    BY <2>5 DEF A, B
<1>6. ASSUME NEW i \in 1..n, NEW j \in 1..n, i < j, i \in I, j \in I,
             \A k \in 1..j : k \in I => k \in {i, j}
      PROVE  s1 = i /\ s2 = j /\ Cardinality(I) >= 2
  <2>1. s1 = i /\ s2 = j
    BY <1>1, <1>4, <1>6, SecondSpace DEF s1, s2
  <2>2. Cardinality(I) >= 2
    <3>1. \E x, y \in I : x # y
      BY <1>6
    <3> QED
      BY <1>1, <1>4, <3>1, TwoOf
  <2> QED
    BY <2>1, <2>2
<1>7. ASSUME IsRequestLine PROVE isHTTP1(L)
  <2>1. PICK i \in 1..n, j \in 1..n :
          /\ i < j /\ i \in I /\ j \in I /\ \A k \in 1..j : k \in I => k \in {i, j}
          /\ Tail(SubSeq(L, j, n)) = <<"HTTP/1.1">>
    BY <1>3, <1>7
  <2>2. s2 = j /\ Cardinality(I) >= 2
    BY <1>6, <2>1
  <2> QED
    BY <1>1, <1>2, <1>5, <2>1, <2>2
<1>8. ASSUME isHTTP1(L) PROVE IsRequestLine
  <2>1. \E i \in I : \A y \in I : i <= y
    <3>1. I # {} /\ I \in SUBSET Nat
      BY <1>1, <1>2, <1>4, <1>8, TwoOf
    <3> QED
      BY <3>1, Least
  <2>2. s1 \in I /\ \A y \in I : s1 <= y
    BY <2>1 DEF s1
  <2>3. \E j \in I \ {s1} : \A y \in I \ {s1} : j <= y
    <3>1. I \ {s1} # {} /\ I \ {s1} \in SUBSET Nat
      <4>1. \E x, y \in I : x # y
        BY <1>1, <1>2, <1>4, <1>8, TwoOf
      <4>2. I \ {s1} # {}
        BY <4>1
      <4>3. I \subseteq 1..n /\ 1..n \subseteq Nat
        BY <1>1, <1>4
      <4>4. I \ {s1} \in SUBSET Nat
        BY <4>3
      <4> QED
        BY <4>2, <4>4
    <3> QED
      BY <3>1, Least
  <2>4. s2 \in I \ {s1} /\ \A y \in I \ {s1} : s2 <= y
    BY <2>3 DEF s2
  <2>5. s1 \in 1..n /\ s2 \in 1..n /\ s1 < s2
    BY <1>1, <1>4, <2>2, <2>4
  <2>6. ASSUME NEW k \in 1..s2, k \in I PROVE k \in {s1, s2}
    BY <1>1, <2>4, <2>5, <2>6
  <2>7. Tail(SubSeq(L, s2, n)) = <<"HTTP/1.1">>
    BY <1>1, <1>2, <1>5, <1>8, <2>5
  <2> QED
    BY <1>3, <2>2, <2>4, <2>5, <2>6, <2>7
<1> QED
  BY <1>7, <1>8 DEF L

\* The line of a stream is what has been seen before the first newline.
LEMMA LineIs ==
  ASSUME in \in Inputs
  PROVE  /\ Line \in Seq(Symbols)
         /\ \A n \in 0..Len(in.stream) :
              endOfLine(n) # 0 => /\ Line = Seen(endOfLine(n) - 1)
                                 /\ Len(Line) = endOfLine(n) - 1
         /\ \A n \in 0..Len(in.stream) : endOfLine(n) = 0 => Len(Line) >= n
         /\ endOfLine(Len(in.stream)) = 0 => Line = in.stream
<1> DEFINE m == Len(in.stream)
           e == endOfLine(m)
<1>1. m \in Nat /\ in.stream \in Seq(Symbols)
  BY StreamsAre
<1>2. Line = IF e > 0 THEN Seen(e - 1) ELSE in.stream
  BY SeenAll DEF Line, endOfLine
<1>3. /\ e \in 0..m /\ (e = 0 => \A i \in 1..m : in.stream[i] # "newline")
      /\ e # 0 => in.stream[e] = "newline" /\ \A i \in 1..(e - 1) : in.stream[i] # "newline"
  BY <1>1, EndOfLine
<1> HIDE DEF e
<1>4. Line \in Seq(Symbols) /\ Len(Line) = (IF e > 0 THEN e - 1 ELSE m)
  <2>1. CASE e > 0
    <3>1. e - 1 \in 0..m
      BY <1>1, <1>3, <2>1
    <3> QED
      BY <1>2, <2>1, <3>1, SeenIs
  <2>2. CASE ~(e > 0)
    BY <1>1, <1>2, <2>2
  <2> QED
    BY <2>1, <2>2
<1>5. ASSUME NEW n \in 0..m
      PROVE  (endOfLine(n) # 0 => endOfLine(n) = e) /\ (endOfLine(n) = 0 => e = 0 \/ e > n)
  <2> DEFINE d == endOfLine(n)
  <2>1. /\ d \in 0..n /\ (d = 0 => \A i \in 1..n : in.stream[i] # "newline")
        /\ d # 0 => in.stream[d] = "newline" /\ \A i \in 1..(d - 1) : in.stream[i] # "newline"
    BY EndOfLine
  <2> HIDE DEF d
  <2>2. CASE d # 0
    <3>1. d \in 1..m /\ in.stream[d] = "newline"
      BY <1>1, <2>1, <2>2
    <3>2. e # 0 /\ ~(d < e)
      BY <1>1, <1>3, <3>1
    <3>3. ~(e < d)
      BY <1>1, <1>3, <2>1, <2>2, <3>2
    <3> QED
      BY <1>1, <1>3, <2>2, <3>1, <3>2, <3>3 DEF d
  <2>3. CASE d = 0
    BY <1>1, <1>3, <2>1, <2>3 DEF d
  <2> QED
    BY <2>2, <2>3
<1>6. ASSUME NEW n \in 0..m, endOfLine(n) # 0
      PROVE  Line = Seen(endOfLine(n) - 1) /\ Len(Line) = endOfLine(n) - 1
  <2>1. endOfLine(n) = e /\ e > 0
    BY <1>3, <1>5, <1>6
  <2> QED
    BY <1>2, <1>4, <2>1
<1>7. ASSUME NEW n \in 0..m, endOfLine(n) = 0 PROVE Len(Line) >= n
  BY <1>1, <1>3, <1>4, <1>5, <1>7
<1>8. e = 0 => Line = in.stream
  BY <1>2
<1> QED
  BY <1>4, <1>6, <1>7, <1>8 DEF e

\* The verdicts of HTTP1: at the end of the line, at the limit, and when the
\* stream has ended.
LEMMA HTTP1Right ==
  ASSUME in \in Inputs, NEW n \in 0..Len(in.stream), n <= MaxHTTPRead
  PROVE  /\ endOfLine(n) # 0 => (isHTTP1(Seen(endOfLine(n) - 1)) <=> IsRequestLine /\ LineFits)
         /\ endOfLine(n) = 0 /\ n = MaxHTTPRead => ~LineFits
         /\ endOfLine(n) = 0 /\ n = Len(in.stream) /\ n < MaxHTTPRead =>
              (isHTTP1(Seen(n)) <=> IsRequestLine /\ LineFits)
<1>1. Line \in Seq(Symbols) /\ Len(Line) \in Nat /\ MaxHTTPRead \in Nat /\ Len(in.stream) \in Nat
  BY LineIs, StreamsAre, MatchersAssumption
<1>2. isHTTP1(Line) <=> IsRequestLine
  BY <1>1, LineRight
<1>3. ASSUME endOfLine(n) # 0
      PROVE isHTTP1(Seen(endOfLine(n) - 1)) <=> IsRequestLine /\ LineFits
  <2>1. Line = Seen(endOfLine(n) - 1) /\ Len(Line) = endOfLine(n) - 1 /\ endOfLine(n) \in 0..n
    BY <1>3, LineIs, EndOfLine
  <2>2. LineFits
    BY <1>1, <2>1 DEF LineFits
  <2> QED
    BY <1>2, <2>1, <2>2
<1>4. ASSUME endOfLine(n) = 0, n = MaxHTTPRead PROVE ~LineFits
  BY <1>1, <1>4, LineIs DEF LineFits
<1>5. ASSUME endOfLine(n) = 0, n = Len(in.stream), n < MaxHTTPRead
      PROVE  isHTTP1(Seen(n)) <=> IsRequestLine /\ LineFits
  <2>1. Line = in.stream /\ Seen(n) = in.stream
    BY <1>5, LineIs, SeenAll
  <2> QED
    BY <1>2, <1>5, <2>1 DEF LineFits
<1> QED
  BY <1>3, <1>4, <1>5

-----------------------------------------------------------------------------
\* A request line has five words, and none of them ends a line.
LEMMA RequestLineIs ==
  ASSUME in \in Inputs, NEW n \in 0..Len(in.stream), isRequest(Seen(n))
  PROVE  /\ n = 5
         /\ \A i \in 1..5 : in.stream[i] \notin {"newline", "blank", "malformed"}
<1> DEFINE r == <<"word", "space", "word", "space", "HTTP/1.1">>
<1>1. Len(r) = 5 /\ \A i \in 1..5 : r[i] \in {"word", "space", "HTTP/1.1"}
  OBVIOUS
<1>2. Seen(n) = r
  BY DEF isRequest
<1> HIDE DEF r
<1>3. Len(Seen(n)) = n /\ \A i \in 1..n : Seen(n)[i] = in.stream[i]
  BY SeenIs
<1>4. n = 5
  BY <1>1, <1>2, <1>3
<1>5. \A i \in 1..5 : in.stream[i] \in {"word", "space", "HTTP/1.1"}
  BY <1>1, <1>2, <1>3, <1>4
<1> QED
  BY <1>4, <1>5

\* A blank line that ends a request is the end of the header.
LEMMA RequestIs ==
  ASSUME in \in Inputs, IsRequest
  PROVE  /\ isRequest(Seen(5)) /\ in.stream[6] = "newline"
         /\ \E j \in 7..Len(in.stream) :
              /\ in.stream[j] = "blank"
              /\ \A k \in 1..(j - 1) : in.stream[k] \notin {"blank", "malformed"}
<1> DEFINE m == Len(in.stream)
<1>1. m \in Nat /\ DOMAIN in.stream = 1..m
  BY StreamsAre
<1>2. PICK i \in 1..m, j \in 1..m :
        /\ i < j /\ isRequest(Seen(i - 1)) /\ in.stream[i] = "newline" /\ in.stream[j] = "blank"
        /\ \A k \in i..(j - 1) : in.stream[k] \notin {"blank", "malformed"}
  BY <1>1 DEF IsRequest
<1>3. i - 1 \in 0..m
  BY <1>1
<1>4. i - 1 = 5 /\ \A k \in 1..5 : in.stream[k] \notin {"newline", "blank", "malformed"}
  BY <1>2, <1>3, RequestLineIs
<1>5. i = 6
  BY <1>4
<1>6. ASSUME NEW k \in 1..(j - 1) PROVE in.stream[k] \notin {"blank", "malformed"}
  <2>1. k \in 1..5 \/ k \in i..(j - 1)
    BY <1>1, <1>5
  <2> QED
    BY <1>2, <1>4, <2>1
<1>7. j \in 7..m
  BY <1>1, <1>2, <1>5
<1> QED
  BY <1>2, <1>4, <1>5, <1>6, <1>7

\* Header.Get on the words that have been seen.
LEMMA GetIs ==
  ASSUME in \in Inputs, NEW n \in 0..Len(in.stream)
  PROVE  LET f == FirstOf({i \in 1..n : in.stream[i] \in {"match", "differ"}})
         IN get(Seen(n)) = IF f = 0 THEN "absent" ELSE in.stream[f]
<1>1. n \in Nat /\ Len(Seen(n)) = n /\ \A i \in 1..n : Seen(n)[i] = in.stream[i]
  BY SeenIs, StreamsAre
<1> DEFINE I == {i \in 1..n : in.stream[i] \in {"match", "differ"}}
           s == Seen(n)
           J == {i \in 1..Len(s) : s[i] \in {"match", "differ"}}
<1>2. J = I
  BY <1>1
<1>3. FirstOf(I) \in 0..n
  BY <1>1, FirstIs
<1>4. get(s) = IF FirstOf(J) = 0 THEN "absent" ELSE s[FirstOf(J)]
  <2> HIDE DEF s
  <2> QED
    BY DEF get, SelectInSeq, FirstOf
<1> HIDE DEF I, J
<1>5. get(s) = IF FirstOf(I) = 0 THEN "absent" ELSE in.stream[FirstOf(I)]
  BY <1>1, <1>2, <1>3, <1>4
<1> QED
  BY <1>5 DEF I

\* The fields of the header, once its end has been seen.
LEMMA FirstMatchesIs ==
  ASSUME in \in Inputs, in.kind \in Headers, NEW h \in 1..Len(in.stream),
         in.stream[h] = "blank", \A i \in 1..(h - 1) : in.stream[i] # "blank"
  PROVE  FirstMatches <=>
           get(Seen(h)) \in {"match"} \cup (IF in.kind = "anyheader" THEN {"absent"} ELSE {})
<1> DEFINE m == Len(in.stream)
           I == {i \in 1..h : in.stream[i] \in {"match", "differ"}}
           f == FirstOf(I)
<1>1. m \in Nat /\ DOMAIN in.stream = 1..m /\ h \in 1..m
  BY StreamsAre
<1>2. Named = I
  <2>1. ASSUME NEW i \in 1..m PROVE i \in Named <=> i \in I
    <3>1. CASE i > h
      BY <1>1, <3>1 DEF Named
    <3>2. CASE i = h
      BY <1>1, <3>2 DEF Named
    <3>3. CASE i < h
      <4>1. i \in 1..h /\ \A j \in 1..i : in.stream[j] # "blank"
        BY <1>1, <3>3
      <4> QED
        BY <1>1, <4>1 DEF Named
    <3> QED
      BY <1>1, <3>1, <3>2, <3>3
  <2>2. Named \subseteq 1..m /\ I \subseteq 1..m
    BY <1>1 DEF Named
  <2> QED
    BY <2>1, <2>2
<1>3. I \in SUBSET (1..h) /\ \A i \in I : in.stream[i] \in {"match", "differ"}
  OBVIOUS
<1>4. get(Seen(h)) = IF f = 0 THEN "absent" ELSE in.stream[f]
  <2>1. h \in 0..m
    BY <1>1
  <2> QED
    BY <2>1, GetIs
<1> HIDE DEF I
<1>5. /\ f \in 0..h /\ (f = 0 => I = {})
      /\ f # 0 => f \in I /\ \A i \in 1..(f - 1) : i \notin I
  BY <1>1, <1>3, FirstIs
<1> HIDE DEF f
<1>6. CASE f = 0
  BY <1>2, <1>4, <1>5, <1>6 DEF FirstMatches
<1>7. CASE f # 0
  <2>1. f \in I /\ \A i \in I : f <= i
    BY <1>1, <1>3, <1>5, <1>7
  <2>2. \A i \in I : (\A j \in I : i <= j) => i = f
    BY <1>1, <1>3, <2>1
  <2>3. FirstMatches <=> in.stream[f] = "match"
    BY <1>2, <2>1, <2>2 DEF FirstMatches
  <2>4. in.stream[f] # "absent"
    BY <1>3, <2>1
  <2> QED
    BY <1>4, <1>7, <2>3, <2>4
<1> QED
  BY <1>6, <1>7

\* The verdicts of the HTTP/1 header matchers.
LEMMA HeaderRight ==
  ASSUME in \in Inputs, in.kind \in Headers, NEW n \in 0..Len(in.stream)
  PROVE  LET e == endOfLine(n)
             h == endOfHeader(n)
         IN /\ e # 0 /\ ~isRequest(Seen(e - 1)) => ~IsRequest
            /\ e # 0 /\ isRequest(Seen(e - 1)) /\ h # 0 =>
                 (matchesHeader(n) <=> IsRequest /\ FirstMatches)
            /\ n = Len(in.stream) /\ (e = 0 \/ h = 0) => ~IsRequest
<1> DEFINE m == Len(in.stream)
           e == endOfLine(n)
           h == endOfHeader(n)
<1>1. m \in Nat /\ DOMAIN in.stream = 1..m /\ n \in Nat /\ n <= m
  BY StreamsAre
<1>2. /\ e \in 0..n /\ (e = 0 => \A i \in 1..n : in.stream[i] # "newline")
      /\ e # 0 => in.stream[e] = "newline" /\ \A i \in 1..(e - 1) : in.stream[i] # "newline"
  BY EndOfLine
<1>3. /\ h \in 0..n /\ (h = 0 => \A i \in 1..n : in.stream[i] \notin {"blank", "malformed"})
      /\ h # 0 => /\ in.stream[h] \in {"blank", "malformed"}
                  /\ \A i \in 1..(h - 1) : in.stream[i] \notin {"blank", "malformed"}
  BY EndOfHeader
<1>m. matchesHeader(n) <=> /\ in.stream[h] = "blank"
                           /\ get(Seen(h)) \in {"match"} \cup (IF in.kind = "anyheader" THEN {"absent"} ELSE {})
  BY DEF matchesHeader
<1> HIDE DEF e, h
<1>4. ASSUME e # 0, IsRequest PROVE isRequest(Seen(e - 1))
  <2>1. /\ isRequest(Seen(5)) /\ in.stream[6] = "newline" /\ \E j \in 7..m : in.stream[j] = "blank"
    BY <1>4, RequestIs
  <2>2. 5 \in 0..m /\ 6 \in 1..m
    BY <1>1, <2>1
  <2>3. \A i \in 1..5 : in.stream[i] # "newline"
    BY <2>1, <2>2, RequestLineIs
  <2>4. e = 6
    BY <1>1, <1>2, <1>4, <2>1, <2>2, <2>3
  <2>5. e - 1 = 5
    BY <2>4
  <2> QED
    BY <2>1, <2>5
<1>5. ASSUME e # 0, isRequest(Seen(e - 1)), h # 0
      PROVE  matchesHeader(n) <=> IsRequest /\ FirstMatches
  <2>1. e - 1 \in 0..m
    BY <1>1, <1>2, <1>5
  <2>2. e = 6 /\ \A i \in 1..5 : in.stream[i] \notin {"newline", "blank", "malformed"}
    <3>1. e - 1 = 5
      BY <1>5, <2>1, RequestLineIs
    <3> QED
      BY <1>2, <1>5, <2>1, <3>1, RequestLineIs
  <2>3. h \in 7..m
    <3>1. ~(h \in 1..5) /\ h # 6
      BY <1>2, <1>3, <1>5, <2>2
    <3> QED
      BY <1>1, <1>3, <1>5, <3>1
  <2>4. CASE in.stream[h] = "blank"
    <3>1. IsRequest
      <4>1. /\ e \in 1..m /\ h \in 1..m /\ e < h
            /\ \A k \in e..(h - 1) : k \in 1..(h - 1)
        BY <1>1, <2>2, <2>3
      <4> QED
        BY <1>1, <1>2, <1>3, <1>5, <2>4, <4>1 DEF IsRequest
    <3>2. FirstMatches <=> get(Seen(h)) \in {"match"} \cup (IF in.kind = "anyheader" THEN {"absent"} ELSE {})
      BY <1>1, <1>3, <1>5, <2>3, <2>4, FirstMatchesIs
    <3> QED
      BY <1>m, <2>4, <3>1, <3>2
  <2>5. CASE in.stream[h] # "blank"
    <3>1. in.stream[h] = "malformed"
      BY <1>3, <1>5, <2>5
    <3>2. ASSUME IsRequest PROVE FALSE
      <4>1. PICK j \in 7..m : /\ in.stream[j] = "blank"
                              /\ \A k \in 1..(j - 1) : in.stream[k] \notin {"blank", "malformed"}
        BY <3>2, RequestIs
      <4>2. ~(h < j)
        BY <1>1, <2>3, <3>1, <4>1
      <4>3. ~(j < h)
        BY <1>1, <1>3, <1>5, <2>3, <4>1
      <4> QED
        BY <1>1, <2>3, <2>5, <4>1, <4>2, <4>3
    <3> QED
      BY <1>m, <2>5, <3>2
  <2> QED
    BY <2>4, <2>5
<1>6. ASSUME n = m, e = 0 \/ h = 0, IsRequest PROVE FALSE
  <2>1. PICK j \in 7..m : in.stream[6] = "newline" /\ in.stream[j] = "blank"
    BY <1>6, RequestIs
  <2>2. 6 \in 1..n /\ j \in 1..n
    BY <1>1, <1>6
  <2> QED
    BY <1>2, <1>3, <1>6, <2>1, <2>2
<1> QED
  BY <1>4, <1>5, <1>6 DEF e, h

-----------------------------------------------------------------------------
PrefaceRead(n) == \A i \in 1..n : i <= Len(Preface) => in.stream[i] = Preface[i]

\* The part of the preface that has been read tells whether it is there.
LEMMA PrefaceRight ==
  ASSUME in \in Inputs, NEW n \in 0..Len(in.stream)
  PROVE  /\ n <= Len(Preface) => (IsPrefix(Seen(n), Preface) <=> PrefaceRead(n))
         /\ n >= Len(Preface) /\ PrefaceRead(n) => IsPrefix(Preface, in.stream)
         /\ ~PrefaceRead(n) => ~IsPrefix(Preface, in.stream)
         /\ n = Len(in.stream) /\ n < Len(Preface) => ~IsPrefix(Preface, in.stream)
<1> DEFINE m == Len(in.stream)
           p == Len(Preface)
<1>1. m \in Nat /\ p \in Nat /\ n \in Nat /\ n <= m /\ in.stream \in Seq(Symbols) /\ Preface \in Seq(Symbols)
  BY StreamsAre
<1>2. Seen(n) \in Seq(Symbols) /\ Len(Seen(n)) = n /\ \A i \in 1..n : Seen(n)[i] = in.stream[i]
  BY SeenIs
<1>3. IsPrefix(Seen(n), Preface) <=> n <= p /\ \A i \in 1..n : Seen(n)[i] = Preface[i]
  BY <1>1, <1>2, PrefixIs
<1>4. IsPrefix(Preface, in.stream) <=> p <= m /\ \A i \in 1..p : Preface[i] = in.stream[i]
  BY <1>1, PrefixIs
<1>5. ASSUME n <= p PROVE IsPrefix(Seen(n), Preface) <=> PrefaceRead(n)
  BY <1>1, <1>2, <1>3, <1>5 DEF PrefaceRead
<1>6. ASSUME n >= p, PrefaceRead(n) PROVE IsPrefix(Preface, in.stream)
  BY <1>1, <1>4, <1>6 DEF PrefaceRead
<1>7. ASSUME IsPrefix(Preface, in.stream) PROVE PrefaceRead(n)
  BY <1>1, <1>4, <1>7 DEF PrefaceRead
<1>8. ASSUME n = m, n < p PROVE ~IsPrefix(Preface, in.stream)
  BY <1>1, <1>4, <1>8
<1> QED
  BY <1>5, <1>6, <1>7, <1>8

\* Frames are what follows the preface.
LEMMA FramesAre ==
  ASSUME in \in Inputs, Len(Preface) <= Len(in.stream)
  PROVE  /\ DOMAIN Frames = 1..(Len(in.stream) - Len(Preface))
         /\ \A i \in 1..(Len(in.stream) - Len(Preface)) :
              Frames[i] = in.stream[Len(Preface) + i]
<1> DEFINE m == Len(in.stream)
           p == Len(Preface)
<1>1. m \in Nat /\ p \in Nat /\ in.stream \in Seq(Symbols) /\ p <= m
  BY StreamsAre
<1> HIDE DEF p
<1>2. Frames = SubSeq(in.stream, p + 1, m)
  BY DEF Frames, p
<1> QED
  BY <1>1, <1>2 DEF p

\* No frame up to n is the last one of the headers, so none has the field.
LEMMA NoneNamed ==
  ASSUME in \in Inputs, NEW n \in 0..Len(in.stream), Len(Preface) <= n,
         \A i \in (Len(Preface) + 1)..n : ~done(in.stream[i])
  PROVE  \A i \in 1..(n - Len(Preface)) :
           /\ i \in DOMAIN Frames /\ Frames[i].type # "malformed"
           /\ hasHeaders(Frames[i]) => ~Frames[i].end /\ ~named(Frames[i])
<1> SUFFICES ASSUME NEW i \in 1..(n - Len(Preface))
             PROVE  /\ i \in DOMAIN Frames /\ Frames[i].type # "malformed"
                    /\ hasHeaders(Frames[i]) => ~Frames[i].end /\ ~named(Frames[i])
  OBVIOUS
<1>1. Len(Preface) \in Nat /\ Len(in.stream) \in Nat
  BY StreamsAre
<1>2. /\ Len(Preface) + i \in (Len(Preface) + 1)..n
      /\ i \in 1..(Len(in.stream) - Len(Preface)) /\ Len(Preface) <= Len(in.stream)
  BY <1>1
<1>3. i \in DOMAIN Frames /\ Frames[i] = in.stream[Len(Preface) + i]
  BY <1>2, FramesAre
<1>4. ~done(Frames[i])
  BY <1>2, <1>3
<1> QED
  BY <1>3, <1>4 DEF done

\* Where no frame ends the reading, no frame has the field.
LEMMA NoField ==
  ASSUME in \in Inputs, Len(Preface) <= Len(in.stream),
         \A i \in (Len(Preface) + 1)..Len(in.stream) : ~done(in.stream[i])
  PROVE  ~HasField
<1> DEFINE m == Len(in.stream)
           p == Len(Preface)
<1>1. m \in Nat /\ p \in Nat /\ m \in 0..m
  BY StreamsAre
<1>2. \A i \in 1..(m - p) : hasHeaders(Frames[i]) => ~named(Frames[i])
  BY <1>1, NoneNamed
<1>3. DOMAIN Frames = 1..(m - p)
  BY FramesAre
<1>4. \A i \in Block : "match" \notin Frames[i].fields
  BY <1>2, <1>3 DEF Block, named
<1> QED
  BY <1>4 DEF HasField

\* A header whose field is in one frame only has one frame with the field.
LEMMA OnlyNamed ==
  ASSUME in \in Inputs, Len(Preface) <= Len(in.stream), NamedOnce, NEW i \in Block, NEW j \in Block,
         named(Frames[i]), named(Frames[j])
  PROVE  i = j
<1> DEFINE N == {k \in Block : named(Frames[k])}
<1>1. Len(in.stream) - Len(Preface) \in Nat
  BY StreamsAre
<1>2. IsFiniteSet(1..(Len(in.stream) - Len(Preface)))
  BY <1>1, FS_Interval
<1>3. N \subseteq 1..(Len(in.stream) - Len(Preface))
  BY FramesAre DEF Block
<1>4. IsFiniteSet(N) /\ i \in N /\ j \in N /\ Cardinality(N) <= 1
  BY <1>2, <1>3, FS_Subset DEF NamedOnce
<1> HIDE DEF N
<1>5. IsFiniteSet(N \ {i}) /\ Cardinality(N \ {i}) = Cardinality(N) - 1 /\ Cardinality(N) \in Nat
  BY <1>4, FS_RemoveElement, FS_CardinalityType
<1>6. Cardinality(N \ {i}) \in Nat
  BY <1>5, FS_CardinalityType
<1>7. Cardinality(N \ {i}) = 0
  BY <1>4, <1>5, <1>6
<1>8. N \ {i} = {}
  BY <1>5, <1>7, FS_EmptySet
<1> QED
  BY <1>4, <1>8

\* The verdict at the frame that ends the reading.
LEMMA FieldRight ==
  ASSUME in \in Inputs, NEW n \in 0..Len(in.stream), n < Len(in.stream), Len(Preface) <= n,
         PrefaceRead(n), \A i \in (Len(Preface) + 1)..n : ~done(in.stream[i]),
         done(in.stream[n + 1]), NamedOnce
  PROVE  matched(in.stream[n + 1]) <=> HasField
<1> DEFINE m == Len(in.stream)
           p == Len(Preface)
           k == n + 1 - p
           f == in.stream[n + 1]
<1>1. m \in Nat /\ p \in Nat /\ n \in Nat
  BY StreamsAre
<1>2. k \in 1..(m - p) /\ p <= m /\ p + k = n + 1 /\ n - p = k - 1
  BY <1>1
<1>3. k \in DOMAIN Frames /\ Frames[k] = f /\ DOMAIN Frames = 1..(m - p)
  BY <1>2, FramesAre
<1>4. \A i \in 1..(k - 1) : /\ i \in DOMAIN Frames /\ Frames[i].type # "malformed"
                            /\ hasHeaders(Frames[i]) => ~Frames[i].end /\ ~named(Frames[i])
  BY <1>2, NoneNamed
<1>5. IsPrefix(Preface, in.stream)
  BY PrefaceRight
<1>6. HasField <=> \E i \in Block : "match" \in Frames[i].fields
  BY <1>5 DEF HasField
<1> HIDE DEF k, f
<1>7. \A i \in Block : i \in 1..(m - p) /\ hasHeaders(Frames[i])
  BY <1>3 DEF Block
<1>8. \A i \in Block : named(Frames[i]) => i >= k
  BY <1>1, <1>2, <1>4, <1>7
<1>9. hasHeaders(f) => k \in Block
  BY <1>3, <1>4 DEF Block
<1>10. \A i : "match" \in Frames[i].fields => named(Frames[i])
  BY DEF named
<1>11. CASE hasHeaders(f) /\ named(f)
  <2>1. \A i \in Block : named(Frames[i]) => i = k
    BY <1>2, <1>3, <1>9, <1>11, OnlyNamed
  <2> QED
    BY <1>3, <1>6, <1>9, <1>10, <1>11, <2>1 DEF matched, f
<1>12. CASE ~(hasHeaders(f) /\ named(f))
  <2>1. f.type = "malformed" \/ (hasHeaders(f) /\ f.end)
    BY <1>12 DEF done, f
  <2>2. \A i \in Block : i <= k
    <3>1. ASSUME NEW i \in Block, i > k PROVE FALSE
      <4>1. k \in 1..(i - 1)
        BY <1>2, <1>7, <3>1
      <4> QED
        BY <1>3, <2>1, <4>1 DEF Block
    <3> QED
      BY <1>2, <1>7, <3>1
  <2>3. ASSUME NEW i \in Block, "match" \in Frames[i].fields PROVE FALSE
    <3>1. i = k
      BY <1>2, <1>7, <1>8, <1>10, <2>2, <2>3
    <3> QED
      BY <1>3, <1>7, <1>10, <1>12, <2>3, <3>1
  <2>4. ~matched(f)
    BY <1>12 DEF matched, named
  <2> QED
    BY <1>6, <2>3, <2>4 DEF f
<1> QED
  BY <1>11, <1>12

-----------------------------------------------------------------------------
TypeOK ==
  /\ in \in Inputs /\ tree = Tree
  /\ limited \in BOOLEAN /\ answered \in BOOLEAN /\ failed \in BOOLEAN
  /\ sent \in 0..Len(in.stream) /\ got \in 0..sent
  /\ verdict \in {"none", "yes", "no"}

\* What a matcher has seen while it cannot decide.
Open ==
  verdict = "none" =>
    /\ ~failed
    /\ in.kind \in Trees => got < tree.maxDepth
    /\ in.kind = "http1" => got < MaxHTTPRead /\ endOfLine(got) = 0
    /\ in.kind \in Headers =>
         endOfLine(got) = 0 \/ (isRequest(Seen(endOfLine(got) - 1)) /\ endOfHeader(got) = 0)
    /\ in.kind \in HTTP2Kinds => PrefaceRead(got)
    /\ in.kind = "http2" => got < Len(Preface)
    /\ in.kind \in Fields => \A i \in (Len(Preface) + 1)..got : ~done(in.stream[i])

\* What the kind of the matcher asks of the stream, and v is the right answer.
Right(v) ==
  /\ in.kind = "prefix" => (v = "yes" <=> HasPrefix)
  /\ in.kind = "exact" => (v = "yes" <=> IsOneOf)
  /\ in.kind = "http1" => (v = "yes" <=> IsRequestLine /\ LineFits)
  /\ in.kind \in Headers => (v = "yes" <=> IsRequest /\ FirstMatches)
  /\ in.kind = "http2" => (v = "yes" <=> IsPrefix(Preface, in.stream))
  /\ in.kind \in Fields /\ NamedOnce => (v = "yes" <=> HasField)

IInv == TypeOK /\ Open /\ (verdict # "none" /\ ~failed => Right(verdict))

\* The kinds of matchers.
LEMMA KindsDiffer ==
  /\ Trees = {"prefix", "exact"} /\ Headers = {"header", "anyheader"}
  /\ Fields = {"field", "fieldsend"} /\ HTTP2Kinds = {"field", "fieldsend", "http2"}
BY DEF Trees, Headers, Fields, HTTP2Kinds

\* The input, and with it what is wanted, never changes.
LEMMA RightStays ==
  ASSUME in' = in, Right(verdict')
  PROVE  Right(verdict)'
<1>1. (HasPrefix <=> HasPrefix') /\ (IsOneOf <=> IsOneOf')
  BY DEF HasPrefix, IsOneOf
<1>2. Line' = Line
  BY DEF Line, Seen, SelectInSeq
<1>3. (IsRequestLine <=> IsRequestLine') /\ (LineFits <=> LineFits')
  BY <1>2 DEF IsRequestLine, LineFits
<1>4. (IsRequest <=> IsRequest') /\ Named' = Named
  BY DEF IsRequest, Named, Seen
<1>5. FirstMatches <=> FirstMatches'
  BY <1>4 DEF FirstMatches
<1>6. Frames' = Frames
  BY DEF Frames
<1>7. Block' = Block
  BY <1>6 DEF Block
<1>8. (NamedOnce <=> NamedOnce') /\ (HasField <=> HasField')
  BY <1>6, <1>7 DEF NamedOnce, HasField
<1> QED
  BY <1>1, <1>3, <1>4, <1>5, <1>8 DEF Right

\* A Read leaves an input of the same kind, of which more has been read.
LEMMA ReadTyped ==
  ASSUME TypeOK, NEW n \in 1..(sent - got), NEW max, Read(n, max), verdict' \in {"none", "yes", "no"}
  PROVE  TypeOK' /\ in' = in /\ got' = got + n /\ got' \in 0..Len(in.stream)
         /\ got' <= sent /\ failed' = failed /\ verdict = "none" /\ n <= max
<1>1. Len(in.stream) \in Nat
  BY StreamsAre DEF TypeOK
<1>2. got' \in 0..sent /\ got' \in 0..Len(in.stream)
  BY <1>1 DEF TypeOK, Read
<1>3. Tree' = Tree
  BY DEF Tree, Read
<1> QED
  BY <1>2, <1>3 DEF TypeOK, Read

\* What has been seen is a matter of how much has been read.
LEMMA SeenStays ==
  ASSUME in' = in
  PROVE  /\ endOfLine(got)' = endOfLine(got') /\ endOfHeader(got)' = endOfHeader(got')
         /\ Seen(endOfLine(got) - 1)' = Seen(endOfLine(got') - 1)
         /\ PrefaceRead(got)' <=> PrefaceRead(got')
<1>1. endOfLine(got)' = endOfLine(got') /\ endOfHeader(got)' = endOfHeader(got')
  BY DEF Seen, endOfLine, endOfHeader, SelectInSeq
<1>2. Seen(endOfLine(got) - 1)' = Seen(endOfLine(got') - 1)
  BY <1>1 DEF Seen
<1>3. PrefaceRead(got)' <=> PrefaceRead(got')
  BY DEF PrefaceRead
<1> QED
  BY <1>1, <1>2, <1>3

\* A Read that fails is right if the answer is right at the end of the stream.
LEMMA ReadFailsRight ==
  ASSUME IInv, NEW v \in {"yes", "no"}, ReadFails(v),
         Closed /\ got = Len(in.stream) => Right(v)
  PROVE  IInv'
<1>1. in' = in /\ verdict' = v /\ failed' = (~Closed) /\ sent' = sent /\ got' = got
  BY DEF ReadFails
<1>2. TypeOK'
  <2>1. Tree' = Tree
    BY <1>1 DEF Tree
  <2> QED
    BY <1>1, <2>1 DEF IInv, TypeOK, ReadFails
<1>3. Open'
  BY <1>1 DEF Open
<1>4. ASSUME ~failed' PROVE Right(verdict)'
  <2>1. Closed /\ got = Len(in.stream)
    BY <1>1, <1>4 DEF ReadFails, Closed
  <2> QED
    BY <1>1, <2>1, RightStays
<1> QED
  BY <1>2, <1>3, <1>4 DEF IInv

\* A verdict is yes or no.
LEMMA VerdictIs == \A x \in BOOLEAN : /\ verdictOf(x) \in {"yes", "no"}
                                      /\ verdictOf(x) = "yes" <=> x
BY DEF verdictOf

\* matchPrefix and match go on, or decide right.
LEMMA TreeStep ==
  ASSUME IInv, NEW n \in 1..(sent - got), ReadTree(n)
  PROVE  IInv'
<1> DEFINE stop == got' = tree.maxDepth
<1>0. in.kind \in Trees /\ Read(n, tree.maxDepth - got)
      /\ verdict' = IF stop THEN treeMatch(got') ELSE "none"
  BY DEF ReadTree
<1>1. verdict' \in {"none", "yes", "no"} /\ (stop => verdict' # "none")
  BY <1>0, VerdictIs DEF treeMatch, match
<1>2. TypeOK' /\ in' = in /\ got' = got + n /\ got' \in 0..Len(in.stream) /\ failed' = failed
      /\ verdict = "none" /\ n <= tree.maxDepth - got
  BY <1>0, <1>1, ReadTyped DEF IInv
<1>3. ~failed /\ got < tree.maxDepth /\ tree = Tree /\ in \in Inputs
  BY <1>0, <1>2 DEF IInv, Open, TypeOK
<1>4. tree' = tree
  BY <1>0 DEF Read
<1>5. CASE stop
  <2>1. verdict' = verdictOf(TreeWanted)
    BY <1>0, <1>2, <1>3, <1>5, TreeRight
  <2>2. Right(verdict')
    BY <1>0, <2>1, KindsDiffer DEF Right, verdictOf, TreeWanted
  <2>3. Right(verdict)'
    BY <1>2, <2>2, RightStays
  <2> QED
    BY <1>1, <1>2, <1>5, <2>3 DEF IInv, Open
<1>6. CASE ~stop
  <2>1. verdict' = "none"
    BY <1>0, <1>6
  <2>2. got' < tree.maxDepth
    <3>1. tree.maxDepth \in Nat
      BY <1>0, <1>3, MaxDepth, MatchersAssumption DEF Tree
    <3>2. got \in Nat /\ n \in Nat
      BY <1>2, StreamsAre DEF IInv, TypeOK
    <3> QED
      BY <1>2, <1>6, <3>1, <3>2
  <2>3. Open'
    BY <1>0, <1>2, <1>3, <1>4, <2>1, <2>2, KindsDiffer DEF Open
  <2> QED
    BY <1>2, <2>1, <2>3 DEF IInv
<1> QED
  BY <1>5, <1>6

\* HTTP1 goes on, or decides right.
LEMMA LineStep ==
  ASSUME IInv, NEW n \in 1..(sent - got), ReadLine(n)
  PROVE  IInv'
<1> DEFINE e == endOfLine(got')
<1>0. in.kind = "http1" /\ Read(n, MaxHTTPRead - got)
      /\ verdict' = IF e > 0 THEN verdictOf(isHTTP1(Seen(e - 1)))
                    ELSE IF got' = MaxHTTPRead THEN "no" ELSE "none"
  BY DEF ReadLine
<1>1. verdict' \in {"none", "yes", "no"} /\ (isHTTP1(Seen(e - 1)) \in BOOLEAN)
  BY <1>0, VerdictIs DEF isHTTP1, verdictOf
<1>2. TypeOK' /\ in' = in /\ got' = got + n /\ got' \in 0..Len(in.stream) /\ failed' = failed
      /\ verdict = "none" /\ n <= MaxHTTPRead - got
  BY <1>0, <1>1, ReadTyped DEF IInv
<1>3. ~failed /\ in \in Inputs /\ got \in Nat /\ n \in Nat /\ MaxHTTPRead \in Nat /\ Len(in.stream) \in Nat
  BY <1>0, <1>2, StreamsAre, MatchersAssumption DEF IInv, Open, TypeOK
<1>4. got' <= MaxHTTPRead
  BY <1>2, <1>3
<1>5. e \in 0..got'
  BY <1>2, <1>3, EndOfLine
<1>6. /\ e # 0 => (isHTTP1(Seen(e - 1)) <=> IsRequestLine /\ LineFits)
      /\ e = 0 /\ got' = MaxHTTPRead => ~LineFits
  BY <1>2, <1>3, <1>4, HTTP1Right
<1> HIDE DEF e
<1>8. CASE verdict' = "none"
  <2>1. e = 0 /\ got' < MaxHTTPRead
    BY <1>0, <1>2, <1>3, <1>4, <1>5, <1>8 DEF verdictOf
  <2>2. endOfLine(got)' = 0
    BY <1>2, <2>1, SeenStays DEF e
  <2>3. Open'
    BY <1>0, <1>2, <1>3, <2>1, <2>2, KindsDiffer DEF Open
  <2> QED
    BY <1>2, <1>8, <2>3 DEF IInv
<1>9. CASE verdict' # "none"
  <2>1. verdict' = "yes" <=> IsRequestLine /\ LineFits
    BY <1>0, <1>2, <1>3, <1>5, <1>6, <1>9 DEF verdictOf
  <2>2. Right(verdict')
    BY <1>0, <2>1, KindsDiffer DEF Right
  <2>3. Right(verdict)'
    BY <1>2, <2>2, RightStays
  <2> QED
    BY <1>2, <1>9, <2>3 DEF IInv, Open
<1> QED
  BY <1>8, <1>9

\* matchHTTP1Field goes on, or decides right.
LEMMA RequestStep ==
  ASSUME IInv, NEW n \in 1..(sent - got), ReadRequest(n)
  PROVE  IInv'
<1> DEFINE e == endOfLine(got')
           h == endOfHeader(got')
<1>0. in.kind \in Headers /\ Read(n, n)
      /\ verdict' = IF e = 0 THEN "none"
                    ELSE IF ~isRequest(Seen(e - 1)) THEN "no"
                    ELSE IF h = 0 THEN "none"
                    ELSE verdictOf(matchesHeader(got'))
  BY DEF ReadRequest
<1>1. verdict' \in {"none", "yes", "no"}
  BY <1>0 DEF verdictOf
<1>2. TypeOK' /\ in' = in /\ got' \in 0..Len(in.stream) /\ failed' = failed /\ verdict = "none"
  BY <1>0, <1>1, ReadTyped DEF IInv
<1>3. ~failed /\ in \in Inputs
  BY <1>0, <1>2 DEF IInv, Open, TypeOK
<1>4. /\ e # 0 /\ ~isRequest(Seen(e - 1)) => ~IsRequest
      /\ e # 0 /\ isRequest(Seen(e - 1)) /\ h # 0 =>
           (matchesHeader(got') <=> IsRequest /\ FirstMatches)
  BY <1>0, <1>2, <1>3, HeaderRight
<1>5. CASE verdict' = "none"
  <2>1. e = 0 \/ (isRequest(Seen(e - 1)) /\ h = 0)
    BY <1>0, <1>5 DEF verdictOf
  <2>2. endOfLine(got)' = e /\ endOfHeader(got)' = h /\ Seen(endOfLine(got) - 1)' = Seen(e - 1)
    BY <1>2, SeenStays
  <2>3. isRequest(Seen(endOfLine(got) - 1))' <=> isRequest(Seen(e - 1))
    BY <2>2 DEF isRequest
  <2>4. Open'
    BY <1>0, <1>2, <1>3, <2>1, <2>2, <2>3, KindsDiffer DEF Open
  <2> QED
    BY <1>2, <1>5, <2>4 DEF IInv
<1>6. CASE verdict' # "none"
  <2>1. verdict' = "yes" <=> IsRequest /\ FirstMatches
    BY <1>0, <1>4, <1>6 DEF verdictOf
  <2>2. Right(verdict')
    BY <1>0, <2>1, KindsDiffer DEF Right
  <2>3. Right(verdict)'
    BY <1>2, <2>2, RightStays
  <2> QED
    BY <1>2, <1>6, <2>3 DEF IInv, Open
<1> QED
  BY <1>5, <1>6

\* hasHTTP2Preface goes on, or decides right.
LEMMA PrefaceStep ==
  ASSUME IInv, NEW n \in 1..(sent - got), ReadPreface(n)
  PROVE  IInv'
<1>0. /\ in.kind \in HTTP2Kinds /\ got < Len(Preface) /\ Read(n, Len(Preface) - got)
      /\ verdict' = IF ~IsPrefix(Seen(got'), Preface) THEN "no"
                    ELSE IF got' = Len(Preface) /\ in.kind = "http2" THEN "yes" ELSE "none"
  BY DEF ReadPreface
<1>1. verdict' \in {"none", "yes", "no"}
  BY <1>0
<1>2. TypeOK' /\ in' = in /\ got' = got + n /\ got' \in 0..Len(in.stream) /\ failed' = failed
      /\ verdict = "none" /\ n <= Len(Preface) - got
  BY <1>0, <1>1, ReadTyped DEF IInv
<1>3. ~failed /\ in \in Inputs /\ got \in Nat /\ n \in Nat /\ Len(Preface) \in Nat /\ Len(in.stream) \in Nat
  BY <1>0, <1>2, StreamsAre DEF IInv, Open, TypeOK
<1>4. got' <= Len(Preface)
  BY <1>2, <1>3
<1>5. /\ IsPrefix(Seen(got'), Preface) <=> PrefaceRead(got')
      /\ got' >= Len(Preface) /\ PrefaceRead(got') => IsPrefix(Preface, in.stream)
      /\ ~PrefaceRead(got') => ~IsPrefix(Preface, in.stream)
  BY <1>2, <1>3, <1>4, PrefaceRight
<1>6. CASE verdict' = "none"
  <2>1. PrefaceRead(got)' /\ (in.kind = "http2" => got' < Len(Preface))
    BY <1>0, <1>2, <1>3, <1>4, <1>5, <1>6, SeenStays
  <2>2. (Len(Preface) + 1)..got' = {}
    BY <1>2, <1>3, <1>4
  <2>3. (in.kind = "http2" => got < Len(Preface))'
    BY <1>2, <2>1
  <2>4. (\A i \in (Len(Preface) + 1)..got : ~done(in.stream[i]))'
    BY <2>2
  <2>5. Open'
    BY <1>0, <1>2, <1>3, <2>1, <2>3, <2>4, KindsDiffer DEF Open
  <2> QED
    BY <1>2, <1>6, <2>5 DEF IInv
<1>7. CASE verdict' = "yes"
  <2>1. in.kind = "http2" /\ IsPrefix(Preface, in.stream)
    BY <1>0, <1>3, <1>5, <1>7
  <2>2. Right(verdict')
    BY <1>7, <2>1, KindsDiffer DEF Right
  <2> QED
    BY <1>2, <1>7, <2>2, RightStays DEF IInv, Open
<1>8. CASE verdict' = "no"
  <2>1. ~IsPrefix(Preface, in.stream) /\ ~HasField
    BY <1>0, <1>5, <1>8 DEF HasField
  <2>2. Right(verdict')
    BY <1>0, <1>8, <2>1, KindsDiffer DEF Right
  <2> QED
    BY <1>2, <1>8, <2>2, RightStays DEF IInv, Open
<1> QED
  BY <1>1, <1>6, <1>7, <1>8

\* matchHTTP2Field goes on after a frame, or decides right.
LEMMA FrameStep ==
  ASSUME IInv, ReadFrame
  PROVE  IInv'
<1> DEFINE f == in.stream[got + 1]
<1>0. /\ in.kind \in Fields /\ got >= Len(Preface) /\ sent > got /\ Read(1, 1)
      /\ verdict' = IF done(f) THEN verdictOf(matched(f)) ELSE "none"
  BY DEF ReadFrame
<1>1. verdict' \in {"none", "yes", "no"}
  BY <1>0 DEF verdictOf
<1>2. 1 \in 1..(sent - got)
  BY <1>0, StreamsAre DEF IInv, TypeOK
<1>3. TypeOK' /\ in' = in /\ got' = got + 1 /\ got' \in 0..Len(in.stream) /\ failed' = failed
      /\ verdict = "none"
  BY <1>0, <1>1, <1>2, ReadTyped DEF IInv
<1>4. ~failed /\ in \in Inputs /\ got \in Nat /\ Len(Preface) \in Nat /\ Len(in.stream) \in Nat
  BY <1>0, <1>3, StreamsAre DEF IInv, Open, TypeOK
<1>5. /\ PrefaceRead(got) /\ got \in 0..Len(in.stream) /\ got < Len(in.stream)
      /\ \A i \in (Len(Preface) + 1)..got : ~done(in.stream[i])
  BY <1>0, <1>3, <1>4, KindsDiffer DEF IInv, Open
<1>6. CASE done(f)
  <2>1. NamedOnce => (matched(f) <=> HasField)
    BY <1>0, <1>4, <1>5, <1>6, FieldRight
  <2>2. Right(verdict')
    BY <1>0, <1>6, <2>1, KindsDiffer DEF Right, verdictOf
  <2>3. Right(verdict)' /\ verdict' # "none"
    BY <1>0, <1>3, <1>6, <2>2, RightStays DEF verdictOf
  <2> QED
    BY <1>3, <2>3 DEF IInv, Open
<1>7. CASE ~done(f)
  <2>1. verdict' = "none"
    BY <1>0, <1>7
  <2>2. ASSUME NEW i \in (Len(Preface) + 1)..got' PROVE ~done(in.stream[i])
    <3>1. i = got + 1 \/ i \in (Len(Preface) + 1)..got
      BY <1>3, <1>4
    <3> QED
      BY <1>5, <1>7, <3>1
  <2>3. (\A i \in (Len(Preface) + 1)..got : ~done(in.stream[i]))'
    BY <1>3, <2>2
  <2>4. PrefaceRead(got')
    BY <1>0, <1>3, <1>4, <1>5 DEF PrefaceRead
  <2>5. PrefaceRead(got)'
    BY <1>3, <2>4, SeenStays
  <2>6. Open'
    BY <1>0, <1>3, <1>4, <2>3, <2>5, KindsDiffer DEF Open
  <2> QED
    BY <1>3, <2>1, <2>6 DEF IInv
<1> QED
  BY <1>6, <1>7

\* matchHTTP2Field goes on after SETTINGS, or has failed.
LEMMA SettingsStep ==
  ASSUME IInv, NEW fails \in BOOLEAN, ReadSettings(fails)
  PROVE  IInv'
<1> DEFINE f == in.stream[got + 1]
<1>0. /\ in.kind \in Fields /\ got >= Len(Preface) /\ sent > got /\ verdict = "none" /\ answers(f)
      /\ in' = in /\ tree' = tree /\ limited' = limited /\ sent' = sent
      /\ got' = got + 1 /\ failed' = fails /\ answered' \in BOOLEAN
      /\ verdict' = IF fails THEN "no" ELSE "none"
  BY DEF ReadSettings, IInv, TypeOK
<1>1. got' \in 0..sent /\ in \in Inputs /\ got \in Nat /\ Len(Preface) \in Nat
  BY <1>0, StreamsAre DEF IInv, TypeOK
<1>2. TypeOK'
  <2>1. Tree' = Tree
    BY <1>0 DEF Tree
  <2> QED
    BY <1>0, <1>1, <2>1 DEF IInv, TypeOK
<1>3. ~done(f)
  BY <1>0 DEF answers, done, hasHeaders
<1>4. CASE fails
  BY <1>0, <1>2, <1>4 DEF IInv, Open
<1>5. CASE ~fails
  <2>1. PrefaceRead(got) /\ \A i \in (Len(Preface) + 1)..got : ~done(in.stream[i])
    BY <1>0, KindsDiffer DEF IInv, Open
  <2>2. ASSUME NEW i \in (Len(Preface) + 1)..got' PROVE ~done(in.stream[i])
    <3>1. i = got + 1 \/ i \in (Len(Preface) + 1)..got
      BY <1>0, <1>1
    <3> QED
      BY <1>3, <2>1, <3>1
  <2>3. (\A i \in (Len(Preface) + 1)..got : ~done(in.stream[i]))'
    BY <1>0, <2>2
  <2>4. PrefaceRead(got')
    BY <1>0, <1>1, <2>1 DEF PrefaceRead
  <2>5. PrefaceRead(got)'
    BY <1>0, <2>4, SeenStays
  <2>6. Open'
    BY <1>0, <1>5, <2>3, <2>5, KindsDiffer DEF Open
  <2> QED
    BY <1>0, <1>2, <1>5, <2>6 DEF IInv
<1> QED
  BY <1>4, <1>5

\* The Reads that fail.
LEMMA FailSteps ==
  ASSUME IInv, TreeReadFails \/ ReadLineFails \/ RequestReadFails \/ HTTP2ReadFails
  PROVE  IInv'
<1> DEFINE m == Len(in.stream)
<1>1. in \in Inputs /\ m \in Nat /\ got \in 0..m /\ tree = Tree
  BY StreamsAre DEF IInv, TypeOK
<1>2. CASE TreeReadFails
  <2>1. in.kind \in Trees /\ ReadFails(treeMatch(got))
    BY <1>2 DEF TreeReadFails
  <2>2. treeMatch(got) \in {"yes", "no"}
    BY DEF treeMatch, verdictOf
  <2>3. ASSUME got = m PROVE Right(treeMatch(got))
    <3>1. treeMatch(got) = verdictOf(TreeWanted)
      BY <1>1, <2>1, <2>3, TreeRight
    <3> QED
      BY <2>1, <3>1, KindsDiffer DEF Right, verdictOf, TreeWanted
  <2> QED
    BY <2>1, <2>2, <2>3, ReadFailsRight
<1>3. CASE ReadLineFails
  <2> DEFINE v == verdictOf(isHTTP1(Seen(got)))
  <2>1. in.kind = "http1" /\ ReadFails(v)
    BY <1>3 DEF ReadLineFails
  <2>2. v \in {"yes", "no"}
    BY DEF verdictOf
  <2>3. ASSUME got = m PROVE Right(v)
    <3>1. got < MaxHTTPRead /\ endOfLine(got) = 0 /\ MaxHTTPRead \in Nat
      BY <2>1, MatchersAssumption DEF IInv, Open, ReadFails
    <3>2. isHTTP1(Seen(got)) <=> IsRequestLine /\ LineFits
      BY <1>1, <2>3, <3>1, HTTP1Right
    <3> QED
      BY <2>1, <3>2, KindsDiffer DEF Right, verdictOf
  <2> QED
    BY <2>1, <2>2, <2>3, ReadFailsRight
<1>4. CASE RequestReadFails
  <2>1. in.kind \in Headers /\ ReadFails("no")
    BY <1>4 DEF RequestReadFails
  <2>2. ASSUME got = m PROVE Right("no")
    <3>1. endOfLine(got) = 0 \/ endOfHeader(got) = 0
      BY <2>1 DEF IInv, Open, ReadFails
    <3>2. ~IsRequest
      BY <1>1, <2>1, <2>2, <3>1, HeaderRight
    <3> QED
      BY <2>1, <3>2, KindsDiffer DEF Right
  <2> QED
    BY <2>1, <2>2, ReadFailsRight
<1>5. CASE HTTP2ReadFails
  <2>1. in.kind \in HTTP2Kinds /\ ReadFails("no")
    BY <1>5 DEF HTTP2ReadFails
  <2>2. ASSUME got = m PROVE Right("no")
    <3>1. verdict = "none"
      BY <2>1 DEF ReadFails
    <3>2. CASE got < Len(Preface)
      <4>1. ~IsPrefix(Preface, in.stream)
        BY <1>1, <2>2, <3>2, PrefaceRight
      <4> QED
        BY <2>1, <4>1, KindsDiffer DEF Right, HasField
    <3>3. CASE ~(got < Len(Preface))
      <4>1. in.kind \in Fields /\ \A i \in (Len(Preface) + 1)..m : ~done(in.stream[i])
        BY <2>1, <2>2, <3>1, <3>3, KindsDiffer DEF IInv, Open
      <4>2. ~HasField
        BY <1>1, <2>2, <3>3, <4>1, NoField, StreamsAre
      <4> QED
        BY <4>1, <4>2, KindsDiffer DEF Right
    <3> QED
      BY <3>2, <3>3
  <2> QED
    BY <2>1, <2>2, ReadFailsRight
<1> QED
  BY <1>2, <1>3, <1>4, <1>5

\* What the client sends, and a stutter, change nothing the matcher has seen.
LEMMA IdleStep ==
  ASSUME IInv, ClientSends \/ UNCHANGED vars
  PROVE  IInv'
<1>1. /\ in' = in /\ tree' = tree /\ limited' = limited /\ got' = got
      /\ answered' = answered /\ failed' = failed /\ verdict' = verdict
      /\ sent' \in 0..Len(in.stream) /\ sent' >= sent
  BY StreamsAre DEF ClientSends, vars, IInv, TypeOK
<1>2. TypeOK'
  <2>1. Tree' = Tree
    BY <1>1 DEF Tree
  <2>2. got' \in 0..sent'
    BY <1>1, StreamsAre DEF IInv, TypeOK
  <2> QED
    BY <1>1, <2>1, <2>2 DEF IInv, TypeOK
<1>3. Open'
  <2>1. /\ endOfLine(got)' = endOfLine(got) /\ endOfHeader(got)' = endOfHeader(got)
        /\ Seen(endOfLine(got) - 1)' = Seen(endOfLine(got) - 1)
        /\ PrefaceRead(got)' <=> PrefaceRead(got)
    BY <1>1, SeenStays
  <2>2. isRequest(Seen(endOfLine(got) - 1))' <=> isRequest(Seen(endOfLine(got) - 1))
    BY <2>1 DEF isRequest
  <2> QED
    BY <1>1, <2>1, <2>2 DEF IInv, Open
<1>4. ASSUME verdict' # "none", ~failed' PROVE Right(verdict)'
  <2>1. Right(verdict')
    BY <1>1, <1>4 DEF IInv
  <2> QED
    BY <1>1, <2>1, RightStays
<1> QED
  BY <1>2, <1>3, <1>4 DEF IInv

\* A matcher that has read nothing knows nothing.
LEMMA InitIInv == Init => IInv
<1> SUFFICES ASSUME Init PROVE IInv
  OBVIOUS
<1>1. in \in Inputs /\ Len(in.stream) \in Nat /\ Len(Preface) \in Nat \ {0} /\ MaxHTTPRead \in Nat \ {0}
  BY StreamsAre, MatchersAssumption DEF Init
<1>2. TypeOK
  <2>1. tree = Tree
    BY DEF Init, Tree
  <2>2. 0 \in 0..Len(in.stream) /\ 0 \in 0..0
    BY <1>1
  <2> QED
    BY <1>1, <2>1, <2>2 DEF Init, TypeOK
<1>3. Open
  <2>1. in.kind \in Trees => got < tree.maxDepth
    BY <1>1, MatchersAssumption, MaxDepth DEF Init
  <2>2. endOfLine(got) = 0
    <3>1. endOfLine(0) \in 0..0
      BY <1>1, EndOfLine
    <3> QED
      BY <3>1 DEF Init
  <2>3. PrefaceRead(got) /\ (Len(Preface) + 1)..got = {} /\ got < Len(Preface) /\ got < MaxHTTPRead
    BY <1>1 DEF Init, PrefaceRead
  <2> QED
    BY <2>1, <2>2, <2>3 DEF Init, Open
<1> QED
  BY <1>2, <1>3 DEF Init, IInv

\* Every step keeps the invariant.
LEMMA NextIInv == IInv /\ [Next]_vars => IInv'
<1> SUFFICES ASSUME IInv, [Next]_vars PROVE IInv'
  OBVIOUS
<1>1. CASE ClientSends \/ UNCHANGED vars
  BY <1>1, IdleStep
<1>2. CASE \E n \in 1..(sent - got) : ReadTree(n) \/ ReadLine(n) \/ ReadRequest(n) \/ ReadPreface(n)
  BY <1>2, TreeStep, LineStep, RequestStep, PrefaceStep
<1>3. CASE TreeReadFails \/ ReadLineFails \/ RequestReadFails \/ HTTP2ReadFails
  BY <1>3, FailSteps
<1>4. CASE ReadFrame
  BY <1>4, FrameStep
<1>5. CASE \E fails \in BOOLEAN : ReadSettings(fails)
  BY <1>5, SettingsStep
<1> QED
  BY <1>1, <1>2, <1>3, <1>4, <1>5 DEF Next, Matching

\* Every matcher of rpc/mux.go, at any time: what it has read does not decide
\* yet while it has not answered, and its answer is right once it has.
THEOREM Invariance == Spec => []IInv
<1> QED
  BY InitIInv, NextIInv, PTL DEF Spec

\* A matcher that neither times out nor fails to write says yes iff the whole
\* stream is what it looks for (VerdictRight), for every finite set of strings,
\* every stream, preface and maxHTTPRead, and every way to cut it into reads.
THEOREM VerdictsRight == Spec => []VerdictRight
<1>1. IInv => VerdictRight
  BY DEF IInv, Right, VerdictRight
<1> QED
  BY <1>1, Invariance, PTL
=============================================================================
