----------------------------- MODULE BtreeProofs -----------------------------
(***************************************************************************)
(* Proofs about Btree, for every value of its constants.                   *)
(*                                                                         *)
(* The shape of a tree is told by two functions: W[l][k] is the node of    *)
(* level l that is responsible for the position k, D[k] what the tree      *)
(* holds of it.  The parts of a level have no gaps (Convex) and each lies  *)
(* in one part of the level above (Nested); a routing node has one entry   *)
(* for each place where a part of the level below begins, a leaf the       *)
(* entries of its part (Says).  While a split is on its way up the routing *)
(* entry of one part is missing: Shape(t, W, D, m, x) leaves out the one   *)
(* of level m at position x, and Shape(t, W, D, 0, 0) none.                *)
(*                                                                         *)
(* The lemmas go from sequences of entries over the operations on a node   *)
(* and on the shape (put, split, split of the root, merge, collapse) to    *)
(* the calls: an insert changes D at its key, a delete makes it Dead or    *)
(* leaves it, the other calls leave D as it is.                            *)
(***************************************************************************)
EXTENDS Btree, FiniteSetTheorems, WellFoundedInduction, TLAPS

Pairs == Positions \X Nat

NodeSet == [level : Nat, base : Seq(Pairs), aux : BOOLEAN, inc : Seq(Pairs),
            at : Nat, white : Nat, count : Nat]

\* The entries fit into the node, wherever the appended set begins.
Fits(n) ==
  /\ n.aux => (EntryBytes + AuxBytes) * Len(n.base) <= NodeSize
  /\ EntryBytes * Len(n.base) <= NodeSize
  /\ n.inc # <<>> => /\ EntryBytes * Len(n.base) <= n.at
                     /\ n.at + EntryBytes * Len(n.inc) <= NodeSize
  /\ n.inc = <<>> => n.at = 0

Once(s) == \A i, j \in DOMAIN s : s[i][1] = s[j][1] => i = j

NodeOK(n) ==
  /\ n \in NodeSet
  /\ Fits(n)
  /\ Once(n.base)
  /\ n.inc = <<>> => n.count = Len(n.base)

\* What a routing node is like: no tombstones, each key once.
Clean(n) ==
  /\ Once(Entries(n))
  /\ \A i \in DOMAIN Entries(n) : Entries(n)[i][2] # Dead
  /\ n.count = Len(Entries(n))

\* What the trees of the model are; W tells for each level which node is
\* responsible for a position, D what is found there.
TreeSet == [root : NodeSet, depth : Nat, cache : UNION {[S -> NodeSet] : S \in SUBSET Nat},
            next : Nat, loaded : BOOLEAN, shared : BOOLEAN]

TreeOK(t) ==
  /\ t \in TreeSet
  /\ t.next > 0
  /\ NodeOK(t.root)
  /\ \A a \in DOMAIN t.cache : 0 < a /\ a < t.next /\ NodeOK(t.cache[a])

NodeOf(t, a) == IF a = Root THEN t.root ELSE t.cache[a]

\* Where the parts begin for which the nodes of the level below are responsible.
Starts(W, l) == {k \in Positions : k = 0 \/ W[l - 1][k - 1] # W[l - 1][k]}

\* What a node at level l says of the positions it is responsible for, when the
\* routing entry x of level m is missing.
Val(W, D, m, x, l, j) ==
  IF l = 0 THEN D[j] ELSE IF j \in Starts(W, l) /\ ~(l = m /\ j = x) THEN W[l - 1][j] ELSE Dead

Ways(t, W) ==
  /\ \A k \in Positions : W[t.depth][k] = Root
  /\ \A l \in 0..(t.depth - 1), k \in Positions : W[l][k] \in DOMAIN t.cache
  /\ \A l \in 0..t.depth, k \in Positions : NodeOf(t, W[l][k]).level = l
  /\ \A a \in DOMAIN t.cache : \E l \in 0..(t.depth - 1), k \in Positions : W[l][k] = a

Nested(d, W) ==
  \A l \in 1..d, j, k \in Positions : W[l - 1][j] = W[l - 1][k] => W[l][j] = W[l][k]
Convex(d, W) ==
  \A l \in 0..d, i, j, k \in Positions : i <= j /\ j <= k /\ W[l][i] = W[l][k] => W[l][j] = W[l][i]

\* Node n at level l, for the positions that W gives to the address a.
Says(n, a, l, W, D, m, x) ==
  /\ l > 0 => Clean(n)
  /\ \A j \in Positions : Content(n, j) = IF W[l][j] = a THEN Val(W, D, m, x, l, j) ELSE Dead

Shape(t, W, D, m, x) ==
  /\ TreeOK(t) /\ Ways(t, W) /\ Nested(t.depth, W) /\ Convex(t.depth, W)
  /\ D \in [Positions -> Nat]
  /\ \A l \in 0..t.depth, k \in Positions : Says(NodeOf(t, W[l][k]), W[l][k], l, W, D, m, x)

-----------------------------------------------------------------------------
(* Numbers, and recursion over 0..n.                                       *)

\* The least of a set of naturals.
LEMMA LeastNat ==
  ASSUME NEW S, S \subseteq Nat, S # {} PROVE \E x \in S : \A y \in S : x <= y
<1>1. PICK x \in S : \A y \in S : ~(<<y, x>> \in OpToRel(<, Nat))
  BY NatLessThanWellFounded, WFMin, Zenon
<1>2. ASSUME NEW y \in S PROVE x <= y
  <2>1. x \in Nat /\ y \in Nat
    OBVIOUS
  <2>2. ~(<<y, x>> \in {ss \in Nat \X Nat : ss[1] < ss[2]})
    BY <1>1 DEF OpToRel
  <2> QED
    BY <2>1, <2>2
<1> QED
  BY <1>2

\* The greatest of a set of numbers with a bound.
LEMMA GreatestNat ==
  ASSUME NEW n \in Nat, NEW S, S \subseteq 0..n, S # {}
  PROVE  \E x \in S : \A y \in S : x >= y
<1> DEFINE T == {n - k : k \in S}
<1>1. \A k \in S : k \in Nat /\ k <= n /\ n - k \in Nat /\ n - k \in T
  OBVIOUS
<1>2. \A x \in T : \E k \in S : x = n - k
  OBVIOUS
<1> HIDE DEF T
<1>3. T \subseteq Nat /\ T # {}
  BY <1>1, <1>2
<1>4. PICK x \in T : \A y \in T : x <= y
  BY <1>3, LeastNat
<1>5. PICK k \in S : x = n - k
  BY <1>2
<1>6. \A j \in S : k >= j
  BY <1>1, <1>4, <1>5
<1> QED
  BY <1>6

\* What is true of 0, and of each number up to n when it is of the one before, is
\* true of n.
LEMMA StepByStep ==
  ASSUME NEW n \in Nat, NEW Q, 0 \in Q, \A k \in 1..n : k - 1 \in Q => k \in Q
  PROVE  n \in Q
<1> SUFFICES ASSUME n \notin Q PROVE FALSE
  OBVIOUS
<1> DEFINE Bad == {k \in 0..n : k \notin Q}
<1>1. Bad \subseteq Nat /\ Bad # {}
  OBVIOUS
<1>2. PICK k \in Bad : \A j \in Bad : k <= j
  BY <1>1, LeastNat
<1>3. k \in 1..n /\ k - 1 \in 0..n /\ k - 1 \notin Bad
  BY <1>2
<1> QED
  BY <1>3

\* A function over 0..n that is given step by step exists; P has what it may give.
Stepping(f, n, b, G) == f = [i \in 0..n |-> IF i = 0 THEN b ELSE G[<<i, f[i - 1]>>]]

\* A recursion over 0..n whose steps stay in the sets P has a solution there.
LEMMA StepsExist ==
  ASSUME NEW n \in Nat, NEW P, NEW b, NEW G, b \in P[0],
         \A i \in 1..n : \A v \in P[i - 1] : G[<<i, v>>] \in P[i]
  PROVE  \E f : Stepping(f, n, b, G) /\ \A i \in 0..n : f[i] \in P[i]
<1> DEFINE E(k) == \E f : Stepping(f, k, b, G) /\ \A i \in 0..k : f[i] \in P[i]
           Q == {k \in 0..n : E(k)}
<1>1. E(0)
  <2> DEFINE f == [i \in {0} |-> b]
  <2>1. 0..0 = {0}
    OBVIOUS
  <2>2. Stepping(f, 0, b, G) /\ \A i \in 0..0 : f[i] \in P[i]
    BY <2>1 DEF Stepping
  <2> QED
    BY <2>2
<1>2. ASSUME NEW k \in 1..n, E(k - 1) PROVE E(k)
  <2>1. PICK f : Stepping(f, k - 1, b, G) /\ \A i \in 0..(k - 1) : f[i] \in P[i]
    BY <1>2
  <2> DEFINE g == [i \in 0..k |-> IF i = k THEN G[<<k, f[k - 1]>>] ELSE f[i]]
  <2>2. G[<<k, f[k - 1]>>] \in P[k]
    BY <2>1
  <2>3. \A i \in 0..k : g[i] \in P[i]
    BY <2>1, <2>2
  <2>4. ASSUME NEW i \in 0..k PROVE g[i] = IF i = 0 THEN b ELSE G[<<i, g[i - 1]>>]
    <3>1. i = 0 => g[i] = f[0] /\ f[0] = b
      BY <2>1 DEF Stepping
    <3>2. i = k => g[i] = G[<<k, f[k - 1]>>] /\ g[i - 1] = f[k - 1]
      OBVIOUS
    <3>3. i \in 1..(k - 1) => g[i] = f[i] /\ g[i - 1] = f[i - 1] /\ f[i] = G[<<i, f[i - 1]>>]
      BY <2>1 DEF Stepping
    <3>4. i = 0 \/ i = k \/ i \in 1..(k - 1)
      OBVIOUS
    <3> HIDE DEF g
    <3> QED
      BY <3>1, <3>2, <3>3, <3>4
  <2>5. Stepping(g, k, b, G)
    BY <2>4 DEF Stepping
  <2> HIDE DEF g
  <2> QED
    BY <2>3, <2>5
<1> HIDE DEF E
<1>3. 0 \in Q /\ \A k \in 1..n : k - 1 \in Q => k \in Q
  BY <1>1, <1>2
<1> HIDE DEF Q
<1>4. n \in Q
  BY <1>3, StepByStep
<1> QED
  BY <1>4 DEF Q, E

\* What it gives is in P whichever such function it is.
LEMMA StepsStay ==
  ASSUME NEW n \in Nat, NEW P, NEW b, NEW G, NEW f, Stepping(f, n, b, G), b \in P[0],
         \A i \in 1..n : \A v \in P[i - 1] : G[<<i, v>>] \in P[i]
  PROVE  \A i \in 0..n : f[i] \in P[i]
<1> SUFFICES ASSUME NEW m \in 0..n PROVE f[m] \in P[m]
  OBVIOUS
<1> DEFINE Q == {i \in 0..n : f[i] \in P[i]}
<1>1. 0 \in Q
  BY DEF Stepping
<1>2. ASSUME NEW k \in 1..m, k - 1 \in Q PROVE k \in Q
  <2>1. f[k] = G[<<k, f[k - 1]>>]
    BY DEF Stepping
  <2> QED
    BY <1>2, <2>1
<1> HIDE DEF Q
<1>3. m \in Q
  BY <1>1, <1>2, StepByStep
<1> QED
  BY <1>3 DEF Q

-----------------------------------------------------------------------------
(* Sequences of entries.                                                   *)

\* The constants, one by one.
LEMMA ConstantsAre ==
  /\ NKeys \in Nat /\ NKeys > 0 /\ EntryBytes \in Nat /\ EntryBytes > 0
  /\ AuxBytes \in Nat /\ AuxBytes > 0 /\ AuxBytes <= EntryBytes /\ EntryBytes % 8 = 0
  /\ NodeSize \in Nat /\ NodeSize >= 4 * EntryBytes
  /\ Positions = 0..NKeys /\ Keys = 1..NKeys /\ Dead = 0 /\ MinKey = 0
<1>1. NKeys \in Nat /\ NKeys > 0 /\ EntryBytes \in Nat /\ EntryBytes > 0 /\ AuxBytes \in Nat /\ AuxBytes > 0
  BY NodeAssumption
<1>2. Positions = 0..NKeys
  BY <1>1 DEF Positions, Keys, MinKey
<1> QED
  BY <1>1, <1>2, NodeAssumption DEF Keys, Dead, MinKey

\* The parts of an entry.
LEMMA PairFields == \A e \in Pairs : e[1] \in Positions /\ e[2] \in Nat /\ e = <<e[1], e[2]>>
  BY DEF Pairs

-----------------------------------------------------------------------------
(* The newest entry of a position.                                         *)

\* Newest is the last entry of the position, if there is one.
LEMMA NewestIs ==
  ASSUME NEW s \in Seq(Pairs), NEW k
  PROVE  \/ Newest(s, k) = Dead /\ \A i \in DOMAIN s : s[i][1] # k
         \/ \E i \in DOMAIN s :
              s[i][1] = k /\ Newest(s, k) = s[i][2] /\ \A j \in DOMAIN s : s[j][1] = k => j <= i
<1> DEFINE at == {i \in DOMAIN s : s[i][1] = k}
<1>1. at \subseteq 0..Len(s) /\ Len(s) \in Nat
  OBVIOUS
<1>2. Newest(s, k) = IF at = {} THEN Dead ELSE s[CHOOSE i \in at : \A j \in at : i >= j][2]
  BY DEF Newest
<1>3. CASE at = {}
  BY <1>2, <1>3
<1>4. CASE at # {}
  <2>1. \E i \in at : \A j \in at : i >= j
    BY <1>1, <1>4, GreatestNat
  <2> DEFINE g == CHOOSE i \in at : \A j \in at : i >= j
  <2>2. g \in at /\ \A j \in at : g >= j
    BY <2>1
  <2>3. Newest(s, k) = s[g][2]
    BY <1>2, <1>4
  <2> HIDE DEF g
  <2>4. g \in DOMAIN s /\ s[g][1] = k /\ \A j \in DOMAIN s : s[j][1] = k => j <= g
    BY <1>1, <2>2
  <2> QED
    BY <2>3, <2>4
<1> QED
  BY <1>3, <1>4

\* Newest gives a value.
LEMMA NewestType == ASSUME NEW s \in Seq(Pairs), NEW k PROVE Newest(s, k) \in Nat
<1>1. \A i \in DOMAIN s : s[i][2] \in Nat
  BY PairFields
<1> QED
  BY <1>1, NewestIs DEF Dead

\* An entry behind which no other one of its position stands.
LEMMA NewestLast ==
  ASSUME NEW s \in Seq(Pairs), NEW i \in DOMAIN s,
         \A j \in DOMAIN s : j > i => s[j][1] # s[i][1]
  PROVE  Newest(s, s[i][1]) = s[i][2]
<1>1. PICK g \in DOMAIN s : s[g][1] = s[i][1] /\ Newest(s, s[i][1]) = s[g][2]
                            /\ \A j \in DOMAIN s : s[j][1] = s[i][1] => j <= g
  BY NewestIs
<1>2. g \in Nat /\ i \in Nat /\ ~(g > i) /\ i <= g
  BY <1>1
<1> QED
  BY <1>1, <1>2

\* In a sequence with one entry of each position Newest is that entry.
LEMMA NewestOnce ==
  ASSUME NEW s \in Seq(Pairs), Once(s), NEW i \in DOMAIN s PROVE Newest(s, s[i][1]) = s[i][2]
<1>1. \A j \in DOMAIN s : j > i => s[j][1] # s[i][1]
  BY DEF Once
<1> QED
  BY <1>1, NewestLast

\* An appended entry is the newest of its position and no other.
LEMMA NewestAppend ==
  ASSUME NEW s \in Seq(Pairs), NEW e \in Pairs, NEW k
  PROVE  Newest(Append(s, e), k) = IF e[1] = k THEN e[2] ELSE Newest(s, k)
<1> DEFINE u == Append(s, e)
           n == Len(s)
<1>1. /\ u \in Seq(Pairs) /\ n \in Nat /\ DOMAIN s = 1..n /\ DOMAIN u = 1..(n + 1)
      /\ u[n + 1] = e /\ \A i \in 1..n : u[i] = s[i]
  OBVIOUS
<1> HIDE DEF u, n
<1>2. CASE e[1] = k
  <2>1. n + 1 \in DOMAIN u /\ \A j \in DOMAIN u : j > n + 1 => u[j][1] # u[n + 1][1]
    BY <1>1
  <2>2. Newest(u, u[n + 1][1]) = u[n + 1][2]
    BY <1>1, <2>1, NewestLast
  <2> QED
    BY <1>1, <1>2, <2>2 DEF u
<1>3. CASE e[1] # k
  <2>1. CASE \A i \in DOMAIN s : s[i][1] # k
    <3>1. \A i \in DOMAIN u : u[i][1] # k
      BY <1>1, <1>3, <2>1
    <3>2. Newest(s, k) = Dead
      BY <2>1, NewestIs
    <3>3. Newest(u, k) = Dead
      BY <1>1, <3>1, NewestIs
    <3> QED
      BY <1>3, <3>2, <3>3 DEF u
  <2>2. CASE \E i \in DOMAIN s : s[i][1] = k
    <3>1. PICK i \in DOMAIN s :
              s[i][1] = k /\ Newest(s, k) = s[i][2] /\ \A j \in DOMAIN s : s[j][1] = k => j <= i
      BY <2>2, NewestIs
    <3>2. i \in DOMAIN u /\ u[i] = s[i] /\ i \in 1..n
      BY <1>1
    <3>3. \A j \in DOMAIN u : j > i => u[j][1] # k
      <4> SUFFICES ASSUME NEW j \in DOMAIN u, j > i PROVE u[j][1] # k
        OBVIOUS
      <4>1. j = n + 1 \/ j \in 1..n
        BY <1>1
      <4>2. j \in 1..n => u[j] = s[j] /\ j \in DOMAIN s /\ ~(j <= i)
        BY <1>1, <3>2
      <4> QED
        BY <1>1, <1>3, <3>1, <4>1, <4>2
    <3>4. Newest(u, u[i][1]) = u[i][2]
      BY <1>1, <3>1, <3>2, <3>3, NewestLast
    <3> QED
      BY <1>3, <3>1, <3>2, <3>4 DEF u
  <2> QED
    BY <2>1, <2>2
<1> QED
  BY <1>2, <1>3

\* Of two sequences the second one wins, where it has an entry.
LEMMA NewestConcat ==
  ASSUME NEW s \in Seq(Pairs), NEW u \in Seq(Pairs), NEW k
  PROVE  Newest(s \o u, k) = IF \E i \in DOMAIN u : u[i][1] = k THEN Newest(u, k) ELSE Newest(s, k)
<1> DEFINE w == s \o u
           n == Len(s)
           m == Len(u)
<1>1. /\ w \in Seq(Pairs) /\ n \in Nat /\ m \in Nat /\ DOMAIN s = 1..n /\ DOMAIN u = 1..m
      /\ DOMAIN w = 1..(n + m)
      /\ \A i \in 1..n : w[i] = s[i]
      /\ \A i \in 1..m : w[n + i] = u[i]
  OBVIOUS
<1> HIDE DEF w, n, m
<1>0. \A j \in DOMAIN w : j \in 1..n \/ (j - n \in 1..m /\ n + (j - n) = j)
  BY <1>1
<1>2. CASE \E i \in DOMAIN u : u[i][1] = k
  <2>1. PICK i \in DOMAIN u :
              u[i][1] = k /\ Newest(u, k) = u[i][2] /\ \A j \in DOMAIN u : u[j][1] = k => j <= i
    BY <1>2, NewestIs
  <2>2. n + i \in DOMAIN w /\ w[n + i] = u[i] /\ i \in 1..m
    BY <1>1
  <2>3. \A j \in DOMAIN w : j > n + i => w[j][1] # k
    <3> SUFFICES ASSUME NEW j \in DOMAIN w, j > n + i PROVE w[j][1] # k
      OBVIOUS
    <3>1. j - n \in 1..m /\ n + (j - n) = j /\ ~(j - n <= i)
      BY <1>0, <1>1, <2>2
    <3>2. w[j] = u[j - n]
      BY <1>1, <3>1
    <3> QED
      BY <1>1, <2>1, <3>1, <3>2
  <2>4. Newest(w, w[n + i][1]) = w[n + i][2]
    BY <1>1, <2>1, <2>2, <2>3, NewestLast
  <2> QED
    BY <1>2, <2>1, <2>2, <2>4 DEF w
<1>3. CASE ~\E i \in DOMAIN u : u[i][1] = k
  <2>0. \A j \in DOMAIN w : w[j][1] = k => j \in 1..n /\ w[j] = s[j]
    <3> SUFFICES ASSUME NEW j \in DOMAIN w, w[j][1] = k PROVE j \in 1..n
      BY <1>1
    <3>1. j - n \in 1..m /\ n + (j - n) = j => w[j] = u[j - n]
      BY <1>1
    <3> QED
      BY <1>0, <1>1, <1>3, <3>1
  <2>1. CASE \A i \in DOMAIN s : s[i][1] # k
    <3>1. \A i \in DOMAIN w : w[i][1] # k
      BY <1>1, <2>0, <2>1
    <3>2. Newest(s, k) = Dead
      BY <2>1, NewestIs
    <3>3. Newest(w, k) = Dead
      BY <1>1, <3>1, NewestIs
    <3> QED
      BY <1>3, <3>2, <3>3 DEF w
  <2>2. CASE \E i \in DOMAIN s : s[i][1] = k
    <3>1. PICK i \in DOMAIN s :
              s[i][1] = k /\ Newest(s, k) = s[i][2] /\ \A j \in DOMAIN s : s[j][1] = k => j <= i
      BY <2>2, NewestIs
    <3>2. i \in DOMAIN w /\ w[i] = s[i] /\ i \in 1..n
      BY <1>1
    <3>3. \A j \in DOMAIN w : j > i => w[j][1] # k
      BY <1>1, <2>0, <3>1, <3>2
    <3>4. Newest(w, w[i][1]) = w[i][2]
      BY <1>1, <3>1, <3>2, <3>3, NewestLast
    <3> QED
      BY <1>3, <3>1, <3>2, <3>4 DEF w
  <2> QED
    BY <2>1, <2>2
<1> QED
  BY <1>2, <1>3

-----------------------------------------------------------------------------
(* Collecting.                                                             *)

\* Sorted, one entry of each position below k, none of them dead.
Collects(c, s, k) ==
  /\ c \in Seq(Pairs)
  /\ \A i, j \in DOMAIN c : i < j => c[i][1] < c[j][1]
  /\ \A i \in DOMAIN c : c[i][1] < k /\ c[i][2] = Newest(s, c[i][1]) /\ c[i][2] # Dead
  /\ \A j \in Positions : j < k /\ Newest(s, j) # Dead => \E i \in DOMAIN c : c[i][1] = j

\* What is collected up to a position, extended by that position.
LEMMA CollectsNext ==
  ASSUME NEW s \in Seq(Pairs), NEW k \in Positions, NEW c, Collects(c, s, k)
  PROVE  Collects(IF Newest(s, k) = Dead THEN c ELSE Append(c, <<k, Newest(s, k)>>), s, k + 1)
<1>0. Positions \subseteq Nat
  BY ConstantsAre
<1>1. CASE Newest(s, k) = Dead
  <2>1. \A j \in Positions : j < k + 1 /\ Newest(s, j) # Dead => j < k
    BY <1>0, <1>1
  <2>2. \A i \in DOMAIN c : c[i][1] < k + 1
    BY <1>0, PairFields DEF Collects
  <2> QED
    BY <1>1, <2>1, <2>2 DEF Collects
<1>2. CASE Newest(s, k) # Dead
  <2> DEFINE e == <<k, Newest(s, k)>>
             u == Append(c, e)
             n == Len(c)
  <2>0. c \in Seq(Pairs)
    BY DEF Collects
  <2>1. e \in Pairs /\ e[1] = k /\ e[2] = Newest(s, k)
    BY NewestType DEF Pairs
  <2> HIDE DEF e
  <2>2. /\ u \in Seq(Pairs) /\ n \in Nat /\ DOMAIN c = 1..n /\ DOMAIN u = 1..(n + 1)
        /\ u[n + 1] = e /\ \A i \in 1..n : u[i] = c[i]
    BY <2>0, <2>1
  <2> HIDE DEF u, n
  <2>3. \A i \in DOMAIN u : i = n + 1 \/ (i \in DOMAIN c /\ u[i] = c[i])
    BY <2>2
  <2>4. \A i \in DOMAIN c : c[i][1] \in Nat /\ c[i][1] < k /\ i \in DOMAIN u
    BY <1>0, <2>0, <2>2, PairFields DEF Collects
  <2>5. \A i, j \in DOMAIN u : i < j => u[i][1] < u[j][1]
    <3> SUFFICES ASSUME NEW i \in DOMAIN u, NEW j \in DOMAIN u, i < j PROVE u[i][1] < u[j][1]
      OBVIOUS
    <3>1. i \in DOMAIN c /\ u[i] = c[i]
      BY <2>2
    <3>2. CASE j = n + 1
      BY <2>1, <2>2, <2>4, <3>1, <3>2
    <3>3. CASE j \in DOMAIN c /\ u[j] = c[j]
      BY <3>1, <3>3 DEF Collects
    <3> QED
      BY <2>3, <3>2, <3>3
  <2>6. \A i \in DOMAIN u : u[i][1] < k + 1 /\ u[i][2] = Newest(s, u[i][1]) /\ u[i][2] # Dead
    <3> SUFFICES ASSUME NEW i \in DOMAIN u
                 PROVE  u[i][1] < k + 1 /\ u[i][2] = Newest(s, u[i][1]) /\ u[i][2] # Dead
      OBVIOUS
    <3>1. CASE i = n + 1
      BY <1>0, <1>2, <2>1, <2>2, <3>1
    <3>2. CASE i \in DOMAIN c /\ u[i] = c[i]
      <4>1. c[i][2] = Newest(s, c[i][1]) /\ c[i][2] # Dead
        BY <3>2 DEF Collects
      <4>2. c[i][1] < k + 1
        BY <1>0, <2>4, <3>2
      <4> QED
        BY <3>2, <4>1, <4>2
    <3> QED
      BY <2>3, <3>1, <3>2
  <2>7. \A j \in Positions : j < k + 1 /\ Newest(s, j) # Dead => \E i \in DOMAIN u : u[i][1] = j
    <3> SUFFICES ASSUME NEW j \in Positions, j < k + 1, Newest(s, j) # Dead
                 PROVE  \E i \in DOMAIN u : u[i][1] = j
      OBVIOUS
    <3>1. CASE j = k
      BY <2>1, <2>2, <3>1
    <3>2. CASE j < k
      <4>1. PICK i \in DOMAIN c : c[i][1] = j
        BY <3>2 DEF Collects
      <4> QED
        BY <2>2, <4>1
    <3> QED
      BY <1>0, <3>1, <3>2
  <2>8. Collects(u, s, k + 1)
    BY <2>2, <2>5, <2>6, <2>7 DEF Collects
  <2> QED
    BY <1>2, <2>8 DEF u, e
<1> QED
  BY <1>1, <1>2

\* Live collects every position.
LEMMA LiveCollects == ASSUME NEW s \in Seq(Pairs) PROVE Collects(Live(s), s, NKeys + 1)
<1> DEFINE n == NKeys + 1
           Step(k, c) == IF Newest(s, k - 1) = Dead THEN c
                         ELSE Append(c, <<k - 1, Newest(s, k - 1)>>)
           P == [k \in 0..n |-> {c \in Seq(Pairs) : Collects(c, s, k)}]
           G == [p \in (1..n) \X Seq(Pairs) |-> Step(p[1], p[2])]
           Eq(f) == f = [k \in 0..n |-> IF k = 0 THEN <<>> ELSE Step(k, f[k - 1])]
           below == CHOOSE f : Eq(f)
<1>1. n \in Nat /\ Positions = 0..NKeys /\ NKeys \in Nat
  BY ConstantsAre
<1>2. \A k \in 1..n : k - 1 \in Positions /\ k - 1 \in 0..n /\ (k - 1) + 1 = k
  BY <1>1
<1>3. Live(s) = below[n]
  BY DEF Live
<1> HIDE DEF below, n
<1>4. \A k \in 1..n : \A c \in P[k - 1] : G[<<k, c>>] = Step(k, c) /\ G[<<k, c>>] \in P[k]
  <2> SUFFICES ASSUME NEW k \in 1..n, NEW c \in P[k - 1]
               PROVE  G[<<k, c>>] = Step(k, c) /\ G[<<k, c>>] \in P[k]
    OBVIOUS
  <2>1. c \in Seq(Pairs) /\ Collects(c, s, k - 1)
    BY <1>2
  <2>2. G[<<k, c>>] = Step(k, c)
    BY <2>1
  <2>3. Collects(Step(k, c), s, (k - 1) + 1)
    BY <1>2, <2>1, CollectsNext
  <2>4. Collects(Step(k, c), s, k) /\ k \in 0..n
    BY <1>1, <1>2, <2>3
  <2>5. Step(k, c) \in Seq(Pairs)
    BY <2>4 DEF Collects
  <2> HIDE DEF G, Step
  <2>6. Step(k, c) \in P[k]
    BY <2>4, <2>5
  <2> QED
    BY <2>2, <2>6
<1>5. <<>> \in P[0]
  <2>1. 0 \in 0..n /\ <<>> \in Seq(Pairs) /\ DOMAIN <<>> = {}
    BY <1>1
  <2>2. \A j \in Positions : ~(j < 0)
    BY <1>1
  <2>3. Collects(<<>>, s, 0)
    BY <2>1, <2>2 DEF Collects
  <2> QED
    BY <2>1, <2>3
<1>6. PICK f : Stepping(f, n, <<>>, G) /\ \A k \in 0..n : f[k] \in P[k]
  <2> HIDE DEF P, G
  <2> QED
    BY <1>1, <1>4, <1>5, StepsExist
<1>7. Eq(f)
  <2>1. \A k \in 1..n : G[<<k, f[k - 1]>>] = Step(k, f[k - 1])
    BY <1>2, <1>4, <1>6
  <2> HIDE DEF G, Step
  <2> QED
    BY <1>6, <2>1 DEF Stepping
<1>8. Eq(below)
  BY <1>7 DEF below
<1>9. \A k \in 0..n : below[k] \in P[k]
  <2> SUFFICES ASSUME NEW m \in 0..n PROVE below[m] \in P[m]
    OBVIOUS
  <2> DEFINE Q == {k \in 0..n : below[k] \in P[k]}
  <2>1. 0 \in Q
    BY <1>1, <1>5, <1>8
  <2>2. ASSUME NEW k \in 1..m, k - 1 \in Q PROVE k \in Q
    <3>1. k \in 1..n /\ k \in 0..n /\ k # 0 /\ below[k - 1] \in P[k - 1]
      BY <1>1, <2>2
    <3>2. below[k] = Step(k, below[k - 1])
      <4> HIDE DEF Step, P
      <4>1. below = [j \in 0..n |-> IF j = 0 THEN <<>> ELSE Step(j, below[j - 1])]
        BY <1>8
      <4> QED
        BY <3>1, <4>1
    <3>3. G[<<k, below[k - 1]>>] = Step(k, below[k - 1]) /\ G[<<k, below[k - 1]>>] \in P[k]
      BY <1>4, <3>1
    <3> HIDE DEF P, G, Step
    <3>4. below[k] \in P[k]
      BY <3>2, <3>3
    <3> QED
      BY <3>1, <3>4
  <2> HIDE DEF Q
  <2>3. m \in Q
    BY <2>1, <2>2, StepByStep
  <2> QED
    BY <2>3 DEF Q
<1>10. n \in 0..n
  BY <1>1
<1>11. below[n] \in {c \in Seq(Pairs) : Collects(c, s, n)}
  BY <1>9, <1>10
<1>12. Collects(below[n], s, n)
  BY <1>11
<1> QED
  BY <1>3, <1>12 DEF n

\* collect_all_entries is sorted, without the dead, and has the newest of each position.
LEMMA LiveIs ==
  ASSUME NEW s \in Seq(Pairs)
  PROVE  /\ Live(s) \in Seq(Pairs) /\ Once(Live(s))
         /\ \A i, j \in DOMAIN Live(s) : i < j => Live(s)[i][1] < Live(s)[j][1]
         /\ \A i \in DOMAIN Live(s) :
              Live(s)[i][2] = Newest(s, Live(s)[i][1]) /\ Live(s)[i][2] # Dead
         /\ \A j \in Positions : Newest(s, j) # Dead => \E i \in DOMAIN Live(s) : Live(s)[i][1] = j
<1> DEFINE c == Live(s)
<1>1. Collects(c, s, NKeys + 1)
  BY LiveCollects
<1> HIDE DEF c
<1>2. c \in Seq(Pairs) /\ \A i, j \in DOMAIN c : i < j => c[i][1] < c[j][1]
  BY <1>1 DEF Collects
<1>3. \A i \in DOMAIN c : i \in Nat /\ c[i][1] \in Nat
  BY <1>2, PairFields, ConstantsAre
<1>4. \A i \in DOMAIN c : c[i][2] = Newest(s, c[i][1]) /\ c[i][2] # Dead
  BY <1>1 DEF Collects
<1>5. \A j \in Positions : j < NKeys + 1
  BY ConstantsAre
<1>6. \A j \in Positions : Newest(s, j) # Dead => \E i \in DOMAIN c : c[i][1] = j
  BY <1>1, <1>5 DEF Collects
<1>7. Once(c)
  BY <1>2, <1>3 DEF Once
<1> QED
  BY <1>2, <1>4, <1>6, <1>7 DEF c

\* Collecting changes nothing of what is found.
LEMMA LiveNewest ==
  ASSUME NEW s \in Seq(Pairs), NEW k PROVE Newest(Live(s), k) = Newest(s, k)
<1> DEFINE c == Live(s)
<1>1. /\ c \in Seq(Pairs) /\ Once(c)
      /\ \A i \in DOMAIN c : c[i][2] = Newest(s, c[i][1])
      /\ \A j \in Positions : Newest(s, j) # Dead => \E i \in DOMAIN c : c[i][1] = j
  BY LiveIs
<1> HIDE DEF c
<1>2. CASE \E i \in DOMAIN c : c[i][1] = k
  <2>1. PICK i \in DOMAIN c : c[i][1] = k
    BY <1>2
  <2>2. Newest(c, c[i][1]) = c[i][2]
    BY <1>1, NewestOnce
  <2> QED
    BY <1>1, <2>1, <2>2 DEF c
<1>3. CASE ~\E i \in DOMAIN c : c[i][1] = k
  <2>1. Newest(c, k) = Dead
    BY <1>1, <1>3, NewestIs
  <2>2. Newest(s, k) # Dead => k \in Positions
    <3>1. Newest(s, k) # Dead => \E i \in DOMAIN s : s[i][1] = k
      BY NewestIs
    <3> QED
      BY <3>1, PairFields
  <2> QED
    BY <1>1, <1>3, <2>1, <2>2 DEF c
<1> QED
  BY <1>2, <1>3

\* There are n numbers from 1 to n.
LEMMA UpToIsFinite == ASSUME NEW n \in Nat PROVE IsFiniteSet(1..n) /\ Cardinality(1..n) = n
<1>1. IF 1 > n THEN n = 0 ELSE n - 1 + 1 = n
  OBVIOUS
<1> QED
  BY <1>1, FS_Interval

\* Entries of different positions are no more than the entries of these positions.
LEMMA OnceLen ==
  ASSUME NEW c \in Seq(Pairs), NEW s \in Seq(Pairs), Once(c),
         \A i \in DOMAIN c : \E j \in DOMAIN s : s[j][1] = c[i][1]
  PROVE  Len(c) \in Nat /\ Len(s) \in Nat /\ Len(c) <= Len(s)
<1> DEFINE at(i) == CHOOSE j \in 1..Len(s) : s[j][1] = c[i][1]
           f == [i \in 1..Len(c) |-> at(i)]
<1>2. Len(c) \in Nat /\ DOMAIN c = 1..Len(c) /\ Len(s) \in Nat /\ DOMAIN s = 1..Len(s)
  OBVIOUS
<1>3. \A i \in 1..Len(c) : \E j \in 1..Len(s) : s[j][1] = c[i][1]
  BY <1>2
<1>4. \A i \in 1..Len(c) : at(i) \in 1..Len(s) /\ s[at(i)][1] = c[i][1]
  BY <1>3
<1>5. f \in [1..Len(c) -> 1..Len(s)] /\ \A i \in 1..Len(c) : s[f[i]][1] = c[i][1]
  BY <1>4
<1> HIDE DEF f
<1>6. f \in Injection(1..Len(c), 1..Len(s))
  <2>1. \A i, j \in 1..Len(c) : f[i] = f[j] => i = j
    <3> SUFFICES ASSUME NEW i \in 1..Len(c), NEW j \in 1..Len(c), f[i] = f[j] PROVE i = j
      OBVIOUS
    <3>1. c[i][1] = c[j][1]
      BY <1>5
    <3> QED
      BY <1>2, <3>1 DEF Once
  <2>2. DOMAIN f = 1..Len(c)
    BY <1>5
  <2>3. IsInjective(f)
    BY <2>1, <2>2 DEF IsInjective
  <2> QED
    BY <1>5, <2>3 DEF Injection
<1>7. IsFiniteSet(1..Len(c)) /\ Cardinality(1..Len(c)) = Len(c)
  BY <1>2, UpToIsFinite
<1>8. IsFiniteSet(1..Len(s)) /\ Cardinality(1..Len(s)) = Len(s)
  BY <1>2, UpToIsFinite
<1>9. Cardinality(1..Len(c)) <= Cardinality(1..Len(s))
  BY <1>6, <1>8, FS_Injection, Zenon
<1> QED
  BY <1>2, <1>7, <1>8, <1>9

\* ... and takes no more room.
LEMMA LiveLen ==
  ASSUME NEW s \in Seq(Pairs) PROVE Len(Live(s)) \in Nat /\ Len(Live(s)) <= Len(s)
<1> DEFINE c == Live(s)
<1>1. /\ c \in Seq(Pairs) /\ Once(c)
      /\ \A i \in DOMAIN c : c[i][2] = Newest(s, c[i][1]) /\ c[i][2] # Dead
  BY LiveIs
<1> HIDE DEF c
<1>2. \A i \in DOMAIN c : \E j \in DOMAIN s : s[j][1] = c[i][1]
  BY <1>1, NewestIs
<1>3. Len(c) \in Nat /\ Len(c) <= Len(s)
  BY <1>1, <1>2, OnceLen
<1> QED
  BY <1>3 DEF c

-----------------------------------------------------------------------------
(* Room.                                                                   *)

\* Products of naturals, which grow with their factors.
LEMMA Product ==
  ASSUME NEW c \in Nat, NEW a \in Nat, NEW b \in Nat
  PROVE  /\ c * a \in Nat /\ c * (a + b) = c * a + c * b
         /\ c * 0 = 0 /\ c * 1 = c
         /\ a <= b => c * a <= c * b
<1>1. c * a \in Nat /\ c * (a + b) = c * a + c * b /\ c * 0 = 0 /\ c * 1 = c
  OBVIOUS
<1>2. ASSUME a <= b PROVE c * a <= c * b
  <2> DEFINE d == b - a
  <2>1. d \in Nat /\ b = a + d
    BY <1>2
  <2> HIDE DEF d
  <2>2. c * b = c * a + c * d /\ c * a \in Nat /\ c * d \in Nat
    BY <2>1
  <2> QED
    BY <2>2
<1> QED
  BY <1>1, <1>2

\* A product with a sum.
LEMMA SumTimes ==
  ASSUME NEW a \in Nat, NEW b \in Nat, NEW c \in Nat, NEW s, s = a + b
  PROVE  s * c = a * c + b * c /\ b * c \in Nat
  OBVIOUS

\* A number rounded up to a multiple of 8.
LEMMA RoundedUp ==
  ASSUME NEW x \in Nat
  PROVE  /\ ((x + 7) \div 8) * 8 \in Nat /\ x <= ((x + 7) \div 8) * 8
         /\ ((x + 7) \div 8) * 8 <= x + 7
         /\ x % 8 = 0 => ((x + 7) \div 8) * 8 = x
  OBVIOUS

\* A multiple of a multiple of 8.
LEMMA Multiple8 == ASSUME NEW c \in Nat, c % 8 = 0, NEW x \in Nat PROVE (c * x) % 8 = 0
<1> DEFINE q == c \div 8
<1>1. c = 8 * q /\ q \in Nat
  OBVIOUS
<1> HIDE DEF q
<1>2. c * x = 8 * (q * x) /\ q * x \in Nat
  BY <1>1
<1> DEFINE y == q * x
<1>3. (8 * y) % 8 = 0
  <2> HIDE DEF y
  <2>1. y \in Nat
    BY <1>2 DEF y
  <2> QED
    BY <2>1
<1> QED
  BY <1>2, <1>3

\* The length and the indices of a sequence of entries.
LEMMA SeqIs == ASSUME NEW s \in Seq(Pairs) PROVE Len(s) \in Nat /\ DOMAIN s = 1..Len(s)
  OBVIOUS

\* The fields of a node, and its entries.
LEMMA NodeFields ==
  ASSUME NEW n, NodeOK(n)
  PROVE  /\ n.level \in Nat /\ n.base \in Seq(Pairs) /\ n.inc \in Seq(Pairs)
         /\ n.aux \in BOOLEAN /\ n.at \in Nat /\ n.white \in Nat /\ n.count \in Nat
         /\ Len(n.base) \in Nat /\ Len(n.inc) \in Nat
         /\ Entries(n) \in Seq(Pairs) /\ Len(Entries(n)) = Len(n.base) + Len(n.inc)
         /\ Len(Entries(n)) \in Nat
         /\ DOMAIN Entries(n) = 1..Len(Entries(n))
<1>1. n \in NodeSet
  BY DEF NodeOK
<1>2. /\ n.level \in Nat /\ n.base \in Seq(Pairs) /\ n.inc \in Seq(Pairs)
      /\ n.aux \in BOOLEAN /\ n.at \in Nat /\ n.white \in Nat /\ n.count \in Nat
  BY <1>1 DEF NodeSet
<1>3. Entries(n) \in Seq(Pairs) /\ Len(Entries(n)) = Len(n.base) + Len(n.inc)
  BY <1>2 DEF Entries
<1>4. Len(n.base) \in Nat /\ Len(n.inc) \in Nat
  BY <1>2
<1>5. Len(Entries(n)) \in Nat /\ DOMAIN Entries(n) = 1..Len(Entries(n))
  BY <1>3, SeqIs
<1> QED
  BY <1>2, <1>3, <1>4, <1>5

\* The entries of a node fit into it.
LEMMA BytesFit ==
  ASSUME NEW n, NodeOK(n)
  PROVE  /\ EntryBytes * Len(Entries(n)) <= NodeSize
         /\ TotalBytes(n) \in Nat
<1>1. /\ Len(n.base) \in Nat /\ Len(n.inc) \in Nat /\ n.at \in Nat
      /\ Len(Entries(n)) = Len(n.base) + Len(n.inc)
      /\ EntryBytes \in Nat /\ NodeSize \in Nat
  BY NodeFields, ConstantsAre
<1>2. /\ EntryBytes * Len(Entries(n)) = EntryBytes * Len(n.base) + EntryBytes * Len(n.inc)
      /\ EntryBytes * Len(n.base) \in Nat /\ EntryBytes * Len(n.inc) \in Nat
  <2>1. \A a, b \in Nat : EntryBytes * (a + b) = EntryBytes * a + EntryBytes * b /\ EntryBytes * a \in Nat
    BY <1>1, Product
  <2> QED
    BY <1>1, <2>1
<1>3. n.inc = <<>> => EntryBytes * Len(n.inc) = 0
  BY <1>1, Product
<1>4. Fits(n)
  BY DEF NodeOK
<1> DEFINE p == EntryBytes * Len(n.base)
           q == EntryBytes * Len(n.inc)
<1>5. /\ p \in Nat /\ q \in Nat /\ p <= NodeSize
      /\ n.inc # <<>> => p <= n.at /\ n.at + q <= NodeSize
      /\ n.inc = <<>> => q = 0
  BY <1>2, <1>3, <1>4 DEF Fits
<1>6. EntryBytes * Len(Entries(n)) = p + q
  BY <1>2
<1> HIDE DEF p, q
<1>7. p + q <= NodeSize
  BY <1>1, <1>5
<1> QED
  BY <1>5, <1>6, <1>7 DEF TotalBytes

RawStart(n) ==
  LET base == (EntryBytes + IF n.aux THEN AuxBytes ELSE 0) * Len(n.base)
      inc  == n.at + EntryBytes * Len(n.inc)
  IN IF base > inc THEN base ELSE inc

\* calc_free_start lies behind the entries, and inside the node up to its rounding.
LEMMA StartIs ==
  ASSUME NEW n, NodeOK(n)
  PROVE  /\ RawStart(n) \in Nat /\ FreeStart(n) \in Nat
         /\ EntryBytes * Len(n.base) <= FreeStart(n)
         /\ n.at + EntryBytes * Len(n.inc) <= FreeStart(n)
         /\ FreeStart(n) <= NodeSize + 7
<1> DEFINE w == EntryBytes + (IF n.aux THEN AuxBytes ELSE 0)
<1>1. /\ Len(n.base) \in Nat /\ Len(n.inc) \in Nat /\ n.at \in Nat /\ n.aux \in BOOLEAN
      /\ EntryBytes \in Nat /\ NodeSize \in Nat /\ AuxBytes \in Nat
  BY NodeFields, ConstantsAre
<1>2. w \in Nat /\ (n.aux => w = EntryBytes + AuxBytes) /\ (~n.aux => w = EntryBytes)
  BY <1>1
<1>3. EntryBytes * Len(n.base) \in Nat /\ EntryBytes * Len(n.inc) \in Nat
  BY <1>1, Product
<1>4. w * Len(n.base) \in Nat /\ w * Len(n.base) <= NodeSize /\ EntryBytes * Len(n.base) <= w * Len(n.base)
  <2>1. CASE n.aux
    <3>1. w = EntryBytes + AuxBytes
      BY <1>2, <2>1
    <3>2. w * Len(n.base) = EntryBytes * Len(n.base) + AuxBytes * Len(n.base) /\ AuxBytes * Len(n.base) \in Nat
      <4>1. \A v \in Nat : \A x \in Nat : \A y \in Nat : v = x + y =>
              \A z \in Nat : v * z = x * z + y * z /\ y * z \in Nat
        BY SumTimes
      <4>2. w \in Nat /\ EntryBytes \in Nat /\ AuxBytes \in Nat /\ Len(n.base) \in Nat
        BY <1>1, <1>2
      <4> HIDE DEF w
      <4> QED
        BY <3>1, <4>1, <4>2, Zenon
    <3>3. (EntryBytes + AuxBytes) * Len(n.base) <= NodeSize
      BY <2>1 DEF NodeOK, Fits
    <3> DEFINE p == EntryBytes * Len(n.base)
               q == AuxBytes * Len(n.base)
               r == w * Len(n.base)
    <3>4. r = p + q /\ p \in Nat /\ q \in Nat /\ r <= NodeSize
      BY <1>3, <3>1, <3>2, <3>3
    <3> HIDE DEF p, q, r, w
    <3>5. r \in Nat /\ r <= NodeSize /\ p <= r
      BY <3>4
    <3> QED
      BY <3>5 DEF p, r
  <2>2. CASE ~n.aux
    <3>1. w = EntryBytes /\ EntryBytes * Len(n.base) <= NodeSize
      BY <1>2, <2>2 DEF NodeOK, Fits
    <3> QED
      BY <1>3, <3>1
  <2> QED
    BY <2>1, <2>2
<1>5. n.at + EntryBytes * Len(n.inc) <= NodeSize
  <2>1. n.inc = <<>> => n.at + EntryBytes * Len(n.inc) = 0
    <3>1. n.inc = <<>> => n.at = 0 /\ Len(n.inc) = 0
      BY DEF NodeOK, Fits
    <3> QED
      BY <1>1, <3>1, Product
  <2>2. n.inc # <<>> => n.at + EntryBytes * Len(n.inc) <= NodeSize
    BY DEF NodeOK, Fits
  <2> QED
    BY <1>1, <2>1, <2>2
<1>6. /\ RawStart(n) \in Nat /\ RawStart(n) <= NodeSize
      /\ EntryBytes * Len(n.base) <= RawStart(n) /\ n.at + EntryBytes * Len(n.inc) <= RawStart(n)
  <2>1. RawStart(n) = IF w * Len(n.base) > n.at + EntryBytes * Len(n.inc)
                      THEN w * Len(n.base) ELSE n.at + EntryBytes * Len(n.inc)
    BY DEF RawStart
  <2> HIDE DEF w
  <2> DEFINE x == w * Len(n.base)
             b == EntryBytes * Len(n.base)
             y == EntryBytes * Len(n.inc)
  <2>2. x \in Nat /\ b \in Nat /\ y \in Nat /\ n.at \in Nat /\ NodeSize \in Nat
    BY <1>1, <1>3, <1>4
  <2>3. b <= x /\ x <= NodeSize /\ n.at + y <= NodeSize /\ RawStart(n) = IF x > n.at + y THEN x ELSE n.at + y
    BY <1>4, <1>5, <2>1
  <2> HIDE DEF x, b, y
  <2>4. RawStart(n) \in Nat /\ RawStart(n) <= NodeSize /\ b <= RawStart(n) /\ n.at + y <= RawStart(n)
    BY <2>2, <2>3
  <2> QED
    BY <2>4 DEF b, y
<1>7. FreeStart(n) = ((RawStart(n) + 7) \div 8) * 8
  BY DEF FreeStart, RawStart
<1>8. /\ FreeStart(n) \in Nat /\ RawStart(n) <= FreeStart(n) /\ FreeStart(n) <= RawStart(n) + 7
  BY <1>6, <1>7, RoundedUp
<1> QED
  BY <1>1, <1>3, <1>6, <1>8

\* A node with nothing appended and no aux array has room for an entry if it has
\* room for one more than it has.
LEMMA RoomInHalf ==
  ASSUME NEW n, NodeOK(n), n.inc = <<>>, ~n.aux, EntryBytes * (Len(n.base) + 1) <= NodeSize
  PROVE  HasRoom(n)
<1>1. /\ Len(n.base) \in Nat /\ Len(n.inc) = 0 /\ n.at = 0
      /\ EntryBytes \in Nat /\ NodeSize \in Nat /\ EntryBytes % 8 = 0
  <2>1. n.at = 0
    BY DEF NodeOK, Fits
  <2> QED
    BY <2>1, NodeFields, ConstantsAre
<1>2. EntryBytes * Len(n.inc) = 0 /\ EntryBytes * Len(n.base) \in Nat
  BY <1>1, Product
<1>3. RawStart(n) = EntryBytes * Len(n.base)
  <2>1. EntryBytes + 0 = EntryBytes
    BY <1>1
  <2>2. RawStart(n) = IF EntryBytes * Len(n.base) > 0 THEN EntryBytes * Len(n.base) ELSE 0
    BY <1>1, <1>2, <2>1 DEF RawStart
  <2> QED
    BY <1>2, <2>2
<1>4. (EntryBytes * Len(n.base)) % 8 = 0
  BY <1>1, Multiple8
<1>5. FreeStart(n) = EntryBytes * Len(n.base)
  <2>1. FreeStart(n) = ((RawStart(n) + 7) \div 8) * 8
    BY DEF FreeStart, RawStart
  <2> QED
    BY <1>2, <1>3, <1>4, <2>1, RoundedUp
<1>6. EntryBytes * (Len(n.base) + 1) = EntryBytes * Len(n.base) + EntryBytes
  BY <1>1, Product
<1> QED
  BY <1>5, <1>6 DEF HasRoom

\* A compacted node without room holds two entries.
LEMMA TwoIfFull ==
  ASSUME NEW n, NodeOK(n), n.inc = <<>>, ~HasRoom(n)
  PROVE  Len(n.base) >= 2
<1>0. Len(n.base) \in Nat /\ (Len(n.base) < 2 => Len(n.base) = 0 \/ Len(n.base) = 1)
  <2>1. Len(n.base) \in Nat
    BY NodeFields
  <2>2. \A x \in Nat : x < 2 => x = 0 \/ x = 1
    OBVIOUS
  <2> QED
    BY <2>1, <2>2, Zenon
<1> SUFFICES ASSUME Len(n.base) < 2 PROVE FALSE
  BY <1>0
<1> DEFINE w == EntryBytes + (IF n.aux THEN AuxBytes ELSE 0)
           L == Len(n.base)
<1>1. /\ L \in Nat /\ Len(n.inc) = 0 /\ n.at = 0 /\ n.aux \in BOOLEAN
      /\ EntryBytes \in Nat /\ EntryBytes > 0 /\ NodeSize \in Nat /\ EntryBytes % 8 = 0
      /\ AuxBytes \in Nat /\ AuxBytes <= EntryBytes /\ NodeSize >= 4 * EntryBytes
  <2>1. n.at = 0
    BY DEF NodeOK, Fits
  <2> QED
    BY <2>1, NodeFields, ConstantsAre
<1>2. w \in Nat /\ w <= 2 * EntryBytes
  BY <1>1
<1>3. L = 0 \/ L = 1
  BY <1>0
<1>4. w * L \in Nat /\ w * L <= 2 * EntryBytes
  <2>1. w * 0 = 0 /\ w * 1 = w
    BY <1>2
  <2> HIDE DEF w
  <2> QED
    BY <1>1, <1>2, <1>3, <2>1
<1>5. RawStart(n) = w * L
  <2>1. EntryBytes * Len(n.inc) = 0
    BY <1>1, Product
  <2>2. RawStart(n) = IF w * L > n.at + EntryBytes * Len(n.inc) THEN w * L ELSE n.at + EntryBytes * Len(n.inc)
    BY DEF RawStart
  <2>3. n.at + EntryBytes * Len(n.inc) = 0
    BY <1>1, <2>1
  <2> HIDE DEF w, L
  <2> QED
    BY <1>4, <2>2, <2>3
<1>6. FreeStart(n) = ((RawStart(n) + 7) \div 8) * 8
  BY DEF FreeStart, RawStart
<1>7. FreeStart(n) <= 2 * EntryBytes
  <2> DEFINE q == EntryBytes \div 8
             r == w * L
  <2>1. EntryBytes = 8 * q /\ q \in Nat
    BY <1>1
  <2>2. FreeStart(n) = ((r + 7) \div 8) * 8 /\ r \in Nat /\ r <= 2 * EntryBytes
    BY <1>4, <1>5, <1>6
  <2> HIDE DEF q, r
  <2> QED
    BY <2>1, <2>2
<1>8. FreeStart(n) + EntryBytes > NodeSize /\ FreeStart(n) \in Nat
  <2>1. FreeStart(n) \in Nat
    BY StartIs
  <2> QED
    BY <1>1, <2>1 DEF HasRoom
<1> QED
  BY <1>1, <1>7, <1>8

-----------------------------------------------------------------------------
(* Operations on a node.                                                   *)

\* Nodes with the same entries say the same.
LEMMA ContentIs == ASSUME NEW n, NEW m, Entries(n) = Entries(m) PROVE \A k : Content(n, k) = Content(m, k)
  BY DEF Content

\* What a node says of a position is a value.
LEMMA ContentType == ASSUME NEW n, NodeOK(n), NEW k PROVE Content(n, k) \in Nat
<1>1. Entries(n) \in Seq(Pairs)
  BY NodeFields
<1> QED
  BY <1>1, NewestType DEF Content

\* What is found is in Positions.
LEMMA ContentWhere == ASSUME NEW n, NodeOK(n), NEW k, Content(n, k) # Dead PROVE k \in Positions
<1>1. Entries(n) \in Seq(Pairs)
  BY NodeFields
<1>2. \E i \in DOMAIN Entries(n) : Entries(n)[i][1] = k
  BY <1>1, NewestIs DEF Content
<1> QED
  BY <1>1, <1>2, PairFields

\* A new node.
LEMMA EmptyOK ==
  ASSUME NEW l \in Nat
  PROVE  NodeOK(Empty(l)) /\ Empty(l).level = l /\ \A k : Content(Empty(l), k) = Dead
<1> DEFINE n == Empty(l)
<1>1. /\ n = [level |-> l, base |-> <<>>, aux |-> FALSE, inc |-> <<>>, at |-> 0, white |-> 0, count |-> 0]
      /\ <<>> \in Seq(Pairs)
  BY DEF Empty
<1>2. n \in NodeSet
  BY <1>1 DEF NodeSet
<1>3. n.base = <<>> /\ n.inc = <<>> /\ n.at = 0 /\ n.count = 0 /\ ~n.aux /\ n.level = l
  BY <1>1
<1> HIDE DEF n
<1>4. EntryBytes * 0 <= NodeSize
  BY ConstantsAre, Product
<1>5. NodeOK(n)
  BY <1>2, <1>3, <1>4 DEF NodeOK, Fits, Once
<1>6. Entries(n) = <<>>
  BY <1>3 DEF Entries
<1>7. \A k : Content(n, k) = Dead
  <2>1. <<>> \in Seq(Pairs)
    BY <1>1
  <2>2. ~\E i \in DOMAIN <<>> : TRUE
    OBVIOUS
  <2> QED
    BY <1>6, <2>1, <2>2, NewestIs DEF Content
<1> QED
  BY <1>3, <1>5, <1>7 DEF n

\* What compacting leaves.
LEMMA PackedOK ==
  ASSUME NEW n, NodeOK(n), NEW s \in Seq(Pairs), Once(s), \A i \in DOMAIN s : s[i][2] # Dead,
         EntryBytes * Len(s) <= NodeSize
  PROVE  /\ NodeOK(Packed(n, s)) /\ Clean(Packed(n, s)) /\ Packed(n, s).level = n.level
         /\ Entries(Packed(n, s)) = s /\ Packed(n, s).base = s /\ Packed(n, s).inc = <<>>
<1> DEFINE p == Packed(n, s)
           a == s # <<>> /\ (EntryBytes + AuxBytes) * Len(s) <= NodeSize
<1>1. n \in NodeSet /\ Len(s) \in Nat /\ a \in BOOLEAN /\ <<>> \in Seq(Pairs)
  BY SeqIs DEF NodeOK
<1>2. p = [n EXCEPT !.base = s, !.aux = a, !.inc = <<>>, !.at = 0, !.white = 0, !.count = Len(s)]
  BY DEF Packed
<1>3. a => (EntryBytes + AuxBytes) * Len(s) <= NodeSize
  OBVIOUS
<1> HIDE DEF p, a
<1>4. /\ p \in NodeSet /\ p.base = s /\ p.inc = <<>> /\ p.at = 0 /\ p.count = Len(s) /\ p.aux = a
      /\ p.level = n.level
  BY <1>1, <1>2 DEF NodeSet
<1>5. NodeOK(p)
  BY <1>3, <1>4 DEF NodeOK, Fits
<1>6. Entries(p) = s
  BY <1>4 DEF Entries
<1>7. Clean(p)
  BY <1>4, <1>6 DEF Clean
<1> QED
  BY <1>4, <1>5, <1>6, <1>7 DEF p

\* compact changes nothing of what the node says.
LEMMA CompactOK ==
  ASSUME NEW n, NodeOK(n)
  PROVE  /\ NodeOK(Compact(n)) /\ Clean(Compact(n)) /\ Compact(n).level = n.level
         /\ Entries(Compact(n)) = Live(Entries(n)) /\ Compact(n).base = Live(Entries(n))
         /\ Compact(n).inc = <<>>
         /\ \A k : Content(Compact(n), k) = Content(n, k)
<1> DEFINE s == Entries(n)
           c == Live(s)
<1>1. s \in Seq(Pairs) /\ Len(s) \in Nat
  BY NodeFields
<1>2. c \in Seq(Pairs) /\ Once(c) /\ \A i \in DOMAIN c : c[i][2] # Dead
  BY <1>1, LiveIs
<1>3. Len(c) \in Nat /\ Len(c) <= Len(s)
  BY <1>1, LiveLen
<1>4. EntryBytes * Len(c) <= NodeSize
  <2>1. EntryBytes * Len(s) <= NodeSize
    BY BytesFit
  <2>2. EntryBytes * Len(c) <= EntryBytes * Len(s) /\ EntryBytes * Len(c) \in Nat /\ EntryBytes * Len(s) \in Nat
    BY <1>1, <1>3, ConstantsAre, Product
  <2> QED
    BY <2>1, <2>2, ConstantsAre
<1>5. /\ NodeOK(Packed(n, c)) /\ Clean(Packed(n, c)) /\ Packed(n, c).level = n.level
      /\ Entries(Packed(n, c)) = c /\ Packed(n, c).base = c /\ Packed(n, c).inc = <<>>
  BY <1>2, <1>4, PackedOK
<1>6. \A k : Newest(c, k) = Newest(s, k)
  BY <1>1, LiveNewest
<1> QED
  BY <1>5, <1>6 DEF Compact, Content

\* Giving up the aux array changes nothing but the room.
LEMMA MakeRoomOK ==
  ASSUME NEW n, NodeOK(n)
  PROVE  LET m == MakeRoom(n)
         IN /\ NodeOK(m) /\ m.level = n.level /\ m.base = n.base /\ m.inc = n.inc /\ m.at = n.at
            /\ m.count = n.count /\ m.white = n.white /\ Entries(m) = Entries(n)
            /\ ~HasRoom(m) => ~m.aux
<1> DEFINE x == [n EXCEPT !.aux = FALSE]
<1>1. n \in NodeSet
  BY DEF NodeOK
<1>2. /\ x \in NodeSet /\ x.level = n.level /\ x.base = n.base /\ x.inc = n.inc /\ x.at = n.at
      /\ x.count = n.count /\ x.white = n.white /\ ~x.aux
  BY <1>1 DEF NodeSet
<1> HIDE DEF x
<1>3. NodeOK(x) /\ Entries(x) = Entries(n)
  BY <1>2 DEF NodeOK, Fits, Entries
<1>4. MakeRoom(n) = IF HasRoom(n) THEN n ELSE x
  BY DEF MakeRoom, x
<1> QED
  BY <1>2, <1>3, <1>4

\* An entry appended to the second of two sequences.
LEMMA ConcatAppend ==
  ASSUME NEW s \in Seq(Pairs), NEW u \in Seq(Pairs), NEW e \in Pairs
  PROVE  s \o Append(u, e) = Append(s \o u, e)
<1> DEFINE a == s \o Append(u, e)
           b == Append(s \o u, e)
           n == Len(s) + Len(u) + 1
<1>1. a \in Seq(Pairs) /\ b \in Seq(Pairs) /\ n \in Nat
  OBVIOUS
<1>2. Len(a) = n /\ Len(b) = n
  OBVIOUS
<1>3. \A i \in 1..n : a[i] = b[i]
  OBVIOUS
<1> HIDE DEF a, b, n
<1>4. a = b
  BY <1>1, <1>2, <1>3
<1> QED
  BY <1>4 DEF a, b

\* An entry appended to a node with room for it.
LEMMA AppendOK ==
  ASSUME NEW n, NodeOK(n), HasRoom(n), NEW e \in Pairs
  PROVE  LET d == Append1(n, e)
         IN /\ NodeOK(d) /\ d.level = n.level /\ d.base = n.base /\ d.inc # <<>>
            /\ d.count = n.count /\ d.white = n.white /\ Entries(d) = Append(Entries(n), e)
<1> DEFINE d == Append1(n, e)
           a == IF n.inc = <<>> THEN FreeStart(n) ELSE n.at
           f == FreeStart(n)
           b == EntryBytes * Len(n.base)
           c == EntryBytes * Len(n.inc)
<1>1. /\ n \in NodeSet /\ n.base \in Seq(Pairs) /\ n.inc \in Seq(Pairs) /\ n.at \in Nat
      /\ Len(n.inc) \in Nat /\ Len(n.base) \in Nat
  BY NodeFields DEF NodeOK
<1>2. f \in Nat /\ b <= f /\ n.at + c <= f
  BY StartIs
<1>3. f + EntryBytes <= NodeSize
  BY DEF HasRoom
<1>4. b \in Nat /\ c \in Nat /\ EntryBytes \in Nat /\ NodeSize \in Nat
  BY <1>1, ConstantsAre, Product
<1>5. /\ n.inc # <<>> => b <= n.at
      /\ n.inc = <<>> => c = 0
  <2>1. n.inc # <<>> => b <= n.at
    BY DEF NodeOK, Fits
  <2>2. n.inc = <<>> => Len(n.inc) = 0
    OBVIOUS
  <2>3. EntryBytes * 0 = 0
    BY <1>4
  <2> QED
    BY <2>1, <2>2, <2>3
<1>6. EntryBytes * Len(Append(n.inc, e)) = c + EntryBytes
  <2>1. Len(Append(n.inc, e)) = Len(n.inc) + 1
    BY <1>1
  <2>2. EntryBytes * (Len(n.inc) + 1) = EntryBytes * Len(n.inc) + EntryBytes * 1
    <3>1. EntryBytes \in Nat /\ Len(n.inc) \in Nat /\ 1 \in Nat
      BY <1>1, <1>4
    <3> QED
      BY <3>1, Product, Zenon
  <2>3. EntryBytes * 1 = EntryBytes
    BY <1>4
  <2> QED
    BY <2>1, <2>2, <2>3
<1> HIDE DEF f, b, c
<1>7. a = (IF n.inc = <<>> THEN f ELSE n.at) /\ a \in Nat
  BY <1>1, <1>2 DEF f
<1> HIDE DEF a
<1>8. d = [n EXCEPT !.at = a, !.inc = Append(n.inc, e)]
  BY <1>1 DEF Append1, NodeSet, a
<1>9. Append(n.inc, e) \in Seq(Pairs) /\ Append(n.inc, e) # <<>>
  BY <1>1
<1> HIDE DEF d
<1>10. /\ d \in NodeSet /\ d.level = n.level /\ d.base = n.base /\ d.inc = Append(n.inc, e)
       /\ d.at = a /\ d.aux = n.aux /\ d.count = n.count /\ d.white = n.white
  BY <1>1, <1>7, <1>8, <1>9 DEF NodeSet
<1>11. b <= a /\ a + (c + EntryBytes) <= NodeSize
  BY <1>1, <1>2, <1>3, <1>4, <1>5, <1>7
<1>12. Fits(d)
  <2>1. n.aux => (EntryBytes + AuxBytes) * Len(n.base) <= NodeSize
    BY DEF NodeOK, Fits
  <2>2. EntryBytes * Len(n.base) <= NodeSize
    BY DEF NodeOK, Fits
  <2>3. EntryBytes * Len(d.base) <= d.at
    BY <1>10, <1>11 DEF b
  <2>4. d.at + EntryBytes * Len(d.inc) <= NodeSize
    BY <1>6, <1>10, <1>11
  <2>5. d.inc # <<>>
    BY <1>9, <1>10
  <2> QED
    BY <1>10, <2>1, <2>2, <2>3, <2>4, <2>5 DEF Fits
<1>13. NodeOK(d)
  BY <1>9, <1>10, <1>12 DEF NodeOK
<1>14. Entries(d) = Append(Entries(n), e)
  BY <1>1, <1>10, ConcatAppend DEF Entries
<1> QED
  BY <1>9, <1>10, <1>13, <1>14 DEF d

\* Counters do not matter to a node with something appended.
LEMMA CountedOK ==
  ASSUME NEW n, NodeOK(n), NEW m \in NodeSet, m.base = n.base, m.inc = n.inc, m.at = n.at,
         m.aux = n.aux, m.count = n.count \/ n.inc # <<>>
  PROVE  NodeOK(m) /\ Entries(m) = Entries(n)
  BY DEF NodeOK, Fits, Entries

\* An entry is inserted, or there is no room and nothing of the entries changes.
LEMMA InsertOK ==
  ASSUME NEW n, NodeOK(n), NEW e \in Pairs
  PROVE  LET i == Insert1(n, e)
         IN /\ i.ok \in BOOLEAN /\ NodeOK(i.node) /\ i.node.level = n.level
            /\ HasRoom(n) => i.ok
            /\ i.ok => /\ Entries(i.node) = Append(Entries(n), e) /\ i.node.count = n.count + 1
                       /\ \A k : Content(i.node, k) = IF e[1] = k THEN e[2] ELSE Content(n, k)
            /\ ~i.ok => /\ Entries(i.node) = Entries(n) /\ i.node.count = n.count
                        /\ i.node.base = n.base /\ i.node.inc = n.inc
                        /\ ~HasRoom(i.node) /\ ~i.node.aux
                        /\ \A k : Content(i.node, k) = Content(n, k)
<1> DEFINE m == MakeRoom(n)
           d == Append1(m, e)
           x == [d EXCEPT !.count = @ + 1]
           i == Insert1(n, e)
<1>1. /\ NodeOK(m) /\ m.level = n.level /\ m.base = n.base /\ m.inc = n.inc /\ m.at = n.at
      /\ m.count = n.count /\ m.white = n.white /\ Entries(m) = Entries(n)
      /\ ~HasRoom(m) => ~m.aux
  BY MakeRoomOK
<1>2. HasRoom(n) => m = n
  BY DEF MakeRoom
<1>3. i = IF HasRoom(m) THEN [ok |-> TRUE, node |-> x] ELSE [ok |-> FALSE, node |-> m]
  BY DEF Insert1
<1> HIDE DEF m, i
<1>4. CASE HasRoom(m)
  <2>1. /\ NodeOK(d) /\ d.level = m.level /\ d.inc # <<>>
        /\ d.count = m.count /\ d.white = m.white /\ Entries(d) = Append(Entries(m), e)
    BY <1>1, <1>4, AppendOK
  <2>2. d.count \in Nat /\ d.white \in Nat /\ d \in NodeSet
    BY <2>1, NodeFields DEF NodeOK
  <2> HIDE DEF d
  <2>3. /\ x \in NodeSet /\ x.level = d.level /\ x.base = d.base /\ x.inc = d.inc /\ x.at = d.at
        /\ x.aux = d.aux /\ x.count = d.count + 1
    BY <2>2 DEF NodeSet
  <2> HIDE DEF x
  <2>4. NodeOK(x) /\ x.level = d.level /\ Entries(x) = Entries(d) /\ x.count = d.count + 1
    BY <2>1, <2>3, CountedOK
  <2>5. i.ok = TRUE /\ i.node = x
    BY <1>3, <1>4
  <2>6. Entries(x) = Append(Entries(n), e)
    BY <1>1, <2>1, <2>4
  <2>7. Entries(n) \in Seq(Pairs)
    BY NodeFields
  <2>8. \A k : Newest(Append(Entries(n), e), k) = IF e[1] = k THEN e[2] ELSE Newest(Entries(n), k)
    BY <2>7, NewestAppend
  <2>9. \A k : Content(x, k) = IF e[1] = k THEN e[2] ELSE Content(n, k)
    BY <2>6, <2>8 DEF Content
  <2> QED
    BY <1>1, <2>1, <2>4, <2>5, <2>6, <2>9 DEF i
<1>5. CASE ~HasRoom(m)
  <2>1. i.ok = FALSE /\ i.node = m
    BY <1>3, <1>5
  <2>2. \A k : Content(m, k) = Content(n, k)
    BY <1>1, ContentIs
  <2>3. ~HasRoom(n)
    BY <1>2, <1>5
  <2> QED
    BY <1>1, <1>5, <2>1, <2>2, <2>3 DEF i
<1> QED
  BY <1>4, <1>5

\* A routing node stays one when a key it does not have is inserted.
LEMMA InsertClean ==
  ASSUME NEW n, NodeOK(n), Clean(n), NEW e \in Pairs, e[2] # Dead, Content(n, e[1]) = Dead
  PROVE  Clean(Insert1(n, e).node)
<1> DEFINE i == Insert1(n, e)
           s == Entries(n)
           m == i.node
           L == Len(s)
<1>1. /\ i.ok \in BOOLEAN
      /\ i.ok => Entries(m) = Append(s, e) /\ m.count = n.count + 1
      /\ ~i.ok => Entries(m) = s /\ m.count = n.count
  BY InsertOK
<1>2. s \in Seq(Pairs) /\ L \in Nat /\ DOMAIN s = 1..L
  BY NodeFields
<1>3. Once(s) /\ (\A j \in DOMAIN s : s[j][2] # Dead) /\ n.count = L
  BY DEF Clean
<1>4. \A j \in DOMAIN s : s[j][1] # e[1]
  <2> SUFFICES ASSUME NEW j \in DOMAIN s, s[j][1] = e[1] PROVE FALSE
    OBVIOUS
  <2>1. Newest(s, s[j][1]) = s[j][2]
    BY <1>2, <1>3, NewestOnce
  <2> QED
    BY <1>3, <2>1 DEF Content
<1> HIDE DEF i
<1>5. CASE ~i.ok
  BY <1>1, <1>3, <1>5 DEF Clean, i
<1>6. CASE i.ok
  <2> DEFINE u == Append(s, e)
  <2>1. /\ Len(u) = L + 1 /\ DOMAIN u = 1..(L + 1) /\ u[L + 1] = e
        /\ \A j \in 1..L : u[j] = s[j]
    BY <1>2
  <2> HIDE DEF u
  <2>2. \A j \in DOMAIN u : j = L + 1 \/ (j \in DOMAIN s /\ u[j] = s[j])
    BY <1>2, <2>1
  <2>3. Once(u)
    BY <1>3, <1>4, <2>1, <2>2 DEF Once
  <2>4. \A j \in DOMAIN u : u[j][2] # Dead
    BY <1>3, <2>1, <2>2
  <2>5. Entries(m) = u /\ m.count = Len(u)
    BY <1>1, <1>3, <1>6, <2>1 DEF u
  <2> QED
    BY <2>3, <2>4, <2>5 DEF Clean, i
<1> QED
  BY <1>1, <1>5, <1>6

\* Two positions with an entry make a node that can be split.
LEMMA TwoCanSplit ==
  ASSUME NEW n, NodeOK(n), Clean(n), Len(Entries(n)) >= 2 PROVE CanSplit(n)
<1> DEFINE s == Entries(n)
           c == Live(s)
<1>1. s \in Seq(Pairs) /\ Len(s) \in Nat /\ DOMAIN s = 1..Len(s)
  BY NodeFields
<1>2. 1 \in DOMAIN s /\ 2 \in DOMAIN s
  BY <1>1
<1>3. Once(s) /\ \A j \in DOMAIN s : s[j][2] # Dead
  BY DEF Clean
<1>4. c \in Seq(Pairs) /\ \A j \in Positions : Newest(s, j) # Dead => \E i \in DOMAIN c : c[i][1] = j
  BY <1>1, LiveIs
<1>5. Newest(s, s[1][1]) # Dead /\ Newest(s, s[2][1]) # Dead /\ s[1][1] # s[2][1]
  BY <1>1, <1>2, <1>3, NewestOnce DEF Once
<1>6. s[1][1] \in Positions /\ s[2][1] \in Positions
  BY <1>1, <1>2, PairFields
<1> HIDE DEF c
<1>7. PICK a \in DOMAIN c, b \in DOMAIN c : c[a][1] = s[1][1] /\ c[b][1] = s[2][1]
  BY <1>4, <1>5, <1>6
<1>8. a # b /\ a \in 1..Len(c) /\ b \in 1..Len(c) /\ Len(c) \in Nat
  BY <1>4, <1>5, <1>7, SeqIs
<1>9. Len(c) >= 2
  BY <1>8
<1> QED
  BY <1>9 DEF CanSplit, c

\* Where a node is split there are entries on both sides.
LEMMA SplitAtIs ==
  ASSUME NEW s \in Seq(Pairs), Len(s) >= 2
  PROVE  SplitAt(s) \in 1..(Len(s) - 1)
<1> DEFINE n == Len(s)
           words  == EntryBytes \div 8 + (AuxBytes + 7) \div 8
           target == (words * n * 3) \div 5
           reach  == {i \in 1..(n - 1) : words * i >= target}
           first(S) == CHOOSE i \in S : \A j \in S : i <= j
           mid == IF ShardSplits(s) # {} THEN first(ShardSplits(s))
                  ELSE IF reach # {} THEN first(reach) ELSE n \div 2
<1>0. n \in Nat /\ n >= 2
  BY SeqIs
<1>1. ASSUME NEW S, S \subseteq 1..(n - 1), S # {} PROVE first(S) \in 1..(n - 1)
  <2>1. S \subseteq Nat
    BY <1>1
  <2>2. \E i \in S : \A j \in S : i <= j
    BY <1>1, <2>1, LeastNat
  <2> QED
    BY <1>1, <2>2
<1>2. ShardSplits(s) \subseteq 1..(n - 1) /\ reach \subseteq 1..(n - 1)
  BY DEF ShardSplits
<1>3. n \div 2 \in 1..(n - 1)
  BY <1>0
<1> HIDE DEF first, reach
<1>4. mid \in 1..(n - 1)
  BY <1>1, <1>2, <1>3
<1>5. SplitAt(s) = AwayFromEnds(mid, n)
  BY DEF SplitAt, first, reach
<1> HIDE DEF mid, n
<1>6. AwayFromEnds(mid, n) \in 1..(n - 1)
  BY <1>0, <1>4 DEF AwayFromEnds
<1> QED
  BY <1>5, <1>6 DEF n

\* Half of the sorted entries make a node with room for one more.
HalfOK(h, n, s) ==
  /\ NodeOK(h) /\ Clean(h) /\ HasRoom(h) /\ h.level = n.level /\ Entries(h) = s

\* A half of a split node.
LEMMA HalfIs ==
  ASSUME NEW n, NEW s \in Seq(Pairs), Once(s), \A i \in DOMAIN s : s[i][2] # Dead,
         EntryBytes * (Len(s) + 1) <= NodeSize,
         NEW h \in NodeSet, h.base = s, h.inc = <<>>, h.at = 0, h.count = Len(s), ~h.aux,
         h.level = n.level
  PROVE  HalfOK(h, n, s)
<1>1. Len(s) \in Nat
  BY SeqIs
<1>3. EntryBytes * Len(s) <= NodeSize
  <2>1. EntryBytes * Len(s) <= EntryBytes * (Len(s) + 1)
    <3>1. EntryBytes \in Nat /\ Len(s) \in Nat /\ Len(s) + 1 \in Nat /\ Len(s) <= Len(s) + 1
      BY <1>1, ConstantsAre
    <3> QED
      BY <3>1, Product, Zenon
  <2>2. EntryBytes * Len(s) \in Nat /\ EntryBytes * (Len(s) + 1) \in Nat /\ NodeSize \in Nat
    BY <1>1, ConstantsAre, Product
  <2> QED
    BY <2>1, <2>2
<1>4. NodeOK(h)
  BY <1>3 DEF NodeOK, Fits
<1>5. Entries(h) = s
  BY DEF Entries
<1>6. Clean(h)
  BY <1>5 DEF Clean
<1>7. HasRoom(h)
  BY <1>4, RoomInHalf
<1> QED
  BY <1>4, <1>5, <1>6, <1>7 DEF HalfOK

\* What a split gives, up to an entry that one of the halves takes: c is what the
\* node says, all in all.
HalvesOf(h, l, c) ==
  /\ h.median \in Positions /\ h.median > 0
  /\ NodeOK(h.left) /\ NodeOK(h.right) /\ h.left.level = l /\ h.right.level = l
  /\ \A k \in Positions : Content(h.left, k) = IF k < h.median THEN c[k] ELSE Dead
  /\ \A k \in Positions : Content(h.right, k) = IF k < h.median THEN Dead ELSE c[k]

\* What a part of the collected entries says.
LEMMA PartIs ==
  ASSUME NEW s \in Seq(Pairs), Once(s), \A i \in DOMAIN s : s[i][2] # Dead,
         NEW a \in 1..Len(s), NEW b \in 0..Len(s), a <= b + 1
  PROVE  LET p == SubSeq(s, a, b)
         IN /\ p \in Seq(Pairs) /\ Once(p) /\ (\A i \in DOMAIN p : p[i][2] # Dead)
            /\ Len(p) = b - a + 1
            /\ \A i \in a..b : i - a + 1 \in DOMAIN p /\ p[i - a + 1] = s[i]
            /\ \A i \in DOMAIN p : a + i - 1 \in a..b /\ p[i] = s[a + i - 1]
<1> DEFINE p == SubSeq(s, a, b)
           n == Len(s)
<1>1. n \in Nat /\ DOMAIN s = 1..n /\ a \in 1..n /\ b \in 0..n
  BY SeqIs
<1>2. p \in Seq(Pairs) /\ Len(p) = b - a + 1 /\ DOMAIN p = 1..(b - a + 1)
  BY <1>1
<1>3. \A i \in DOMAIN p : a + i - 1 \in a..b /\ p[i] = s[a + i - 1]
  BY <1>1, <1>2
<1> HIDE DEF p
<1>4. ASSUME NEW i \in a..b PROVE i - a + 1 \in DOMAIN p /\ p[i - a + 1] = s[i]
  <2>1. i - a + 1 \in DOMAIN p /\ a + (i - a + 1) - 1 = i
    BY <1>1, <1>2
  <2>2. p[i - a + 1] = s[a + (i - a + 1) - 1]
    BY <1>3, <2>1
  <2> QED
    BY <2>1, <2>2
<1>5. \A i \in DOMAIN p : a + i - 1 \in DOMAIN s /\ i \in Int
  BY <1>1, <1>2, <1>3
<1>6. Once(p)
  <2> SUFFICES ASSUME NEW i \in DOMAIN p, NEW j \in DOMAIN p, p[i][1] = p[j][1] PROVE i = j
    BY DEF Once
  <2>1. a + i - 1 = a + j - 1
    BY <1>3, <1>5 DEF Once
  <2> QED
    BY <1>1, <1>5, <2>1
<1>7. \A i \in DOMAIN p : p[i][2] # Dead
  BY <1>3, <1>5
<1> QED
  BY <1>2, <1>3, <1>4, <1>6, <1>7 DEF p

\* split: between them the halves say what the node said.
LEMMA SplitOK ==
  ASSUME NEW n, NodeOK(n), CanSplit(n)
  PROVE  LET h == Split(n)
         IN /\ HalvesOf(h, n.level, [k \in Positions |-> Content(n, k)])
            /\ Clean(h.left) /\ HasRoom(h.left) /\ Clean(h.right) /\ HasRoom(h.right)
            /\ Content(n, h.median) # Dead
            /\ \E j \in Positions : j < h.median /\ Content(n, j) # Dead
<1> DEFINE s == Entries(n)
           all == Live(s)
           L == Len(all)
           mid == SplitAt(all)
           h == Split(n)
           left == SubSeq(all, 1, mid)
           right == SubSeq(all, mid + 1, L)
           c == [k \in Positions |-> Content(n, k)]
<1>1. s \in Seq(Pairs) /\ Len(s) \in Nat
  BY NodeFields
<1>2. /\ all \in Seq(Pairs) /\ Once(all) /\ (\A i \in DOMAIN all : all[i][2] # Dead)
      /\ \A i, j \in DOMAIN all : i < j => all[i][1] < all[j][1]
  BY <1>1, LiveIs
<1>3. L \in Nat /\ L <= Len(s) /\ DOMAIN all = 1..L
  BY <1>1, <1>2, LiveLen, SeqIs
<1>4. L >= 2
  BY DEF CanSplit
<1>5. mid \in 1..(L - 1)
  BY <1>2, <1>4, SplitAtIs
<1>6. /\ h.left = [n EXCEPT !.base = left, !.aux = FALSE, !.inc = <<>>, !.at = 0, !.count = Len(left)]
      /\ h.right = [Empty(n.level) EXCEPT !.base = right, !.aux = FALSE, !.inc = <<>>, !.at = 0, !.count = Len(right)]
      /\ h.median = all[mid + 1][1]
  BY DEF Split, SplitAfter
<1>7. \A k : Newest(all, k) = Content(n, k)
  BY <1>1, LiveNewest DEF Content
<1> HIDE DEF all, mid, h
<1>8. /\ 1 \in 1..L /\ mid \in 0..L /\ 1 <= mid + 1 /\ mid + 1 \in 1..L /\ L \in 0..L /\ mid + 1 <= L + 1
      /\ mid \in Nat
  BY <1>3, <1>5
<1>9. /\ left \in Seq(Pairs) /\ Once(left) /\ (\A i \in DOMAIN left : left[i][2] # Dead)
      /\ Len(left) = mid - 1 + 1
      /\ \A i \in 1..mid : i - 1 + 1 \in DOMAIN left /\ left[i - 1 + 1] = all[i]
      /\ \A i \in DOMAIN left : 1 + i - 1 \in 1..mid /\ left[i] = all[1 + i - 1]
  BY <1>2, <1>8, PartIs
<1>10. /\ right \in Seq(Pairs) /\ Once(right) /\ (\A i \in DOMAIN right : right[i][2] # Dead)
       /\ Len(right) = L - (mid + 1) + 1
       /\ \A i \in (mid + 1)..L : i - (mid + 1) + 1 \in DOMAIN right /\ right[i - (mid + 1) + 1] = all[i]
       /\ \A i \in DOMAIN right : (mid + 1) + i - 1 \in (mid + 1)..L /\ right[i] = all[(mid + 1) + i - 1]
  BY <1>2, <1>8, PartIs
<1> HIDE DEF left, right, L
<1>11. Len(left) + 1 <= L /\ Len(right) + 1 <= L /\ Len(left) + 1 \in Nat /\ Len(right) + 1 \in Nat
  BY <1>3, <1>5, <1>9, <1>10
<1>12. \A x \in Nat : x <= L => EntryBytes * x <= NodeSize
  <2> SUFFICES ASSUME NEW x \in Nat, x <= L PROVE EntryBytes * x <= NodeSize
    OBVIOUS
  <2>1. x <= Len(s)
    BY <1>1, <1>3
  <2>2. EntryBytes * x <= EntryBytes * Len(s)
    BY <1>1, <2>1, ConstantsAre, Product
  <2>3. EntryBytes * x \in Nat /\ EntryBytes * Len(s) \in Nat
    BY <1>1, ConstantsAre, Product
  <2>4. EntryBytes * Len(s) <= NodeSize
    BY BytesFit
  <2> QED
    BY <2>2, <2>3, <2>4, ConstantsAre
<1>13. HalfOK(h.left, n, left)
  <2>1. EntryBytes * (Len(left) + 1) <= NodeSize
    BY <1>11, <1>12
  <2>2. n \in NodeSet /\ Len(left) \in Nat /\ <<>> \in Seq(Pairs)
    BY <1>9, SeqIs DEF NodeOK
  <2> DEFINE x == h.left
  <2>5. x = [n EXCEPT !.base = left, !.aux = FALSE, !.inc = <<>>, !.at = 0, !.count = Len(left)]
    BY <1>6
  <2> HIDE DEF x
  <2>3. /\ x \in NodeSet /\ x.base = left /\ x.inc = <<>> /\ x.at = 0 /\ x.count = Len(left)
        /\ ~x.aux /\ x.level = n.level
    BY <1>9, <2>2, <2>5 DEF NodeSet
  <2>4. HalfOK(x, n, left)
    BY <1>9, <2>1, <2>3, HalfIs
  <2> QED
    BY <2>4 DEF x
<1>14. HalfOK(h.right, Empty(n.level), right)
  <2>1. EntryBytes * (Len(right) + 1) <= NodeSize
    BY <1>11, <1>12
  <2>2. n.level \in Nat /\ Len(right) \in Nat /\ <<>> \in Seq(Pairs)
    <3>1. n.level \in Nat
      BY NodeFields
    <3>2. Len(right) \in Nat
      BY <1>10, SeqIs
    <3> QED
      BY <3>1, <3>2
  <2> DEFINE y == Empty(n.level)
             x == h.right
  <2>3. y \in NodeSet
    BY <2>2, EmptyOK DEF NodeOK
  <2>4. x = [y EXCEPT !.base = right, !.aux = FALSE, !.inc = <<>>, !.at = 0, !.count = Len(right)]
    BY <1>6
  <2> HIDE DEF y, x
  <2>5. /\ x \in NodeSet /\ x.base = right /\ x.inc = <<>> /\ x.at = 0 /\ x.count = Len(right)
        /\ ~x.aux /\ x.level = y.level
    BY <1>10, <2>2, <2>3, <2>4 DEF NodeSet
  <2>6. HalfOK(x, y, right)
    BY <1>10, <2>1, <2>5, HalfIs
  <2> QED
    BY <2>6 DEF x, y
<1>15. n.level \in Nat /\ Empty(n.level).level = n.level
  BY NodeFields, EmptyOK
<1>16. /\ NodeOK(h.left) /\ NodeOK(h.right) /\ h.left.level = n.level /\ h.right.level = n.level
       /\ Clean(h.left) /\ HasRoom(h.left) /\ Clean(h.right) /\ HasRoom(h.right)
       /\ Entries(h.left) = left /\ Entries(h.right) = right
  BY <1>13, <1>14, <1>15 DEF HalfOK
<1>17. \A i \in DOMAIN all : all[i][1] \in Nat /\ all[i][1] \in Positions /\ i \in Nat
  BY <1>2, <1>3, PairFields, ConstantsAre
<1>18. mid + 1 \in DOMAIN all /\ 1 \in DOMAIN all
  BY <1>3, <1>8
<1>19. \A i \in DOMAIN all : all[i][1] < h.median <=> i <= mid
  <2> SUFFICES ASSUME NEW i \in DOMAIN all PROVE all[i][1] < h.median <=> i <= mid
    OBVIOUS
  <2>1. i <= mid => i < mid + 1
    BY <1>8, <1>17
  <2>2. i > mid => i = mid + 1 \/ mid + 1 < i
    BY <1>8, <1>17
  <2>3. i < mid + 1 => all[i][1] < all[mid + 1][1]
    BY <1>2, <1>18
  <2>4. mid + 1 < i => all[mid + 1][1] < all[i][1]
    BY <1>2, <1>18
  <2>5. all[i][1] \in Nat /\ all[mid + 1][1] \in Nat /\ i \in Nat
    BY <1>17, <1>18
  <2> QED
    BY <1>6, <1>8, <2>1, <2>2, <2>3, <2>4, <2>5
<1>20. ASSUME NEW k \in Positions
       PROVE  /\ Content(h.left, k) = IF k < h.median THEN Content(n, k) ELSE Dead
              /\ Content(h.right, k) = IF k < h.median THEN Dead ELSE Content(n, k)
  <2>1. CASE \E i \in DOMAIN all : all[i][1] = k
    <3>1. PICK i \in DOMAIN all : all[i][1] = k
      BY <2>1
    <3>2. Newest(all, k) = all[i][2]
      BY <1>2, <3>1, NewestOnce
    <3>3. CASE i <= mid
      <4>1. i \in 1..mid /\ i - 1 + 1 = i
        BY <1>3, <3>3, <1>17
      <4>2. i \in DOMAIN left /\ left[i] = all[i]
        BY <1>9, <4>1
      <4>3. Newest(left, k) = all[i][2]
        BY <1>9, <3>1, <4>2, NewestOnce
      <4>4. \A j \in DOMAIN right : right[j][1] # k
        <5> SUFFICES ASSUME NEW j \in DOMAIN right, right[j][1] = k PROVE FALSE
          OBVIOUS
        <5> DEFINE g == (mid + 1) + j - 1
        <5>1. g \in (mid + 1)..L /\ right[j] = all[g]
          BY <1>10
        <5> HIDE DEF g
        <5>2. g \in DOMAIN all /\ g # i
          BY <1>3, <1>8, <3>3, <5>1, <1>17
        <5> QED
          BY <1>2, <3>1, <5>1, <5>2 DEF Once
      <4>5. Newest(right, k) = Dead
        <5>1. right \in Seq(Pairs)
          BY <1>10
        <5> QED
          BY <4>4, <5>1, NewestIs
      <4>6. k < h.median
        BY <1>19, <3>1, <3>3
      <4> QED
        BY <1>7, <1>16, <3>2, <4>3, <4>5, <4>6 DEF Content
    <3>4. CASE ~(i <= mid)
      <4>1. i \in (mid + 1)..L
        BY <1>3, <1>8, <3>4, <1>17
      <4> DEFINE r == i - (mid + 1) + 1
      <4>2. r \in DOMAIN right /\ right[r] = all[i]
        BY <1>10, <4>1
      <4> HIDE DEF r
      <4>3. Newest(right, k) = all[i][2]
        <5>1. right \in Seq(Pairs) /\ Once(right)
          BY <1>10
        <5> QED
          BY <3>1, <4>2, <5>1, NewestOnce
      <4>4. \A j \in DOMAIN left : left[j][1] # k
        <5> SUFFICES ASSUME NEW j \in DOMAIN left, left[j][1] = k PROVE FALSE
          OBVIOUS
        <5> DEFINE g == 1 + j - 1
        <5>1. g \in 1..mid /\ left[j] = all[g]
          BY <1>9
        <5> HIDE DEF g
        <5>2. g \in DOMAIN all /\ g # i
          BY <1>3, <1>8, <3>4, <5>1, <1>17
        <5> QED
          BY <1>2, <3>1, <5>1, <5>2 DEF Once
      <4>5. Newest(left, k) = Dead
        BY <1>9, <4>4, NewestIs
      <4>6. ~(k < h.median)
        BY <1>19, <3>1, <3>4
      <4> QED
        BY <1>7, <1>16, <3>2, <4>3, <4>5, <4>6 DEF Content
    <3> QED
      BY <3>3, <3>4
  <2>2. CASE \A i \in DOMAIN all : all[i][1] # k
    <3>1. Newest(all, k) = Dead
      BY <1>2, <2>2, NewestIs
    <3>2. \A j \in DOMAIN left : left[j][1] # k
      BY <1>3, <1>8, <1>9, <2>2
    <3>3. \A j \in DOMAIN right : right[j][1] # k
      <4> SUFFICES ASSUME NEW j \in DOMAIN right PROVE right[j][1] # k
        OBVIOUS
      <4> DEFINE g == (mid + 1) + j - 1
      <4>1. g \in (mid + 1)..L /\ right[j] = all[g]
        BY <1>10
      <4> HIDE DEF g
      <4>2. g \in DOMAIN all
        BY <1>3, <1>8, <4>1
      <4> QED
        BY <2>2, <4>1, <4>2
    <3>4. Newest(left, k) = Dead
      BY <1>9, <3>2, NewestIs
    <3>5. Newest(right, k) = Dead
      BY <1>10, <3>3, NewestIs
    <3> QED
      BY <1>7, <1>16, <3>1, <3>4, <3>5 DEF Content
  <2> QED
    BY <2>1, <2>2
<1>21. h.median \in Positions /\ Content(n, h.median) # Dead
  <2>1. Newest(all, all[mid + 1][1]) = all[mid + 1][2]
    BY <1>2, <1>18, NewestOnce
  <2> QED
    BY <1>2, <1>6, <1>7, <1>17, <1>18, <2>1
<1>22. \E j \in Positions : j < h.median /\ Content(n, j) # Dead
  <2>1. Newest(all, all[1][1]) = all[1][2]
    BY <1>2, <1>18, NewestOnce
  <2>2. all[1][1] < h.median
    <3>1. 1 <= mid
      BY <1>5, <1>3
    <3> QED
      BY <1>18, <1>19, <3>1
  <2> QED
    BY <1>2, <1>7, <1>17, <1>18, <2>1, <2>2
<1>23. h.median > 0
  BY <1>21, <1>22, ConstantsAre
<1>24. HalvesOf(h, n.level, c)
  BY <1>16, <1>20, <1>21, <1>23 DEF HalvesOf
<1> QED
  BY <1>16, <1>21, <1>22, <1>24 DEF h

\* ... with the entry that did not fit before.
LEMMA HalvesOK ==
  ASSUME NEW n, NodeOK(n), CanSplit(n), NEW e \in Pairs
  PROVE  LET h == Halves(n, e)
         IN /\ HalvesOf(h, n.level, [k \in Positions |-> IF k = e[1] THEN e[2] ELSE Content(n, k)])
            /\ e[2] # Dead /\ Content(n, e[1]) = Dead => Clean(h.left) /\ Clean(h.right)
            /\ Content(n, h.median) # Dead
            /\ \E j \in Positions : j < h.median /\ Content(n, j) # Dead
<1> DEFINE s == Split(n)
           h == Halves(n, e)
           c == [k \in Positions |-> Content(n, k)]
           b == [k \in Positions |-> IF k = e[1] THEN e[2] ELSE Content(n, k)]
<1>1. /\ HalvesOf(s, n.level, c)
      /\ Clean(s.left) /\ HasRoom(s.left) /\ Clean(s.right) /\ HasRoom(s.right)
      /\ Content(n, s.median) # Dead
      /\ \E j \in Positions : j < s.median /\ Content(n, j) # Dead
  BY SplitOK
<1>2. e[1] \in Positions /\ e[2] \in Nat /\ Positions \subseteq Nat
  BY PairFields, ConstantsAre
<1>3. DOMAIN s = {"left", "right", "median"}
  BY DEF Split, SplitAfter
<1>4. h = IF e[1] >= s.median THEN [s EXCEPT !.right = Insert1(s.right, e).node]
          ELSE [s EXCEPT !.left = Insert1(s.left, e).node]
  BY <1>3 DEF Halves, InHalf
<1> HIDE DEF s, h
<1>5. /\ s.median \in Positions /\ s.median > 0
      /\ NodeOK(s.left) /\ NodeOK(s.right) /\ s.left.level = n.level /\ s.right.level = n.level
      /\ \A k \in Positions : Content(s.left, k) = IF k < s.median THEN Content(n, k) ELSE Dead
      /\ \A k \in Positions : Content(s.right, k) = IF k < s.median THEN Dead ELSE Content(n, k)
  BY <1>1 DEF HalvesOf
<1>6. CASE e[1] >= s.median
  <2> DEFINE i == Insert1(s.right, e)
  <2>1. h.median = s.median /\ h.left = s.left /\ h.right = i.node
    BY <1>3, <1>4, <1>6
  <2>2. /\ NodeOK(i.node) /\ i.node.level = n.level
        /\ \A k : Content(i.node, k) = IF e[1] = k THEN e[2] ELSE Content(s.right, k)
    BY <1>1, <1>5, InsertOK
  <2>3. e[2] # Dead /\ Content(n, e[1]) = Dead => Clean(i.node)
    <3>1. Content(n, e[1]) = Dead => Content(s.right, e[1]) = Dead
      BY <1>2, <1>5
    <3> QED
      BY <1>1, <1>5, <3>1, InsertClean
  <2> HIDE DEF i
  <2>4. \A k \in Positions : Content(h.left, k) = IF k < h.median THEN b[k] ELSE Dead
    <3> SUFFICES ASSUME NEW k \in Positions PROVE Content(h.left, k) = IF k < h.median THEN b[k] ELSE Dead
      OBVIOUS
    <3>1. k < s.median => k # e[1]
      <4>1. k \in Nat /\ s.median \in Nat /\ e[1] \in Nat
        BY <1>2, <1>5
      <4> QED
        BY <1>6, <4>1
    <3> QED
      BY <1>5, <2>1, <3>1
  <2>5. \A k \in Positions : Content(h.right, k) = IF k < h.median THEN Dead ELSE b[k]
    <3> SUFFICES ASSUME NEW k \in Positions PROVE Content(h.right, k) = IF k < h.median THEN Dead ELSE b[k]
      OBVIOUS
    <3>1. k < s.median => k # e[1]
      <4>1. k \in Nat /\ s.median \in Nat /\ e[1] \in Nat
        BY <1>2, <1>5
      <4> QED
        BY <1>6, <4>1
    <3> QED
      BY <1>5, <2>1, <2>2, <3>1
  <2>6. HalvesOf(h, n.level, b)
    BY <1>5, <2>1, <2>2, <2>4, <2>5 DEF HalvesOf
  <2> QED
    BY <1>1, <2>1, <2>3, <2>6 DEF h
<1>7. CASE ~(e[1] >= s.median)
  <2> DEFINE i == Insert1(s.left, e)
  <2>1. h.median = s.median /\ h.right = s.right /\ h.left = i.node
    BY <1>3, <1>4, <1>7
  <2>2. /\ NodeOK(i.node) /\ i.node.level = n.level
        /\ \A k : Content(i.node, k) = IF e[1] = k THEN e[2] ELSE Content(s.left, k)
    BY <1>1, <1>5, InsertOK
  <2>3. e[2] # Dead /\ Content(n, e[1]) = Dead => Clean(i.node)
    <3>1. Content(n, e[1]) = Dead => Content(s.left, e[1]) = Dead
      BY <1>2, <1>5
    <3> QED
      BY <1>1, <1>5, <3>1, InsertClean
  <2> HIDE DEF i
  <2>4. \A k \in Positions : Content(h.left, k) = IF k < h.median THEN b[k] ELSE Dead
    <3> SUFFICES ASSUME NEW k \in Positions PROVE Content(h.left, k) = IF k < h.median THEN b[k] ELSE Dead
      OBVIOUS
    <3>1. k = e[1] => k < s.median
      BY <1>2, <1>5, <1>7
    <3> QED
      BY <1>5, <2>1, <2>2, <3>1
  <2>5. \A k \in Positions : Content(h.right, k) = IF k < h.median THEN Dead ELSE b[k]
    <3> SUFFICES ASSUME NEW k \in Positions PROVE Content(h.right, k) = IF k < h.median THEN Dead ELSE b[k]
      OBVIOUS
    <3>1. k = e[1] => k < s.median
      BY <1>2, <1>5, <1>7
    <3> QED
      BY <1>5, <2>1, <3>1
  <2>6. HalvesOf(h, n.level, b)
    BY <1>5, <2>1, <2>2, <2>4, <2>5 DEF HalvesOf
  <2> QED
    BY <1>1, <2>1, <2>3, <2>6 DEF h
<1> QED
  BY <1>6, <1>7

-----------------------------------------------------------------------------
(* Deleting.                                                               *)

Single(n, k) ==
  \E i \in DOMAIN Entries(n) :
    /\ Entries(n)[i][1] = k /\ Entries(n)[i][2] # Dead
    /\ \A j \in DOMAIN Entries(n) : Entries(n)[j][1] = k => j = i

\* In a routing node each position has a single entry.
LEMMA SingleIfClean ==
  ASSUME NEW n, NodeOK(n), Clean(n), NEW k, Content(n, k) # Dead PROVE Single(n, k)
<1> DEFINE s == Entries(n)
<1>1. s \in Seq(Pairs)
  BY NodeFields
<1>2. PICK i \in DOMAIN s : s[i][1] = k
  BY <1>1, NewestIs DEF Content
<1>3. s[i][2] # Dead /\ \A j \in DOMAIN s : s[j][1] = k => j = i
  BY <1>2 DEF Clean, Once
<1> QED
  BY <1>2, <1>3 DEF Single

\* u is s with e in place of the entry i.
Marked(s, u, i, e) ==
  /\ s \in Seq(Pairs) /\ u \in Seq(Pairs) /\ DOMAIN u = DOMAIN s /\ i \in DOMAIN s
  /\ u[i] = e /\ \A j \in DOMAIN s : j # i => u[j] = s[j]

\* Marking the only entry of a position leaves the others alone.
LEMMA NewestMarked ==
  ASSUME NEW s, NEW i, NEW k, NEW u, Marked(s, u, i, <<k, Dead>>), s[i][1] = k
  PROVE  /\ \A j : j # k => Newest(u, j) = Newest(s, j)
         /\ Newest(u, k) \in {Dead, Newest(s, k)}
<1>1. /\ DOMAIN u = DOMAIN s /\ DOMAIN s \subseteq Nat
      /\ \A x \in DOMAIN s : u[x][1] = s[x][1]
      /\ \A x \in DOMAIN s : x # i => u[x] = s[x]
      /\ u[i][2] = Dead /\ s \in Seq(Pairs) /\ u \in Seq(Pairs) /\ i \in DOMAIN s
  BY DEF Marked
<1>2. ASSUME NEW j, \A x \in DOMAIN s : s[x][1] # j PROVE Newest(u, j) = Dead /\ Newest(s, j) = Dead
  <2>1. \A x \in DOMAIN u : u[x][1] # j
    BY <1>1, <1>2
  <2>2. Newest(u, j) = Dead
    BY <1>1, <2>1, NewestIs
  <2>3. Newest(s, j) = Dead
    BY <1>1, <1>2, NewestIs
  <2> QED
    BY <2>2, <2>3
<1>3. ASSUME NEW j, \E x \in DOMAIN s : s[x][1] = j
      PROVE  \E g \in DOMAIN s : s[g][1] = j /\ Newest(s, j) = s[g][2] /\ Newest(u, j) = u[g][2]
  <2>1. PICK g \in DOMAIN s : s[g][1] = j /\ Newest(s, j) = s[g][2] /\ \A x \in DOMAIN s : s[x][1] = j => x <= g
    BY <1>1, <1>3, NewestIs
  <2>2. \A x \in DOMAIN u : x > g => u[x][1] # u[g][1]
    BY <1>1, <2>1
  <2>3. g \in DOMAIN u
    BY <1>1
  <2>4. Newest(u, u[g][1]) = u[g][2]
    BY <1>1, <2>2, <2>3, NewestLast
  <2>5. u[g][1] = j
    BY <1>1, <2>1
  <2> QED
    BY <2>1, <2>4, <2>5
<1>4. ASSUME NEW j, j # k PROVE Newest(u, j) = Newest(s, j)
  <2>1. CASE \A x \in DOMAIN s : s[x][1] # j
    BY <1>2, <2>1
  <2>2. CASE \E x \in DOMAIN s : s[x][1] = j
    <3>1. PICK g \in DOMAIN s : s[g][1] = j /\ Newest(s, j) = s[g][2] /\ Newest(u, j) = u[g][2]
      BY <1>3, <2>2
    <3> QED
      BY <1>1, <1>4, <3>1
  <2> QED
    BY <2>1, <2>2
<1>5. Newest(u, k) \in {Dead, Newest(s, k)}
  <2>1. PICK g \in DOMAIN s : s[g][1] = k /\ Newest(s, k) = s[g][2] /\ Newest(u, k) = u[g][2]
    BY <1>1, <1>3
  <2> QED
    BY <1>1, <2>1
<1> QED
  BY <1>4, <1>5

\* The entries of two sequences, by index.
LEMMA ConcatIs ==
  ASSUME NEW s \in Seq(Pairs), NEW u \in Seq(Pairs)
  PROVE  /\ s \o u \in Seq(Pairs) /\ Len(s \o u) = Len(s) + Len(u)
         /\ DOMAIN (s \o u) = 1..(Len(s) + Len(u))
         /\ \A i \in 1..Len(s) : (s \o u)[i] = s[i]
         /\ \A i \in 1..Len(u) : (s \o u)[Len(s) + i] = u[i]
<1>1. s \o u \in Seq(Pairs) /\ Len(s \o u) = Len(s) + Len(u)
  OBVIOUS
<1>2. DOMAIN (s \o u) = 1..(Len(s) + Len(u))
  BY <1>1, SeqIs
<1>3. \A i \in 1..Len(s) : (s \o u)[i] = s[i]
  OBVIOUS
<1>4. \A i \in 1..Len(u) : (s \o u)[Len(s) + i] = u[i]
  OBVIOUS
<1> QED
  BY <1>1, <1>2, <1>3, <1>4

\* An entry replaced in the first of two sequences.
LEMMA ReplacedLeft ==
  ASSUME NEW b \in Seq(Pairs), NEW c \in Seq(Pairs), NEW i \in DOMAIN b, NEW e,
         NEW u \in Seq(Pairs), DOMAIN u = DOMAIN b, Len(u) = Len(b), u[i] = e,
         \A j \in DOMAIN b : j # i => u[j] = b[j]
  PROVE  Marked(b \o c, u \o c, i, e) /\ (b \o c)[i] = b[i]
<1> DEFINE x == u \o c
           s == b \o c
           nb == Len(b)
           nc == Len(c)
<1>1. nb \in Nat /\ nc \in Nat /\ DOMAIN b = 1..nb /\ DOMAIN c = 1..nc
  BY SeqIs
<1>2. /\ s \in Seq(Pairs) /\ DOMAIN s = 1..(nb + nc)
      /\ (\A j \in 1..nb : s[j] = b[j]) /\ (\A j \in 1..nc : s[nb + j] = c[j])
  BY ConcatIs
<1>3. /\ x \in Seq(Pairs) /\ DOMAIN x = 1..(nb + nc)
      /\ (\A j \in 1..nb : x[j] = u[j]) /\ (\A j \in 1..nc : x[nb + j] = c[j])
  <2>1. /\ x \in Seq(Pairs) /\ DOMAIN x = 1..(Len(u) + nc)
        /\ (\A j \in 1..Len(u) : x[j] = u[j]) /\ (\A j \in 1..nc : x[Len(u) + j] = c[j])
    BY ConcatIs
  <2>2. Len(u) = nb
    OBVIOUS
  <2> HIDE DEF x, nb, nc
  <2> QED
    BY <2>1, <2>2
<1> HIDE DEF x, s, nb, nc
<1>4. i \in DOMAIN s /\ s[i] = b[i] /\ x[i] = e
  BY <1>1, <1>2, <1>3
<1>5. ASSUME NEW j \in DOMAIN s, j # i PROVE x[j] = s[j]
  <2>1. CASE j \in 1..nb
    BY <1>1, <1>2, <1>3, <1>5, <2>1
  <2>2. CASE j \notin 1..nb
    <3>1. j - nb \in 1..nc /\ j = nb + (j - nb)
      BY <1>1, <1>2, <2>2
    <3> QED
      BY <1>2, <1>3, <3>1
  <2> QED
    BY <2>1, <2>2
<1> QED
  BY <1>2, <1>3, <1>4, <1>5 DEF Marked, x, s

\* An entry replaced in the second of two sequences.
LEMMA ReplacedRight ==
  ASSUME NEW b \in Seq(Pairs), NEW c \in Seq(Pairs), NEW p \in DOMAIN c, NEW e,
         NEW u \in Seq(Pairs), DOMAIN u = DOMAIN c, Len(u) = Len(c), u[p] = e,
         \A j \in DOMAIN c : j # p => u[j] = c[j]
  PROVE  LET i == Len(b) + p
         IN Marked(b \o c, b \o u, i, e) /\ (b \o c)[i] = c[p]
<1> DEFINE x == b \o u
           s == b \o c
           nb == Len(b)
           nc == Len(c)
           i == nb + p
<1>1. nb \in Nat /\ nc \in Nat /\ DOMAIN b = 1..nb /\ DOMAIN c = 1..nc
  BY SeqIs
<1>2. /\ s \in Seq(Pairs) /\ DOMAIN s = 1..(nb + nc)
      /\ (\A j \in 1..nb : s[j] = b[j]) /\ (\A j \in 1..nc : s[nb + j] = c[j])
  BY ConcatIs
<1>3. /\ x \in Seq(Pairs) /\ DOMAIN x = 1..(nb + nc)
      /\ (\A j \in 1..nb : x[j] = b[j]) /\ (\A j \in 1..nc : x[nb + j] = u[j])
  <2>1. /\ x \in Seq(Pairs) /\ DOMAIN x = 1..(nb + Len(u))
        /\ (\A j \in 1..nb : x[j] = b[j]) /\ (\A j \in 1..Len(u) : x[nb + j] = u[j])
    BY ConcatIs
  <2>2. Len(u) = nc
    OBVIOUS
  <2> HIDE DEF x, nb, nc
  <2> QED
    BY <2>1, <2>2
<1> HIDE DEF x, s, nb, nc
<1>4. i \in DOMAIN s /\ s[i] = c[p] /\ x[i] = e
  BY <1>1, <1>2, <1>3
<1>5. ASSUME NEW j \in DOMAIN s, j # i PROVE x[j] = s[j]
  <2>1. CASE j \in 1..nb
    BY <1>1, <1>2, <1>3, <2>1
  <2>2. CASE j \notin 1..nb
    <3>1. j - nb \in 1..nc /\ j = nb + (j - nb) /\ j - nb # p
      BY <1>1, <1>2, <1>5, <2>2
    <3>2. u[j - nb] = c[j - nb]
      BY <1>1, <3>1
    <3> QED
      BY <1>2, <1>3, <3>1, <3>2
  <2> QED
    BY <2>1, <2>2
<1> HIDE DEF i
<1>6. Marked(s, x, i, e)
  BY <1>2, <1>3, <1>4, <1>5 DEF Marked
<1> QED
  BY <1>4, <1>6 DEF x, s, nb, i

\* mark_entry_deleted_inplace.
LEMMA MarkOK ==
  ASSUME NEW n, NodeOK(n), NEW k \in Positions, \E i \in DOMAIN Entries(n) : Entries(n)[i][1] = k
  PROVE  LET m == MarkInPlace(n, k)
         IN /\ NodeOK(m) /\ m.level = n.level
            /\ \E i \in DOMAIN Entries(n) :
                 Entries(n)[i][1] = k /\ Marked(Entries(n), Entries(m), i, <<k, Dead>>)
<1> DEFINE m == MarkInPlace(n, k)
           b == n.base
           c == n.inc
           at(s) == {i \in DOMAIN s : s[i][1] = k}
           least(s) == CHOOSE i \in at(s) : \A j \in at(s) : i <= j
           e == <<k, Dead>>
           mark(s) == [s EXCEPT ![least(s)] = e]
<1>1. /\ b \in Seq(Pairs) /\ c \in Seq(Pairs) /\ n \in NodeSet
      /\ DOMAIN b = 1..Len(b) /\ DOMAIN c = 1..Len(c) /\ Len(b) \in Nat /\ Len(c) \in Nat
  <2>1. b \in Seq(Pairs) /\ c \in Seq(Pairs) /\ n \in NodeSet
    BY NodeFields DEF NodeOK
  <2> QED
    BY <2>1, SeqIs
<1>2. e \in Pairs
  BY DEF Pairs, Dead
<1>3. ASSUME NEW s \in Seq(Pairs), at(s) # {}
      PROVE  /\ least(s) \in DOMAIN s /\ s[least(s)][1] = k
             /\ mark(s) \in Seq(Pairs) /\ Len(mark(s)) = Len(s) /\ DOMAIN mark(s) = DOMAIN s
             /\ mark(s)[least(s)] = e
             /\ \A j \in DOMAIN s : j # least(s) => mark(s)[j] = s[j]
             /\ \A j \in DOMAIN s : mark(s)[j][1] = s[j][1]
  <2>1. at(s) \subseteq Nat
    OBVIOUS
  <2>2. \E i \in at(s) : \A j \in at(s) : i <= j
    BY <1>3, <2>1, LeastNat
  <2>3. least(s) \in at(s)
    BY <2>2
  <2> DEFINE i == least(s)
  <2> HIDE DEF i
  <2>4. i \in DOMAIN s /\ s[i][1] = k
    BY <2>3 DEF i
  <2> DEFINE u == [s EXCEPT ![i] = e]
  <2>5. /\ u \in Seq(Pairs) /\ Len(u) = Len(s) /\ DOMAIN u = DOMAIN s /\ u[i] = e
        /\ \A j \in DOMAIN s : j # i => u[j] = s[j]
    BY <1>2, <2>4
  <2>6. \A j \in DOMAIN s : u[j][1] = s[j][1]
    BY <2>4, <2>5
  <2> QED
    BY <2>4, <2>5, <2>6 DEF i
<1>4. m = IF at(b) # {} THEN [n EXCEPT !.base = mark(b)] ELSE [n EXCEPT !.inc = mark(c)]
  BY <1>1 DEF MarkInPlace, NodeSet
<1>5. Entries(n) = b \o c /\ Entries(n) \in Seq(Pairs)
  BY <1>1, NodeFields DEF Entries
<1>6. /\ DOMAIN Entries(n) = 1..(Len(b) + Len(c))
      /\ \A i \in 1..Len(b) : Entries(n)[i] = b[i]
      /\ \A i \in 1..Len(c) : Entries(n)[Len(b) + i] = c[i]
  <2> HIDE DEF m, at, least, e, b, c
  <2>1. /\ DOMAIN (b \o c) = 1..(Len(b) + Len(c))
        /\ \A i \in 1..Len(b) : (b \o c)[i] = b[i]
        /\ \A i \in 1..Len(c) : (b \o c)[Len(b) + i] = c[i]
    BY <1>1, ConcatIs
  <2> QED
    BY <1>5, <2>1
<1> HIDE DEF m, at, least, e, b, c
<1>7. CASE at(b) # {}
  <2> DEFINE u == mark(b)
             i == least(b)
  <2>1. /\ i \in DOMAIN b /\ b[i][1] = k
        /\ u \in Seq(Pairs) /\ Len(u) = Len(b) /\ DOMAIN u = DOMAIN b
        /\ u[i] = e
        /\ \A j \in DOMAIN b : j # i => u[j] = b[j]
        /\ \A j \in DOMAIN b : u[j][1] = b[j][1]
    BY <1>1, <1>3, <1>7
  <2>2. m = [n EXCEPT !.base = u]
    BY <1>4, <1>7
  <2> HIDE DEF u, i
  <2>3. /\ m \in NodeSet /\ m.base = u /\ m.inc = n.inc /\ m.at = n.at /\ m.aux = n.aux
        /\ m.level = n.level /\ m.count = n.count
    BY <1>1, <2>1, <2>2 DEF NodeSet
  <2>4. Once(u)
    BY <1>1, <2>1 DEF NodeOK, Once, b
  <2>5. NodeOK(m)
    BY <2>1, <2>3, <2>4 DEF NodeOK, Fits, b
  <2>6. Entries(m) = u \o c
    BY <2>3 DEF Entries, c
  <2>7. Marked(b \o c, u \o c, i, e) /\ (b \o c)[i] = b[i]
    BY <1>1, <2>1, ReplacedLeft
  <2>8. Marked(Entries(n), Entries(m), i, e) /\ Entries(n)[i][1] = k /\ i \in DOMAIN Entries(n)
    <3>1. Entries(n) = b \o c
      BY <1>5
    <3> QED
      BY <2>1, <2>6, <2>7, <3>1 DEF Marked
  <2> QED
    BY <2>3, <2>5, <2>8 DEF m, e
<1>8. CASE at(b) = {}
  <2> DEFINE u == mark(c)
             p == least(c)
             i == Len(b) + p
  <2>0. at(c) # {}
    <3>1. PICK j \in DOMAIN Entries(n) : Entries(n)[j][1] = k
      OBVIOUS
    <3>2. CASE j \in 1..Len(b)
      <4>1. j \in at(b)
        BY <1>1, <1>6, <3>1, <3>2 DEF at
      <4> QED
        BY <1>8, <4>1
    <3>3. CASE j \notin 1..Len(b)
      <4> DEFINE z == j - Len(b)
      <4>1. z \in 1..Len(c) /\ j = Len(b) + z
        BY <1>1, <1>6, <3>1, <3>3
      <4> HIDE DEF z
      <4>2. z \in at(c)
        BY <1>1, <1>6, <3>1, <4>1 DEF at
      <4> QED
        BY <4>2
    <3> QED
      BY <3>2, <3>3
  <2>1. /\ p \in DOMAIN c /\ c[p][1] = k
        /\ u \in Seq(Pairs) /\ Len(u) = Len(c) /\ DOMAIN u = DOMAIN c
        /\ u[p] = e
        /\ \A j \in DOMAIN c : j # p => u[j] = c[j]
        /\ \A j \in DOMAIN c : u[j][1] = c[j][1]
    BY <1>1, <1>3, <2>0
  <2>2. m = [n EXCEPT !.inc = u]
    BY <1>4, <1>8
  <2> HIDE DEF u, p
  <2>3. /\ m \in NodeSet /\ m.base = n.base /\ m.inc = u /\ m.at = n.at /\ m.aux = n.aux
        /\ m.level = n.level /\ m.count = n.count
    BY <1>1, <2>1, <2>2 DEF NodeSet
  <2>4. u # <<>> /\ n.inc # <<>>
    BY <1>1, <2>1 DEF c
  <2>5. NodeOK(m)
    BY <2>1, <2>3, <2>4 DEF NodeOK, Fits, c
  <2>6. Entries(m) = b \o u
    BY <2>3 DEF Entries, b
  <2>7. Marked(b \o c, b \o u, i, e) /\ (b \o c)[i] = c[p]
    BY <1>1, <2>1, ReplacedRight
  <2>8. Marked(Entries(n), Entries(m), i, e) /\ Entries(n)[i][1] = k /\ i \in DOMAIN Entries(n)
    <3>1. Entries(n) = b \o c
      BY <1>5
    <3> QED
      BY <2>1, <2>6, <2>7, <3>1 DEF Marked
  <2> QED
    BY <2>3, <2>5, <2>8 DEF m, e
<1> QED
  BY <1>7, <1>8

\* A position with a single live entry has content.
LEMMA SingleContent == ASSUME NEW n, NodeOK(n), NEW k, Single(n, k) PROVE Content(n, k) # Dead
<1> DEFINE s == Entries(n)
<1>1. s \in Seq(Pairs) /\ DOMAIN s \subseteq Nat
  <2>1. s \in Seq(Pairs)
    BY NodeFields
  <2> HIDE DEF s
  <2> QED
    BY <2>1
<1>2. PICK i \in DOMAIN s : s[i][1] = k /\ s[i][2] # Dead /\ \A j \in DOMAIN s : s[j][1] = k => j = i
  BY DEF Single
<1>3. \A j \in DOMAIN s : j > i => s[j][1] # s[i][1]
  BY <1>1, <1>2
<1>4. Newest(s, s[i][1]) = s[i][2]
  BY <1>1, <1>3, NewestLast
<1> QED
  BY <1>2, <1>4 DEF Content

\* A tombstone replaces an entry, or comes behind all of them.
Tombed(s, u, k) ==
  \/ u = Append(s, <<k, Dead>>)
  \/ \E i \in DOMAIN s : s[i][1] = k /\ Marked(s, u, i, <<k, Dead>>)

\* A tombstone, appended or marked, before the node is compacted.
LEMMA TombedOK ==
  ASSUME NEW n, NodeOK(n), NEW d, NodeOK(d), NEW k \in Positions, Tombed(Entries(n), Entries(d), k)
  PROVE  /\ \A j : j # k => Content(d, j) = Content(n, j)
         /\ Content(d, k) \in {Dead, Content(n, k)}
         /\ Single(n, k) => Content(d, k) = Dead
         /\ \A j : j # k /\ Single(n, j) => Single(d, j)
<1> DEFINE s == Entries(n)
           u == Entries(d)
           e == <<k, Dead>>
<1>1. s \in Seq(Pairs) /\ u \in Seq(Pairs) /\ e \in Pairs /\ e[1] = k /\ e[2] = Dead
  BY NodeFields DEF Pairs, Dead
<1>2. CASE u = Append(s, e)
  <2>1. \A j : Newest(u, j) = IF e[1] = j THEN e[2] ELSE Newest(s, j)
    BY <1>1, <1>2, NewestAppend
  <2>2. ASSUME NEW j, j # k, Single(n, j) PROVE Single(d, j)
    <3>1. PICK i \in DOMAIN s : s[i][1] = j /\ s[i][2] # Dead /\ \A x \in DOMAIN s : s[x][1] = j => x = i
      BY <2>2 DEF Single
    <3>2. /\ DOMAIN u = DOMAIN s \union {Len(s) + 1} /\ u[Len(s) + 1] = e
          /\ \A x \in DOMAIN s : u[x] = s[x]
      BY <1>1, <1>2
    <3> HIDE DEF e, s, u
    <3>3. i \in DOMAIN u /\ u[i][1] = j /\ u[i][2] # Dead /\ \A x \in DOMAIN u : u[x][1] = j => x = i
      BY <1>1, <2>2, <3>1, <3>2
    <3> QED
      BY <3>3 DEF Single, u
  <2> QED
    BY <1>1, <2>1, <2>2 DEF Content
<1>3. CASE \E i \in DOMAIN s : s[i][1] = k /\ Marked(s, u, i, e)
  <2>1. PICK i \in DOMAIN s : s[i][1] = k /\ Marked(s, u, i, e)
    BY <1>3
  <2>2. /\ \A j : j # k => Newest(u, j) = Newest(s, j)
        /\ Newest(u, k) \in {Dead, Newest(s, k)}
    BY <2>1, NewestMarked
  <2>3. DOMAIN u = DOMAIN s /\ u[i] = e /\ \A x \in DOMAIN s : x # i => u[x] = s[x]
    BY <2>1 DEF Marked
  <2>4. ASSUME NEW j, j # k, Single(n, j) PROVE Single(d, j)
    <3>1. PICK y \in DOMAIN s : s[y][1] = j /\ s[y][2] # Dead /\ \A x \in DOMAIN s : s[x][1] = j => x = y
      BY <2>4 DEF Single
    <3> HIDE DEF e, s, u
    <3>2. y \in DOMAIN u /\ u[y][1] = j /\ u[y][2] # Dead /\ \A x \in DOMAIN u : u[x][1] = j => x = y
      BY <1>1, <2>1, <2>3, <2>4, <3>1
    <3> QED
      BY <3>2 DEF Single, u
  <2>5. ASSUME Single(n, k) PROVE Newest(u, k) = Dead
    <3>1. PICK y \in DOMAIN s : s[y][1] = k /\ s[y][2] # Dead /\ \A x \in DOMAIN s : s[x][1] = k => x = y
      BY <2>5 DEF Single
    <3> HIDE DEF e, s, u
    <3>2. y = i
      BY <2>1, <3>1
    <3>3. i \in DOMAIN u /\ u[i][1] = k /\ u[i][2] = Dead /\ DOMAIN u \subseteq Nat
      BY <1>1, <2>1, <2>3
    <3>4. \A x \in DOMAIN u : x > i => u[x][1] # u[i][1]
      BY <1>1, <2>1, <2>3, <3>1, <3>2, <3>3
    <3>5. Newest(u, u[i][1]) = u[i][2]
      BY <1>1, <3>3, <3>4, NewestLast
    <3> QED
      BY <3>3, <3>5
  <2> QED
    BY <2>2, <2>4, <2>5 DEF Content
<1> QED
  BY <1>2, <1>3 DEF Tombed

\* maybe_compact changes nothing of what the node says.
LEMMA MaybeCompactOK ==
  ASSUME NEW n, NodeOK(n)
  PROVE  LET m == MaybeCompact(n)
         IN /\ NodeOK(m) /\ m.level = n.level /\ \A k : Content(m, k) = Content(n, k)
            /\ \A k : Single(n, k) => Single(m, k)
<1>1. NodeOK(Compact(n)) /\ Clean(Compact(n)) /\ Compact(n).level = n.level
      /\ \A k : Content(Compact(n), k) = Content(n, k)
  BY CompactOK
<1>2. \A k : Single(n, k) => Single(Compact(n), k)
  BY <1>1, SingleContent, SingleIfClean
<1> QED
  BY <1>1, <1>2 DEF MaybeCompact

\* delete_key: the position is dead, or shows what it had before; others stay.
LEMMA DeleteOK ==
  ASSUME NEW n, NodeOK(n), NEW k \in Positions
  PROVE  LET d == DeleteKey(n, k)
         IN /\ d.ok \in BOOLEAN /\ NodeOK(d.node) /\ d.node.level = n.level
            /\ ~d.ok => d.node = n
            /\ \A j : j # k => Content(d.node, j) = Content(n, j)
            /\ Content(d.node, k) \in {Dead, Content(n, k)}
            /\ Single(n, k) => Content(d.node, k) = Dead
            /\ \A j : j # k /\ Single(n, j) => Single(d.node, j)
<1> DEFINE m == MakeRoom(n)
           e == <<k, Dead>>
           d == IF HasRoom(m) THEN Append1(m, e) ELSE MarkInPlace(m, k)
           w == [d EXCEPT !.white = @ + 1]
<1>1. NodeOK(m) /\ m.level = n.level /\ Entries(m) = Entries(n)
  BY MakeRoomOK
<1>2. e \in Pairs
  BY DEF Pairs, Dead
<1>3. ASSUME HasLive(n, k)
      PROVE  NodeOK(d) /\ d.level = n.level /\ Tombed(Entries(n), Entries(d), k)
  <2>1. CASE HasRoom(m)
    <3> HIDE DEF m, e
    <3>1. /\ NodeOK(Append1(m, e)) /\ Append1(m, e).level = m.level
          /\ Entries(Append1(m, e)) = Append(Entries(m), e)
      BY <1>1, <1>2, <2>1, AppendOK
    <3> QED
      BY <1>1, <2>1, <3>1 DEF Tombed, e
  <2>2. CASE ~HasRoom(m)
    <3>1. \E i \in DOMAIN Entries(n) : Entries(n)[i][1] = k
      BY <1>3 DEF HasLive
    <3> HIDE DEF m, e
    <3>2. /\ NodeOK(MarkInPlace(m, k)) /\ MarkInPlace(m, k).level = m.level
          /\ \E i \in DOMAIN Entries(m) :
               Entries(m)[i][1] = k /\ Marked(Entries(m), Entries(MarkInPlace(m, k)), i, <<k, Dead>>)
      BY <1>1, <3>1, MarkOK
    <3> QED
      BY <1>1, <2>2, <3>2 DEF Tombed, e
  <2> QED
    BY <2>1, <2>2
<1>4. CASE HasLive(n, k)
  <2>1. DeleteKey(n, k) = [ok |-> TRUE, node |-> MaybeCompact(w)]
    BY <1>4 DEF DeleteKey
  <2> HIDE DEF m, e, d
  <2>2. NodeOK(d) /\ d.level = n.level /\ Tombed(Entries(n), Entries(d), k)
    BY <1>3, <1>4
  <2>3. /\ w \in NodeSet /\ w.base = d.base /\ w.inc = d.inc /\ w.at = d.at /\ w.aux = d.aux
        /\ w.count = d.count /\ w.level = d.level
    <3>1. d \in NodeSet
      BY <2>2 DEF NodeOK
    <3> QED
      BY <3>1 DEF NodeSet
  <2> HIDE DEF w
  <2>4. NodeOK(w) /\ Entries(w) = Entries(d)
    BY <2>2, <2>3, CountedOK
  <2>5. /\ \A j : j # k => Content(w, j) = Content(n, j)
        /\ Content(w, k) \in {Dead, Content(n, k)}
        /\ Single(n, k) => Content(w, k) = Dead
        /\ \A j : j # k /\ Single(n, j) => Single(w, j)
    BY <2>2, <2>4, TombedOK
  <2>6. /\ NodeOK(MaybeCompact(w)) /\ MaybeCompact(w).level = w.level
        /\ \A j : Content(MaybeCompact(w), j) = Content(w, j)
        /\ \A j : Single(w, j) => Single(MaybeCompact(w), j)
    BY <2>4, MaybeCompactOK
  <2> QED
    BY <2>1, <2>2, <2>3, <2>5, <2>6
<1>5. CASE ~HasLive(n, k)
  <2>1. DeleteKey(n, k) = [ok |-> FALSE, node |-> n]
    BY <1>5 DEF DeleteKey
  <2>2. Single(n, k) => HasLive(n, k)
    BY DEF Single, HasLive
  <2> QED
    BY <1>5, <2>1, <2>2
<1> QED
  BY <1>4, <1>5

-----------------------------------------------------------------------------
(* Room for an entry, or two entries to part.                              *)

\* A compacted node without room can be split.
LEMMA FullCanSplit ==
  ASSUME NEW n, NodeOK(n), Clean(n), n.inc = <<>>, ~HasRoom(n) PROVE CanSplit(n)
<1>1. Len(n.base) >= 2 /\ Len(Entries(n)) = Len(n.base) + Len(n.inc) /\ Len(n.base) \in Nat
  BY TwoIfFull, NodeFields
<1>2. Len(n.inc) = 0
  OBVIOUS
<1>3. Len(Entries(n)) >= 2
  BY <1>1, <1>2
<1> QED
  BY <1>3, TwoCanSplit

\* What a failed insert into a compacted node leaves.
LEMMA TriedCanSplit ==
  ASSUME NEW n, NodeOK(n), Clean(n), n.inc = <<>>, NEW e \in Pairs, ~Insert1(n, e).ok
  PROVE  Clean(Insert1(n, e).node) /\ CanSplit(Insert1(n, e).node)
<1> DEFINE m == Insert1(n, e).node
<1>1. /\ NodeOK(m) /\ Entries(m) = Entries(n) /\ m.count = n.count /\ m.inc = n.inc /\ ~HasRoom(m)
  BY InsertOK
<1> HIDE DEF m
<1>2. Clean(m)
  BY <1>1 DEF Clean
<1>3. CanSplit(m)
  BY <1>1, <1>2, FullCanSplit
<1> QED
  BY <1>2, <1>3 DEF m

\* The routing entry that replaces two others finds room.
LEMMA InsertFits ==
  ASSUME NEW n, NodeOK(n), n.inc = <<>>, EntryBytes * (Len(n.base) + 1) <= NodeSize, NEW e \in Pairs
  PROVE  Insert1(n, e).ok
<1> DEFINE m == MakeRoom(n)
<1>1. NodeOK(m) /\ m.base = n.base /\ m.inc = n.inc /\ (~HasRoom(m) => ~m.aux)
  BY MakeRoomOK
<1> HIDE DEF m
<1>2. HasRoom(m)
  BY <1>1, RoomInHalf
<1> QED
  BY <1>2 DEF Insert1, m

-----------------------------------------------------------------------------
(* Absorbing a neighbour.                                                  *)

\* The node that absorbs another says what both said.
LEMMA AbsorbOK ==
  ASSUME NEW n, NodeOK(n), NEW o, NodeOK(o), CanAbsorb(n, o)
  PROVE  LET m == Absorb(n, o)
         IN /\ NodeOK(m) /\ Clean(m) /\ m.level = n.level
            /\ \A k : Content(m, k) = IF Content(o, k) # Dead THEN Content(o, k) ELSE Content(n, k)
<1> DEFINE en == Entries(n)
           eo == Entries(o)
           ln == Live(en)
           lo == Live(eo)
           s == ln \o lo
           c == Live(s)
<1>1. en \in Seq(Pairs) /\ eo \in Seq(Pairs) /\ Len(en) \in Nat /\ Len(eo) \in Nat
  BY NodeFields
<1>2. /\ ln \in Seq(Pairs) /\ lo \in Seq(Pairs) /\ Compact(n).base = ln /\ Compact(o).base = lo
      /\ NodeOK(Compact(n)) /\ Compact(n).level = n.level
  BY <1>1, LiveIs, CompactOK
<1>3. Absorb(n, o) = Packed(n, c)
  BY <1>2 DEF Absorb
<1> HIDE DEF en, eo
<1>4. /\ Len(ln) \in Nat /\ Len(ln) <= Len(en) /\ Len(lo) \in Nat /\ Len(lo) <= Len(eo)
  BY <1>1, LiveLen
<1>5. /\ \A i \in DOMAIN lo : lo[i][2] = Newest(eo, lo[i][1]) /\ lo[i][2] # Dead
      /\ \A j \in Positions : Newest(eo, j) # Dead => \E i \in DOMAIN lo : lo[i][1] = j
      /\ \A k : Newest(lo, k) = Newest(eo, k) /\ Newest(ln, k) = Newest(en, k)
  BY <1>1, LiveIs, LiveNewest
<1> HIDE DEF ln, lo
<1>6. s \in Seq(Pairs) /\ Len(s) = Len(ln) + Len(lo)
  BY <1>2, ConcatIs
<1>7. \A k : Newest(s, k) = IF \E i \in DOMAIN lo : lo[i][1] = k THEN Newest(lo, k) ELSE Newest(ln, k)
  BY <1>2, NewestConcat
<1> HIDE DEF s
<1>8. /\ c \in Seq(Pairs) /\ Once(c) /\ (\A i \in DOMAIN c : c[i][2] # Dead)
      /\ Len(c) \in Nat /\ Len(c) <= Len(s)
  BY <1>6, LiveIs, LiveLen
<1>9. \A k : Newest(c, k) = Newest(s, k)
  BY <1>6, LiveNewest
<1> HIDE DEF c
<1>10. EntryBytes * Len(c) <= NodeSize
  <2>1. /\ EntryBytes * Len(en) + EntryBytes * Len(eo) + EntryBytes + 64 <= NodeSize
        /\ EntryBytes * Len(en) \in Nat /\ EntryBytes * Len(eo) \in Nat
    BY BytesFit DEF CanAbsorb, TotalBytes, en, eo
  <2>2. Len(c) <= Len(en) + Len(eo) /\ Len(en) + Len(eo) \in Nat
    BY <1>1, <1>4, <1>6, <1>8
  <2>3. /\ EntryBytes * (Len(en) + Len(eo)) = EntryBytes * Len(en) + EntryBytes * Len(eo)
        /\ EntryBytes * Len(c) <= EntryBytes * (Len(en) + Len(eo))
        /\ EntryBytes * Len(c) \in Nat /\ EntryBytes * (Len(en) + Len(eo)) \in Nat
    BY <1>1, <1>8, <2>2, ConstantsAre, Product
  <2> QED
    BY <2>1, <2>3, ConstantsAre
<1>11. /\ NodeOK(Packed(n, c)) /\ Clean(Packed(n, c)) /\ Packed(n, c).level = n.level
       /\ Entries(Packed(n, c)) = c
  BY <1>8, <1>10, PackedOK
<1>12. \A k : (\E i \in DOMAIN lo : lo[i][1] = k) <=> Newest(eo, k) # Dead
  <2>1. \A k : Newest(eo, k) # Dead => k \in Positions
    <3>1. \A k : Content(o, k) # Dead => k \in Positions
      BY ContentWhere
    <3> QED
      BY <3>1 DEF Content, eo
  <2> QED
    BY <1>5, <2>1
<1>13. \A k : Newest(c, k) = IF Newest(eo, k) # Dead THEN Newest(eo, k) ELSE Newest(en, k)
  BY <1>5, <1>7, <1>9, <1>12
<1> QED
  BY <1>3, <1>11, <1>13 DEF Content, en, eo

-----------------------------------------------------------------------------
(* Two routing entries become one.                                         *)

\* A node without the position k has room for another entry.
LEMMA RoomWithout ==
  ASSUME NEW n, NodeOK(n), NEW q, NodeOK(q), Clean(q), q.inc = <<>>,
         NEW k \in Positions, Content(n, k) # Dead, Content(q, k) = Dead,
         \A j : Content(q, j) # Dead => Content(n, j) # Dead
  PROVE  EntryBytes * (Len(q.base) + 1) <= NodeSize
<1> DEFINE s == Entries(n)
           b == q.base
           e == <<k, 1>>
           c == Append(b, e)
<1>1. /\ s \in Seq(Pairs) /\ b \in Seq(Pairs) /\ e \in Pairs
      /\ Len(s) \in Nat /\ Len(b) \in Nat /\ Len(c) = Len(b) + 1 /\ c \in Seq(Pairs)
  <2>1. e \in Pairs
    BY DEF Pairs
  <2> HIDE DEF e
  <2>2. s \in Seq(Pairs) /\ b \in Seq(Pairs) /\ Len(s) \in Nat /\ Len(b) \in Nat
    BY NodeFields
  <2> HIDE DEF s, b
  <2> QED
    BY <2>1, <2>2
<1>2. Entries(q) = b
  <2>1. Entries(q) = b \o <<>>
    BY DEF Entries
  <2> HIDE DEF b
  <2> QED
    BY <1>1, <2>1
<1>3. Once(b) /\ \A i \in DOMAIN b : b[i][2] # Dead
  BY <1>2 DEF Clean
<1>4. \A i \in DOMAIN b : Content(q, b[i][1]) = b[i][2]
  BY <1>1, <1>2, <1>3, NewestOnce DEF Content
<1>5. \A j : Content(n, j) # Dead => \E i \in DOMAIN s : s[i][1] = j
  BY <1>1, NewestIs DEF Content
<1> HIDE DEF s, b
<1>6. /\ DOMAIN c = DOMAIN b \union {Len(b) + 1} /\ c[Len(b) + 1] = e /\ Len(b) + 1 \notin DOMAIN b
      /\ \A i \in DOMAIN b : c[i] = b[i]
  BY <1>1
<1>7. \A i \in DOMAIN b : b[i][1] # k
  BY <1>3, <1>4
<1>8. e[1] = k
  OBVIOUS
<1> HIDE DEF c, e
<1>9. Once(c)
  <2> SUFFICES ASSUME NEW i \in DOMAIN c, NEW j \in DOMAIN c, c[i][1] = c[j][1] PROVE i = j
    BY DEF Once
  <2> QED
    BY <1>3, <1>6, <1>7, <1>8 DEF Once
<1>10. \A i \in DOMAIN c : \E j \in DOMAIN s : s[j][1] = c[i][1]
  <2> SUFFICES ASSUME NEW i \in DOMAIN c PROVE \E j \in DOMAIN s : s[j][1] = c[i][1]
    OBVIOUS
  <2>1. Content(n, c[i][1]) # Dead
    BY <1>3, <1>4, <1>6, <1>8
  <2> QED
    BY <1>5, <2>1
<1>11. Len(c) <= Len(s)
  BY <1>1, <1>9, <1>10, OnceLen
<1>12. EntryBytes * Len(s) <= NodeSize
  BY BytesFit DEF s
<1>13. /\ EntryBytes * (Len(b) + 1) <= EntryBytes * Len(s)
       /\ EntryBytes * (Len(b) + 1) \in Nat /\ EntryBytes * Len(s) \in Nat
  <2>1. Len(b) + 1 \in Nat /\ Len(b) + 1 <= Len(s)
    BY <1>1, <1>11
  <2> QED
    BY <1>1, <2>1, ConstantsAre, Product
<1>14. EntryBytes * (Len(b) + 1) <= NodeSize
  BY <1>12, <1>13, ConstantsAre
<1> QED
  BY <1>14 DEF b

\* The parent after a merge: the larger key is gone, the smaller one leads to the survivor.
LEMMA RerouteOK ==
  ASSUME NEW n, NodeOK(n), Clean(n), NEW surv \in Nat, surv # Dead, NEW absd,
         NEW ka \in Positions, NEW ks \in Positions, ka # ks,
         KeyOf(n, absd) = ka, KeyOf(n, surv) = ks, Content(n, ka) # Dead, Content(n, ks) # Dead
  PROVE  LET m == Reroute(n, surv, absd)
             k == IF ka < ks THEN ka ELSE ks
         IN /\ NodeOK(m) /\ Clean(m) /\ m.level = n.level
            /\ \A j : Content(m, j) = IF j = k THEN surv ELSE IF j \in {ka, ks} THEN Dead ELSE Content(n, j)
<1> DEFINE d1 == DeleteKey(n, ka).node
           d2 == DeleteKey(d1, ks).node
           q == Compact(d2)
           k == IF ka < ks THEN ka ELSE ks
           e == <<k, surv>>
           i1 == Insert1(q, e)
<1>1. Single(n, ka) /\ Single(n, ks)
  BY SingleIfClean
<1>2. /\ NodeOK(d1) /\ d1.level = n.level
      /\ \A j : j # ka => Content(d1, j) = Content(n, j)
      /\ Content(d1, ka) = Dead /\ Single(d1, ks)
  BY <1>1, DeleteOK
<1> HIDE DEF d1
<1>3. /\ NodeOK(d2) /\ d2.level = d1.level
      /\ \A j : j # ks => Content(d2, j) = Content(d1, j)
      /\ Content(d2, ks) = Dead
  BY <1>2, DeleteOK
<1> HIDE DEF d2
<1>4. /\ NodeOK(q) /\ Clean(q) /\ q.level = d2.level /\ q.inc = <<>>
      /\ \A j : Content(q, j) = Content(d2, j)
  BY <1>3, CompactOK
<1>5. Reroute(n, surv, absd) = InsertCompacting(q, e)
  BY DEF Reroute, d1, d2
<1> HIDE DEF q
<1>6. k \in Positions /\ k \in {ka, ks} /\ e \in Pairs /\ e[1] = k /\ e[2] = surv
  BY DEF Pairs
<1>7. \A j : Content(q, j) = IF j \in {ka, ks} THEN Dead ELSE Content(n, j)
  BY <1>2, <1>3, <1>4
<1>8. EntryBytes * (Len(q.base) + 1) <= NodeSize
  <2>1. Content(q, ka) = Dead /\ \A j : Content(q, j) # Dead => Content(n, j) # Dead
    BY <1>7
  <2> QED
    BY <1>4, <2>1, RoomWithout
<1> HIDE DEF k, e
<1>9. i1.ok
  BY <1>4, <1>6, <1>8, InsertFits
<1>10. InsertCompacting(q, e) = i1.node
  BY <1>9 DEF InsertCompacting
<1>11. Content(q, k) = Dead
  BY <1>6, <1>7
<1>12. /\ NodeOK(i1.node) /\ i1.node.level = q.level
       /\ \A j : Content(i1.node, j) = IF e[1] = j THEN e[2] ELSE Content(q, j)
  BY <1>4, <1>6, <1>9, InsertOK
<1>13. Clean(i1.node)
  BY <1>4, <1>6, <1>11, InsertClean
<1> HIDE DEF i1
<1>14. \A j : Content(i1.node, j) = IF j = k THEN surv ELSE IF j \in {ka, ks} THEN Dead ELSE Content(n, j)
  BY <1>6, <1>7, <1>12
<1> QED
  BY <1>2, <1>3, <1>4, <1>5, <1>10, <1>12, <1>13, <1>14 DEF k

-----------------------------------------------------------------------------
(* What is read in a routing node.                                         *)

\* The entries of a routing node are what it says.
LEMMA CleanIs ==
  ASSUME NEW n, NodeOK(n), Clean(n)
  PROVE  /\ \A i \in DOMAIN Entries(n) :
              /\ Entries(n)[i][1] \in Positions /\ Entries(n)[i][2] = Content(n, Entries(n)[i][1])
              /\ Entries(n)[i][2] # Dead
         /\ \A j : Content(n, j) # Dead =>
              \E i \in DOMAIN Entries(n) : Entries(n)[i][1] = j /\ Entries(n)[i][2] = Content(n, j)
         /\ \A i, j \in DOMAIN Entries(n) : Entries(n)[i][1] = Entries(n)[j][1] => i = j
         /\ DOMAIN Entries(n) \subseteq Nat
<1> DEFINE s == Entries(n)
<1>1. s \in Seq(Pairs)
  BY NodeFields
<1>2. Once(s) /\ \A i \in DOMAIN s : s[i][2] # Dead
  BY DEF Clean
<1> HIDE DEF s
<1>3. DOMAIN s \subseteq Nat /\ \A i \in DOMAIN s : s[i][1] \in Positions
  BY <1>1 DEF Pairs
<1>4. \A i \in DOMAIN s : Newest(s, s[i][1]) = s[i][2]
  BY <1>1, <1>2, NewestOnce
<1>5. \A j : Newest(s, j) # Dead => \E i \in DOMAIN s : s[i][1] = j /\ s[i][2] = Newest(s, j)
  BY <1>1, NewestIs
<1> QED
  BY <1>2, <1>3, <1>4, <1>5 DEF Content, Once, s

\* The routing entry at position p is the last one not above k.
LEMMA ChildIs ==
  ASSUME NEW n, NodeOK(n), Clean(n), NEW k \in Positions, NEW p \in Positions, p <= k,
         Content(n, p) # Dead, \A j \in Positions : j <= k /\ Content(n, j) # Dead => j <= p
  PROVE  Child(n, k) = Content(n, p)
<1> DEFINE s == Entries(n)
           below == {i \in DOMAIN s : s[i][1] <= k}
           Last(i) == \A j \in below : s[j][1] < s[i][1] \/ (s[j][1] = s[i][1] /\ j <= i)
           c == CHOOSE i \in below : Last(i)
<1>1. /\ \A i \in DOMAIN s : s[i][1] \in Positions /\ s[i][2] = Content(n, s[i][1]) /\ s[i][2] # Dead
      /\ \A i, j \in DOMAIN s : s[i][1] = s[j][1] => i = j
      /\ DOMAIN s \subseteq Nat
  BY CleanIs
<1>2. PICK i \in DOMAIN s : s[i][1] = p
  BY CleanIs
<1>3. n.count = Len(s) /\ s \in Seq(Pairs) /\ DOMAIN s = 1..Len(s) /\ Len(s) \in Nat
  BY NodeFields DEF Clean
<1> HIDE DEF s
<1>4. n.count # 0
  BY <1>2, <1>3
<1>5. Positions \subseteq Int
  BY ConstantsAre
<1>6. i \in below /\ Last(i)
  <2>1. \A j \in below : s[j][1] <= p
    BY <1>1
  <2>2. \A j \in below : s[j][1] = p => j = i
    BY <1>1, <1>2
  <2> QED
    BY <1>1, <1>2, <1>5, <2>1, <2>2
<1>7. c \in below /\ Last(c)
  BY <1>6
<1>8. Child(n, k) = s[c][2]
  BY <1>4, <1>6 DEF Child, FindChild, s
<1> HIDE DEF c
<1>9. s[c][1] = p
  <2>1. s[c][1] <= p
    BY <1>1, <1>7
  <2>2. s[i][1] < s[c][1] \/ s[i][1] = s[c][1]
    BY <1>6, <1>7
  <2> QED
    <3>1. s[c][1] \in Int /\ p \in Int
      BY <1>1, <1>5, <1>7
    <3> QED
      BY <1>2, <2>1, <2>2, <3>1
<1> QED
  BY <1>1, <1>7, <1>8, <1>9

\* The routing entry that leads to a is the one at position p.
LEMMA KeyIs ==
  ASSUME NEW n, NodeOK(n), Clean(n), NEW p, NEW a, a # Dead, Content(n, p) = a,
         \A j : Content(n, j) = a => j = p
  PROVE  KeyOf(n, a) = p
<1> DEFINE s == Entries(n)
           at == {i \in DOMAIN s : s[i][2] = a}
<1>1. PICK i \in DOMAIN s : s[i][1] = p /\ s[i][2] = a
  BY CleanIs
<1>2. \A j \in at : j = i
  BY <1>1, CleanIs
<1>3. i \in Nat
  BY CleanIs
<1>4. i = CHOOSE x \in at : \A j \in at : x <= j
  BY <1>1, <1>2, <1>3
<1> QED
  BY <1>1, <1>4 DEF KeyOf

\* The neighbour on the right is where the next routing entry leads.
LEMMA RightIs ==
  ASSUME NEW n, NodeOK(n), Clean(n), NEW a, NEW p \in Positions, KeyOf(n, a) = p, RightOf(n, a) # 0
  PROVE  \E q \in Positions :
           /\ p < q /\ Content(n, q) # Dead /\ RightOf(n, a) = Content(n, q)
           /\ \A j \in Positions : p < j /\ Content(n, j) # Dead => q <= j
<1> DEFINE s == Entries(n)
           above == {i \in DOMAIN s : s[i][1] > p}
           First(i) == \A j \in above : s[i][1] <= s[j][1]
           c == CHOOSE i \in above : First(i)
           K == {s[i][1] : i \in above}
<1>1. /\ \A i \in DOMAIN s : s[i][1] \in Positions /\ s[i][2] = Content(n, s[i][1]) /\ s[i][2] # Dead
      /\ \A j : Content(n, j) # Dead => \E i \in DOMAIN s : s[i][1] = j
  BY CleanIs
<1>2. Positions \subseteq Nat
  BY ConstantsAre
<1>3. above # {} /\ RightOf(n, a) = s[c][2]
  BY DEF RightOf
<1> HIDE DEF s
<1>4. K # {} /\ K \subseteq Nat
  BY <1>1, <1>2, <1>3
<1>5. PICK x \in K : \A y \in K : x <= y
  BY <1>4, LeastNat
<1>6. \E i \in above : First(i)
  BY <1>5
<1>7. c \in above /\ First(c)
  BY <1>6
<1> HIDE DEF c
<1>8. /\ s[c][1] \in Positions /\ p < s[c][1] /\ Content(n, s[c][1]) # Dead
      /\ RightOf(n, a) = Content(n, s[c][1])
  BY <1>1, <1>2, <1>3, <1>7
<1>9. \A j \in Positions : p < j /\ Content(n, j) # Dead => s[c][1] <= j
  BY <1>1, <1>2, <1>7
<1> QED
  BY <1>8, <1>9

\* find_sibling to the left.
LEMMA LeftIs ==
  ASSUME NEW n, NodeOK(n), Clean(n), NEW a, NEW p \in Positions, KeyOf(n, a) = p, LeftOf(n, a) # 0
  PROVE  \E q \in Positions :
           /\ q < p /\ Content(n, q) # Dead /\ LeftOf(n, a) = Content(n, q)
           /\ \A j \in Positions : j < p /\ Content(n, j) # Dead => j <= q
<1> DEFINE s == Entries(n)
           below == {i \in DOMAIN s : s[i][1] < p}
           Last(i) == \A j \in below : s[i][1] >= s[j][1]
           c == CHOOSE i \in below : Last(i)
           K == {s[i][1] : i \in below}
<1>1. /\ \A i \in DOMAIN s : s[i][1] \in Positions /\ s[i][2] = Content(n, s[i][1]) /\ s[i][2] # Dead
      /\ \A j : Content(n, j) # Dead => \E i \in DOMAIN s : s[i][1] = j
  BY CleanIs
<1>2. Positions = 0..NKeys /\ NKeys \in Nat
  BY ConstantsAre
<1>3. below # {} /\ LeftOf(n, a) = s[c][2]
  BY DEF LeftOf
<1> HIDE DEF s
<1>4. K # {} /\ K \subseteq 0..NKeys
  BY <1>1, <1>2, <1>3
<1>5. PICK x \in K : \A y \in K : x >= y
  BY <1>2, <1>4, GreatestNat
<1>6. \E i \in below : Last(i)
  BY <1>5
<1>7. c \in below /\ Last(c)
  BY <1>6
<1> HIDE DEF c
<1>8. /\ s[c][1] \in Positions /\ s[c][1] < p /\ Content(n, s[c][1]) # Dead
      /\ LeftOf(n, a) = Content(n, s[c][1])
  BY <1>1, <1>2, <1>3, <1>7
<1>9. \A j \in Positions : j < p /\ Content(n, j) # Dead => j <= s[c][1]
  BY <1>1, <1>2, <1>7
<1> QED
  BY <1>8, <1>9

-----------------------------------------------------------------------------
(* What is read in a leaf.                                                 *)

\* Where the search in a leaf begins.
LEMMA LowerBoundIs ==
  ASSUME NEW n, NodeOK(n), NEW k \in Positions, n.count # 0,
         NEW y \in DOMAIN Entries(n), Entries(n)[y][1] >= k
  PROVE  /\ LowerBound(n, k) \in DOMAIN Entries(n) /\ Entries(n)[LowerBound(n, k)][1] >= k
         /\ Entries(n)[y][1] = k => Entries(n)[LowerBound(n, k)][1] = k
<1> DEFINE s == Entries(n)
           above == {i \in DOMAIN s : s[i][1] >= k}
           keyOf(i) == 2 * s[i][1] + IF s[i][2] = Dead THEN 1 ELSE 0
           inInc(i) == i > Len(n.base)
           before(i, j) == \/ keyOf(i) < keyOf(j)
                           \/ keyOf(i) = keyOf(j) /\ inInc(i) /\ ~inInc(j)
                           \/ keyOf(i) = keyOf(j) /\ inInc(i) = inInc(j) /\ i <= j
           First(i) == \A j \in above : before(i, j)
           c == CHOOSE i \in above : First(i)
<1>1. s \in Seq(Pairs)
  BY NodeFields
<1>2. k \in Nat /\ Positions \subseteq Nat
  BY ConstantsAre
<1>3. above # {}
  OBVIOUS
<1>4. LowerBound(n, k) = c
  BY <1>3 DEF LowerBound
<1> HIDE DEF s
<1>5. \A i \in DOMAIN s : s[i][1] \in Nat /\ i \in Nat
  BY <1>1, <1>2 DEF Pairs
<1>6. \A i \in DOMAIN s : keyOf(i) \in Nat /\ inInc(i) \in BOOLEAN
  BY <1>5
<1>7. \E i \in above : First(i)
  <2> DEFINE K == {keyOf(i) : i \in above}
  <2>1. K # {} /\ K \subseteq Nat
    BY <1>3, <1>6
  <2>2. PICK x \in K : \A z \in K : x <= z
    BY <2>1, LeastNat
  <2> DEFINE S == {i \in above : keyOf(i) = x}
             T == IF \E i \in S : inInc(i) THEN {i \in S : inInc(i)} ELSE S
  <2>3. \A j \in above : x <= keyOf(j)
    BY <2>2
  <2>4. S # {}
    BY <2>2
  <2> HIDE DEF keyOf, inInc
  <2>5. T # {} /\ T \subseteq Nat
    BY <1>5, <2>4
  <2>6. PICK i \in T : \A j \in T : i <= j
    BY <2>5, LeastNat
  <2>7. i \in above /\ keyOf(i) = x
    BY <2>6
  <2>8. ASSUME NEW j \in above PROVE before(i, j)
    <3>1. x <= keyOf(j) /\ x \in Nat /\ keyOf(j) \in Nat
      BY <1>6, <2>1, <2>3, <2>8
    <3>2. CASE keyOf(j) # x
      BY <2>7, <3>1, <3>2
    <3>3. CASE keyOf(j) = x /\ j \in T
      BY <1>6, <2>6, <2>7, <3>3
    <3>4. CASE keyOf(j) = x /\ j \notin T
      <4>1. inInc(i) /\ ~inInc(j)
        BY <2>6, <2>8, <3>4
      <4> QED
        BY <2>7, <3>4, <4>1
    <3> QED
      BY <3>2, <3>3, <3>4
  <2> QED
    BY <2>7, <2>8
<1>8. c \in above /\ First(c)
  BY <1>7
<1> HIDE DEF c
<1>9. s[y][1] = k => s[c][1] = k
  <2> SUFFICES ASSUME s[y][1] = k PROVE s[c][1] = k
    OBVIOUS
  <2>1. y \in above /\ s[y][1] = k
    BY <1>2 DEF s
  <2>2. keyOf(c) <= keyOf(y)
    <3> HIDE DEF keyOf, inInc
    <3> QED
      BY <1>6, <1>8, <2>1
  <2>3. s[c][1] \in Nat /\ s[c][1] >= k
    BY <1>5, <1>8
  <2>4. 2 * s[c][1] <= keyOf(c) /\ keyOf(y) <= 2 * k + 1
    BY <1>2, <1>5, <2>1, <2>3
  <2> HIDE DEF keyOf
  <2>5. keyOf(c) \in Nat /\ keyOf(y) \in Nat
    BY <1>6, <1>8, <2>1
  <2> QED
    BY <1>2, <2>2, <2>3, <2>4, <2>5
<1> QED
  BY <1>4, <1>8, <1>9 DEF s

\* get_entry gives the newest entry while key_count covers the sets.
LEMMA GetEntryOK ==
  ASSUME NEW n, NodeOK(n), NEW k \in Positions, Len(Entries(n)) <= n.count
  PROVE  GetEntry(n, k) = Content(n, k)
<1> DEFINE s == Entries(n)
           start == LowerBound(n, k)
           seen == {i \in DOMAIN s : (i = start \/ (start < i /\ i <= n.count)) /\ s[i][1] = k}
           c == CHOOSE i \in seen : \A j \in seen : i >= j
<1>1. s \in Seq(Pairs) /\ Len(s) \in Nat /\ DOMAIN s = 1..Len(s) /\ n.count \in Nat
  BY NodeFields
<1>2. GetEntry(n, k) = IF start = 0 \/ seen = {} THEN Dead ELSE s[c][2]
  BY DEF GetEntry
<1>3. CASE \A i \in DOMAIN s : s[i][1] # k
  <2>1. seen = {}
    BY <1>3
  <2>2. Newest(s, k) = Dead
    BY <1>1, <1>3, NewestIs
  <2> QED
    BY <1>2, <2>1, <2>2 DEF Content
<1>4. CASE \E i \in DOMAIN s : s[i][1] = k
  <2>1. PICK g \in DOMAIN s : s[g][1] = k /\ Newest(s, k) = s[g][2] /\ \A j \in DOMAIN s : s[j][1] = k => j <= g
    BY <1>1, <1>4, NewestIs
  <2>2. n.count # 0
    BY <1>1, <2>1
  <2>3. start \in DOMAIN s /\ s[start][1] = k
    <3>1. s[g][1] >= k
      BY <2>1, ConstantsAre
    <3> QED
      BY <2>1, <2>2, <3>1, LowerBoundIs
  <2> HIDE DEF s, start
  <2>4. g \in seen /\ \A j \in seen : j <= g
    <3>1. start <= g
      BY <2>1, <2>3
    <3>2. g <= n.count /\ g \in Nat /\ start \in Nat
      BY <1>1, <2>1, <2>3 DEF s
    <3>3. g = start \/ start < g
      BY <3>1, <3>2
    <3> QED
      BY <2>1, <3>2, <3>3
  <2>5. \A j \in seen : j \in Nat
    BY <1>1
  <2> HIDE DEF seen
  <2>6. c \in seen /\ c >= g
    BY <2>4, <2>5
  <2>7. c = g
    BY <2>4, <2>5, <2>6
  <2>8. start # 0
    BY <1>1, <2>3
  <2> QED
    BY <1>2, <2>1, <2>4, <2>7, <2>8 DEF Content, s
<1> QED
  BY <1>3, <1>4

\* In a compacted leaf get and search give the entry of the position.
LEMMA ReadsOK ==
  ASSUME NEW n, NodeOK(n), NEW k \in Positions, n.inc = <<>>
  PROVE  Get(n, k) = Content(n, k) /\ Search(n, k) = Content(n, k)
<1> DEFINE s == Entries(n)
           start == LowerBound(n, k)
<1>1. s \in Seq(Pairs) /\ Len(s) \in Nat /\ DOMAIN s = 1..Len(s) /\ n.count = Len(n.base) /\ n.base \in Seq(Pairs)
  BY NodeFields DEF NodeOK
<1>2. s = n.base /\ Once(s)
  <2>1. s = n.base
    BY <1>1 DEF Entries
  <2> QED
    BY <2>1 DEF NodeOK
<1>3. \A i \in DOMAIN s : Newest(s, s[i][1]) = s[i][2]
  BY <1>1, <1>2, NewestOnce
<1>4. \/ Newest(s, k) = Dead /\ \A i \in DOMAIN s : s[i][1] # k
      \/ \E i \in DOMAIN s : s[i][1] = k
  BY <1>1, NewestIs
<1>5. Positions \subseteq Nat /\ \A i \in DOMAIN s : s[i][1] \in Nat
  <2>1. \A i \in DOMAIN s : s[i] \in Pairs
    BY <1>1
  <2> QED
    BY <2>1, ConstantsAre DEF Pairs
<1>6. Get(n, k) = Newest(s, k)
  <2>1. Get(n, k) = IF start # 0 /\ s[start][1] = k THEN s[start][2] ELSE Dead
    BY DEF Get
  <2>2. CASE n.count = 0
    <3>1. start = 0
      BY <2>2 DEF LowerBound
    <3>2. Newest(s, k) = Dead
      BY <1>1, <1>2, <1>4, <2>2
    <3> QED
      BY <2>1, <3>1, <3>2
  <2>3. CASE n.count # 0 /\ \A i \in DOMAIN s : ~(s[i][1] >= k)
    <3>1. start = 1
      BY <2>3 DEF LowerBound
    <3>2. 1 \in DOMAIN s
      BY <1>1, <1>2, <2>3
    <3>3. s[1][1] # k
      BY <1>5, <2>3, <3>2
    <3>4. Newest(s, k) = Dead
      BY <1>4, <1>5, <2>3
    <3> QED
      BY <2>1, <3>1, <3>3, <3>4
  <2>4. CASE n.count # 0 /\ \E i \in DOMAIN s : s[i][1] >= k
    <3>1. start \in DOMAIN s
      BY <2>4, LowerBoundIs
    <3>2. (\E i \in DOMAIN s : s[i][1] = k) => s[start][1] = k
      BY <1>5, <2>4, LowerBoundIs
    <3> HIDE DEF s, start
    <3>3. start # 0
      BY <1>1, <3>1
    <3> QED
      BY <1>3, <1>4, <2>1, <3>1, <3>2, <3>3
  <2> QED
    BY <2>2, <2>3, <2>4
<1>7. Search(n, k) = Newest(s, k)
  <2> DEFINE hits == {i \in DOMAIN s : s[i][1] = k /\ s[i][2] # Dead}
             c == CHOOSE i \in hits : \A j \in hits : i <= j
  <2>1. Search(n, k) = IF hits = {} THEN Dead ELSE s[c][2]
    BY DEF Search
  <2> HIDE DEF s
  <2>2. CASE hits = {}
    <3>1. Newest(s, k) = Dead
      BY <1>3, <1>4, <2>2
    <3> QED
      BY <2>1, <2>2, <3>1
  <2>3. CASE hits # {}
    <3>1. PICK i \in hits : TRUE
      BY <2>3
    <3>2. \A j \in hits : j = i
      BY <1>2 DEF Once
    <3>3. i \in Nat
      BY <1>1
    <3>4. c = i
      BY <3>1, <3>2, <3>3
    <3>5. s[i][1] = k /\ i \in DOMAIN s
      BY <3>1
    <3> HIDE DEF c
    <3> QED
      BY <1>3, <2>1, <2>3, <3>4, <3>5
  <2> QED
    BY <2>2, <2>3
<1> QED
  BY <1>6, <1>7 DEF Content

-----------------------------------------------------------------------------
(* The parts of a level.                                                   *)

\* What holds of f[0] and passes from each value to the next holds of all.
LEMMA StaysIn ==
  ASSUME NEW n \in Nat, NEW P, NEW f, f[0] \in P[0],
         \A i \in 1..n : f[i - 1] \in P[i - 1] => f[i] \in P[i]
  PROVE  \A i \in 0..n : f[i] \in P[i]
<1> SUFFICES ASSUME NEW m \in 0..n PROVE f[m] \in P[m]
  OBVIOUS
<1> DEFINE Q == {i \in 0..n : f[i] \in P[i]}
<1>1. 0 \in Q
  OBVIOUS
<1>2. \A k \in 1..m : k - 1 \in Q => k \in Q
  OBVIOUS
<1> HIDE DEF Q
<1>3. m \in Q
  BY <1>1, <1>2, StepByStep
<1> QED
  BY <1>3 DEF Q

-----------------------------------------------------------------------------
(* Where the parts of the positions begin.                                 *)

\* The positions are the numbers up to NKeys.
LEMMA PosIs == Positions = 0..NKeys /\ NKeys \in Nat /\ Positions \subseteq Nat
  BY ConstantsAre

\* Each position lies in a part that begins at or before it.
LEMMA StartOf ==
  ASSUME NEW d \in Nat, NEW W, Convex(d, W), NEW l \in 1..d, NEW k \in Positions
  PROVE  \E p \in Starts(W, l) :
           /\ p \in Positions /\ p <= k /\ W[l - 1][p] = W[l - 1][k]
           /\ \A j \in Starts(W, l) : j <= k => j <= p
<1> DEFINE S == {j \in Positions : j <= k /\ W[l - 1][j] = W[l - 1][k]}
<1>1. S \subseteq Nat /\ S # {}
  <2>1. Positions \subseteq Nat /\ k <= k
    BY PosIs
  <2>2. k \in S
    BY <2>1
  <2> QED
    BY <2>1, <2>2
<1>2. PICK p \in S : \A j \in S : p <= j
  BY <1>1, LeastNat
<1>3. l - 1 \in 0..d /\ p \in 0..NKeys /\ k \in 0..NKeys
  BY PosIs
<1>4. p \in Starts(W, l)
  <2>1. CASE p = 0
    BY <2>1, PosIs DEF Starts
  <2>2. CASE p # 0
    <3>1. p - 1 \in Positions /\ p - 1 <= k /\ ~(p <= p - 1)
      BY <1>2, <1>3, <2>2, PosIs
    <3>2. p - 1 \notin S
      BY <1>2, <3>1
    <3>3. W[l - 1][p - 1] # W[l - 1][p]
      BY <1>2, <3>1, <3>2
    <3> QED
      BY <3>3 DEF Starts
  <2> QED
    BY <2>1, <2>2
<1>5. ASSUME NEW j \in Starts(W, l), j <= k PROVE j <= p
  <2> SUFFICES ASSUME ~(j <= p) PROVE FALSE
    OBVIOUS
  <2>1. j \in 0..NKeys /\ j # 0 /\ W[l - 1][j - 1] # W[l - 1][j]
    BY <1>3, PosIs DEF Starts
  <2>2. j - 1 \in Positions /\ p <= j - 1 /\ j - 1 <= k /\ p <= j
    BY <1>3, <1>5, <2>1, PosIs
  <2>3. W[l - 1][j - 1] = W[l - 1][p] /\ W[l - 1][j] = W[l - 1][p]
    BY <1>2, <1>3, <1>5, <2>2, PosIs DEF Convex, Starts
  <2> QED
    BY <2>1, <2>3
<1> QED
  BY <1>2, <1>4, <1>5

\* A part begins once.
LEMMA OneStart ==
  ASSUME NEW d \in Nat, NEW W, Convex(d, W), NEW l \in 1..d,
         NEW j \in Starts(W, l), NEW p \in Starts(W, l), W[l - 1][j] = W[l - 1][p]
  PROVE  j = p
<1>1. ASSUME NEW a \in Starts(W, l), NEW b \in Starts(W, l), W[l - 1][a] = W[l - 1][b], a < b PROVE FALSE
  <2>1. a \in 0..NKeys /\ b \in 0..NKeys /\ b # 0 /\ l - 1 \in 0..d
    BY <1>1, PosIs DEF Starts
  <2>2. W[l - 1][b - 1] # W[l - 1][b]
    BY <2>1 DEF Starts
  <2>3. a <= b - 1 /\ b - 1 <= b /\ b - 1 \in Positions /\ a \in Positions /\ b \in Positions
    BY <1>1, <2>1, PosIs
  <2>4. W[l - 1][b - 1] = W[l - 1][a]
    BY <1>1, <2>1, <2>3 DEF Convex
  <2> QED
    BY <1>1, <2>2, <2>4
<1>2. j \in Nat /\ p \in Nat
  BY PosIs DEF Starts
<1> QED
  BY <1>1, <1>2

-----------------------------------------------------------------------------
(* The path to a leaf.                                                     *)

\* What the shape says of the fields of a tree and of its nodes.
LEMMA ShapeIs ==
  ASSUME NEW t, NEW W, NEW D, NEW m, NEW x, Shape(t, W, D, m, x)
  PROVE  /\ t.depth \in Nat /\ t \in TreeSet /\ t.next \in Nat /\ t.next > 0
         /\ DOMAIN t.cache \subseteq 1..(t.next - 1) /\ Root \notin DOMAIN t.cache
         /\ \A a \in DOMAIN t.cache : t.cache[a] \in NodeSet
         /\ \A l \in 0..t.depth, k \in Positions :
              /\ NodeOK(NodeOf(t, W[l][k])) /\ NodeOf(t, W[l][k]).level = l
              /\ l < t.depth => W[l][k] \in DOMAIN t.cache /\ W[l][k] # Dead /\ W[l][k] # Root
                                /\ W[l][k] \in Nat
              /\ l > 0 => Clean(NodeOf(t, W[l][k]))
              /\ \A j \in Positions : Content(NodeOf(t, W[l][k]), j) =
                   IF W[l][j] = W[l][k] THEN Val(W, D, m, x, l, j) ELSE Dead
<1>1. t \in TreeSet /\ t.next > 0 /\ t.depth \in Nat /\ t.next \in Nat
  BY DEF Shape, TreeOK, TreeSet
<1>2. DOMAIN t.cache \subseteq 1..(t.next - 1) /\ \A a \in DOMAIN t.cache : t.cache[a] \in NodeSet
  <2>1. PICK S \in SUBSET Nat : t.cache \in [S -> NodeSet]
    BY <1>1 DEF TreeSet
  <2>2. \A a \in DOMAIN t.cache : 0 < a /\ a < t.next /\ a \in Nat
    BY <2>1 DEF Shape, TreeOK
  <2> QED
    BY <1>1, <2>1, <2>2
<1>3. Root \notin DOMAIN t.cache
  BY <1>1, <1>2 DEF Root
<1>4. ASSUME NEW l \in 0..t.depth, NEW k \in Positions
      PROVE  /\ NodeOK(NodeOf(t, W[l][k])) /\ NodeOf(t, W[l][k]).level = l
             /\ l < t.depth => W[l][k] \in DOMAIN t.cache /\ W[l][k] # Dead /\ W[l][k] # Root
                               /\ W[l][k] \in Nat
             /\ Says(NodeOf(t, W[l][k]), W[l][k], l, W, D, m, x)
  <2>1. l < t.depth => W[l][k] \in DOMAIN t.cache
    BY <1>1 DEF Shape, Ways
  <2>2. l < t.depth => W[l][k] # Dead /\ W[l][k] # Root /\ W[l][k] \in Nat
    BY <1>1, <1>2, <1>3, <2>1 DEF Dead
  <2>3. NodeOf(t, W[l][k]).level = l /\ Says(NodeOf(t, W[l][k]), W[l][k], l, W, D, m, x)
    BY DEF Shape, Ways
  <2>4. NodeOK(NodeOf(t, W[l][k]))
    <3>1. CASE W[l][k] = Root
      BY <3>1 DEF Shape, TreeOK, NodeOf
    <3>2. CASE W[l][k] # Root
      <4>1. l # t.depth
        BY <3>2 DEF Shape, Ways
      <4>2. W[l][k] \in DOMAIN t.cache
        BY <1>1, <2>1, <4>1
      <4> QED
        BY <3>2, <4>2 DEF Shape, TreeOK, NodeOf
    <3> QED
      BY <3>1, <3>2
  <2> QED
    BY <2>1, <2>2, <2>3, <2>4
<1> QED
  BY <1>1, <1>2, <1>3, <1>4 DEF Says

\* The routing entries of a node, when none is missing.
LEMMA DownIs ==
  ASSUME NEW t, NEW W, NEW D, Shape(t, W, D, 0, 0), NEW l \in 1..t.depth, NEW k \in Positions
  PROVE  Child(NodeOf(t, W[l][k]), k) = W[l - 1][k]
<1> DEFINE n == NodeOf(t, W[l][k])
<1>1. t.depth \in Nat /\ l \in 0..t.depth /\ l > 0 /\ l - 1 \in 0..t.depth /\ l - 1 < t.depth
  BY ShapeIs
<1>2. /\ NodeOK(n) /\ Clean(n)
      /\ \A j \in Positions : Content(n, j) = IF W[l][j] = W[l][k] THEN Val(W, D, 0, 0, l, j) ELSE Dead
  BY <1>1, ShapeIs
<1>3. \A j \in Positions : W[l - 1][j] # Dead
  BY <1>1, ShapeIs
<1> HIDE DEF n
<1>10. Convex(t.depth, W)
  BY DEF Shape
<1>4. PICK p \in Starts(W, l) : /\ p \in Positions /\ p <= k /\ W[l - 1][p] = W[l - 1][k]
                                /\ \A j \in Starts(W, l) : j <= k => j <= p
  BY <1>1, <1>10, StartOf
<1>5. W[l][p] = W[l][k]
  BY <1>4 DEF Shape, Nested
<1>6. \A j : Val(W, D, 0, 0, l, j) = IF j \in Starts(W, l) THEN W[l - 1][j] ELSE Dead
  BY <1>1 DEF Val
<1> HIDE DEF n
<1>7. Content(n, p) = W[l - 1][k] /\ Content(n, p) # Dead
  BY <1>2, <1>3, <1>4, <1>5, <1>6
<1>8. \A j \in Positions : j <= k /\ Content(n, j) # Dead => j <= p
  BY <1>2, <1>4, <1>6
<1>9. Child(n, k) = Content(n, p)
  BY <1>2, <1>4, <1>7, <1>8, ChildIs
<1> QED
  BY <1>7, <1>9 DEF n

\* find_path_to_leaf takes the node responsible for the key at each level.
LEMMA PathIs ==
  ASSUME NEW t, NEW W, NEW D, Shape(t, W, D, 0, 0), NEW k \in Positions
  PROVE  PathTo(t, k) = [l \in 0..t.depth |-> W[l][k]]
<1> DEFINE d == t.depth
           Step(i, v) == Child(NodeAt(t, v, d - i + 1), k)
           Eq(f) == f = [i \in 0..d |-> IF i = 0 THEN Root ELSE Step(i, f[i - 1])]
           down == CHOOSE f : Eq(f)
           w == [i \in 0..d |-> W[d - i][k]]
<1>1. d \in Nat
  BY ShapeIs
<1>2. PathTo(t, k) = [l \in 0..d |-> down[d - l]]
  BY DEF PathTo
<1>3. \A i \in 0..d : d - i \in 0..d
  BY <1>1
<1>4. w[0] = Root
  BY <1>1 DEF Shape, Ways
<1>5. ASSUME NEW i \in 1..d PROVE Step(i, w[i - 1]) = w[i]
  <2> DEFINE l == d - (i - 1)
  <2>1. l \in 1..d /\ l \in 0..d /\ d - i = l - 1 /\ i - 1 \in 0..d
    BY <1>1
  <2>2. w[i - 1] = W[l][k] /\ w[i] = W[l - 1][k]
    BY <2>1
  <2> HIDE DEF l
  <2>3. W[l][k] = Root \/ W[l][k] \in DOMAIN t.cache
    <3>1. l = d => W[l][k] = Root
      BY DEF Shape, Ways
    <3>2. l < d => W[l][k] \in DOMAIN t.cache
      BY <2>1, ShapeIs
    <3> QED
      BY <1>1, <2>1, <3>1, <3>2
  <2>4. \A x : NodeAt(t, W[l][k], x) = NodeOf(t, W[l][k])
    BY <2>3 DEF NodeAt, NodeOf
  <2>5. Child(NodeOf(t, W[l][k]), k) = W[l - 1][k]
    BY <2>1, DownIs
  <2> HIDE DEF w
  <2> QED
    BY <2>2, <2>4, <2>5
<1> HIDE DEF Step
<1>6. Eq(w)
  <2>1. \A i \in 0..d : i = 0 \/ i \in 1..d
    BY <1>1
  <2>2. \A i \in 0..d : w[i] = IF i = 0 THEN Root ELSE Step(i, w[i - 1])
    BY <1>4, <1>5, <2>1
  <2>3. w = [i \in 0..d |-> w[i]]
    OBVIOUS
  <2> HIDE DEF w
  <2> QED
    BY <2>2, <2>3
<1>7. Eq(down)
  BY <1>6
<1> HIDE DEF down
<1>8. \A i \in 0..d : down[i] \in {w[i]}
  <2> DEFINE P == [i \in 0..d |-> {w[i]}]
  <2>1. down[0] \in P[0]
    BY <1>1, <1>4, <1>7
  <2>2. ASSUME NEW i \in 1..d, down[i - 1] \in P[i - 1] PROVE down[i] \in P[i]
    <3>1. i \in 0..d /\ i # 0 /\ i - 1 \in 0..d
      BY <1>1
    <3>2. down[i - 1] = w[i - 1]
      BY <2>2, <3>1
    <3>3. down[i] = Step(i, down[i - 1])
      BY <1>7, <3>1
    <3>4. down[i] = w[i]
      BY <1>5, <3>2, <3>3
    <3> QED
      BY <3>1, <3>4
  <2>3. \A i \in 0..d : down[i] \in P[i]
    <3> HIDE DEF P
    <3> QED
      BY <1>1, <2>1, <2>2, StaysIn
  <2> QED
    BY <2>3
<1>9. \A l \in 0..d : down[d - l] = W[l][k]
  <2>1. \A l \in 0..d : d - (d - l) = l
    BY <1>1
  <2>2. \A i \in 0..d : w[i] = W[d - i][k]
    OBVIOUS
  <2> HIDE DEF w, d
  <2> QED
    BY <1>3, <1>8, <2>1, <2>2
<1> HIDE DEF d
<1> QED
  BY <1>2, <1>9 DEF d

-----------------------------------------------------------------------------
(* Changing one node.                                                      *)

\* A tree with one node of the cache changed or added.
LEMMA CachedIs ==
  ASSUME NEW t \in TreeSet, NEW a \in Nat, NEW n \in NodeSet
  PROVE  LET u == Cached(t, a, n)
         IN /\ u \in TreeSet /\ u.root = t.root /\ u.depth = t.depth /\ u.next = t.next
            /\ u.loaded = t.loaded /\ u.shared = t.shared
            /\ DOMAIN u.cache = DOMAIN t.cache \union {a} /\ u.cache[a] = n
            /\ \A b \in DOMAIN t.cache : b # a => u.cache[b] = t.cache[b]
<1> DEFINE c == [b \in DOMAIN t.cache \union {a} |-> IF b = a THEN n ELSE t.cache[b]]
<1>1. PICK S \in SUBSET Nat : t.cache \in [S -> NodeSet]
  BY DEF TreeSet
<1>2. Cached(t, a, n) = [t EXCEPT !.cache = c]
  BY DEF Cached
<1>3. c \in [S \union {a} -> NodeSet] /\ S \union {a} \in SUBSET Nat
  BY <1>1
<1>4. /\ DOMAIN c = DOMAIN t.cache \union {a} /\ c[a] = n
      /\ \A b \in DOMAIN t.cache : b # a => c[b] = t.cache[b]
  OBVIOUS
<1> HIDE DEF c
<1> QED
  BY <1>2, <1>3, <1>4 DEF TreeSet

\* A tree without one node of the cache.
LEMMA DroppedIs ==
  ASSUME NEW t \in TreeSet, NEW a
  PROVE  LET u == Dropped(t, a)
         IN /\ u \in TreeSet /\ u.root = t.root /\ u.depth = t.depth /\ u.next = t.next
            /\ u.loaded = t.loaded /\ u.shared = t.shared
            /\ DOMAIN u.cache = DOMAIN t.cache \ {a}
            /\ \A b \in DOMAIN t.cache : b # a => u.cache[b] = t.cache[b]
<1> DEFINE c == [b \in DOMAIN t.cache \ {a} |-> t.cache[b]]
<1>1. PICK S \in SUBSET Nat : t.cache \in [S -> NodeSet]
  BY DEF TreeSet
<1>2. Dropped(t, a) = [t EXCEPT !.cache = c]
  BY DEF Dropped, Restrict
<1>3. c \in [S \ {a} -> NodeSet] /\ S \ {a} \in SUBSET Nat
  BY <1>1
<1>4. /\ DOMAIN c = DOMAIN t.cache \ {a}
      /\ \A b \in DOMAIN t.cache : b # a => c[b] = t.cache[b]
  OBVIOUS
<1> HIDE DEF c
<1> QED
  BY <1>2, <1>3, <1>4 DEF TreeSet

\* A tree with one node replaced, the root or another.
LEMMA PutIs ==
  ASSUME NEW t \in TreeSet, NEW a, a = Root \/ a \in DOMAIN t.cache, NEW n \in NodeSet,
         Root \notin DOMAIN t.cache
  PROVE  LET u == Put(t, a, n)
         IN /\ u \in TreeSet /\ u.depth = t.depth /\ u.next = t.next
            /\ u.loaded = t.loaded /\ u.shared = t.shared
            /\ DOMAIN u.cache = DOMAIN t.cache
            /\ \A b : b = Root \/ b \in DOMAIN t.cache =>
                 NodeOf(u, b) = IF b = a THEN n ELSE NodeOf(t, b)
<1>1. CASE a = Root
  <2>1. Put(t, a, n) = [t EXCEPT !.root = n]
    BY <1>1 DEF Put
  <2> QED
    BY <1>1, <2>1 DEF TreeSet, NodeOf
<1>2. CASE a # Root
  <2>1. Put(t, a, n) = Cached(t, a, n) /\ a \in DOMAIN t.cache
    BY <1>2 DEF Put
  <2>2. a \in Nat
    BY <2>1 DEF TreeSet
  <2> DEFINE u == Cached(t, a, n)
  <2>3. /\ u \in TreeSet /\ u.root = t.root /\ u.depth = t.depth /\ u.next = t.next
        /\ u.loaded = t.loaded /\ u.shared = t.shared
        /\ DOMAIN u.cache = DOMAIN t.cache \union {a} /\ u.cache[a] = n
        /\ \A b \in DOMAIN t.cache : b # a => u.cache[b] = t.cache[b]
    BY <2>2, CachedIs
  <2> HIDE DEF u
  <2>4. DOMAIN u.cache = DOMAIN t.cache
    BY <2>1, <2>3
  <2>5. \A b : b = Root \/ b \in DOMAIN t.cache =>
          NodeOf(u, b) = IF b = a THEN n ELSE NodeOf(t, b)
    BY <1>2, <2>1, <2>3 DEF NodeOf
  <2> QED
    BY <2>1, <2>3, <2>4, <2>5 DEF u
<1> QED
  BY <1>1, <1>2

\* An address is responsible at one level only, the root at the top.
LEMMA AddressIs ==
  ASSUME NEW t, NEW W, NEW D, NEW m, NEW x, Shape(t, W, D, m, x)
  PROVE  \A l \in 0..t.depth, k \in Positions :
           /\ W[l][k] = Root \/ W[l][k] \in DOMAIN t.cache
           /\ W[l][k] = Root <=> l = t.depth
           /\ l < t.depth => W[l][k] \in DOMAIN t.cache
           /\ \A i \in 0..t.depth, j \in Positions : W[i][j] = W[l][k] => i = l
<1>1. t.depth \in Nat /\ Root \notin DOMAIN t.cache
  BY ShapeIs
<1>2. \A k \in Positions : W[t.depth][k] = Root
  BY DEF Shape, Ways
<1>3. \A l \in 0..t.depth, k \in Positions : l < t.depth => W[l][k] \in DOMAIN t.cache
  BY ShapeIs
<1>4. \A l \in 0..t.depth, k \in Positions : NodeOf(t, W[l][k]).level = l
  BY ShapeIs
<1>5. \A l \in 0..t.depth : l = t.depth \/ l < t.depth
  BY <1>1
<1> QED
  BY <1>1, <1>2, <1>3, <1>4, <1>5

\* Nothing changes for the nodes at other addresses.
Frame(d, W, a, D1, m1, x1, D, m, x) ==
  \A i \in 0..d, j \in Positions : W[i][j] # a => Val(W, D1, m1, x1, i, j) = Val(W, D, m, x, i, j)

\* Replacing a node that says, where it is responsible, what it should.
LEMMA PutShape ==
  ASSUME NEW t, NEW W, NEW D, NEW m, NEW x, Shape(t, W, D, m, x),
         NEW l \in 0..t.depth, NEW k \in Positions, NEW n, NodeOK(n), n.level = l,
         NEW D1 \in [Positions -> Nat], NEW m1, NEW x1, Says(n, W[l][k], l, W, D1, m1, x1),
         Frame(t.depth, W, W[l][k], D1, m1, x1, D, m, x)
  PROVE  LET u == Put(t, W[l][k], n)
         IN /\ Shape(u, W, D1, m1, x1)
            /\ u.depth = t.depth /\ u.next = t.next /\ DOMAIN u.cache = DOMAIN t.cache
            /\ u.loaded = t.loaded /\ u.shared = t.shared
<1> DEFINE a == W[l][k]
           u == Put(t, a, n)
<1>1. a = Root \/ a \in DOMAIN t.cache
  BY AddressIs
<1>2. t \in TreeSet /\ Root \notin DOMAIN t.cache /\ t.next > 0
  BY ShapeIs
<1>3. n \in NodeSet
  BY DEF NodeOK
<1> HIDE DEF a
<1>4. /\ u \in TreeSet /\ u.depth = t.depth /\ u.next = t.next
      /\ u.loaded = t.loaded /\ u.shared = t.shared
      /\ DOMAIN u.cache = DOMAIN t.cache
      /\ \A b : b = Root \/ b \in DOMAIN t.cache =>
           NodeOf(u, b) = IF b = a THEN n ELSE NodeOf(t, b)
  BY <1>1, <1>2, <1>3, PutIs
<1> HIDE DEF u
<1>5. \A i \in 0..t.depth, j \in Positions :
        /\ W[i][j] = Root \/ W[i][j] \in DOMAIN t.cache
        /\ NodeOf(u, W[i][j]) = IF W[i][j] = a THEN n ELSE NodeOf(t, W[i][j])
        /\ W[i][j] = a => i = l
  BY <1>4, AddressIs DEF a
<1>6. TreeOK(u)
  <2>1. NodeOK(u.root)
    <3>1. u.root = NodeOf(u, Root) /\ NodeOf(t, Root) = t.root
      BY DEF NodeOf
    <3> QED
      BY <1>4, <3>1 DEF Shape, TreeOK
  <2>2. \A b \in DOMAIN u.cache : u.cache[b] = NodeOf(u, b) /\ t.cache[b] = NodeOf(t, b)
    BY <1>2, <1>4 DEF NodeOf
  <2>3. \A b \in DOMAIN u.cache : 0 < b /\ b < u.next /\ NodeOK(u.cache[b])
    BY <1>4, <2>2 DEF Shape, TreeOK
  <2> QED
    BY <1>2, <1>4, <2>1, <2>3 DEF TreeOK
<1>7. Ways(u, W)
  <2>1. \A i \in 0..t.depth, j \in Positions : NodeOf(u, W[i][j]).level = i
    BY <1>5 DEF Shape, Ways
  <2> QED
    BY <1>4, <2>1 DEF Shape, Ways
<1>8. ASSUME NEW i \in 0..t.depth, NEW j \in Positions
      PROVE  Says(NodeOf(u, W[i][j]), W[i][j], i, W, D1, m1, x1)
  <2>1. CASE W[i][j] = a
    <3>1. NodeOf(u, W[i][j]) = n /\ i = l
      BY <1>5, <2>1
    <3> QED
      BY <2>1, <3>1 DEF a
  <2>2. CASE W[i][j] # a
    <3>1. NodeOf(u, W[i][j]) = NodeOf(t, W[i][j])
      BY <1>5, <2>2
    <3>2. Says(NodeOf(t, W[i][j]), W[i][j], i, W, D, m, x)
      BY DEF Shape
    <3>3. \A y \in Positions : W[i][y] = W[i][j] => Val(W, D1, m1, x1, i, y) = Val(W, D, m, x, i, y)
      BY <2>2 DEF a, Frame
    <3> QED
      BY <3>1, <3>2, <3>3 DEF Says
  <2> QED
    BY <2>1, <2>2
<1>9. Shape(u, W, D1, m1, x1)
  BY <1>4, <1>6, <1>7, <1>8 DEF Shape
<1> QED
  BY <1>4, <1>9 DEF u, a

-----------------------------------------------------------------------------
(* Splitting a node below the root.                                        *)

\* The part of a, at level l, is divided at p: what lies above goes to b.
Divided(W, W1, d, l, a, p, b) ==
  /\ \A i \in 0..d : i # l => W1[i] = W[i]
  /\ \A j \in Positions : W1[l][j] = IF W[l][j] = a /\ j >= p THEN b ELSE W[l][j]

\* The new part lacks its routing entry, and nothing else changes for the nodes.
SameVal(W1, W, d, l, p) ==
  \A D, i, j : i \in 0..d /\ j \in Positions => Val(W1, D, l + 1, p, i, j) = Val(W, D, 0, 0, i, j)

\* Dividing a part keeps the parts nested and without gaps.
LEMMA DividedOK ==
  ASSUME NEW d \in Nat, NEW W, NEW W1, NEW l \in 0..(d - 1), NEW a, NEW b, NEW p \in Positions,
         Divided(W, W1, d, l, a, p, b), Nested(d, W), Convex(d, W),
         \A i \in 0..d, j \in Positions : W[i][j] # b,
         a # b, W[l][p] = a, l > 0 => p \in Starts(W, l),
         NEW q \in Positions, q < p, W[l][q] = a
  PROVE  Nested(d, W1) /\ Convex(d, W1) /\ SameVal(W1, W, d, l, p)
<1>1. /\ l \in 0..d /\ l + 1 \in 1..d /\ l + 1 \in 0..d /\ (l + 1) - 1 = l /\ l # l + 1
      /\ Positions = 0..NKeys /\ NKeys \in Nat
  BY PosIs
<1>2. /\ \A i \in 0..d : i # l => W1[i] = W[i]
      /\ \A j \in Positions : W1[l][j] = IF W[l][j] = a /\ j >= p THEN b ELSE W[l][j]
  BY DEF Divided
<1>3. \A j \in Positions : W[l][j] # b
  BY <1>1
<1>4. \A i, j, k \in Positions : i <= j /\ j <= k /\ W[l][i] = W[l][k] => W[l][j] = W[l][i]
  BY <1>1 DEF Convex
<1>5. \A j, k \in Positions : W1[l][j] = W1[l][k] =>
        W[l][j] = W[l][k] /\ (W[l][j] = a => (j >= p <=> k >= p))
  BY <1>2, <1>3
<1>6. \A j, k \in Positions : W[l][j] = W[l][k] /\ (W[l][j] = a => (j >= p <=> k >= p)) =>
        W1[l][j] = W1[l][k]
  BY <1>2
<1>7. Nested(d, W1)
  <2> SUFFICES ASSUME NEW i \in 1..d, NEW j \in Positions, NEW k \in Positions,
                      W1[i - 1][j] = W1[i - 1][k]
               PROVE  W1[i][j] = W1[i][k]
    BY DEF Nested
  <2>1. i \in 0..d /\ i - 1 \in 0..d
    BY <1>1
  <2>2. CASE i = l
    <3>1. W[i - 1][j] = W[i - 1][k]
      BY <1>1, <1>2, <2>1, <2>2
    <3>2. W[l][j] = W[l][k]
      BY <2>2, <3>1 DEF Nested
    <3>3. p # 0 /\ p - 1 \in Positions /\ W[l - 1][p - 1] # W[l - 1][p]
      <4>1. p \in Starts(W, l) /\ p # 0 /\ p - 1 \in Positions
        BY <1>1, <2>2
      <4> QED
        BY <4>1 DEF Starts
    <3>4. ASSUME NEW y \in Positions, NEW z \in Positions, W[l - 1][y] = W[l - 1][z], z >= p, ~(y >= p)
          PROVE  FALSE
      <4>1. y <= p - 1 /\ p - 1 <= z /\ y <= p /\ p <= z
        BY <1>1, <3>4
      <4>2. W[l - 1][p - 1] = W[l - 1][y] /\ W[l - 1][p] = W[l - 1][y]
        BY <2>1, <2>2, <3>3, <3>4, <4>1 DEF Convex
      <4> QED
        BY <3>3, <4>2
    <3>5. j >= p <=> k >= p
      BY <2>2, <3>1, <3>4
    <3> QED
      BY <1>6, <2>2, <3>2, <3>5
  <2>3. CASE i = l + 1
    <3>1. W[l][j] = W[l][k]
      BY <1>1, <1>5, <2>3
    <3>2. W[i][j] = W[i][k]
      BY <1>1, <2>3, <3>1 DEF Nested
    <3> QED
      BY <1>1, <1>2, <2>1, <2>3, <3>2
  <2>4. CASE i # l /\ i # l + 1
    <3>1. i - 1 # l
      BY <1>1, <2>4
    <3> QED
      BY <1>2, <2>1, <2>4, <3>1 DEF Nested
  <2> QED
    BY <2>2, <2>3, <2>4
<1>8. Convex(d, W1)
  <2> SUFFICES ASSUME NEW e \in 0..d, NEW i \in Positions, NEW j \in Positions, NEW k \in Positions,
                      i <= j, j <= k, W1[e][i] = W1[e][k]
               PROVE  W1[e][j] = W1[e][i]
    BY DEF Convex
  <2>1. CASE e = l
    <3>1. W[l][i] = W[l][k] /\ (W[l][i] = a => (i >= p <=> k >= p))
      BY <1>5, <2>1
    <3>2. W[l][j] = W[l][i]
      BY <1>4, <3>1
    <3>3. W[l][j] = a => (j >= p <=> i >= p)
      BY <1>1, <3>1, <3>2
    <3> QED
      BY <1>6, <2>1, <3>2, <3>3
  <2>2. CASE e # l
    BY <1>2, <2>2 DEF Convex
  <2> QED
    BY <2>1, <2>2
<1>9. ASSUME NEW j \in Positions
      PROVE  /\ (j \in Starts(W1, l + 1) /\ j # p) <=> j \in Starts(W, l + 1)
             /\ j \in Starts(W, l + 1) => W1[l][j] = W[l][j]
  <2>1. \A y \in Positions : /\ y \in Starts(W1, l + 1) <=> y = 0 \/ W1[l][y - 1] # W1[l][y]
                             /\ y \in Starts(W, l + 1) <=> y = 0 \/ W[l][y - 1] # W[l][y]
    BY <1>1 DEF Starts
  <2>2. p - 1 \in Positions /\ p # 0 /\ W[l][p - 1] = W[l][p]
    <3>1. p - 1 \in Positions /\ p # 0 /\ q <= p - 1 /\ p - 1 <= p
      BY <1>1
    <3> QED
      BY <1>4, <3>1
  <2>3. CASE j = 0
    BY <1>1, <1>2, <2>1, <2>2, <2>3
  <2>4. CASE j # 0
    <3>1. j - 1 \in Positions /\ (j # p => (j - 1 >= p <=> j >= p))
      BY <1>1, <2>4
    <3>2. j # p => (W1[l][j - 1] = W1[l][j] <=> W[l][j - 1] = W[l][j])
      BY <1>5, <1>6, <3>1
    <3>3. ASSUME W[l][j - 1] # W[l][j] PROVE ~(W[l][j] = a /\ j >= p)
      <4> SUFFICES ASSUME W[l][j] = a, j >= p PROVE FALSE
        OBVIOUS
      <4>1. j # p
        BY <2>2, <3>3
      <4>2. p <= j - 1 /\ j - 1 <= j
        BY <1>1, <4>1
      <4>3. W[l][j - 1] = W[l][p]
        BY <1>4, <3>1, <4>2
      <4> QED
        BY <3>3, <4>3
    <3>4. W[l][j - 1] # W[l][j] => W1[l][j] = W[l][j]
      BY <1>2, <3>3
    <3> QED
      BY <2>1, <2>2, <2>4, <3>2, <3>4
  <2> QED
    BY <2>3, <2>4
<1>10. ASSUME NEW D, NEW i \in 0..d, NEW j \in Positions
       PROVE  Val(W1, D, l + 1, p, i, j) = Val(W, D, 0, 0, i, j)
  <2>1. CASE i = 0
    BY <2>1 DEF Val
  <2>2. CASE i = l + 1
    <3>1. i # 0
      BY <1>1, <2>2
    <3>2. Val(W1, D, l + 1, p, i, j) = IF j \in Starts(W1, l + 1) /\ j # p THEN W1[l][j] ELSE Dead
      BY <1>1, <2>2, <3>1 DEF Val
    <3>3. Val(W, D, 0, 0, i, j) = IF j \in Starts(W, l + 1) THEN W[l][j] ELSE Dead
      BY <1>1, <2>2, <3>1 DEF Val
    <3> QED
      BY <1>9, <3>2, <3>3
  <2>3. CASE i # 0 /\ i # l + 1
    <3>1. i - 1 # l /\ i - 1 \in 0..d
      BY <1>1, <2>3
    <3>2. W1[i - 1] = W[i - 1]
      BY <1>2, <3>1
    <3> QED
      BY <2>3, <3>2 DEF Val, Starts
  <2> QED
    BY <2>1, <2>2, <2>3
<1> QED
  BY <1>7, <1>8, <1>10 DEF SameVal

\* The fields of a tree after a split below the root.
LEMMA SplitChildIs ==
  ASSUME NEW t \in TreeSet, NEW a \in DOMAIN t.cache, NEW h, h.left \in NodeSet, h.right \in NodeSet
  PROVE  LET u == SplitChild(t, a, h).t
         IN /\ u \in TreeSet /\ u.root = t.root /\ u.depth = t.depth /\ u.next = t.next + 1
            /\ u.loaded = t.loaded /\ u.shared = t.shared
            /\ DOMAIN u.cache = DOMAIN t.cache \union {t.next}
            /\ u.cache[t.next] = h.right
            /\ a # t.next => u.cache[a] = h.left
            /\ \A b \in DOMAIN t.cache : b # a /\ b # t.next => u.cache[b] = t.cache[b]
<1> DEFINE v == Cached(t, a, h.left)
           w == Cached(v, t.next, h.right)
           u == SplitChild(t, a, h).t
<1>1. a \in Nat /\ t.next \in Nat
  BY DEF TreeSet
<1>2. /\ v \in TreeSet /\ v.root = t.root /\ v.depth = t.depth /\ v.next = t.next
      /\ v.loaded = t.loaded /\ v.shared = t.shared
      /\ DOMAIN v.cache = DOMAIN t.cache \union {a} /\ v.cache[a] = h.left
      /\ \A b \in DOMAIN t.cache : b # a => v.cache[b] = t.cache[b]
  BY <1>1, CachedIs
<1>3. u = [w EXCEPT !.next = @ + 1]
  BY DEF SplitChild
<1> HIDE DEF v
<1>4. /\ w \in TreeSet /\ w.root = v.root /\ w.depth = v.depth /\ w.next = v.next
      /\ w.loaded = v.loaded /\ w.shared = v.shared
      /\ DOMAIN w.cache = DOMAIN v.cache \union {t.next} /\ w.cache[t.next] = h.right
      /\ \A b \in DOMAIN v.cache : b # t.next => w.cache[b] = v.cache[b]
  BY <1>1, <1>2, CachedIs
<1> HIDE DEF w, u
<1>5. /\ u \in TreeSet /\ u.root = w.root /\ u.depth = w.depth /\ u.next = w.next + 1
      /\ u.loaded = w.loaded /\ u.shared = w.shared /\ u.cache = w.cache
  BY <1>3, <1>4 DEF TreeSet
<1> QED
  BY <1>2, <1>4, <1>5 DEF u

\* What the halves of a node are when the tree shows D1 afterwards.
Splits(t, W, D, m, x, l, k, D1, h, c) ==
  /\ HalvesOf(h, l, c)
  /\ l > 0 => Clean(h.left) /\ Clean(h.right)
  /\ \A j \in Positions : c[j] = IF W[l][j] = W[l][k] THEN Val(W, D1, 0, 0, l, j) ELSE Dead
  /\ c[h.median] # Dead /\ \E j \in Positions : j < h.median /\ c[j] # Dead
  /\ \A i \in 0..t.depth, j \in Positions :
       W[i][j] # W[l][k] => Val(W, D1, 0, 0, i, j) = Val(W, D, m, x, i, j)

\* A split below the root, with the routing entry of the new part still missing.
LEMMA SplitShape ==
  ASSUME NEW t, NEW W, NEW D, NEW m, NEW x, Shape(t, W, D, m, x),
         NEW l \in 0..(t.depth - 1), NEW k \in Positions, NEW D1 \in [Positions -> Nat],
         NEW h, NEW c, Splits(t, W, D, m, x, l, k, D1, h, c)
  PROVE  LET u == SplitChild(t, W[l][k], h).t
         IN /\ u.depth = t.depth /\ u.next = t.next + 1 /\ u.loaded = t.loaded /\ u.shared = t.shared
            /\ W[l][h.median] = W[l][k]
            /\ \E W1 : /\ Shape(u, W1, D1, l + 1, h.median) /\ h.median \in Starts(W1, l + 1)
                       /\ W1[l][h.median] = t.next /\ \A i \in 0..t.depth : i # l => W1[i] = W[i]
<1> DEFINE a == W[l][k]
           b == t.next
           p == h.median
           u == SplitChild(t, a, h).t
           d == t.depth
           W1 == [i \in 0..d |->
                    IF i = l THEN [j \in Positions |-> IF W[l][j] = a /\ j >= p THEN b ELSE W[l][j]]
                    ELSE W[i]]
<1>1. d \in Nat /\ t \in TreeSet /\ b \in Nat /\ b > 0
      /\ DOMAIN t.cache \subseteq 1..(b - 1) /\ Root \notin DOMAIN t.cache
  BY ShapeIs
<1>2. l \in 0..d /\ l < d /\ l # d /\ l \in Nat
  BY <1>1
<1>3. a \in DOMAIN t.cache /\ a # Root /\ a # b /\ b \notin DOMAIN t.cache /\ b # Root
  <2>1. a \in DOMAIN t.cache
    BY <1>2, AddressIs
  <2>2. b \notin DOMAIN t.cache
    BY <1>1
  <2> QED
    BY <1>1, <2>1, <2>2 DEF Root
<1>4. /\ p \in Positions /\ NodeOK(h.left) /\ NodeOK(h.right) /\ h.left.level = l /\ h.right.level = l
      /\ \A j \in Positions : Content(h.left, j) = IF j < p THEN c[j] ELSE Dead
      /\ \A j \in Positions : Content(h.right, j) = IF j < p THEN Dead ELSE c[j]
  BY DEF Splits, HalvesOf
<1>5. /\ u \in TreeSet /\ u.root = t.root /\ u.depth = d /\ u.next = b + 1
      /\ u.loaded = t.loaded /\ u.shared = t.shared
      /\ DOMAIN u.cache = DOMAIN t.cache \union {b}
      /\ u.cache[b] = h.right /\ u.cache[a] = h.left
      /\ \A e \in DOMAIN t.cache : e # a => u.cache[e] = t.cache[e]
  <2>1. h.left \in NodeSet /\ h.right \in NodeSet
    BY <1>4 DEF NodeOK
  <2> HIDE DEF u, a
  <2>2. /\ u \in TreeSet /\ u.root = t.root /\ u.depth = d /\ u.next = b + 1
        /\ u.loaded = t.loaded /\ u.shared = t.shared
        /\ DOMAIN u.cache = DOMAIN t.cache \union {b}
        /\ u.cache[b] = h.right /\ (a # b => u.cache[a] = h.left)
        /\ \A e \in DOMAIN t.cache : e # a /\ e # b => u.cache[e] = t.cache[e]
    BY <1>1, <1>3, <2>1, SplitChildIs DEF u
  <2> QED
    BY <1>3, <2>2
<1>6. Divided(W, W1, d, l, a, p, b)
  BY <1>2 DEF Divided
<1>7. \A i \in 0..d, j \in Positions :
        /\ W[i][j] # b /\ (W[i][j] = Root \/ W[i][j] \in DOMAIN t.cache)
        /\ W[i][j] = a => i = l
        /\ W[i][j] = Root <=> i = d
        /\ i < d => W[i][j] \in DOMAIN t.cache
  <2>1. \A i \in 0..d, j \in Positions :
          /\ (W[i][j] = Root \/ W[i][j] \in DOMAIN t.cache)
          /\ W[i][j] = a => i = l
          /\ W[i][j] = Root <=> i = d
          /\ i < d => W[i][j] \in DOMAIN t.cache
    BY <1>2, AddressIs
  <2> QED
    BY <1>3, <2>1
<1>8. W[l][p] = a /\ (l > 0 => p \in Starts(W, l))
  <2>1. W[l][p] = a /\ Val(W, D1, 0, 0, l, p) # Dead
    BY <1>4 DEF Splits
  <2> QED
    BY <2>1 DEF Val
<1>9. PICK q \in Positions : q < p /\ W[l][q] = a
  BY <1>4 DEF Splits
<1> HIDE DEF a, b, p, u, d, W1
<1>10. /\ Nested(d, W1) /\ Convex(d, W1)
       /\ \A i, j : i \in 0..d /\ j \in Positions => Val(W1, D1, l + 1, p, i, j) = Val(W, D1, 0, 0, i, j)
  <2>1. Nested(d, W) /\ Convex(d, W)
    BY DEF Shape, d
  <2>2. l \in 0..(d - 1) /\ p \in Positions /\ \A i \in 0..d, j \in Positions : W[i][j] # b
    BY <1>1, <1>2, <1>4, <1>7
  <2>3. /\ d \in Nat /\ a # b /\ W[l][p] = a /\ q \in Positions /\ q < p /\ W[l][q] = a
        /\ l > 0 => p \in Starts(W, l)
    BY <1>1, <1>3, <1>8, <1>9
  <2>4. Nested(d, W1)
    BY <1>6, <2>1, <2>2, <2>3, DividedOK
  <2>5. Convex(d, W1)
    BY <1>6, <2>1, <2>2, <2>3, DividedOK
  <2>6. SameVal(W1, W, d, l, p)
    BY <1>6, <2>1, <2>2, <2>3, DividedOK
  <2> QED
    BY <2>4, <2>5, <2>6 DEF SameVal
<1>11. /\ \A i \in 0..d : i # l => W1[i] = W[i]
       /\ \A j \in Positions : W1[l][j] = IF W[l][j] = a /\ j >= p THEN b ELSE W[l][j]
  BY <1>6 DEF Divided
<1>12. TreeOK(u)
  <2>1. NodeOK(u.root)
    BY <1>5 DEF Shape, TreeOK
  <2>2. ASSUME NEW e \in DOMAIN u.cache PROVE 0 < e /\ e < u.next /\ NodeOK(u.cache[e])
    <3>1. CASE e = b
      BY <1>1, <1>4, <1>5, <3>1
    <3>2. CASE e # b
      <4>1. e \in DOMAIN t.cache /\ 0 < e /\ e < b /\ NodeOK(t.cache[e]) /\ e \in Nat
        BY <1>1, <1>5, <2>2, <3>2 DEF Shape, TreeOK, b
      <4> QED
        BY <1>1, <1>4, <1>5, <4>1
    <3> QED
      BY <3>1, <3>2
  <2>3. u.next > 0
    BY <1>1, <1>5
  <2> QED
    BY <1>5, <2>1, <2>2, <2>3 DEF TreeOK
<1>13. /\ NodeOf(u, a) = h.left /\ NodeOf(u, b) = h.right
       /\ \A e : (e = Root \/ e \in DOMAIN t.cache) /\ e # a => NodeOf(u, e) = NodeOf(t, e)
  BY <1>3, <1>5 DEF NodeOf
<1>14. \A i \in 0..d, j \in Positions :
         \/ i = l /\ W[l][j] = a /\ j < p /\ W1[i][j] = a
         \/ i = l /\ W[l][j] = a /\ j >= p /\ W1[i][j] = b
         \/ W1[i][j] = W[i][j] /\ W[i][j] # a
  <2>1. \A j \in Positions : j < p \/ j >= p
    BY <1>4, PosIs
  <2> QED
    BY <1>7, <1>11, <2>1
<1>15. Ways(u, W1)
  <2>1. \A j \in Positions : W1[d][j] = Root
    <3>1. d \in 0..d
      BY <1>1
    <3> QED
      BY <1>2, <1>7, <1>11, <3>1
  <2>2. \A i \in 0..(d - 1), j \in Positions : W1[i][j] \in DOMAIN u.cache
    <3>1. \A i \in 0..(d - 1) : i \in 0..d /\ i < d
      BY <1>1
    <3> QED
      BY <1>3, <1>5, <1>7, <1>14, <3>1
  <2>3. \A i \in 0..d, j \in Positions : NodeOf(u, W1[i][j]).level = i
    <3>1. \A i \in 0..d, j \in Positions : NodeOf(t, W[i][j]).level = i
      BY DEF Shape, Ways, d
    <3> QED
      BY <1>4, <1>7, <1>13, <1>14, <3>1
  <2>4. \A e \in DOMAIN u.cache : \E i \in 0..(d - 1), j \in Positions : W1[i][j] = e
    <3> SUFFICES ASSUME NEW e \in DOMAIN u.cache PROVE \E i \in 0..(d - 1), j \in Positions : W1[i][j] = e
      OBVIOUS
    <3>1. l \in 0..(d - 1)
      BY <1>1, <1>2
    <3>2. CASE e = b
      <4>1. W1[l][p] = b
        BY <1>4, <1>8, <1>11, PosIs
      <4> QED
        BY <1>4, <3>1, <3>2, <4>1
    <3>3. CASE e = a
      <4>1. W1[l][q] = a
        <5>1. ~(q >= p)
          BY <1>4, <1>9, PosIs
        <5> QED
          BY <1>9, <1>11, <5>1
      <4> QED
        BY <1>9, <3>1, <3>3, <4>1
    <3>4. CASE e # a /\ e # b
      <4>1. e \in DOMAIN t.cache
        BY <1>5, <3>4
      <4>2. PICK i \in 0..(d - 1), j \in Positions : W[i][j] = e
        BY <4>1 DEF Shape, Ways, d
      <4>3. i \in 0..d
        BY <1>1
      <4>4. W1[i][j] = e
        BY <1>14, <3>4, <4>2, <4>3
      <4> QED
        BY <4>4
    <3> QED
      BY <3>2, <3>3, <3>4
  <2> QED
    BY <1>5, <2>1, <2>2, <2>3, <2>4 DEF Ways
<1>16. ASSUME NEW i \in 0..d, NEW j \in Positions
       PROVE  Says(NodeOf(u, W1[i][j]), W1[i][j], i, W1, D1, l + 1, p)
  <2>1. \A y \in Positions : c[y] = IF W[l][y] = a THEN Val(W1, D1, l + 1, p, l, y) ELSE Dead
    BY <1>2, <1>10 DEF a, Splits
  <2>2. \A y \in Positions : ~(y < p) <=> y >= p
    BY <1>4, PosIs
  <2>3. CASE i = l /\ W1[i][j] = a
    <3>1. \A y \in Positions : W1[l][y] = a <=> W[l][y] = a /\ y < p
      BY <1>3, <1>11, <2>2
    <3>2. \A y \in Positions : Content(h.left, y) = IF W1[l][y] = a THEN Val(W1, D1, l + 1, p, l, y) ELSE Dead
      BY <1>4, <2>1, <3>1
    <3>3. i > 0 => Clean(h.left)
      BY <2>3 DEF Splits
    <3> QED
      BY <3>3, <1>13, <2>3, <3>2 DEF Says
  <2>4. CASE i = l /\ W1[i][j] = b
    <3>1. \A y \in Positions : W1[l][y] = b <=> W[l][y] = a /\ ~(y < p)
      BY <1>2, <1>7, <1>11, <2>2
    <3>2. \A y \in Positions : Content(h.right, y) = IF W1[l][y] = b THEN Val(W1, D1, l + 1, p, l, y) ELSE Dead
      BY <1>4, <2>1, <3>1
    <3>3. i > 0 => Clean(h.right)
      BY <2>4 DEF Splits
    <3> QED
      BY <3>3, <1>13, <2>4, <3>2 DEF Says
  <2>5. CASE W1[i][j] = W[i][j] /\ W[i][j] # a
    <3> DEFINE e == W[i][j]
    <3>1. NodeOf(u, e) = NodeOf(t, e) /\ e # b
      BY <1>7, <1>13, <2>5
    <3>2. Says(NodeOf(t, e), e, i, W, D, m, x)
      BY DEF Shape, d
    <3>3. \A y \in Positions : W1[i][y] = e <=> W[i][y] = e
      BY <1>14, <2>5, <3>1
    <3>4. \A y \in Positions : W[i][y] = e => Val(W1, D1, l + 1, p, i, y) = Val(W, D, m, x, i, y)
      <4>1. \A y \in Positions : W[i][y] # a => Val(W, D1, 0, 0, i, y) = Val(W, D, m, x, i, y)
        BY DEF a, d, Splits
      <4> QED
        BY <1>10, <2>5, <4>1
    <3> HIDE DEF e
    <3>5. Says(NodeOf(u, e), e, i, W1, D1, l + 1, p)
      BY <3>1, <3>2, <3>3, <3>4 DEF Says
    <3> QED
      BY <2>5, <3>5 DEF e
  <2> QED
    BY <1>14, <2>3, <2>4, <2>5
<1>17. Shape(u, W1, D1, l + 1, p)
  BY <1>5, <1>10, <1>12, <1>15, <1>16 DEF Shape
<1>18. W1[l][p] = b
  BY <1>4, <1>8, <1>11, PosIs
<1>19. p \in Starts(W1, l + 1)
  <2>1. p - 1 \in Positions /\ ~(p - 1 >= p)
    BY <1>4, <1>9, PosIs
  <2>2. W1[l][p - 1] # W1[l][p]
    BY <1>2, <1>7, <1>11, <1>18, <2>1
  <2>3. (l + 1) - 1 = l
    BY <1>2
  <2> QED
    BY <1>4, <2>2, <2>3 DEF Starts
<1> QED
  BY <1>5, <1>8, <1>11, <1>17, <1>18, <1>19 DEF a, b, p, u, d

-----------------------------------------------------------------------------
(* Splitting the root.                                                     *)

Raised(W, W1, d, p, b) ==
  /\ \A i \in 0..(d - 1) : W1[i] = W[i]
  /\ \A j \in Positions : W1[d][j] = IF j < p THEN b ELSE b + 1
  /\ \A j \in Positions : W1[d + 1][j] = Root

RaisedVal(W1, W, d, p, b) ==
  /\ \A D, i, j : i \in 0..d /\ j \in Positions => Val(W1, D, 0, 0, i, j) = Val(W, D, 0, 0, i, j)
  /\ \A D, j : j \in Positions =>
       Val(W1, D, 0, 0, d + 1, j) = IF j = 0 THEN b ELSE IF j = p THEN b + 1 ELSE Dead

\* A new level on top keeps the parts nested and without gaps.
LEMMA RaisedOK ==
  ASSUME NEW d \in Nat, NEW W, NEW W1, NEW b \in Nat, NEW p \in Positions, p > 0,
         Raised(W, W1, d, p, b), Nested(d, W), Convex(d, W), d > 0 => p \in Starts(W, d)
  PROVE  Nested(d + 1, W1) /\ Convex(d + 1, W1) /\ RaisedVal(W1, W, d, p, b)
<1>1. /\ d \in 0..d /\ d + 1 \in Nat /\ d # d + 1 /\ (d + 1) - 1 = d
      /\ Positions = 0..NKeys /\ NKeys \in Nat /\ p \in Nat
      /\ \A i \in 0..(d + 1) : i \in 0..(d - 1) \/ i = d \/ i = d + 1
      /\ \A i \in 0..(d - 1) : i \in 0..d
  BY PosIs
<1>2. /\ \A i \in 0..(d - 1) : W1[i] = W[i]
      /\ \A j \in Positions : W1[d][j] = IF j < p THEN b ELSE b + 1
      /\ \A j \in Positions : W1[d + 1][j] = Root
  BY DEF Raised
<1>3. b # b + 1
  OBVIOUS
<1>4. \A j, k \in Positions : W1[d][j] = W1[d][k] <=> (j < p <=> k < p)
  BY <1>2, <1>3
<1>5. Nested(d + 1, W1)
  <2> SUFFICES ASSUME NEW i \in 1..(d + 1), NEW j \in Positions, NEW k \in Positions,
                      W1[i - 1][j] = W1[i - 1][k]
               PROVE  W1[i][j] = W1[i][k]
    BY DEF Nested
  <2>1. CASE i = d + 1
    BY <1>2, <2>1
  <2>2. CASE i = d
    <3>1. i - 1 \in 0..(d - 1) /\ i - 1 \in 0..d /\ d > 0
      BY <1>1, <2>2
    <3>2. W[i - 1][j] = W[i - 1][k]
      BY <1>2, <3>1
    <3>3. p - 1 \in Positions /\ W[d - 1][p - 1] # W[d - 1][p]
      <4>1. p \in Starts(W, d) /\ p # 0 /\ p - 1 \in Positions
        BY <1>1, <3>1
      <4> QED
        BY <4>1 DEF Starts
    <3>4. ASSUME NEW y \in Positions, NEW z \in Positions, W[d - 1][y] = W[d - 1][z], y < p, ~(z < p)
          PROVE  FALSE
      <4>1. y <= p - 1 /\ p - 1 <= z /\ y <= p /\ p <= z
        BY <1>1, <3>4
      <4>2. W[d - 1][p - 1] = W[d - 1][y] /\ W[d - 1][p] = W[d - 1][y]
        BY <2>2, <3>1, <3>3, <3>4, <4>1 DEF Convex
      <4> QED
        BY <3>3, <4>2
    <3>5. j < p <=> k < p
      BY <2>2, <3>2, <3>4
    <3> QED
      BY <1>4, <2>2, <3>5
  <2>3. CASE i \in 0..(d - 1)
    <3>1. i - 1 \in 0..(d - 1) /\ i \in 1..d
      BY <1>1, <2>3
    <3> QED
      BY <1>2, <2>3, <3>1 DEF Nested
  <2> QED
    BY <1>1, <2>1, <2>2, <2>3
<1>6. Convex(d + 1, W1)
  <2> SUFFICES ASSUME NEW e \in 0..(d + 1), NEW i \in Positions, NEW j \in Positions, NEW k \in Positions,
                      i <= j, j <= k, W1[e][i] = W1[e][k]
               PROVE  W1[e][j] = W1[e][i]
    BY DEF Convex
  <2>1. CASE e = d + 1
    BY <1>2, <2>1
  <2>2. CASE e = d
    <3>1. i < p <=> k < p
      BY <1>4, <2>2
    <3>2. j < p <=> i < p
      BY <1>1, <3>1
    <3> QED
      BY <1>4, <2>2, <3>2
  <2>3. CASE e \in 0..(d - 1)
    BY <1>1, <1>2, <2>3 DEF Convex
  <2> QED
    BY <1>1, <2>1, <2>2, <2>3
<1>7. ASSUME NEW D, NEW i \in 0..d, NEW j \in Positions
      PROVE  Val(W1, D, 0, 0, i, j) = Val(W, D, 0, 0, i, j)
  <2>1. CASE i = 0
    BY <2>1 DEF Val
  <2>2. CASE i # 0
    <3>1. i - 1 \in 0..(d - 1)
      BY <1>1, <2>2
    <3>2. W1[i - 1] = W[i - 1]
      BY <1>2, <3>1
    <3> QED
      BY <2>2, <3>2 DEF Val, Starts
  <2> QED
    BY <2>1, <2>2
<1>8. ASSUME NEW D, NEW j \in Positions
      PROVE  Val(W1, D, 0, 0, d + 1, j) = IF j = 0 THEN b ELSE IF j = p THEN b + 1 ELSE Dead
  <2>1. j \in Starts(W1, d + 1) <=> j = 0 \/ j = p
    <3>1. j \in Starts(W1, d + 1) <=> j = 0 \/ W1[d][j - 1] # W1[d][j]
      BY <1>1 DEF Starts
    <3>2. j # 0 => j - 1 \in Positions /\ (j = p <=> ~(j - 1 < p <=> j < p))
      BY <1>1
    <3> QED
      BY <1>4, <3>1, <3>2
  <2>2. Val(W1, D, 0, 0, d + 1, j) = IF j \in Starts(W1, d + 1) THEN W1[d][j] ELSE Dead
    BY <1>1 DEF Val
  <2> QED
    BY <1>1, <1>2, <2>1, <2>2
<1> QED
  BY <1>5, <1>6, <1>7, <1>8 DEF RaisedVal

\* What the new root says.
LEMMA NewRootIs ==
  ASSUME NEW l \in Nat, NEW a \in Nat, a # Dead, NEW b \in Nat, b # Dead, NEW p \in Positions, p > 0
  PROVE  LET n == NewRoot(l, a, p, b)
         IN /\ NodeOK(n) /\ Clean(n) /\ n.level = l
            /\ \A j : Content(n, j) = IF j = 0 THEN a ELSE IF j = p THEN b ELSE Dead
<1> DEFINE n == NewRoot(l, a, p, b)
           e == <<MinKey, a>>
           f == <<p, b>>
           s == <<e, f>>
<1>1. e \in Pairs /\ f \in Pairs /\ e[1] = 0 /\ e[2] = a /\ f[1] = p /\ f[2] = b
  BY PosIs DEF Pairs, MinKey
<1>2. n = [Empty(l) EXCEPT !.base = s, !.count = 2]
  BY DEF NewRoot
<1> HIDE DEF e, f
<1>3. /\ s \in Seq(Pairs) /\ Len(s) = 2 /\ DOMAIN s = 1..2 /\ s[1] = e /\ s[2] = f
      /\ s # <<>>
  BY <1>1
<1> HIDE DEF s
<1>4. /\ n \in NodeSet /\ n.base = s /\ n.inc = <<>> /\ n.at = 0 /\ n.aux = FALSE /\ n.count = 2
      /\ n.level = l
  <2>1. n = [level |-> l, base |-> s, aux |-> FALSE, inc |-> <<>>, at |-> 0, white |-> 0, count |-> 2]
    BY <1>2 DEF Empty
  <2>2. <<>> \in Seq(Pairs)
    OBVIOUS
  <2> HIDE DEF n
  <2> QED
    BY <1>3, <2>1, <2>2 DEF NodeSet
<1> HIDE DEF n
<1>5. 1..2 = {1, 2}
  OBVIOUS
<1>6. p # 0
  BY PosIs
<1>7. Once(s)
  BY <1>1, <1>3, <1>5, <1>6 DEF Once
<1>8. EntryBytes * 2 <= NodeSize
  BY ConstantsAre
<1>9. NodeOK(n)
  BY <1>3, <1>4, <1>7, <1>8 DEF NodeOK, Fits
<1>10. Entries(n) = s
  BY <1>3, <1>4 DEF Entries
<1>11. Clean(n)
  BY <1>1, <1>3, <1>4, <1>5, <1>7, <1>10 DEF Clean
<1>12. \A j : Newest(s, j) = IF j = 0 THEN a ELSE IF j = p THEN b ELSE Dead
  <2>1. Newest(s, 0) = a
    <3>1. Newest(s, s[1][1]) = s[1][2]
      BY <1>3, <1>5, <1>7, NewestOnce
    <3> QED
      BY <1>1, <1>3, <3>1
  <2>2. Newest(s, p) = b
    <3>1. Newest(s, s[2][1]) = s[2][2]
      BY <1>3, <1>5, <1>7, NewestOnce
    <3> QED
      BY <1>1, <1>3, <3>1
  <2>3. ASSUME NEW j, j # 0, j # p PROVE Newest(s, j) = Dead
    <3>1. \A i \in DOMAIN s : s[i][1] # j
      BY <1>1, <1>3, <1>5, <2>3
    <3> QED
      BY <1>3, <3>1, NewestIs
  <2> QED
    BY <2>1, <2>2, <2>3
<1> QED
  BY <1>4, <1>9, <1>10, <1>11, <1>12 DEF n, Content

\* The fields of a tree after a split of the root.
LEMMA RootSplitIs ==
  ASSUME NEW t \in TreeSet, NEW h, h.left \in NodeSet, h.right \in NodeSet,
         NewRoot(t.root.level + 1, t.next, h.median, t.next + 1) \in NodeSet
  PROVE  LET u == RootSplit(t, h)
         IN /\ u \in TreeSet /\ u.root = NewRoot(t.root.level + 1, t.next, h.median, t.next + 1)
            /\ u.depth = t.depth + 1 /\ u.next = t.next + 2
            /\ u.loaded = t.loaded /\ u.shared = FALSE
            /\ DOMAIN u.cache = DOMAIN t.cache \union {t.next, t.next + 1}
            /\ u.cache[t.next] = h.left /\ u.cache[t.next + 1] = h.right
            /\ \A b \in DOMAIN t.cache : b # t.next /\ b # t.next + 1 => u.cache[b] = t.cache[b]
<1> DEFINE a == t.next
           r == NewRoot(t.root.level + 1, a, h.median, a + 1)
           v == Cached(t, a, h.left)
           w == Cached(v, a + 1, h.right)
           u == RootSplit(t, h)
<1>1. a \in Nat /\ a + 1 \in Nat /\ a # a + 1
  BY DEF TreeSet
<1>2. /\ v \in TreeSet /\ v.root = t.root /\ v.depth = t.depth /\ v.next = t.next
      /\ v.loaded = t.loaded /\ v.shared = t.shared
      /\ DOMAIN v.cache = DOMAIN t.cache \union {a} /\ v.cache[a] = h.left
      /\ \A b \in DOMAIN t.cache : b # a => v.cache[b] = t.cache[b]
  BY <1>1, CachedIs
<1>3. u = [w EXCEPT !.root = r, !.depth = @ + 1, !.next = @ + 2, !.shared = FALSE]
  BY DEF RootSplit
<1> HIDE DEF v
<1>4. /\ w \in TreeSet /\ w.root = v.root /\ w.depth = v.depth /\ w.next = v.next
      /\ w.loaded = v.loaded /\ w.shared = v.shared
      /\ DOMAIN w.cache = DOMAIN v.cache \union {a + 1} /\ w.cache[a + 1] = h.right
      /\ \A b \in DOMAIN v.cache : b # a + 1 => w.cache[b] = v.cache[b]
  <2>1. v \in TreeSet /\ a + 1 \in Nat
    BY <1>1, <1>2
  <2> QED
    BY <2>1, CachedIs
<1> HIDE DEF w, u
<1>5. r \in NodeSet
  OBVIOUS
<1> HIDE DEF r
<1>6. /\ u \in TreeSet /\ u.root = r /\ u.depth = w.depth + 1 /\ u.next = w.next + 2
      /\ u.loaded = w.loaded /\ u.shared = FALSE /\ u.cache = w.cache
  <2>1. w \in TreeSet
    BY <1>4
  <2>2. u = [root |-> r, depth |-> w.depth + 1, cache |-> w.cache, next |-> w.next + 2,
             loaded |-> w.loaded, shared |-> FALSE]
    BY <1>3, <2>1 DEF TreeSet
  <2>3. /\ w.depth + 1 \in Nat /\ w.next + 2 \in Nat /\ w.loaded \in BOOLEAN
        /\ w.cache \in UNION {[S -> NodeSet] : S \in SUBSET Nat}
    BY <2>1 DEF TreeSet
  <2> QED
    BY <1>5, <2>2, <2>3 DEF TreeSet
<1> HIDE DEF a
<1>7. /\ DOMAIN u.cache = DOMAIN t.cache \union {a, a + 1}
      /\ u.cache[a] = h.left /\ u.cache[a + 1] = h.right
      /\ \A b \in DOMAIN t.cache : b # a /\ b # a + 1 => u.cache[b] = t.cache[b]
  BY <1>1, <1>2, <1>4, <1>6
<1>8. u.depth = t.depth + 1 /\ u.next = a + 2 /\ u.loaded = t.loaded
  BY <1>2, <1>4, <1>6 DEF a
<1> QED
  BY <1>6, <1>7, <1>8 DEF a, r, u

\* split_root.
LEMMA RootSplitShape ==
  ASSUME NEW t, NEW W, NEW D, NEW m, NEW x, Shape(t, W, D, m, x), NEW D1 \in [Positions -> Nat],
         NEW h, NEW c, Splits(t, W, D, m, x, t.depth, 0, D1, h, c),
         NEW v \in TreeSet, v.cache = t.cache, v.next = t.next, v.depth = t.depth,
         v.root.level = t.depth
  PROVE  LET u == RootSplit(v, h)
         IN /\ u.depth = t.depth + 1 /\ u.loaded = v.loaded /\ ~u.shared
            /\ \E W1 : Shape(u, W1, D1, 0, 0)
<1> DEFINE d == t.depth
           b == t.next
           p == h.median
           r == NewRoot(d + 1, b, p, b + 1)
           u == RootSplit(v, h)
           W1 == [i \in 0..(d + 1) |->
                    IF i = d + 1 THEN [j \in Positions |-> Root]
                    ELSE IF i = d THEN [j \in Positions |-> IF j < p THEN b ELSE b + 1]
                    ELSE W[i]]
<1>1. /\ d \in Nat /\ b \in Nat /\ b > 0 /\ b + 1 \in Nat /\ b # Dead /\ b + 1 # Dead
      /\ DOMAIN t.cache \subseteq 1..(b - 1) /\ Root \notin DOMAIN t.cache
      /\ 0 \in Positions
  BY ShapeIs, PosIs DEF Dead
<1>2. /\ p \in Positions /\ p > 0 /\ NodeOK(h.left) /\ NodeOK(h.right)
      /\ h.left.level = d /\ h.right.level = d
      /\ \A j \in Positions : Content(h.left, j) = IF j < p THEN c[j] ELSE Dead
      /\ \A j \in Positions : Content(h.right, j) = IF j < p THEN Dead ELSE c[j]
  BY DEF Splits, HalvesOf
<1>3. /\ NodeOK(r) /\ Clean(r) /\ r.level = d + 1
      /\ \A j : Content(r, j) = IF j = 0 THEN b ELSE IF j = p THEN b + 1 ELSE Dead
  <2>1. d + 1 \in Nat
    BY <1>1
  <2> HIDE DEF d, b, p
  <2> QED
    BY <1>1, <1>2, <2>1, NewRootIs
<1>4. b \notin DOMAIN t.cache /\ b + 1 \notin DOMAIN t.cache /\ b # Root /\ b + 1 # Root /\ b # b + 1
  BY <1>1 DEF Root
<1>5. /\ u \in TreeSet /\ u.root = r /\ u.depth = d + 1 /\ u.next = b + 2
      /\ u.loaded = v.loaded /\ u.shared = FALSE
      /\ DOMAIN u.cache = DOMAIN t.cache \union {b, b + 1}
      /\ u.cache[b] = h.left /\ u.cache[b + 1] = h.right
      /\ \A e \in DOMAIN t.cache : u.cache[e] = t.cache[e]
  <2>1. h.left \in NodeSet /\ h.right \in NodeSet /\ r \in NodeSet
    BY <1>2, <1>3 DEF NodeOK
  <2>2. r = NewRoot(v.root.level + 1, v.next, h.median, v.next + 1)
    OBVIOUS
  <2>3. NewRoot(v.root.level + 1, v.next, h.median, v.next + 1) \in NodeSet
    BY <2>1, <2>2
  <2> HIDE DEF r, u, d, b
  <2>4. /\ u \in TreeSet /\ u.root = NewRoot(v.root.level + 1, v.next, h.median, v.next + 1)
        /\ u.depth = v.depth + 1 /\ u.next = v.next + 2
        /\ u.loaded = v.loaded /\ u.shared = FALSE
        /\ DOMAIN u.cache = DOMAIN v.cache \union {v.next, v.next + 1}
        /\ u.cache[v.next] = h.left /\ u.cache[v.next + 1] = h.right
        /\ \A e \in DOMAIN v.cache : e # v.next /\ e # v.next + 1 => u.cache[e] = v.cache[e]
    BY <2>1, <2>3, RootSplitIs DEF u
  <2>5. v.next = b /\ v.depth = d /\ v.cache = t.cache
    BY DEF d, b
  <2> QED
    BY <1>4, <2>2, <2>4, <2>5
<1>6. Raised(W, W1, d, p, b)
  <2>1. /\ \A i \in 0..(d - 1) : i \in 0..(d + 1) /\ i # d /\ i # d + 1
        /\ d \in 0..(d + 1) /\ d # d + 1 /\ d + 1 \in 0..(d + 1)
    BY <1>1
  <2> QED
    BY <2>1 DEF Raised
<1>7. \A i \in 0..d, j \in Positions : i < d => W[i][j] \in DOMAIN t.cache
  BY AddressIs
<1>8. d > 0 => p \in Starts(W, d)
  <2>1. Val(W, D1, 0, 0, d, p) # Dead
    BY <1>2 DEF Splits
  <2> QED
    BY <2>1 DEF Val
<1>9. \A j \in Positions : c[j] = Val(W, D1, 0, 0, d, j)
  <2>1. \A j \in Positions : W[d][j] = Root
    BY DEF Shape, Ways
  <2>2. \A j \in Positions : c[j] = IF W[d][j] = W[d][0] THEN Val(W, D1, 0, 0, d, j) ELSE Dead
    BY DEF Splits
  <2> QED
    BY <1>1, <2>1, <2>2
<1> HIDE DEF b, p, u, d, W1, r
<1>10. Nested(d + 1, W1) /\ Convex(d + 1, W1) /\ RaisedVal(W1, W, d, p, b)
  <2>1. Nested(d, W) /\ Convex(d, W)
    BY DEF Shape, d
  <2> QED
    BY <1>1, <1>2, <1>6, <1>8, <2>1, RaisedOK
<1>11. /\ \A i \in 0..(d - 1) : W1[i] = W[i]
       /\ \A j \in Positions : W1[d][j] = IF j < p THEN b ELSE b + 1
       /\ \A j \in Positions : W1[d + 1][j] = Root
  BY <1>6 DEF Raised
<1>12. /\ \A i, j : i \in 0..d /\ j \in Positions => Val(W1, D1, 0, 0, i, j) = Val(W, D1, 0, 0, i, j)
       /\ \A j \in Positions : Val(W1, D1, 0, 0, d + 1, j) = IF j = 0 THEN b ELSE IF j = p THEN b + 1 ELSE Dead
  BY <1>10 DEF RaisedVal
<1>13. TreeOK(u)
  <2>1. ASSUME NEW e \in DOMAIN u.cache PROVE 0 < e /\ e < u.next /\ NodeOK(u.cache[e])
    <3>1. CASE e \in {b, b + 1}
      BY <1>1, <1>2, <1>5, <3>1
    <3>2. CASE e \notin {b, b + 1}
      <4>1. e \in DOMAIN t.cache
        BY <1>5, <3>2
      <4>2. 0 < e /\ e < b /\ NodeOK(t.cache[e]) /\ e \in Nat
        BY <1>1, <4>1 DEF Shape, TreeOK, b
      <4> QED
        BY <1>1, <1>5, <4>1, <4>2
    <3> QED
      BY <3>1, <3>2
  <2>2. u.next > 0 /\ NodeOK(u.root)
    BY <1>1, <1>3, <1>5
  <2> QED
    BY <1>5, <2>1, <2>2 DEF TreeOK
<1>14. /\ NodeOf(u, Root) = r /\ NodeOf(u, b) = h.left /\ NodeOf(u, b + 1) = h.right
       /\ \A e \in DOMAIN t.cache : NodeOf(u, e) = NodeOf(t, e)
  BY <1>1, <1>4, <1>5 DEF NodeOf
<1>15. \A i \in 0..(d + 1) : i \in 0..(d - 1) \/ i = d \/ i = d + 1
  BY <1>1
<1>16. \A i \in 0..(d - 1) : i \in 0..d /\ i < d /\ i # d
  BY <1>1
<1>17. \A i \in 0..(d - 1), j \in Positions : W1[i][j] = W[i][j] /\ W[i][j] \in DOMAIN t.cache
  BY <1>7, <1>11, <1>16
<1>18. Ways(u, W1)
  <2>1. \A i \in 0..d, j \in Positions : W1[i][j] \in DOMAIN u.cache
    <3>1. \A i \in 0..d : i \in 0..(d - 1) \/ i = d
      BY <1>1
    <3> QED
      BY <1>5, <1>11, <1>17, <3>1
  <2>2. \A i \in 0..(d + 1), j \in Positions : NodeOf(u, W1[i][j]).level = i
    <3>1. \A i \in 0..(d - 1), j \in Positions : NodeOf(t, W[i][j]).level = i
      BY <1>16 DEF Shape, Ways, d
    <3>2. \A i \in 0..(d - 1), j \in Positions : NodeOf(u, W1[i][j]).level = i
      BY <1>14, <1>17, <3>1
    <3>3. \A j \in Positions : NodeOf(u, W1[d][j]).level = d /\ NodeOf(u, W1[d + 1][j]).level = d + 1
      BY <1>2, <1>3, <1>11, <1>14
    <3> QED
      BY <1>15, <3>2, <3>3
  <2>3. \A e \in DOMAIN u.cache : \E i \in 0..d, j \in Positions : W1[i][j] = e
    <3> SUFFICES ASSUME NEW e \in DOMAIN u.cache PROVE \E i \in 0..d, j \in Positions : W1[i][j] = e
      OBVIOUS
    <3>1. d \in 0..d /\ 0 < p /\ ~(p < p)
      BY <1>1, <1>2, PosIs
    <3>2. CASE e = b
      <4>1. W1[d][0] = b
        BY <1>1, <1>11, <3>1
      <4> QED
        BY <1>1, <3>1, <3>2, <4>1
    <3>3. CASE e = b + 1
      <4>1. W1[d][p] = b + 1
        BY <1>2, <1>11, <3>1
      <4> QED
        BY <1>2, <3>1, <3>3, <4>1
    <3>4. CASE e \in DOMAIN t.cache
      <4>1. PICK i \in 0..(d - 1), j \in Positions : W[i][j] = e
        BY <3>4 DEF Shape, Ways, d
      <4> QED
        BY <1>16, <1>17, <4>1
    <3> QED
      BY <1>5, <3>2, <3>3, <3>4
  <2>4. u.depth = d + 1 /\ (d + 1) - 1 = d
    BY <1>1, <1>5
  <2> QED
    BY <1>11, <2>1, <2>2, <2>3, <2>4 DEF Ways
<1>19. ASSUME NEW i \in 0..(d + 1), NEW j \in Positions
       PROVE  Says(NodeOf(u, W1[i][j]), W1[i][j], i, W1, D1, 0, 0)
  <2>0. d \in 0..d
    BY <1>1
  <2>1. CASE i = d + 1
    <3>1. \A y \in Positions : W1[i][y] = W1[i][j] /\ NodeOf(u, W1[i][j]) = r
      BY <1>11, <1>14, <2>1
    <3> QED
      BY <1>3, <1>12, <2>1, <3>1 DEF Says
  <2>2. CASE i = d /\ j < p
    <3>1. W1[i][j] = b /\ NodeOf(u, W1[i][j]) = h.left
      BY <1>11, <1>14, <2>2
    <3>2. \A y \in Positions : W1[d][y] = b <=> y < p
      BY <1>4, <1>11
    <3>3. \A y \in Positions : Content(h.left, y) = IF W1[d][y] = b THEN Val(W1, D1, 0, 0, d, y) ELSE Dead
      BY <1>2, <1>9, <1>12, <2>0, <3>2
    <3>4. d > 0 => Clean(h.left)
      BY DEF Splits, d
    <3> QED
      BY <2>2, <3>1, <3>3, <3>4 DEF Says
  <2>3. CASE i = d /\ ~(j < p)
    <3>1. W1[i][j] = b + 1 /\ NodeOf(u, W1[i][j]) = h.right
      BY <1>11, <1>14, <2>3
    <3>2. \A y \in Positions : W1[d][y] = b + 1 <=> ~(y < p)
      BY <1>4, <1>11
    <3>3. \A y \in Positions : Content(h.right, y) = IF W1[d][y] = b + 1 THEN Val(W1, D1, 0, 0, d, y) ELSE Dead
      BY <1>2, <1>9, <1>12, <2>0, <3>2
    <3>4. d > 0 => Clean(h.right)
      BY DEF Splits, d
    <3> QED
      BY <2>3, <3>1, <3>3, <3>4 DEF Says
  <2>4. CASE i \in 0..(d - 1)
    <3> DEFINE e == W[i][j]
    <3>1. W1[i][j] = e /\ NodeOf(u, e) = NodeOf(t, e) /\ i \in 0..d /\ W1[i] = W[i]
      BY <1>11, <1>14, <1>16, <1>17, <2>4
    <3>2. Says(NodeOf(t, e), e, i, W, D, m, x)
      BY <3>1 DEF Shape, d
    <3>3. \A y \in Positions : Val(W1, D1, 0, 0, i, y) = Val(W, D, m, x, i, y)
      <4>1. \A y \in Positions : W[i][y] # W[d][0]
        BY <1>1, <1>16, <2>0, <2>4, AddressIs DEF d
      <4>2. \A y \in Positions : Val(W, D1, 0, 0, i, y) = Val(W, D, m, x, i, y)
        BY <3>1, <4>1 DEF Splits, d
      <4> QED
        BY <1>12, <3>1, <4>2
    <3> HIDE DEF e
    <3>4. Says(NodeOf(u, e), e, i, W1, D1, 0, 0)
      BY <3>1, <3>2, <3>3 DEF Says
    <3> QED
      BY <3>1, <3>4
  <2> QED
    BY <1>15, <2>1, <2>2, <2>3, <2>4
<1>20. Shape(u, W1, D1, 0, 0)
  BY <1>5, <1>10, <1>13, <1>18, <1>19 DEF Shape
<1> QED
  BY <1>5, <1>20 DEF u, d

-----------------------------------------------------------------------------
(* Merging two neighbours.                                                 *)

\* p and q are where two neighbours at level l begin, under one parent.
Adjacent(d, W, l, p, q) ==
  /\ l \in 0..(d - 1) /\ p \in Starts(W, l + 1) /\ q \in Starts(W, l + 1) /\ p < q
  /\ W[l + 1][p] = W[l + 1][q]
  /\ \A j \in Starts(W, l + 1) : ~(p < j /\ j < q)

Either(s, o, a, b) == (s = a /\ o = b) \/ (s = b /\ o = a)

Joined(W, W1, d, l, s, o) ==
  /\ \A i \in 0..d : i # l => W1[i] = W[i]
  /\ \A j \in Positions : W1[l][j] = IF W[l][j] = o THEN s ELSE W[l][j]

JoinedVal(W1, W, d, l, p, q, s) ==
  /\ \A D, i, j : i \in 0..d /\ j \in Positions /\ i # l + 1 => Val(W1, D, 0, 0, i, j) = Val(W, D, 0, 0, i, j)
  /\ \A D, j : j \in Positions =>
       Val(W1, D, 0, 0, l + 1, j) = IF j = p THEN s ELSE IF j = q THEN Dead ELSE Val(W, D, 0, 0, l + 1, j)

\* Joining two neighbours keeps the parts nested and without gaps.
LEMMA JoinedOK ==
  ASSUME NEW d \in Nat, NEW W, NEW W1, NEW l, NEW p, NEW q, Adjacent(d, W, l, p, q),
         NEW s, NEW o, Either(s, o, W[l][p], W[l][q]), Joined(W, W1, d, l, s, o),
         Nested(d, W), Convex(d, W)
  PROVE  Nested(d, W1) /\ Convex(d, W1) /\ JoinedVal(W1, W, d, l, p, q, s)
<1> DEFINE A == W[l][p]
           B == W[l][q]
<1>1. /\ l \in 0..(d - 1) /\ l \in 0..d /\ l + 1 \in 1..d /\ l + 1 \in 0..d /\ (l + 1) - 1 = l /\ l # l + 1
      /\ Positions = 0..NKeys /\ NKeys \in Nat
      /\ p \in Positions /\ q \in Positions /\ p < q /\ q # 0
  BY PosIs DEF Adjacent, Starts
<1>2. /\ \A i \in 0..d : i # l => W1[i] = W[i]
      /\ \A j \in Positions : W1[l][j] = IF W[l][j] = o THEN s ELSE W[l][j]
  BY DEF Joined
<1>3. (s = A /\ o = B) \/ (s = B /\ o = A)
  BY DEF Either
<1>4. \A i, j, k \in Positions : i <= j /\ j <= k /\ W[l][i] = W[l][k] => W[l][j] = W[l][i]
  BY <1>1 DEF Convex
<1>5. \A j, k \in Starts(W, l + 1) : W[l][j] = W[l][k] => j = k
  BY <1>1, OneStart
<1>6. \A j \in Positions : \E y \in Starts(W, l + 1) : y \in Positions /\ y <= j /\ W[l][y] = W[l][j]
  <2> SUFFICES ASSUME NEW j \in Positions
               PROVE  \E y \in Starts(W, l + 1) : y \in Positions /\ y <= j /\ W[l][y] = W[l][j]
    OBVIOUS
  <2> DEFINE i == l + 1
  <2>0. i \in 1..d
    BY <1>1
  <2>1. i - 1 = l
    BY <1>1
  <2> HIDE DEF i
  <2>2. \E y \in Starts(W, i) :
          /\ y \in Positions /\ y <= j /\ W[i - 1][y] = W[i - 1][j]
          /\ \A z \in Starts(W, i) : z <= j => z <= y
    BY <2>0, StartOf
  <2>3. \E y \in Starts(W, i) : y \in Positions /\ y <= j /\ W[l][y] = W[l][j]
    BY <2>1, <2>2
  <2> QED
    BY <2>3 DEF i
<1>7. /\ p \in Starts(W, l + 1) /\ q \in Starts(W, l + 1) /\ W[l + 1][p] = W[l + 1][q]
      /\ \A j \in Starts(W, l + 1) : ~(p < j /\ j < q)
  BY DEF Adjacent
<1>8. A # B
  BY <1>1, <1>5, <1>7
<1> HIDE DEF A, B
<1>9. \A j, k \in Positions : W1[l][j] = W1[l][k] =>
        W[l][j] = W[l][k] \/ (W[l][j] = A /\ W[l][k] = B) \/ (W[l][j] = B /\ W[l][k] = A)
  BY <1>2, <1>3
<1>10. \A j, k \in Positions : W[l][j] = W[l][k] => W1[l][j] = W1[l][k]
  BY <1>2
<1>11. \A j \in Positions : (W[l][j] = A \/ W[l][j] = B) <=> W1[l][j] = s
  BY <1>2, <1>3
\* Below q and not below p is the part of p, and what lies between the two parts is in one of them.
<1>12. ASSUME NEW j \in Positions, p <= j, j < q PROVE W[l][j] = A
  <2>1. PICK y \in Starts(W, l + 1) : y \in Positions /\ y <= j /\ W[l][y] = W[l][j]
    BY <1>6
  <2>2. y <= p
    BY <1>1, <1>7, <1>12, <2>1
  <2>3. W[l][p] = W[l][y]
    BY <1>1, <1>4, <1>12, <2>1, <2>2
  <2> QED
    BY <2>1, <2>3 DEF A
<1>13. \A j \in Positions : W[l][j] = B => q <= j
  <2> SUFFICES ASSUME NEW j \in Positions, W[l][j] = B PROVE q <= j
    OBVIOUS
  <2>1. PICK y \in Starts(W, l + 1) : y \in Positions /\ y <= j /\ W[l][y] = W[l][j]
    BY <1>6
  <2>2. y = q
    BY <1>5, <1>7, <2>1 DEF B
  <2> QED
    BY <2>1, <2>2
<1>14. \A j \in Positions : W[l][j] = A => p <= j
  <2> SUFFICES ASSUME NEW j \in Positions, W[l][j] = A PROVE p <= j
    OBVIOUS
  <2>1. PICK y \in Starts(W, l + 1) : y \in Positions /\ y <= j /\ W[l][y] = W[l][j]
    BY <1>6
  <2>2. y = p
    BY <1>5, <1>7, <2>1 DEF A
  <2> QED
    BY <2>1, <2>2
<1>15. \A j \in Positions : W[l][j] = A => j < q
  <2> SUFFICES ASSUME NEW j \in Positions, W[l][j] = A, ~(j < q) PROVE FALSE
    OBVIOUS
  <2>1. p <= q /\ q <= j
    BY <1>1
  <2>2. W[l][q] = A
    BY <1>1, <1>4, <2>1 DEF A
  <2> QED
    BY <1>8, <2>2 DEF B
<1>16. ASSUME NEW i \in Positions, NEW j \in Positions, NEW k \in Positions, i <= j, j <= k,
              W[l][i] = A, W[l][k] = B
       PROVE  W[l][j] = A \/ W[l][j] = B
  <2>1. CASE j < q
    <3>1. p <= j
      BY <1>1, <1>14, <1>16
    <3> QED
      BY <1>12, <2>1, <3>1
  <2>2. CASE ~(j < q)
    <3>1. q <= j
      BY <1>1, <2>2
    <3>2. W[l][j] = W[l][q]
      BY <1>1, <1>4, <1>16, <3>1 DEF B
    <3> QED
      BY <3>2 DEF B
  <2> QED
    BY <2>1, <2>2
<1>17. Nested(d, W1)
  <2> SUFFICES ASSUME NEW i \in 1..d, NEW j \in Positions, NEW k \in Positions,
                      W1[i - 1][j] = W1[i - 1][k]
               PROVE  W1[i][j] = W1[i][k]
    BY DEF Nested
  <2>1. i \in 0..d /\ i - 1 \in 0..d
    BY <1>1
  <2>2. CASE i = l
    <3>1. W[i - 1][j] = W[i - 1][k]
      BY <1>1, <1>2, <2>1, <2>2
    <3>2. W[l][j] = W[l][k]
      BY <2>2, <3>1 DEF Nested
    <3> QED
      BY <1>10, <2>2, <3>2
  <2>3. CASE i = l + 1
    <3>1. \A y, z \in Positions : W[l][y] = W[l][z] => W[l + 1][y] = W[l + 1][z]
      BY <1>1 DEF Nested
    <3>2. W[l + 1][j] = W[l + 1][k]
      BY <1>1, <1>7, <1>9, <2>3, <3>1 DEF A, B
    <3> QED
      BY <1>1, <1>2, <2>3, <3>2
  <2>4. CASE i # l /\ i # l + 1
    <3>1. i - 1 # l
      BY <1>1, <2>4
    <3> QED
      BY <1>2, <2>1, <2>4, <3>1 DEF Nested
  <2> QED
    BY <2>2, <2>3, <2>4
<1>18. Convex(d, W1)
  <2> SUFFICES ASSUME NEW e \in 0..d, NEW i \in Positions, NEW j \in Positions, NEW k \in Positions,
                      i <= j, j <= k, W1[e][i] = W1[e][k]
               PROVE  W1[e][j] = W1[e][i]
    BY DEF Convex
  <2>1. CASE e = l
    <3>1. CASE W[l][i] = W[l][k]
      BY <1>4, <1>10, <2>1, <3>1
    <3>2. CASE W[l][i] = A /\ W[l][k] = B
      BY <1>11, <1>16, <2>1, <3>2
    <3>3. CASE W[l][i] = B /\ W[l][k] = A
      <4>1. q <= i /\ k < q
        BY <1>13, <1>15, <3>3
      <4> QED
        BY <1>1, <4>1
    <3> QED
      BY <1>9, <2>1, <3>1, <3>2, <3>3
  <2>2. CASE e # l
    BY <1>2, <2>2 DEF Convex
  <2> QED
    BY <2>1, <2>2
<1>19. ASSUME NEW j \in Positions
       PROVE  /\ j \in Starts(W1, l + 1) <=> j \in Starts(W, l + 1) /\ j # q
              /\ j \in Starts(W, l + 1) /\ j # q => W1[l][j] = IF j = p THEN s ELSE W[l][j]
  <2>1. \A y \in Positions : /\ y \in Starts(W1, l + 1) <=> y = 0 \/ W1[l][y - 1] # W1[l][y]
                             /\ y \in Starts(W, l + 1) <=> y = 0 \/ W[l][y - 1] # W[l][y]
    BY <1>1 DEF Starts
  <2>2. q \notin Starts(W1, l + 1)
    <3>1. q - 1 \in Positions /\ p <= q - 1 /\ q - 1 < q
      BY <1>1
    <3>2. W[l][q - 1] = A /\ W[l][q] = B
      BY <1>12, <3>1 DEF B
    <3>3. W1[l][q - 1] = W1[l][q]
      BY <1>1, <1>11, <3>1, <3>2
    <3> QED
      BY <1>1, <2>1, <3>3
  <2>3. ASSUME j \in Starts(W, l + 1), j # q PROVE j \in Starts(W1, l + 1)
    <3>1. CASE j = 0
      BY <2>1, <3>1
    <3>2. CASE j # 0
      <4>1. j - 1 \in Positions /\ j - 1 < j /\ W[l][j - 1] # W[l][j]
        BY <1>1, <2>1, <2>3, <3>2
      <4>2. W[l][j] # B
        BY <1>5, <1>7, <2>3 DEF B
      <4>3. ~(W[l][j - 1] = B /\ W[l][j] = A)
        <5> SUFFICES ASSUME W[l][j - 1] = B, W[l][j] = A PROVE FALSE
          OBVIOUS
        <5>1. q <= j - 1 /\ j < q
          BY <1>13, <1>15, <4>1
        <5> QED
          BY <1>1, <4>1, <5>1
      <4>4. W1[l][j - 1] # W1[l][j]
        BY <1>9, <4>1, <4>2, <4>3
      <4> QED
        BY <2>1, <4>4
    <3> QED
      BY <3>1, <3>2
  <2>4. ASSUME j \notin Starts(W, l + 1) PROVE j \notin Starts(W1, l + 1)
    <3>1. j # 0 /\ W[l][j - 1] = W[l][j] /\ j - 1 \in Positions
      BY <1>1, <2>1, <2>4
    <3>2. W1[l][j - 1] = W1[l][j]
      BY <1>10, <3>1
    <3> QED
      BY <2>1, <3>1, <3>2
  <2>5. ASSUME j \in Starts(W, l + 1), j # q PROVE W1[l][j] = IF j = p THEN s ELSE W[l][j]
    <3>1. W[l][j] # B /\ (W[l][j] = A => j = p)
      BY <1>5, <1>7, <2>5 DEF A, B
    <3>2. j = p => W1[l][j] = s
      BY <1>11 DEF A
    <3>3. j # p => W[l][j] # o
      BY <1>3, <3>1
    <3> QED
      BY <1>2, <3>2, <3>3
  <2> QED
    BY <2>2, <2>3, <2>4, <2>5
<1>20. ASSUME NEW D, NEW i \in 0..d, NEW j \in Positions, i # l + 1
       PROVE  Val(W1, D, 0, 0, i, j) = Val(W, D, 0, 0, i, j)
  <2>1. CASE i = 0
    BY <2>1 DEF Val
  <2>2. CASE i # 0
    <3>1. i - 1 \in 0..d /\ i - 1 # l
      BY <1>1, <1>20, <2>2
    <3>2. W1[i - 1] = W[i - 1]
      BY <1>2, <3>1
    <3> QED
      BY <2>2, <3>2 DEF Val, Starts
  <2> QED
    BY <2>1, <2>2
<1>21. ASSUME NEW D, NEW j \in Positions
       PROVE  Val(W1, D, 0, 0, l + 1, j) =
                IF j = p THEN s ELSE IF j = q THEN Dead ELSE Val(W, D, 0, 0, l + 1, j)
  <2>1. l + 1 # 0
    BY <1>1
  <2>2. Val(W1, D, 0, 0, l + 1, j) = IF j \in Starts(W1, l + 1) THEN W1[l][j] ELSE Dead
    BY <1>1, <2>1 DEF Val
  <2>3. Val(W, D, 0, 0, l + 1, j) = IF j \in Starts(W, l + 1) THEN W[l][j] ELSE Dead
    BY <1>1, <2>1 DEF Val
  <2>4. p # q
    BY <1>1
  <2> QED
    BY <1>7, <1>19, <2>2, <2>3, <2>4
<1> QED
  BY <1>17, <1>18, <1>20, <1>21 DEF JoinedVal

\* The fields of a tree after a merge.
LEMMA MergedIs ==
  ASSUME NEW t \in TreeSet, Root \notin DOMAIN t.cache, NEW s \in DOMAIN t.cache, NEW o \in DOMAIN t.cache,
         s # o, NEW P, P = Root \/ P \in DOMAIN t.cache, P # s, P # o,
         NEW n \in NodeSet, NEW r \in NodeSet
  PROVE  LET u == Put(Dropped(Cached(t, s, n), o), P, r)
         IN /\ u \in TreeSet /\ u.depth = t.depth /\ u.next = t.next
            /\ u.loaded = t.loaded /\ u.shared = t.shared
            /\ DOMAIN u.cache = DOMAIN t.cache \ {o}
            /\ \A e : e = Root \/ e \in DOMAIN u.cache =>
                 NodeOf(u, e) = IF e = P THEN r ELSE IF e = s THEN n ELSE NodeOf(t, e)
<1> DEFINE v == Cached(t, s, n)
           w == Dropped(v, o)
           u == Put(w, P, r)
<1>1. s \in Nat /\ s # Root /\ o # Root
  BY DEF TreeSet
<1>2. /\ v \in TreeSet /\ v.root = t.root /\ v.depth = t.depth /\ v.next = t.next
      /\ v.loaded = t.loaded /\ v.shared = t.shared
      /\ DOMAIN v.cache = DOMAIN t.cache \union {s} /\ v.cache[s] = n
      /\ \A b \in DOMAIN t.cache : b # s => v.cache[b] = t.cache[b]
  BY <1>1, CachedIs
<1> HIDE DEF v
<1>3. /\ w \in TreeSet /\ w.root = v.root /\ w.depth = v.depth /\ w.next = v.next
      /\ w.loaded = v.loaded /\ w.shared = v.shared
      /\ DOMAIN w.cache = DOMAIN v.cache \ {o}
      /\ \A b \in DOMAIN v.cache : b # o => w.cache[b] = v.cache[b]
  BY <1>2, DroppedIs
<1> HIDE DEF w
<1>4. DOMAIN w.cache = DOMAIN t.cache \ {o} /\ (P = Root \/ P \in DOMAIN w.cache) /\ Root \notin DOMAIN w.cache
  BY <1>2, <1>3
<1>5. /\ u \in TreeSet /\ u.depth = w.depth /\ u.next = w.next
      /\ u.loaded = w.loaded /\ u.shared = w.shared
      /\ DOMAIN u.cache = DOMAIN w.cache
      /\ \A b : b = Root \/ b \in DOMAIN w.cache =>
           NodeOf(u, b) = IF b = P THEN r ELSE NodeOf(w, b)
  BY <1>3, <1>4, PutIs
<1> HIDE DEF u
<1>6. \A e : e = Root \/ e \in DOMAIN w.cache => NodeOf(w, e) = IF e = s THEN n ELSE NodeOf(t, e)
  BY <1>1, <1>2, <1>3, <1>4 DEF NodeOf
<1> QED
  BY <1>2, <1>3, <1>4, <1>5, <1>6 DEF u, v, w

\* What the parent says of the neighbours.
Neighbours(t, W, D, l, p, q) ==
  /\ p \in Positions /\ q \in Positions /\ p # q /\ l \in 0..t.depth /\ l + 1 \in 0..t.depth /\ l < t.depth
  /\ NodeOK(NodeOf(t, W[l + 1][p])) /\ Clean(NodeOf(t, W[l + 1][p])) /\ NodeOf(t, W[l + 1][p]).level = l + 1
  /\ Content(NodeOf(t, W[l + 1][p]), p) = W[l][p] /\ Content(NodeOf(t, W[l + 1][p]), q) = W[l][q]
  /\ \A j \in Positions : Content(NodeOf(t, W[l + 1][p]), j) =
       IF W[l + 1][j] = W[l + 1][p] THEN Val(W, D, 0, 0, l + 1, j) ELSE Dead
  /\ KeyOf(NodeOf(t, W[l + 1][p]), W[l][p]) = p /\ KeyOf(NodeOf(t, W[l + 1][p]), W[l][q]) = q
  /\ W[l][p] \in DOMAIN t.cache /\ W[l][q] \in DOMAIN t.cache /\ W[l][p] # W[l][q]
  /\ W[l][p] # Dead /\ W[l][q] # Dead

\* Neighbours begin at the routing entries of their parent.
LEMMA AdjacentIs ==
  ASSUME NEW t, NEW W, NEW D, Shape(t, W, D, 0, 0), NEW l, NEW p, NEW q,
         Adjacent(t.depth, W, l, p, q)
  PROVE  Neighbours(t, W, D, l, p, q)
<1> DEFINE n == NodeOf(t, W[l + 1][p])
           d == t.depth
<1>1. d \in Nat /\ Convex(d, W) /\ Positions \subseteq Nat
  BY ShapeIs, PosIs DEF Shape
<1>2. /\ l \in 0..(d - 1) /\ p \in Starts(W, l + 1) /\ q \in Starts(W, l + 1) /\ p < q
      /\ W[l + 1][p] = W[l + 1][q]
  BY DEF Adjacent
<1>3. /\ l \in 0..d /\ l + 1 \in 0..d /\ l + 1 \in 1..d /\ l + 1 > 0 /\ (l + 1) - 1 = l /\ l < d /\ l + 1 # 0
      /\ p \in Positions /\ q \in Positions /\ p # q
  <2>1. p \in Positions /\ q \in Positions
    BY <1>2 DEF Starts
  <2> QED
    BY <1>1, <1>2, <2>1
<1>4. \A j, k \in Starts(W, l + 1) : W[l][j] = W[l][k] => j = k
  BY <1>1, <1>3, OneStart
<1>5. \A j \in Positions : W[l][j] \in DOMAIN t.cache /\ W[l][j] # Dead
  BY <1>3, ShapeIs
<1>6. /\ NodeOK(n) /\ Clean(n) /\ n.level = l + 1
      /\ \A j \in Positions : Content(n, j) =
           IF W[l + 1][j] = W[l + 1][p] THEN Val(W, D, 0, 0, l + 1, j) ELSE Dead
  BY <1>3, ShapeIs
<1>7. \A j : Val(W, D, 0, 0, l + 1, j) = IF j \in Starts(W, l + 1) THEN W[l][j] ELSE Dead
  BY <1>3 DEF Val
<1> HIDE DEF n
<1>8. Content(n, p) = W[l][p] /\ Content(n, q) = W[l][q]
  BY <1>2, <1>3, <1>6, <1>7
<1>9. \A j : Content(n, j) # Dead => j \in Starts(W, l + 1) /\ Content(n, j) = W[l][j]
  <2>1. \A j : Content(n, j) # Dead => j \in Positions
    BY <1>6, ContentWhere
  <2> QED
    BY <1>6, <1>7, <2>1
<1>10. /\ \A j : Content(n, j) = W[l][p] => j = p
       /\ \A j : Content(n, j) = W[l][q] => j = q
  BY <1>2, <1>3, <1>4, <1>5, <1>9
<1>11. KeyOf(n, W[l][p]) = p
  BY <1>3, <1>5, <1>6, <1>8, <1>10, KeyIs
<1>12. KeyOf(n, W[l][q]) = q
  BY <1>3, <1>5, <1>6, <1>8, <1>10, KeyIs
<1>13. W[l][p] # W[l][q]
  BY <1>2, <1>3, <1>4
<1> QED
  BY <1>3, <1>5, <1>6, <1>8, <1>11, <1>12, <1>13 DEF n, Neighbours

Merged(r, t, W, D, l) ==
  /\ r.merged \in BOOLEAN /\ r.t.depth = t.depth
  /\ \E W1 : Shape(r.t, W1, D, 0, 0) /\ \A i \in 0..t.depth : i # l => W1[i] = W[i]

\* A merge of two neighbours under one parent.
LEMMA MergeShape ==
  ASSUME NEW t, NEW W, NEW D, Shape(t, W, D, 0, 0), NEW l, NEW p, NEW q,
         Adjacent(t.depth, W, l, p, q), NEW s, NEW o, Either(s, o, W[l][p], W[l][q])
  PROVE  Merged(Merge(t, W[l + 1][p], s, o), t, W, D, l)
<1>0. Neighbours(t, W, D, l, p, q)
  BY AdjacentIs
<1> DEFINE d == t.depth
           P == W[l + 1][p]
           A == W[l][p]
           B == W[l][q]
           ns == NodeOf(t, s)
           no == NodeOf(t, o)
           np == NodeOf(t, P)
           n1 == Absorb(ns, no)
           p1 == Reroute(np, s, o)
           u == Put(Dropped(Cached(t, s, n1), o), P, p1)
           r == Merge(t, P, s, o)
           W1 == [i \in 0..d |->
                    IF i = l THEN [j \in Positions |-> IF W[l][j] = o THEN s ELSE W[l][j]] ELSE W[i]]
<1>1. /\ p \in Positions /\ q \in Positions /\ p # q /\ l \in 0..d /\ l + 1 \in 0..d /\ l < d
      /\ NodeOK(np) /\ Clean(np) /\ np.level = l + 1
      /\ Content(np, p) = A /\ Content(np, q) = B
      /\ \A j \in Positions : Content(np, j) = IF W[l + 1][j] = P THEN Val(W, D, 0, 0, l + 1, j) ELSE Dead
      /\ KeyOf(np, A) = p /\ KeyOf(np, B) = q
      /\ A \in DOMAIN t.cache /\ B \in DOMAIN t.cache /\ A # B
      /\ A # Dead /\ B # Dead
  BY <1>0 DEF Neighbours
<1>2. (s = A /\ o = B) \/ (s = B /\ o = A)
  BY DEF Either
<1>3. /\ d \in Nat /\ t \in TreeSet /\ t.next \in Nat /\ t.next > 0 /\ Root \notin DOMAIN t.cache
  BY ShapeIs
<1>4. \A i \in 0..d, j \in Positions :
        /\ W[i][j] = Root \/ W[i][j] \in DOMAIN t.cache
        /\ W[i][j] = Root <=> i = d
        /\ i < d => W[i][j] \in DOMAIN t.cache
        /\ \A e \in 0..d, k \in Positions : W[e][k] = W[i][j] => e = i
  BY AddressIs
<1>5. s \in DOMAIN t.cache /\ o \in DOMAIN t.cache /\ s # o /\ s \in Nat /\ s # Dead
  BY <1>1, <1>2, <1>3 DEF TreeSet
<1>6. (P = Root \/ P \in DOMAIN t.cache) /\ P # s /\ P # o
  <2>1. P # A /\ P # B /\ (P = Root \/ P \in DOMAIN t.cache)
    <3>1. l # l + 1
      BY <1>1, <1>3
    <3> QED
      BY <1>1, <1>4, <3>1
  <2> QED
    BY <1>2, <2>1
<1>7. /\ NodeOK(ns) /\ NodeOK(no) /\ ns.level = l /\ no.level = l
      /\ \A j \in Positions : Content(ns, j) = IF W[l][j] = s THEN Val(W, D, 0, 0, l, j) ELSE Dead
      /\ \A j \in Positions : Content(no, j) = IF W[l][j] = o THEN Val(W, D, 0, 0, l, j) ELSE Dead
  <2>1. \A k \in Positions : /\ NodeOK(NodeOf(t, W[l][k])) /\ NodeOf(t, W[l][k]).level = l
                             /\ \A j \in Positions : Content(NodeOf(t, W[l][k]), j) =
                                  IF W[l][j] = W[l][k] THEN Val(W, D, 0, 0, l, j) ELSE Dead
    BY <1>1, ShapeIs
  <2> QED
    BY <1>1, <1>2, <2>1
<1>8. t.cache[s] = ns /\ t.cache[o] = no /\ NodeAt(t, P, 0) = np
  BY <1>3, <1>5, <1>6 DEF NodeOf, NodeAt
<1>9. r = IF CanAbsorb(ns, no) THEN [t |-> u, merged |-> TRUE] ELSE [t |-> t, merged |-> FALSE]
  BY <1>8 DEF Merge
<1>10. CASE ~CanAbsorb(ns, no)
  <2>1. r = [t |-> t, merged |-> FALSE]
    BY <1>9, <1>10
  <2> HIDE DEF r
  <2>2. r.t = t /\ r.merged = FALSE
    BY <2>1
  <2>3. Merged(r, t, W, D, l)
    BY <2>2 DEF Merged
  <2> QED
    BY <2>3 DEF r
<1>11. ASSUME CanAbsorb(ns, no)
       PROVE  /\ u.depth = d /\ u.loaded = t.loaded /\ u.shared = t.shared
              /\ Shape(u, W1, D, 0, 0) /\ \A i \in 0..d : i # l => W1[i] = W[i]
  <2>1. Joined(W, W1, d, l, s, o)
    BY <1>1 DEF Joined
  <2>2. /\ NodeOK(n1) /\ Clean(n1) /\ n1.level = l
        /\ \A k : Content(n1, k) = IF Content(no, k) # Dead THEN Content(no, k) ELSE Content(ns, k)
    <3> HIDE DEF ns, no
    <3> QED
      BY <1>7, <1>11, AbsorbOK
  <2> HIDE DEF n1, u, W1, ns, no, A, B, P, np
  <2>3. /\ NodeOK(p1) /\ Clean(p1) /\ p1.level = l + 1
        /\ \A j : Content(p1, j) = IF j = p THEN s ELSE IF j = q THEN Dead ELSE Content(np, j)
    <3> DEFINE ka == IF s = A THEN q ELSE p
               ks == IF s = A THEN p ELSE q
    <3>1. /\ ka \in Positions /\ ks \in Positions /\ ka # ks
          /\ KeyOf(np, o) = ka /\ KeyOf(np, s) = ks /\ Content(np, ka) # Dead /\ Content(np, ks) # Dead
      BY <1>1, <1>2
    <3>2. (IF ka < ks THEN ka ELSE ks) = p /\ {ka, ks} = {p, q}
      BY <1>1, PosIs DEF Adjacent
    <3> HIDE DEF ka, ks
    <3>3. /\ NodeOK(p1) /\ Clean(p1) /\ p1.level = np.level
          /\ \A j : Content(p1, j) = IF j = (IF ka < ks THEN ka ELSE ks) THEN s
                                     ELSE IF j \in {ka, ks} THEN Dead ELSE Content(np, j)
      BY <1>1, <1>5, <3>1, RerouteOK
    <3> HIDE DEF p1
    <3> QED
      BY <1>1, <3>2, <3>3
  <2> HIDE DEF p1
  <2>4. /\ u \in TreeSet /\ u.depth = d /\ u.next = t.next
        /\ u.loaded = t.loaded /\ u.shared = t.shared
        /\ DOMAIN u.cache = DOMAIN t.cache \ {o}
        /\ \A e : e = Root \/ e \in DOMAIN u.cache =>
             NodeOf(u, e) = IF e = P THEN p1 ELSE IF e = s THEN n1 ELSE NodeOf(t, e)
    <3>1. n1 \in NodeSet /\ p1 \in NodeSet
      BY <2>2, <2>3 DEF NodeOK
    <3> QED
      BY <1>3, <1>5, <1>6, <3>1, MergedIs DEF u
  <2> HIDE DEF d
  <2>5. Nested(d, W1) /\ Convex(d, W1) /\ JoinedVal(W1, W, d, l, p, q, s)
    <3>1. Nested(d, W) /\ Convex(d, W) /\ Adjacent(d, W, l, p, q)
      BY DEF Shape, d
    <3> QED
      BY <1>3, <2>1, <3>1, JoinedOK
  <2>6. /\ \A i \in 0..d : i # l => W1[i] = W[i]
        /\ \A j \in Positions : W1[l][j] = IF W[l][j] = o THEN s ELSE W[l][j]
    BY <2>1 DEF Joined
  <2>7. /\ \A i, j : i \in 0..d /\ j \in Positions /\ i # l + 1 => Val(W1, D, 0, 0, i, j) = Val(W, D, 0, 0, i, j)
        /\ \A j \in Positions : Val(W1, D, 0, 0, l + 1, j) =
                                  IF j = p THEN s ELSE IF j = q THEN Dead ELSE Val(W, D, 0, 0, l + 1, j)
    BY <2>5 DEF JoinedVal
  <2>8. /\ NodeOf(u, P) = p1 /\ NodeOf(u, s) = n1
        /\ \A e : e = Root \/ e \in DOMAIN u.cache => e = P \/ e = s \/ NodeOf(u, e) = NodeOf(t, e)
    BY <1>5, <1>6, <2>4
  <2>9. \A i \in 0..d, j \in Positions :
          /\ \/ i = l /\ W1[i][j] = s
             \/ W1[i][j] = W[i][j] /\ W[i][j] # s /\ W[i][j] # o
          /\ W1[i][j] # o
          /\ W1[i][j] = P => i = l + 1
          /\ W1[i][j] = s => i = l
          /\ W1[i][j] = Root \/ W1[i][j] \in DOMAIN u.cache
          /\ i < d => W1[i][j] \in DOMAIN u.cache
    <3>1. \A i \in 0..d, j \in Positions : (W[i][j] = s \/ W[i][j] = o) => i = l
      BY <1>1, <1>2, <1>4 DEF A, B
    <3>2. \A i \in 0..d, j \in Positions : W[i][j] = P => i = l + 1
      BY <1>1, <1>4 DEF P
    <3>3. \A i \in 0..d, j \in Positions :
            \/ i = l /\ W1[i][j] = s
            \/ W1[i][j] = W[i][j] /\ W[i][j] # s /\ W[i][j] # o
      BY <2>6, <3>1
    <3> QED
      BY <1>4, <1>5, <1>6, <2>4, <3>1, <3>2, <3>3
  <2>10. TreeOK(u)
    <3>1. \A e \in DOMAIN t.cache : 0 < e /\ e < t.next /\ NodeOK(NodeOf(t, e))
      BY <1>3 DEF Shape, TreeOK, NodeOf
    <3>2. NodeOK(NodeOf(t, Root))
      BY DEF Shape, TreeOK, NodeOf
    <3>3. \A e : e = Root \/ e \in DOMAIN u.cache => NodeOK(NodeOf(u, e))
      BY <2>2, <2>3, <2>4, <3>1, <3>2
    <3>4. u.root = NodeOf(u, Root) /\ \A e \in DOMAIN u.cache : u.cache[e] = NodeOf(u, e)
      BY <1>3, <2>4 DEF NodeOf
    <3> QED
      BY <1>3, <2>4, <3>1, <3>3, <3>4 DEF TreeOK
  <2>11. Ways(u, W1)
    <3>1. \A k \in Positions : W1[d][k] = Root
      <4>1. \A k \in Positions : W[d][k] = Root
        BY DEF Shape, Ways, d
      <4>2. d # l /\ d \in 0..d
        BY <1>1, <1>3
      <4> QED
        BY <2>6, <4>1, <4>2
    <3>2. \A i \in 0..(d - 1), k \in Positions : W1[i][k] \in DOMAIN u.cache
      <4>1. \A i \in 0..(d - 1) : i \in 0..d /\ i < d
        BY <1>3
      <4> QED
        BY <2>9, <4>1
    <3>3. \A i \in 0..d, k \in Positions : NodeOf(u, W1[i][k]).level = i
      <4>1. \A i \in 0..d, k \in Positions : NodeOf(t, W[i][k]).level = i
        BY DEF Shape, Ways, d
      <4> QED
        BY <2>2, <2>3, <2>8, <2>9, <4>1
    <3>4. \A e \in DOMAIN u.cache : \E i \in 0..(d - 1), k \in Positions : W1[i][k] = e
      <4> SUFFICES ASSUME NEW e \in DOMAIN u.cache PROVE \E i \in 0..(d - 1), k \in Positions : W1[i][k] = e
        OBVIOUS
      <4>1. e \in DOMAIN t.cache /\ e # o
        BY <2>4
      <4>2. PICK i \in 0..(d - 1), k \in Positions : W[i][k] = e
        BY <4>1 DEF Shape, Ways, d
      <4>3. i \in 0..d
        BY <1>3
      <4>4. W1[i][k] = e
        BY <2>6, <4>1, <4>2, <4>3
      <4> QED
        BY <4>4
    <3> QED
      BY <2>4, <3>1, <3>2, <3>3, <3>4 DEF Ways
  <2>12. ASSUME NEW i \in 0..d, NEW j \in Positions
         PROVE  Says(NodeOf(u, W1[i][j]), W1[i][j], i, W1, D, 0, 0)
    <3>0. l # l + 1
      BY <1>1, <1>3
    <3>1. CASE W1[i][j] = s
      <4>1. i = l
        BY <2>9, <3>1
      <4>2. \A y \in Positions : W1[l][y] = s <=> W[l][y] = s \/ W[l][y] = o
        BY <2>6
      <4>3. \A y \in Positions : Content(n1, y) = IF W1[l][y] = s THEN Val(W1, D, 0, 0, l, y) ELSE Dead
        BY <1>1, <1>5, <1>7, <2>2, <2>7, <3>0, <4>2
      <4> QED
        BY <2>2, <2>8, <3>1, <4>1, <4>3 DEF Says
    <3>2. CASE W1[i][j] = P
      <4>1. i = l + 1 /\ i # l
        BY <2>9, <3>0, <3>2
      <4>2. W1[l + 1] = W[l + 1] /\ W[l + 1][p] = P /\ W[l + 1][q] = P
        BY <1>1, <2>6, <3>0 DEF P, Adjacent
      <4>3. \A y \in Positions : Content(p1, y) = IF W1[l + 1][y] = P THEN Val(W1, D, 0, 0, l + 1, y) ELSE Dead
        BY <1>1, <2>3, <2>7, <4>2
      <4> QED
        BY <2>3, <2>8, <3>2, <4>1, <4>3 DEF Says
    <3>3. CASE W1[i][j] # s /\ W1[i][j] # P
      <4> DEFINE e == W[i][j]
      <4>1. W1[i][j] = e /\ e # s /\ e # o /\ NodeOf(u, e) = NodeOf(t, e)
        BY <2>8, <2>9, <3>3
      <4>2. Says(NodeOf(t, e), e, i, W, D, 0, 0)
        BY DEF Shape, d
      <4>3. \A y \in Positions : W1[i][y] = e <=> W[i][y] = e
        <5>1. CASE i = l
          BY <2>6, <4>1, <5>1
        <5>2. CASE i # l
          BY <2>6, <5>2
        <5> QED
          BY <5>1, <5>2
      <4>4. \A y \in Positions : W[i][y] = e => Val(W1, D, 0, 0, i, y) = Val(W, D, 0, 0, i, y)
        <5>1. CASE i = l + 1
          <6>1. W[l + 1][p] = P /\ W[l + 1][q] = P
            BY DEF P, Adjacent
          <6> QED
            BY <2>7, <3>3, <4>1, <5>1, <6>1
        <5>2. CASE i # l + 1
          BY <2>7, <5>2
        <5> QED
          BY <5>1, <5>2
      <4> HIDE DEF e
      <4>5. Says(NodeOf(u, e), e, i, W1, D, 0, 0)
        BY <4>1, <4>2, <4>3, <4>4 DEF Says
      <4> QED
        BY <4>1, <4>5
    <3> QED
      BY <3>1, <3>2, <3>3
  <2>13. Shape(u, W1, D, 0, 0)
    BY <2>4, <2>5, <2>10, <2>11, <2>12 DEF Shape
  <2> QED
    BY <2>4, <2>6, <2>13
<1>12. CASE CanAbsorb(ns, no)
  <2>1. r = [t |-> u, merged |-> TRUE]
    BY <1>9, <1>12
  <2> HIDE DEF u, W1, ns, no, r
  <2>2. r.t = u /\ r.merged = TRUE
    BY <2>1
  <2>3. Merged(r, t, W, D, l)
    BY <1>11, <1>12, <2>2 DEF Merged, d
  <2> QED
    BY <2>3 DEF r
<1> QED
  BY <1>10, <1>12

-----------------------------------------------------------------------------
(* The collapse of the root.                                               *)

\* The root loses a level: the only node below it takes its address.
Lowered(W, W1, d) ==
  /\ \A i \in 0..(d - 2) : W1[i] = W[i]
  /\ \A j \in Positions : W1[d - 1][j] = Root

LoweredVal(W1, W, d) ==
  \A D, i, j : i \in 0..(d - 1) /\ j \in Positions => Val(W1, D, 0, 0, i, j) = Val(W, D, 0, 0, i, j)

\* Without the top level the parts are still nested and without gaps.
LEMMA LoweredOK ==
  ASSUME NEW d \in Nat, d > 0, NEW W, NEW W1, Lowered(W, W1, d), Nested(d, W), Convex(d, W)
  PROVE  Nested(d - 1, W1) /\ Convex(d - 1, W1) /\ LoweredVal(W1, W, d)
<1>1. /\ \A i \in 0..(d - 1) : i \in 0..(d - 2) \/ i = d - 1
      /\ \A i \in 0..(d - 2) : i \in 0..d /\ i # d - 1
      /\ \A i \in 1..(d - 1) : i \in 1..d /\ i - 1 \in 0..(d - 2) /\ (i \in 0..(d - 2) \/ i = d - 1)
      /\ \A i \in 0..(d - 1) : i # 0 => i - 1 \in 0..(d - 2)
  OBVIOUS
<1>2. /\ \A i \in 0..(d - 2) : W1[i] = W[i]
      /\ \A j \in Positions : W1[d - 1][j] = Root
  BY DEF Lowered
<1>3. Nested(d - 1, W1)
  <2> SUFFICES ASSUME NEW l \in 1..(d - 1), NEW j \in Positions, NEW k \in Positions,
                      W1[l - 1][j] = W1[l - 1][k]
               PROVE  W1[l][j] = W1[l][k]
    BY DEF Nested
  <2>1. l \in 1..d /\ W1[l - 1] = W[l - 1] /\ (l \in 0..(d - 2) \/ l = d - 1)
    BY <1>1, <1>2
  <2>2. W[l][j] = W[l][k]
    BY <2>1 DEF Nested
  <2>3. CASE l = d - 1
    BY <1>2, <2>3
  <2>4. CASE l \in 0..(d - 2)
    BY <1>2, <2>2, <2>4
  <2> QED
    BY <2>1, <2>3, <2>4
<1>4. Convex(d - 1, W1)
  <2> SUFFICES ASSUME NEW l \in 0..(d - 1), NEW i \in Positions, NEW j \in Positions, NEW k \in Positions,
                      i <= j, j <= k, W1[l][i] = W1[l][k]
               PROVE  W1[l][j] = W1[l][i]
    BY DEF Convex
  <2>1. CASE l = d - 1
    BY <1>2, <2>1
  <2>2. CASE l \in 0..(d - 2)
    BY <1>1, <1>2, <2>2 DEF Convex
  <2> QED
    BY <1>1, <2>1, <2>2
<1>5. LoweredVal(W1, W, d)
  <2> SUFFICES ASSUME NEW D, NEW i \in 0..(d - 1), NEW j \in Positions
               PROVE  Val(W1, D, 0, 0, i, j) = Val(W, D, 0, 0, i, j)
    BY DEF LoweredVal
  <2>1. CASE i = 0
    BY <2>1 DEF Val
  <2>2. CASE i # 0
    <3>1. W1[i - 1] = W[i - 1]
      BY <1>1, <1>2, <2>2
    <3> QED
      BY <2>2, <3>1 DEF Val, Starts
  <2> QED
    BY <2>1, <2>2
<1> QED
  BY <1>3, <1>4, <1>5

\* A root with one entry leads everywhere to the same node.
LEMMA OnlyChild ==
  ASSUME NEW t, NEW W, NEW D, Shape(t, W, D, 0, 0), t.depth > 0, t.root.count = 1
  PROVE  \A j \in Positions : W[t.depth - 1][j] = Entries(t.root)[1][2]
<1> DEFINE d == t.depth
           n == NodeOf(t, W[d][0])
<1>1. /\ d \in Nat /\ d > 0 /\ d \in 1..d /\ d \in 0..d /\ d - 1 \in 0..d /\ d - 1 < d
      /\ Convex(d, W) /\ 0 \in Positions /\ Positions \subseteq Nat
  <2>1. d \in Nat
    BY ShapeIs
  <2>2. Convex(d, W)
    BY DEF Shape
  <2> QED
    BY <2>1, <2>2, PosIs
<1>2. \A j \in Positions : W[d][j] = Root
  BY DEF Shape, Ways
<1>3. n = t.root
  BY <1>1, <1>2 DEF NodeOf
<1>4. /\ NodeOK(n) /\ Clean(n)
      /\ \A j \in Positions : Content(n, j) = IF W[d][j] = W[d][0] THEN Val(W, D, 0, 0, d, j) ELSE Dead
  BY <1>1, ShapeIs
<1>5. \A j \in Positions : W[d - 1][j] # Dead
  BY <1>1, ShapeIs
<1>6. \A j \in Starts(W, d) : j \in Positions /\ Content(n, j) = W[d - 1][j] /\ Content(n, j) # Dead
  BY <1>1, <1>2, <1>4, <1>5 DEF Val, Starts
<1> HIDE DEF n
<1>7. DOMAIN Entries(n) = {1}
  <2>1. n.count = Len(Entries(n)) /\ n.count = 1
    BY <1>3, <1>4 DEF Clean
  <2>2. DOMAIN Entries(n) = 1..Len(Entries(n))
    BY <1>4, NodeFields
  <2>3. 1..1 = {1}
    OBVIOUS
  <2> QED
    BY <2>1, <2>2, <2>3
<1>8. \A j : Content(n, j) # Dead => Entries(n)[1][1] = j /\ Entries(n)[1][2] = Content(n, j)
  BY <1>4, <1>7, CleanIs
<1>9. \A j \in Starts(W, d) : W[d - 1][j] = Entries(n)[1][2]
  BY <1>6, <1>8
<1>10. \A j \in Positions : \E p \in Starts(W, d) : W[d - 1][p] = W[d - 1][j]
  BY <1>1, StartOf
<1> QED
  BY <1>3, <1>9, <1>10

\* The fields of a tree whose only child became the root.
LEMMA LoweredIs ==
  ASSUME NEW t \in TreeSet, NEW a \in DOMAIN t.cache, t.depth > 0
  PROVE  LET u == [Dropped(t, a) EXCEPT !.root = t.cache[a], !.depth = @ - 1]
         IN /\ u \in TreeSet /\ u.root = t.cache[a] /\ u.depth = t.depth - 1 /\ u.next = t.next
            /\ u.loaded = t.loaded /\ u.shared = t.shared
            /\ DOMAIN u.cache = DOMAIN t.cache \ {a}
            /\ \A b \in DOMAIN u.cache : u.cache[b] = t.cache[b]
<1> DEFINE v == Dropped(t, a)
           u == [v EXCEPT !.root = t.cache[a], !.depth = @ - 1]
<1>1. /\ v \in TreeSet /\ v.root = t.root /\ v.depth = t.depth /\ v.next = t.next
      /\ v.loaded = t.loaded /\ v.shared = t.shared
      /\ DOMAIN v.cache = DOMAIN t.cache \ {a}
      /\ \A b \in DOMAIN t.cache : b # a => v.cache[b] = t.cache[b]
  BY DroppedIs
<1> HIDE DEF v
<1>2. t.cache[a] \in NodeSet
  BY DEF TreeSet
<1>3. v.depth - 1 \in Nat
  BY <1>1 DEF TreeSet
<1>4. u \in TreeSet /\ u.root = t.cache[a] /\ u.depth = v.depth - 1 /\ u.next = v.next
      /\ u.loaded = v.loaded /\ u.shared = v.shared /\ u.cache = v.cache
  BY <1>1, <1>2, <1>3 DEF TreeSet
<1> HIDE DEF u
<1>5. /\ u \in TreeSet /\ u.root = t.cache[a] /\ u.depth = t.depth - 1 /\ u.next = t.next
      /\ u.loaded = t.loaded /\ u.shared = t.shared
      /\ DOMAIN u.cache = DOMAIN t.cache \ {a}
      /\ \A b \in DOMAIN u.cache : u.cache[b] = t.cache[b]
  BY <1>1, <1>4
<1> QED
  BY <1>5 DEF u, v

\* What a call may leave of a tree that has the shape of W.
Kept(t, u, D) ==
  /\ u.loaded = t.loaded /\ u.shared = t.shared /\ \E W1 : Shape(u, W1, D, 0, 0)

\* One step of collapse_root.
LEMMA CollapseOnceOK ==
  ASSUME NEW t, NEW W, NEW D, Shape(t, W, D, 0, 0)
  PROVE  Kept(t, CollapseOnce(t), D)
<1> DEFINE d == t.depth
           a == Entries(t.root)[1][2]
           u == [Dropped(t, a) EXCEPT !.root = t.cache[a], !.depth = @ - 1]
           W1 == [i \in 0..(d - 1) |-> IF i = d - 1 THEN [j \in Positions |-> Root] ELSE W[i]]
<1>1. CASE d = 0 \/ t.root.count # 1
  <2>1. CollapseOnce(t) = t
    BY <1>1 DEF CollapseOnce
  <2> QED
    BY <2>1 DEF Kept
<1>2. CASE d # 0 /\ t.root.count = 1
  <2>1. CollapseOnce(t) = u
    BY <1>2 DEF CollapseOnce
  <2>2. /\ d \in Nat /\ d > 0 /\ t \in TreeSet /\ t.next \in Nat /\ t.next > 0
        /\ Root \notin DOMAIN t.cache /\ 0 \in Positions
        /\ d - 1 \in 0..(d - 1) /\ d - 1 \in 0..d /\ d - 1 < d
        /\ \A i \in 0..(d - 2) : i \in 0..(d - 1) /\ i # d - 1 /\ i \in 0..d /\ i < d
        /\ \A i \in 0..(d - 1) : i \in 0..d /\ (i \in 0..(d - 2) \/ i = d - 1)
    <3>1. d \in Nat /\ t \in TreeSet /\ t.next \in Nat /\ t.next > 0 /\ Root \notin DOMAIN t.cache
      BY ShapeIs
    <3> HIDE DEF d
    <3>2. d > 0
      BY <1>2, <3>1
    <3> QED
      BY <3>1, <3>2, PosIs
  <2>3. \A j \in Positions : W[d - 1][j] = a
    BY <1>2, <2>2, OnlyChild
  <2>4. \A i \in 0..d, j \in Positions :
          /\ i < d => W[i][j] \in DOMAIN t.cache
          /\ W[i][j] = a => i = d - 1
    <3>1. W[d - 1][0] = a
      BY <2>2, <2>3
    <3> HIDE DEF d, a
    <3>2. \A i \in 0..d, j \in Positions :
            /\ i < d => W[i][j] \in DOMAIN t.cache
            /\ \A e \in 0..d, k \in Positions : W[e][k] = W[i][j] => e = i
      BY AddressIs DEF d
    <3> QED
      BY <2>2, <3>1, <3>2
  <2>5. a \in DOMAIN t.cache
    BY <2>2, <2>3, <2>4
  <2> HIDE DEF a
  <2>6. /\ u \in TreeSet /\ u.root = t.cache[a] /\ u.depth = d - 1 /\ u.next = t.next
        /\ u.loaded = t.loaded /\ u.shared = t.shared
        /\ DOMAIN u.cache = DOMAIN t.cache \ {a}
        /\ \A b \in DOMAIN u.cache : u.cache[b] = t.cache[b]
    BY <2>2, <2>5, LoweredIs
  <2>7. Lowered(W, W1, d)
    BY <2>2 DEF Lowered
  <2> HIDE DEF u, W1, d
  <2>8. Nested(d - 1, W1) /\ Convex(d - 1, W1) /\ LoweredVal(W1, W, d)
    <3>1. Nested(d, W) /\ Convex(d, W)
      BY DEF Shape, d
    <3> QED
      BY <2>2, <2>7, <3>1, LoweredOK
  <2>9. /\ \A i \in 0..(d - 2) : W1[i] = W[i]
        /\ \A j \in Positions : W1[d - 1][j] = Root
    BY <2>7 DEF Lowered
  <2>10. NodeOf(u, Root) = NodeOf(t, a) /\ \A b \in DOMAIN u.cache : NodeOf(u, b) = NodeOf(t, b)
    <3>1. \A b \in DOMAIN t.cache : b # Root
      BY <2>2
    <3> QED
      BY <2>5, <2>6, <3>1 DEF NodeOf
  <2>11. TreeOK(u)
    <3>1. \A e \in DOMAIN t.cache : 0 < e /\ e < t.next /\ NodeOK(t.cache[e])
      BY DEF Shape, TreeOK
    <3>2. \A e \in DOMAIN u.cache : 0 < e /\ e < u.next /\ NodeOK(u.cache[e])
      BY <2>6, <3>1
    <3>3. NodeOK(u.root) /\ u.next > 0
      BY <2>2, <2>5, <2>6, <3>1
    <3> QED
      BY <2>6, <3>2, <3>3 DEF TreeOK
  <2>12. \A i \in 0..(d - 2), j \in Positions :
           W1[i][j] = W[i][j] /\ W[i][j] \in DOMAIN u.cache /\ W[i][j] # Root
    <3>1. \A i \in 0..(d - 2), j \in Positions : W[i][j] \in DOMAIN t.cache /\ W[i][j] # a
      BY <2>2, <2>4
    <3> QED
      BY <2>2, <2>6, <2>9, <3>1
  <2>13. \A j \in Positions : NodeOf(u, W1[d - 1][j]) = NodeOf(t, W[d - 1][j])
    BY <2>3, <2>9, <2>10
  <2>14. Ways(u, W1)
    <3>1. \A i \in 0..(d - 1), j \in Positions : NodeOf(t, W[i][j]).level = i
      BY <2>2 DEF Shape, Ways, d
    <3>2. \A i \in 0..(d - 1), j \in Positions : NodeOf(u, W1[i][j]).level = i
      BY <2>2, <2>10, <2>12, <2>13, <3>1
    <3>3. \A e \in DOMAIN u.cache : \E i \in 0..(d - 2), j \in Positions : W1[i][j] = e
      <4> SUFFICES ASSUME NEW e \in DOMAIN u.cache PROVE \E i \in 0..(d - 2), j \in Positions : W1[i][j] = e
        OBVIOUS
      <4>1. e \in DOMAIN t.cache /\ e # a
        BY <2>6
      <4>2. PICK i \in 0..(d - 1), j \in Positions : W[i][j] = e
        BY <4>1 DEF Shape, Ways, d
      <4>3. i \in 0..(d - 2)
        BY <2>2, <2>3, <4>1, <4>2
      <4> QED
        BY <2>12, <4>2, <4>3
    <3>4. (d - 1) - 1 = d - 2
      BY <2>2
    <3>5. \A i \in 0..(d - 2), j \in Positions : W1[i][j] \in DOMAIN u.cache
      BY <2>12
    <3> QED
      BY <2>6, <2>9, <3>2, <3>3, <3>4, <3>5 DEF Ways
  <2>15. ASSUME NEW i \in 0..(d - 1), NEW j \in Positions
         PROVE  Says(NodeOf(u, W1[i][j]), W1[i][j], i, W1, D, 0, 0)
    <3>1. Says(NodeOf(t, W[i][j]), W[i][j], i, W, D, 0, 0)
      BY <2>2 DEF Shape, d
    <3>2. \A y \in Positions : Val(W1, D, 0, 0, i, y) = Val(W, D, 0, 0, i, y)
      BY <2>8 DEF LoweredVal
    <3>3. NodeOf(u, W1[i][j]) = NodeOf(t, W[i][j])
      BY <2>2, <2>10, <2>12, <2>13
    <3>4. \A y \in Positions : W1[i][y] = W1[i][j] <=> W[i][y] = W[i][j]
      BY <2>2, <2>3, <2>9
    <3> QED
      BY <3>1, <3>2, <3>3, <3>4 DEF Says
  <2>16. Shape(u, W1, D, 0, 0)
    <3>1. D \in [Positions -> Nat]
      BY DEF Shape
    <3> QED
      BY <2>6, <2>8, <2>11, <2>14, <2>15, <3>1 DEF Shape
  <2> QED
    BY <2>1, <2>6, <2>16 DEF Kept
<1> QED
  BY <1>1, <1>2

\* What a collapsing tree keeps.
LEMMA KeptIs ==
  ASSUME NEW t, NEW D, NEW v, Kept(t, v, D)
  PROVE  /\ v \in TreeSet /\ v.loaded = t.loaded /\ v.shared = t.shared
         /\ \E W1 : Shape(v, W1, D, 0, 0)
<1>1. PICK W1 : Shape(v, W1, D, 0, 0)
  BY DEF Kept
<1>2. v \in TreeSet
  BY <1>1, ShapeIs
<1> QED
  BY <1>1, <1>2 DEF Kept

\* collapse_root.
LEMMA CollapseOK ==
  ASSUME NEW t, NEW W, NEW D, Shape(t, W, D, 0, 0)
  PROVE  Kept(t, Collapse(t), D)
<1> DEFINE n == t.depth
           S == {v \in TreeSet : Kept(t, v, D)}
           P == [i \in 0..n |-> S]
           G == [p \in (1..n) \X TreeSet |-> CollapseOnce(p[2])]
           Eq(f) == f = [i \in 0..n |-> IF i = 0 THEN t ELSE CollapseOnce(f[i - 1])]
           c == CHOOSE f : Eq(f)
<1>1. n \in Nat /\ t \in TreeSet
  BY ShapeIs
<1>2. Collapse(t) = c[n]
  BY DEF Collapse
<1> HIDE DEF c, n
<1>3. \A v \in S : CollapseOnce(v) \in S
  <2> SUFFICES ASSUME NEW v \in S PROVE CollapseOnce(v) \in S
    OBVIOUS
  <2>1. PICK W1 : Shape(v, W1, D, 0, 0)
    BY DEF Kept
  <2>2. Kept(v, CollapseOnce(v), D)
    BY <2>1, CollapseOnceOK
  <2>3. Kept(t, CollapseOnce(v), D) /\ CollapseOnce(v) \in TreeSet
    BY <2>2, KeptIs DEF Kept
  <2> QED
    BY <2>3
<1>4. t \in S
  BY <1>1 DEF Kept
<1>5. \A i \in 1..n : i - 1 \in 0..n /\ i \in 0..n /\ i # 0
  BY <1>1
<1>6. 0 \in 0..n /\ n \in 0..n
  BY <1>1
<1>7. \A i \in 0..n : P[i] = S
  OBVIOUS
<1>8. \A i \in 1..n : \A v \in S : G[<<i, v>>] = CollapseOnce(v)
  OBVIOUS
<1> HIDE DEF S, G, P
<1>9. t \in P[0] /\ \A i \in 1..n : \A v \in P[i - 1] : G[<<i, v>>] \in P[i]
  BY <1>3, <1>4, <1>5, <1>6, <1>7, <1>8
<1>10. PICK f : Stepping(f, n, t, G) /\ \A i \in 0..n : f[i] \in P[i]
  BY <1>1, <1>9, StepsExist
<1>11. Eq(f)
  <2>1. \A i \in 0..n : i # 0 => f[i - 1] \in S /\ i \in 1..n
    BY <1>1, <1>5, <1>7, <1>10
  <2>2. \A i \in 0..n : i # 0 => G[<<i, f[i - 1]>>] = CollapseOnce(f[i - 1])
    BY <1>8, <2>1
  <2> QED
    BY <1>10, <2>2 DEF Stepping
<1>12. Eq(c)
  BY <1>11 DEF c
<1>13. \A i \in 0..n : c[i] \in P[i]
  <2>1. c[0] \in P[0]
    BY <1>6, <1>9, <1>12
  <2>2. ASSUME NEW i \in 1..n, c[i - 1] \in P[i - 1] PROVE c[i] \in P[i]
    <3>1. c[i] = CollapseOnce(c[i - 1])
      BY <1>5, <1>12
    <3> QED
      BY <1>3, <1>5, <1>7, <2>2, <3>1
  <2> QED
    BY <1>1, <2>1, <2>2, StaysIn
<1>14. c[n] \in S
  BY <1>6, <1>7, <1>13
<1> QED
  BY <1>2, <1>14 DEF S

-----------------------------------------------------------------------------
(* A node that takes an entry.                                             *)

\* With the entry e the node n, at level l for the position k, is as D1 wants it.
Receives(t, W, D, m, x, l, k, D1, n, e) ==
  /\ NodeOK(n) /\ n.level = l /\ e \in Pairs /\ e[2] # Dead
  /\ l > 0 => Clean(n) /\ Content(n, e[1]) = Dead
  /\ \A j \in Positions : (IF j = e[1] THEN e[2] ELSE Content(n, j)) =
                            IF W[l][j] = W[l][k] THEN Val(W, D1, 0, 0, l, j) ELSE Dead
  /\ Frame(t.depth, W, W[l][k], D1, 0, 0, D, m, x)

\* A node that says the same can take the entry as well.
LEMMA ReceivesSame ==
  ASSUME NEW t, NEW W, NEW D, NEW m, NEW x, NEW l, NEW k, NEW D1, NEW n, NEW e,
         Receives(t, W, D, m, x, l, k, D1, n, e),
         NEW n2, NodeOK(n2), n2.level = n.level, Clean(n) => Clean(n2),
         \A j : Content(n2, j) = Content(n, j)
  PROVE  Receives(t, W, D, m, x, l, k, D1, n2, e)
  BY DEF Receives

\* The node with its entry, in its place.
LEMMA ReceivesPut ==
  ASSUME NEW t, NEW W, NEW D, NEW m, NEW x, Shape(t, W, D, m, x),
         NEW l \in 0..t.depth, NEW k \in Positions, NEW D1 \in [Positions -> Nat], NEW n, NEW e,
         Receives(t, W, D, m, x, l, k, D1, n, e), Insert1(n, e).ok
  PROVE  LET u == Put(t, W[l][k], Insert1(n, e).node)
         IN /\ Shape(u, W, D1, 0, 0)
            /\ u.depth = t.depth /\ u.next = t.next /\ DOMAIN u.cache = DOMAIN t.cache
            /\ u.loaded = t.loaded /\ u.shared = t.shared
<1> DEFINE n1 == Insert1(n, e).node
<1>1. /\ NodeOK(n) /\ n.level = l /\ e \in Pairs /\ e[2] # Dead
      /\ l > 0 => Clean(n) /\ Content(n, e[1]) = Dead
      /\ \A j \in Positions : (IF j = e[1] THEN e[2] ELSE Content(n, j)) =
                                IF W[l][j] = W[l][k] THEN Val(W, D1, 0, 0, l, j) ELSE Dead
      /\ Frame(t.depth, W, W[l][k], D1, 0, 0, D, m, x)
  BY DEF Receives
<1>2. /\ NodeOK(n1) /\ n1.level = l
      /\ \A j : Content(n1, j) = IF e[1] = j THEN e[2] ELSE Content(n, j)
  BY <1>1, InsertOK
<1>3. l > 0 => Clean(n1)
  BY <1>1, InsertClean
<1> HIDE DEF n1
<1>4. Says(n1, W[l][k], l, W, D1, 0, 0)
  BY <1>1, <1>2, <1>3 DEF Says
<1>5. LET u == Put(t, W[l][k], n1)
      IN /\ Shape(u, W, D1, 0, 0)
         /\ u.depth = t.depth /\ u.next = t.next /\ DOMAIN u.cache = DOMAIN t.cache
         /\ u.loaded = t.loaded /\ u.shared = t.shared
  <2>1. NodeOK(n1) /\ n1.level = l /\ Frame(t.depth, W, W[l][k], D1, 0, 0, D, m, x)
    BY <1>1, <1>2
  <2>2. ASSUME NEW z, Says(n1, W[l][k], l, W, D1, z, z), Frame(t.depth, W, W[l][k], D1, z, z, D, m, x)
        PROVE  LET u == Put(t, W[l][k], n1)
               IN /\ Shape(u, W, D1, z, z)
                  /\ u.depth = t.depth /\ u.next = t.next /\ DOMAIN u.cache = DOMAIN t.cache
                  /\ u.loaded = t.loaded /\ u.shared = t.shared
    BY <2>1, <2>2, PutShape
  <2> QED
    BY <1>4, <2>1, <2>2
<1> QED
  BY <1>5 DEF n1

\* The node that is split to take its entry.
LEMMA ReceivesSplit ==
  ASSUME NEW t, NEW W, NEW D, NEW m, NEW x,
         NEW l, NEW k \in Positions, NEW D1 \in [Positions -> Nat], NEW n, NEW e,
         Receives(t, W, D, m, x, l, k, D1, n, e), CanSplit(n)
  PROVE  \E c : Splits(t, W, D, m, x, l, k, D1, Halves(n, e), c)
<1> DEFINE h == Halves(n, e)
           c == [j \in Positions |-> IF j = e[1] THEN e[2] ELSE Content(n, j)]
<1>1. /\ NodeOK(n) /\ n.level = l /\ e \in Pairs /\ e[2] # Dead
      /\ l > 0 => Clean(n) /\ Content(n, e[1]) = Dead
      /\ \A j \in Positions : (IF j = e[1] THEN e[2] ELSE Content(n, j)) =
                                IF W[l][j] = W[l][k] THEN Val(W, D1, 0, 0, l, j) ELSE Dead
      /\ Frame(t.depth, W, W[l][k], D1, 0, 0, D, m, x)
  BY DEF Receives
<1>2. /\ HalvesOf(h, l, c)
      /\ e[2] # Dead /\ Content(n, e[1]) = Dead => Clean(h.left) /\ Clean(h.right)
      /\ Content(n, h.median) # Dead
      /\ \E j \in Positions : j < h.median /\ Content(n, j) # Dead
  BY <1>1, HalvesOK
<1>3. \A j \in Positions : /\ c[j] = IF j = e[1] THEN e[2] ELSE Content(n, j)
                           /\ Content(n, j) # Dead => c[j] # Dead
  BY <1>1
<1> HIDE DEF h, c
<1>4. h.median \in Positions
  BY <1>2 DEF HalvesOf
<1>5. l > 0 => Clean(h.left) /\ Clean(h.right)
  BY <1>1, <1>2
<1>6. c[h.median] # Dead /\ \E j \in Positions : j < h.median /\ c[j] # Dead
  BY <1>2, <1>3, <1>4
<1>7. Splits(t, W, D, m, x, l, k, D1, h, c)
  BY <1>1, <1>2, <1>3, <1>5, <1>6 DEF Splits, Frame
<1> QED
  BY <1>7 DEF h

\* A node in another form, with the same entries.
LEMMA SameShape ==
  ASSUME NEW t, NEW W, NEW D, NEW m, NEW x, Shape(t, W, D, m, x),
         NEW l \in 0..t.depth, NEW k \in Positions, NEW n, NodeOK(n), n.level = l, l > 0 => Clean(n),
         \A j : Content(n, j) = Content(NodeOf(t, W[l][k]), j)
  PROVE  LET u == Put(t, W[l][k], n)
         IN /\ Shape(u, W, D, m, x)
            /\ u.depth = t.depth /\ u.next = t.next /\ DOMAIN u.cache = DOMAIN t.cache
            /\ u.loaded = t.loaded /\ u.shared = t.shared
<1>1. Says(NodeOf(t, W[l][k]), W[l][k], l, W, D, m, x) /\ D \in [Positions -> Nat]
  BY DEF Shape
<1>2. Says(n, W[l][k], l, W, D, m, x)
  BY <1>1 DEF Says
<1>3. Frame(t.depth, W, W[l][k], D, m, x, D, m, x)
  BY DEF Frame
<1> QED
  BY <1>1, <1>2, <1>3, PutShape

\* What loaded and shared are does not matter to the shape.
LEMMA FlagsShape ==
  ASSUME NEW t, NEW W, NEW D, NEW m, NEW x, Shape(t, W, D, m, x),
         NEW u \in TreeSet, u.root = t.root, u.depth = t.depth, u.cache = t.cache, u.next = t.next
  PROVE  Shape(u, W, D, m, x)
<1>1. \A a : NodeOf(u, a) = NodeOf(t, a)
  BY DEF NodeOf
<1>2. TreeOK(u)
  BY DEF Shape, TreeOK
<1>3. Ways(u, W)
  BY <1>1 DEF Shape, Ways
<1>4. \A l \in 0..u.depth, k \in Positions : Says(NodeOf(u, W[l][k]), W[l][k], l, W, D, m, x)
  BY <1>1 DEF Shape
<1> QED
  BY <1>2, <1>3, <1>4 DEF Shape

-----------------------------------------------------------------------------
(* The routing entry of a node that was split.                             *)

Records == [t : TreeSet, route : Pairs, done : BOOLEAN]

\* The node that begins at x, one level below l, has no routing entry yet.
Waits(r, W, D, l, x) ==
  /\ Shape(r.t, W, D, l, x) /\ l \in 1..r.t.depth /\ x \in Starts(W, l)
  /\ r.route = <<x, W[l - 1][x]>> /\ r.done = FALSE

\* A routing entry that waits for level l is one its node can take.
LEMMA WaitsReceives ==
  ASSUME NEW r, NEW W, NEW D, NEW l, NEW x, Waits(r, W, D, l, x)
  PROVE  Receives(r.t, W, D, l, x, l, x, D, NodeOf(r.t, W[l][x]), r.route)
<1> DEFINE t == r.t
           n == NodeOf(t, W[l][x])
           e == r.route
<1>1. /\ Shape(t, W, D, l, x) /\ l \in 1..t.depth /\ x \in Starts(W, l)
      /\ e = <<x, W[l - 1][x]>>
  BY DEF Waits
<1>2. t.depth \in Nat
  BY <1>1, ShapeIs
<1>3. l \in 0..t.depth /\ l > 0 /\ l # 0 /\ l - 1 \in 0..t.depth /\ l - 1 < t.depth /\ x \in Positions
  BY <1>1, <1>2 DEF Starts
<1>4. /\ NodeOK(n) /\ n.level = l /\ Clean(n)
      /\ \A j \in Positions : Content(n, j) = IF W[l][j] = W[l][x] THEN Val(W, D, l, x, l, j) ELSE Dead
  BY <1>1, <1>3, ShapeIs
<1>5. e \in Pairs /\ e[1] = x /\ e[2] = W[l - 1][x] /\ e[2] # Dead
  <2>1. W[l - 1][x] \in Nat /\ W[l - 1][x] # Dead
    BY <1>1, <1>3, ShapeIs
  <2> QED
    BY <1>1, <1>3, <2>1 DEF Pairs
<1> HIDE DEF n, e
<1>6. \A j : Val(W, D, l, x, l, j) = IF j \in Starts(W, l) /\ j # x THEN W[l - 1][j] ELSE Dead
  BY <1>3 DEF Val
<1>7. \A j : Val(W, D, 0, 0, l, j) = IF j \in Starts(W, l) THEN W[l - 1][j] ELSE Dead
  BY <1>3 DEF Val
<1>8. Content(n, e[1]) = Dead
  BY <1>3, <1>4, <1>5, <1>6
<1>9. ASSUME NEW j \in Positions
      PROVE  (IF j = e[1] THEN e[2] ELSE Content(n, j)) =
               IF W[l][j] = W[l][x] THEN Val(W, D, 0, 0, l, j) ELSE Dead
  BY <1>1, <1>4, <1>5, <1>6, <1>7
<1>10. Frame(t.depth, W, W[l][x], D, 0, 0, D, l, x)
  <2> SUFFICES ASSUME NEW i \in 0..t.depth, NEW j \in Positions, W[i][j] # W[l][x]
               PROVE  Val(W, D, 0, 0, i, j) = Val(W, D, l, x, i, j)
    BY DEF Frame
  <2>1. ~(i = l /\ j = x)
    OBVIOUS
  <2>2. i # 0 => ~(i = 0)
    OBVIOUS
  <2> QED
    BY <2>1 DEF Val
<1> HIDE DEF t
<1>11. Receives(t, W, D, l, x, l, x, D, n, e)
  BY <1>4, <1>5, <1>8, <1>9, <1>10 DEF Receives
<1> QED
  BY <1>11 DEF n, e, t

Stepped(q, r, W, D, l, x) ==
  /\ q \in Records
  /\ \/ q.done = TRUE /\ Shape(q.t, W, D, 0, 0)
     \/ \E W1, y : /\ Waits(q, W1, D, l + 1, y) /\ q.t.depth = r.t.depth
                   /\ y \in Positions /\ W[l][y] = W[l][x]
                   /\ \A i \in 0..r.t.depth : i # l => W1[i] = W[i]

\* Without room for the entry in an inner node, the node is split in turn.
LEMMA RouteStepOK ==
  ASSUME NEW r \in Records, NEW W, NEW D, NEW l, NEW x, Waits(r, W, D, l, x), l < r.t.depth
  PROVE  Stepped(RouteStep(r, W[l][x]), r, W, D, l, x)
<1> DEFINE t == r.t
           a == W[l][x]
           e == r.route
           n == t.cache[a]
           i1 == Insert1(n, e)
           c == Compact(i1.node)
           q == RouteStep(r, a)
<1>1. /\ Shape(t, W, D, l, x) /\ l \in 1..t.depth /\ x \in Starts(W, l) /\ r.done = FALSE
      /\ t \in TreeSet /\ e \in Pairs /\ r = [t |-> t, route |-> e, done |-> FALSE]
  BY DEF Waits, Records
<1>2. t.depth \in Nat /\ D \in [Positions -> Nat] /\ x \in Positions
  <2>1. t.depth \in Nat
    BY <1>1, ShapeIs
  <2>2. D \in [Positions -> Nat]
    BY <1>1 DEF Shape
  <2>3. x \in Positions
    BY <1>1 DEF Starts
  <2> QED
    BY <2>1, <2>2, <2>3
<1>3. l \in 0..(t.depth - 1) /\ l \in 0..t.depth /\ l < t.depth /\ l > 0
  BY <1>1, <1>2
<1>4. a \in DOMAIN t.cache /\ a # Root /\ n = NodeOf(t, a)
  <2>1. a \in DOMAIN t.cache /\ a # Root
    BY <1>1, <1>2, <1>3, ShapeIs
  <2> QED
    BY <2>1 DEF NodeOf
<1>5. Receives(t, W, D, l, x, l, x, D, n, e)
  BY <1>4, WaitsReceives
<1>6. NodeOK(n) /\ n.level = l /\ Clean(n)
  BY <1>3, <1>5 DEF Receives
<1>7. q = IF i1.ok THEN [r EXCEPT !.t = Cached(t, a, i1.node), !.done = TRUE]
          ELSE IF HasRoom(c) THEN [r EXCEPT !.t = Cached(t, a, Insert1(c, e).node), !.done = TRUE]
          ELSE SplitChild(t, a, Halves(c, e))
  BY <1>1 DEF RouteStep
<1>8. \A v : Put(t, a, v) = Cached(t, a, v)
  BY <1>4 DEF Put
<1>9. NodeOK(i1.node)
  BY <1>1, <1>6, InsertOK
<1>10. ASSUME ~i1.ok
       PROVE  NodeOK(c) /\ Clean(c) /\ c.inc = <<>> /\ Receives(t, W, D, l, x, l, x, D, c, e)
  <2>1. i1.node.level = n.level /\ \A k : Content(i1.node, k) = Content(n, k)
    BY <1>1, <1>6, <1>10, InsertOK
  <2> HIDE DEF n, i1
  <2>2. /\ NodeOK(c) /\ Clean(c) /\ c.level = n.level /\ c.inc = <<>>
        /\ \A k : Content(c, k) = Content(n, k)
    BY <1>9, <2>1, CompactOK
  <2> HIDE DEF c
  <2> QED
    BY <1>5, <2>2, ReceivesSame
<1>11. ASSUME NEW v, Receives(t, W, D, l, x, l, x, D, v, e), Insert1(v, e).ok,
              q = [r EXCEPT !.t = Cached(t, a, Insert1(v, e).node), !.done = TRUE]
       PROVE  q \in Records /\ q.done = TRUE /\ Shape(q.t, W, D, 0, 0)
  <2> DEFINE u == Put(t, a, Insert1(v, e).node)
  <2>1. Shape(u, W, D, 0, 0)
    BY <1>1, <1>2, <1>3, <1>11, ReceivesPut
  <2>2. u \in TreeSet
    BY <2>1, ShapeIs
  <2> HIDE DEF u, q
  <2>3. q = [t |-> u, route |-> e, done |-> TRUE]
    BY <1>1, <1>8, <1>11 DEF u
  <2> HIDE DEF t, e
  <2>4. q.t = u /\ q.done = TRUE /\ q \in Records
    BY <1>1, <2>2, <2>3 DEF Records
  <2> QED
    BY <2>1, <2>4
<1>12. CASE i1.ok
  <2>1. q = [r EXCEPT !.t = Cached(t, a, Insert1(n, e).node), !.done = TRUE]
    BY <1>7, <1>12
  <2> HIDE DEF q, n
  <2>2. q \in Records /\ q.done = TRUE /\ Shape(q.t, W, D, 0, 0)
    BY <1>5, <1>11, <1>12, <2>1
  <2> QED
    BY <2>2 DEF q, Stepped
<1>13. CASE ~i1.ok /\ HasRoom(c)
  <2>1. q = [r EXCEPT !.t = Cached(t, a, Insert1(c, e).node), !.done = TRUE]
    BY <1>7, <1>13
  <2> HIDE DEF q, i1, c
  <2>2. Insert1(c, e).ok
    BY <1>1, <1>10, <1>13, InsertOK
  <2>3. q \in Records /\ q.done = TRUE /\ Shape(q.t, W, D, 0, 0)
    BY <1>10, <1>11, <1>13, <2>1, <2>2
  <2> QED
    BY <2>3 DEF q, Stepped
<1>14. CASE ~i1.ok /\ ~HasRoom(c)
  <2> DEFINE h == Halves(c, e)
  <2>1. q = SplitChild(t, a, h)
    BY <1>7, <1>14
  <2> HIDE DEF q, i1, c
  <2>2. CanSplit(c)
    BY <1>10, <1>14, FullCanSplit
  <2>3. PICK s : Splits(t, W, D, l, x, l, x, D, h, s)
    BY <1>2, <1>10, <1>14, <2>2, ReceivesSplit
  <2> HIDE DEF h
  <2> DEFINE y == h.median
             u == SplitChild(t, a, h).t
  <2>4. /\ u.depth = t.depth /\ W[l][y] = W[l][x]
        /\ \E W1 : /\ Shape(u, W1, D, l + 1, y) /\ y \in Starts(W1, l + 1)
                   /\ W1[l][y] = t.next /\ \A i \in 0..t.depth : i # l => W1[i] = W[i]
    BY <1>1, <1>2, <1>3, <2>3, SplitShape
  <2>5. q = [t |-> u, route |-> <<y, t.next>>, done |-> FALSE]
    BY <2>1 DEF SplitChild
  <2> HIDE DEF u, y
  <2>6. PICK W1 : /\ Shape(u, W1, D, l + 1, y) /\ y \in Starts(W1, l + 1)
                  /\ W1[l][y] = t.next /\ \A i \in 0..t.depth : i # l => W1[i] = W[i]
    BY <2>4
  <2>7. u \in TreeSet /\ t.next \in Nat /\ y \in Positions
    BY <1>1, <2>6, ShapeIs DEF Starts
  <2>8. q.t = u /\ q.route = <<y, W1[(l + 1) - 1][y]>> /\ q.done = FALSE /\ q \in Records
    <3>1. (l + 1) - 1 = l
      BY <1>3
    <3>2. <<y, t.next>> \in Pairs
      BY <2>7 DEF Pairs
    <3> QED
      BY <2>5, <2>6, <2>7, <3>1, <3>2 DEF Records
  <2>9. l + 1 \in 1..u.depth
    BY <1>2, <1>3, <2>4
  <2>10. Waits(q, W1, D, l + 1, y)
    BY <2>6, <2>8, <2>9 DEF Waits
  <2>11. \E W2, z : /\ Waits(q, W2, D, l + 1, z) /\ q.t.depth = r.t.depth
                    /\ z \in Positions /\ W[l][z] = W[l][x]
                    /\ \A i \in 0..r.t.depth : i # l => W2[i] = W[i]
    BY <2>4, <2>6, <2>7, <2>8, <2>10
  <2> QED
    BY <2>8, <2>11 DEF q, Stepped
<1> QED
  BY <1>12, <1>13, <1>14

-----------------------------------------------------------------------------
(* The root takes an entry.                                                *)

HasShape(t, D) == \E W : Shape(t, W, D, 0, 0)

\* The root takes an entry it has room for.
LEMMA RootPut ==
  ASSUME NEW t, NEW W, NEW D, NEW m, NEW x, Shape(t, W, D, m, x), NEW k \in Positions,
         NEW D1 \in [Positions -> Nat], NEW n, NEW e,
         Receives(t, W, D, m, x, t.depth, k, D1, n, e), Insert1(n, e).ok
  PROVE  HasShape([t EXCEPT !.root = Insert1(n, e).node], D1)
<1> DEFINE v == Insert1(n, e).node
<1>1. t.depth \in Nat /\ t.depth \in 0..t.depth
  BY ShapeIs
<1>2. W[t.depth][k] = Root
  BY DEF Shape, Ways
<1>3. Shape(Put(t, W[t.depth][k], v), W, D1, 0, 0)
  BY <1>1, ReceivesPut
<1>4. Put(t, W[t.depth][k], v) = [t EXCEPT !.root = v]
  BY <1>2 DEF Put
<1> HIDE DEF v
<1>5. HasShape([t EXCEPT !.root = v], D1)
  BY <1>3, <1>4 DEF HasShape
<1> QED
  BY <1>5 DEF v

\* The root is split to take an entry.
LEMMA RootDivides ==
  ASSUME NEW t, NEW W, NEW D, NEW m, NEW x, Shape(t, W, D, m, x),
         NEW D1 \in [Positions -> Nat], NEW n, NEW e,
         Receives(t, W, D, m, x, t.depth, 0, D1, n, e), CanSplit(n), NEW v, NodeOK(v), v.level = t.depth
  PROVE  HasShape(RootSplit([t EXCEPT !.root = v], Halves(n, e)), D1)
<1> DEFINE h == Halves(n, e)
           w == [t EXCEPT !.root = v]
<1>1. 0 \in Positions
  BY PosIs
<1>2. PICK c : Splits(t, W, D, m, x, t.depth, 0, D1, h, c)
  BY <1>1, ReceivesSplit
<1> HIDE DEF h
<1>3. t \in TreeSet
  BY ShapeIs
<1>4. v \in NodeSet
  BY DEF NodeOK
<1>5. /\ w \in TreeSet /\ w.cache = t.cache /\ w.next = t.next /\ w.depth = t.depth
      /\ w.root.level = t.depth
  BY <1>3, <1>4 DEF TreeSet
<1> HIDE DEF w
<1>6. \E W1 : Shape(RootSplit(w, h), W1, D1, 0, 0)
  BY <1>2, <1>5, RootSplitShape
<1> QED
  BY <1>6 DEF HasShape, w, h

\* The root takes the routing entry that nothing below it took.
LEMMA RouteInRootOK ==
  ASSUME NEW r, NEW W, NEW D, NEW x, Waits(r, W, D, r.t.depth, x)
  PROVE  HasShape(RouteInRoot(r.t, r.route), D)
<1> DEFINE t == r.t
           d == t.depth
           e == r.route
           n == t.root
           i1 == Insert1(n, e)
           c == Compact(i1.node)
           i2 == Insert1(c, e)
<1>1. Shape(t, W, D, d, x) /\ x \in Positions
  BY DEF Waits, Starts
<1>2. D \in [Positions -> Nat] /\ d \in Nat /\ d \in 0..d /\ 0 \in Positions
  <2>1. d \in Nat
    BY <1>1, ShapeIs
  <2>2. D \in [Positions -> Nat]
    BY <1>1 DEF Shape
  <2> QED
    BY <2>1, <2>2, PosIs
<1>3. W[d][x] = Root /\ W[d][0] = Root
  BY <1>1, <1>2 DEF Shape, Ways
<1>4. Receives(t, W, D, d, x, d, x, D, n, e)
  <2>1. NodeOf(t, W[d][x]) = n
    BY <1>3 DEF NodeOf
  <2> QED
    BY <2>1, WaitsReceives
<1>5. NodeOK(n) /\ n.level = d /\ e \in Pairs
  BY <1>4 DEF Receives
<1>6. RouteInRoot(t, e) = IF i1.ok THEN [t EXCEPT !.root = i1.node]
                          ELSE IF i2.ok THEN [t EXCEPT !.root = i2.node]
                          ELSE RootSplit([t EXCEPT !.root = i2.node], Halves(i2.node, e))
  BY DEF RouteInRoot
<1> HIDE DEF n, e, t, d
<1>7. NodeOK(i1.node)
  BY <1>5, InsertOK
<1>8. CASE i1.ok
  <2>1. HasShape([t EXCEPT !.root = i1.node], D)
    BY <1>1, <1>2, <1>4, <1>8, RootPut DEF d
  <2> QED
    BY <1>6, <1>8, <2>1 DEF t, e
<1>9. CASE ~i1.ok
  <2>1. i1.node.level = n.level /\ \A k : Content(i1.node, k) = Content(n, k)
    BY <1>5, <1>9, InsertOK
  <2> HIDE DEF i1
  <2>2. /\ NodeOK(c) /\ Clean(c) /\ c.level = n.level /\ c.inc = <<>>
        /\ \A k : Content(c, k) = Content(n, k)
    BY <1>7, <2>1, CompactOK
  <2> HIDE DEF c
  <2>3. Receives(t, W, D, d, x, d, x, D, c, e)
    BY <1>4, <2>2, ReceivesSame
  <2>4. CASE i2.ok
    <3>1. HasShape([t EXCEPT !.root = i2.node], D)
      BY <1>1, <1>2, <2>3, <2>4, RootPut DEF d
    <3> QED
      BY <1>6, <1>9, <2>4, <3>1 DEF t, e
  <2>5. CASE ~i2.ok
    <3>1. /\ NodeOK(i2.node) /\ i2.node.level = c.level
          /\ \A k : Content(i2.node, k) = Content(c, k)
      BY <1>5, <2>2, <2>5, InsertOK
    <3>2. Clean(i2.node) /\ CanSplit(i2.node)
      BY <1>5, <2>2, <2>5, TriedCanSplit
    <3> HIDE DEF i2
    <3>3. Receives(t, W, D, d, x, d, x, D, i2.node, e)
      BY <2>3, <3>1, <3>2, ReceivesSame
    <3>4. Receives(t, W, D, d, x, d, 0, D, i2.node, e)
      BY <1>3, <3>3 DEF Receives
    <3>5. NodeOK(i2.node) /\ i2.node.level = d
      BY <1>5, <2>2, <3>1
    <3> DEFINE w == i2.node
    <3> HIDE DEF w
    <3>6. HasShape(RootSplit([t EXCEPT !.root = w], Halves(w, e)), D)
      <4>1. Receives(t, W, D, d, x, d, 0, D, w, e) /\ CanSplit(w) /\ NodeOK(w) /\ w.level = d
        BY <3>2, <3>4, <3>5 DEF w
      <4>2. ASSUME NEW z, Receives(t, W, D, d, x, d, z, D, w, e), z = 0
            PROVE  HasShape(RootSplit([t EXCEPT !.root = w], Halves(w, e)), D)
        BY <1>1, <1>2, <4>1, RootDivides DEF d
      <4> QED
        BY <4>1, <4>2
    <3>7. HasShape(RootSplit([t EXCEPT !.root = i2.node], Halves(i2.node, e)), D)
      BY <3>6 DEF w
    <3> QED
      BY <1>6, <1>9, <2>5, <3>7 DEF t, e
  <2> QED
    BY <2>4, <2>5
<1> QED
  BY <1>8, <1>9

-----------------------------------------------------------------------------
(* Up the path.                                                            *)

\* After i steps: done, or the entry is still to be put into a node one level up.
Pending(q, W, D, d, k, i) ==
  /\ q \in Records
  /\ \/ q.done = TRUE /\ HasShape(q.t, D)
     \/ \E V, y : /\ Waits(q, V, D, i + 1, y) /\ q.t.depth = d
                  /\ y \in Positions /\ W[i + 1][y] = W[i + 1][k]
                  /\ \A j \in (i + 1)..d : V[j] = W[j]

\* A level of insert_routing_entry_at.
LEMMA PendingStep ==
  ASSUME NEW d \in Nat, NEW W, Nested(d, W), NEW D, NEW k \in Positions, NEW i \in 1..(d - 1),
         NEW q, Pending(q, W, D, d, k, i - 1)
  PROVE  Pending(RouteStep(q, W[i][k]), W, D, d, k, i)
<1> DEFINE p == RouteStep(q, W[i][k])
<1>1. q \in Records
  BY DEF Pending
<1>2. CASE q.done = TRUE /\ HasShape(q.t, D)
  <2>1. p = q
    BY <1>2 DEF RouteStep
  <2> HIDE DEF p
  <2>2. Pending(p, W, D, d, k, i)
    BY <1>1, <1>2, <2>1 DEF Pending
  <2> QED
    BY <2>2 DEF p
<1>3. CASE ~(q.done = TRUE /\ HasShape(q.t, D))
  <2>1. (i - 1) + 1 = i /\ i < d /\ i \in i..d /\ i \in 0..d /\ i + 1 \in 1..d
        /\ (i + 1) - 1 = i /\ \A j \in (i + 1)..d : j \in i..d /\ j # i /\ j \in 0..d
    OBVIOUS
  <2>2. PICK V, y : /\ Waits(q, V, D, i, y) /\ q.t.depth = d
                    /\ y \in Positions /\ W[i][y] = W[i][k]
                    /\ \A j \in i..d : V[j] = W[j]
    <3>1. \E V, y : /\ Waits(q, V, D, (i - 1) + 1, y) /\ q.t.depth = d
                    /\ y \in Positions /\ W[(i - 1) + 1][y] = W[(i - 1) + 1][k]
                    /\ \A j \in ((i - 1) + 1)..d : V[j] = W[j]
      BY <1>3 DEF Pending
    <3> QED
      BY <2>1, <3>1
  <2>3. V[i] = W[i] /\ V[i][y] = W[i][k]
    BY <2>1, <2>2
  <2>4. /\ p \in Records
        /\ \/ p.done = TRUE /\ Shape(p.t, V, D, 0, 0)
           \/ \E W1, z : /\ Waits(p, W1, D, i + 1, z) /\ p.t.depth = d
                         /\ z \in Positions /\ V[i][z] = V[i][y]
                         /\ \A j \in 0..d : j # i => W1[j] = V[j]
    <3>1. i < q.t.depth
      BY <2>1, <2>2
    <3>2. Stepped(RouteStep(q, V[i][y]), q, V, D, i, y)
      BY <1>1, <2>2, <3>1, RouteStepOK
    <3> QED
      BY <2>2, <2>3, <3>2 DEF Stepped
  <2> HIDE DEF p
  <2>5. CASE p.done = TRUE /\ Shape(p.t, V, D, 0, 0)
    <3>1. Pending(p, W, D, d, k, i)
      BY <2>4, <2>5 DEF Pending, HasShape
    <3> QED
      BY <3>1 DEF p
  <2>6. CASE \E W1, z : /\ Waits(p, W1, D, i + 1, z) /\ p.t.depth = d
                        /\ z \in Positions /\ V[i][z] = V[i][y]
                        /\ \A j \in 0..d : j # i => W1[j] = V[j]
    <3>1. PICK W1, z : /\ Waits(p, W1, D, i + 1, z) /\ p.t.depth = d
                       /\ z \in Positions /\ V[i][z] = V[i][y]
                       /\ \A j \in 0..d : j # i => W1[j] = V[j]
      BY <2>6
    <3>2. W[i][z] = W[i][k]
      BY <2>3, <3>1
    <3>3. W[i + 1][z] = W[i + 1][k]
      BY <2>1, <3>1, <3>2 DEF Nested
    <3>4. \A j \in (i + 1)..d : W1[j] = W[j]
      BY <2>1, <2>2, <3>1
    <3>5. Pending(p, W, D, d, k, i)
      BY <2>4, <3>1, <3>3, <3>4 DEF Pending
    <3> QED
      BY <3>5 DEF p
  <2> QED
    BY <2>4, <2>5, <2>6
<1> QED
  BY <1>2, <1>3

\* What waits above the last level goes to the root.
LEMMA PendingEnds ==
  ASSUME NEW d \in Nat, d > 0, NEW W, NEW D, NEW k \in Positions, NEW q, Pending(q, W, D, d, k, d - 1)
  PROVE  HasShape(Routed(q), D)
<1>1. CASE q.done = TRUE /\ HasShape(q.t, D)
  BY <1>1 DEF Routed
<1>2. CASE ~(q.done = TRUE /\ HasShape(q.t, D))
  <2>1. (d - 1) + 1 = d
    OBVIOUS
  <2>2. PICK V, y : Waits(q, V, D, d, y) /\ q.t.depth = d
    <3>1. \E V, y : Waits(q, V, D, (d - 1) + 1, y) /\ q.t.depth = d
      BY <1>2 DEF Pending
    <3> QED
      BY <2>1, <3>1
  <2>3. q.done = FALSE
    BY <2>2 DEF Waits
  <2>4. HasShape(RouteInRoot(q.t, q.route), D)
    BY <2>2, RouteInRootOK
  <2> QED
    BY <2>3, <2>4 DEF Routed
<1> QED
  BY <1>1, <1>2

\* The routing entry of a split leaf, carried up as far as it has to go.
LEMMA InsertRouteOK ==
  ASSUME NEW r, NEW W, NEW D, NEW k \in Positions, NEW d \in Nat, d > 0, r.t.depth = d,
         Nested(d, W), Pending(r, W, D, d, k, 0), NEW path, \A i \in 1..(d - 1) : path[i] = W[i][k]
  PROVE  HasShape(InsertRoute(r, path), D)
<1> DEFINE n == d - 1
           P == [i \in 0..n |-> {q \in Records : Pending(q, W, D, d, k, i)}]
           G == [p \in (1..n) \X Records |-> RouteStep(p[2], path[p[1]])]
           Eq(f) == f = [i \in 0..n |-> IF i = 0 THEN r ELSE RouteStep(f[i - 1], path[i])]
           up == CHOOSE f : Eq(f)
<1>1. n \in Nat /\ r \in Records
  BY DEF Pending
<1>2. InsertRoute(r, path) = Routed(up[n])
  BY DEF InsertRoute
<1>3. \A i \in 1..n : i - 1 \in 0..n /\ i \in 0..n /\ i # 0 /\ i \in 1..(d - 1)
  BY <1>1
<1>4. 0 \in 0..n /\ n \in 0..n /\ \A i \in 0..n : i # 0 => i \in 1..n
  BY <1>1
<1> HIDE DEF up, n
<1>5. \A i \in 1..n, q \in Records : Pending(q, W, D, d, k, i - 1) =>
        Pending(RouteStep(q, path[i]), W, D, d, k, i)
  BY <1>3, PendingStep
<1>6. \A i \in 0..n : \A q : q \in P[i] <=> q \in Records /\ Pending(q, W, D, d, k, i)
  OBVIOUS
<1>7. \A i \in 1..n : \A q \in Records : G[<<i, q>>] = RouteStep(q, path[i])
  OBVIOUS
<1> HIDE DEF G, P
<1>8. \A i \in 1..n : \A q \in P[i - 1] : RouteStep(q, path[i]) \in P[i]
  <2>1. \A i \in 1..n, q \in Records : Pending(q, W, D, d, k, i - 1) => RouteStep(q, path[i]) \in Records
    BY <1>5 DEF Pending
  <2> QED
    BY <1>3, <1>5, <1>6, <2>1
<1>9. r \in P[0] /\ \A i \in 1..n : \A q \in P[i - 1] : G[<<i, q>>] \in P[i]
  BY <1>1, <1>3, <1>4, <1>6, <1>7, <1>8
<1>10. PICK f : Stepping(f, n, r, G) /\ \A i \in 0..n : f[i] \in P[i]
  BY <1>1, <1>9, StepsExist
<1>11. Eq(f)
  <2>1. \A i \in 0..n : i # 0 => f[i - 1] \in Records /\ i \in 1..n
    BY <1>3, <1>4, <1>6, <1>10
  <2>2. \A i \in 0..n : i # 0 => G[<<i, f[i - 1]>>] = RouteStep(f[i - 1], path[i])
    BY <1>7, <2>1
  <2> QED
    BY <1>10, <2>2 DEF Stepping
<1>12. Eq(up)
  BY <1>11 DEF up
<1>13. \A i \in 0..n : up[i] \in P[i]
  <2>1. up[0] \in P[0]
    BY <1>4, <1>9, <1>12
  <2>2. ASSUME NEW i \in 1..n, up[i - 1] \in P[i - 1] PROVE up[i] \in P[i]
    <3>1. up[i] = RouteStep(up[i - 1], path[i])
      BY <1>3, <1>12
    <3> QED
      BY <1>8, <2>2, <3>1
  <2> QED
    BY <1>1, <2>1, <2>2, StaysIn
<1>14. Pending(up[n], W, D, d, k, d - 1)
  BY <1>4, <1>6, <1>13 DEF n
<1>15. HasShape(Routed(up[n]), D)
  BY <1>14, PendingEnds
<1> QED
  BY <1>2, <1>15

-----------------------------------------------------------------------------
(* An insert.                                                              *)

\* The leaf of a position can take an entry of it.
LEMMA LeafReceives ==
  ASSUME NEW t, NEW W, NEW D, Shape(t, W, D, 0, 0), NEW e \in Pairs, e[2] # Dead
  PROVE  Receives(t, W, D, 0, 0, 0, e[1], [D EXCEPT ![e[1]] = e[2]], NodeOf(t, W[0][e[1]]), e)
<1> DEFINE k == e[1]
           D1 == [D EXCEPT ![k] = e[2]]
           n == NodeOf(t, W[0][k])
<1>1. t.depth \in Nat /\ 0 \in 0..t.depth /\ k \in Positions /\ D \in [Positions -> Nat]
  <2>1. t.depth \in Nat
    BY ShapeIs
  <2>2. D \in [Positions -> Nat]
    BY DEF Shape
  <2>3. k \in Positions
    BY DEF Pairs
  <2> QED
    BY <2>1, <2>2, <2>3
<1>2. /\ NodeOK(n) /\ n.level = 0
      /\ \A j \in Positions : Content(n, j) = IF W[0][j] = W[0][k] THEN Val(W, D, 0, 0, 0, j) ELSE Dead
  BY <1>1, ShapeIs
<1>3. \A j \in Positions : D1[j] = IF j = k THEN e[2] ELSE D[j]
  BY <1>1
<1>4. \A V, E, m, x, j : Val(V, E, m, x, 0, j) = E[j]
  BY DEF Val
<1>5. Frame(t.depth, W, W[0][k], D1, 0, 0, D, 0, 0)
  <2> SUFFICES ASSUME NEW i \in 0..t.depth, NEW j \in Positions, W[i][j] # W[0][k]
               PROVE  Val(W, D1, 0, 0, i, j) = Val(W, D, 0, 0, i, j)
    BY DEF Frame
  <2>1. CASE i = 0
    <3>1. j # k
      BY <2>1
    <3>2. Val(W, D1, 0, 0, i, j) = D1[j] /\ Val(W, D, 0, 0, i, j) = D[j]
      BY <2>1 DEF Val
    <3> QED
      BY <1>3, <3>1, <3>2
  <2>2. CASE i # 0
    BY <2>2 DEF Val
  <2> QED
    BY <2>1, <2>2
<1> HIDE DEF n, D1, k
<1>6. \A j \in Positions : (IF j = k THEN e[2] ELSE Content(n, j)) =
                             IF W[0][j] = W[0][k] THEN Val(W, D1, 0, 0, 0, j) ELSE Dead
  BY <1>1, <1>2, <1>3, <1>4
<1>7. Receives(t, W, D, 0, 0, 0, k, D1, n, e)
  BY <1>2, <1>5, <1>6 DEF Receives, k
<1> QED
  BY <1>7 DEF n, D1, k

Taken(r, D, D1) == r.ok \in BOOLEAN /\ HasShape(r.t, IF r.ok THEN D1 ELSE D)

\* insert into a tree that is only a root.
LEMMA InsertRootOK ==
  ASSUME NEW t, NEW W, NEW D, Shape(t, W, D, 0, 0), t.depth = 0, NEW e \in Pairs, e[2] # Dead
  PROVE  Taken(InsertRoot(t, e), D, [D EXCEPT ![e[1]] = e[2]])
<1> DEFINE k == e[1]
           D1 == [D EXCEPT ![k] = e[2]]
           n == t.root
           i1 == Insert1(n, e)
           c == Compact(i1.node)
           z == 0
           r == InsertRoot(t, e)
<1>1. /\ k \in Positions /\ D \in [Positions -> Nat] /\ D1 \in [Positions -> Nat]
      /\ t \in TreeSet /\ t.loaded \in BOOLEAN
  <2>1. t \in TreeSet
    BY ShapeIs
  <2>2. D \in [Positions -> Nat]
    BY DEF Shape
  <2>3. k \in Positions /\ e[2] \in Nat
    BY DEF Pairs
  <2> QED
    BY <2>1, <2>2, <2>3 DEF TreeSet
<1>2. \A j \in Positions : W[0][j] = Root
  BY DEF Shape, Ways
<1>3. Receives(t, W, D, 0, 0, 0, k, D1, n, e)
  <2>1. NodeOf(t, W[0][k]) = n
    BY <1>1, <1>2 DEF NodeOf
  <2> QED
    BY <2>1, LeafReceives
<1>4. r = IF i1.ok THEN [ok |-> TRUE, t |-> [t EXCEPT !.root = i1.node, !.shared = t.loaded]]
          ELSE IF HasRoom(c)
            THEN [ok |-> TRUE, t |-> [t EXCEPT !.root = Insert1(c, e).node, !.shared = t.loaded]]
          ELSE IF CanSplit(c) THEN [ok |-> TRUE, t |-> RootSplit([t EXCEPT !.root = c], Halves(c, e))]
          ELSE [ok |-> FALSE, t |-> [t EXCEPT !.root = c, !.shared = FALSE]]
  BY DEF InsertRoot
<1>5. NodeOK(n) /\ n.level = 0
  BY <1>3 DEF Receives
<1> HIDE DEF D1, k, n
<1>6. Shape(t, W, D, z, z) /\ Receives(t, W, D, z, z, t.depth, k, D1, n, e)
  BY <1>3
<1>7. \A j \in Positions : \A v : Receives(t, W, D, z, z, t.depth, k, D1, v, e) =>
                                  Receives(t, W, D, z, z, t.depth, j, D1, v, e)
  <2>1. \A j \in Positions : W[t.depth][j] = Root
    BY <1>2
  <2> QED
    BY <1>1, <2>1 DEF Receives
<1> HIDE DEF z
<1>8. ASSUME NEW v, Receives(t, W, D, z, z, t.depth, k, D1, v, e), Insert1(v, e).ok,
             r = [ok |-> TRUE, t |-> [t EXCEPT !.root = Insert1(v, e).node, !.shared = t.loaded]]
      PROVE  Taken(r, D, D1)
  <2> DEFINE w == Insert1(v, e).node
             u == [t EXCEPT !.root = w]
             y == [t EXCEPT !.root = w, !.shared = t.loaded]
  <2>1. HasShape(u, D1)
    BY <1>1, <1>6, <1>8, RootPut
  <2> HIDE DEF w
  <2>2. PICK V : Shape(u, V, D1, 0, 0)
    BY <2>1 DEF HasShape
  <2>3. u \in TreeSet
    BY <2>2, ShapeIs
  <2>4. /\ y.root = u.root /\ y.depth = u.depth /\ y.cache = u.cache /\ y.next = u.next
        /\ y \in TreeSet
    BY <1>1, <2>3 DEF TreeSet
  <2> HIDE DEF u, y
  <2>5. Shape(y, V, D1, 0, 0)
    <3>1. \A a : Shape(u, V, D1, a, a) => Shape(y, V, D1, a, a)
      BY <2>4, FlagsShape
    <3> QED
      BY <2>2, <3>1
  <2>6. r = [ok |-> TRUE, t |-> y]
    BY <1>8 DEF y, w
  <2> HIDE DEF r
  <2>7. Taken(r, D, D1)
    BY <2>5, <2>6 DEF Taken, HasShape
  <2> QED
    BY <2>7
<1>9. NodeOK(i1.node)
  BY <1>5, InsertOK
<1>10. CASE i1.ok
  <2> HIDE DEF r
  <2>1. Taken(r, D, D1)
    BY <1>4, <1>6, <1>8, <1>10
  <2> QED
    BY <2>1 DEF r, D1, k
<1>11. CASE ~i1.ok
  <2>1. i1.node.level = n.level /\ \A j : Content(i1.node, j) = Content(n, j)
    BY <1>5, <1>11, InsertOK
  <2>2. r = IF HasRoom(c)
              THEN [ok |-> TRUE, t |-> [t EXCEPT !.root = Insert1(c, e).node, !.shared = t.loaded]]
            ELSE IF CanSplit(c) THEN [ok |-> TRUE, t |-> RootSplit([t EXCEPT !.root = c], Halves(c, e))]
            ELSE [ok |-> FALSE, t |-> [t EXCEPT !.root = c, !.shared = FALSE]]
    BY <1>4, <1>11
  <2> HIDE DEF i1, r
  <2>3. /\ NodeOK(c) /\ Clean(c) /\ c.level = n.level /\ c.inc = <<>>
        /\ \A j : Content(c, j) = Content(n, j)
    BY <1>9, <2>1, CompactOK
  <2> HIDE DEF c
  <2>4. Receives(t, W, D, z, z, t.depth, k, D1, c, e)
    BY <1>6, <2>3, ReceivesSame
  <2>5. CASE HasRoom(c)
    <3>1. Insert1(c, e).ok
      BY <2>3, <2>5, InsertOK
    <3>2. Taken(r, D, D1)
      BY <1>8, <2>2, <2>4, <2>5, <3>1
    <3> QED
      BY <3>2 DEF r, D1, k
  <2>6. CASE ~HasRoom(c) /\ CanSplit(c)
    <3>1. NodeOK(c) /\ c.level = t.depth
      BY <1>5, <2>3
    <3>2. Receives(t, W, D, z, z, t.depth, 0, D1, c, e)
      BY <1>7, <2>4, PosIs
    <3>3. HasShape(RootSplit([t EXCEPT !.root = c], Halves(c, e)), D1)
      BY <1>1, <1>6, <2>6, <3>1, <3>2, RootDivides
    <3> DEFINE u == RootSplit([t EXCEPT !.root = c], Halves(c, e))
    <3>4. r = [ok |-> TRUE, t |-> u]
      BY <2>2, <2>6
    <3> HIDE DEF u
    <3>5. Taken(r, D, D1)
      <4>1. HasShape(u, D1)
        BY <3>3 DEF u
      <4> QED
        BY <3>4, <4>1 DEF Taken
    <3> QED
      BY <3>5 DEF r, D1, k
  <2>7. CASE ~HasRoom(c) /\ ~CanSplit(c)
    <3> DEFINE u == Put(t, W[0][k], c)
               y == [t EXCEPT !.root = c, !.shared = FALSE]
    <3>1. Shape(u, W, D, z, z)
      <4>1. 0 \in 0..t.depth
        OBVIOUS
      <4>2. \A j : Content(c, j) = Content(NodeOf(t, W[0][k]), j)
        BY <1>1, <1>2, <2>3 DEF NodeOf, n
      <4>3. c.level = 0
        BY <1>5, <2>3
      <4> QED
        BY <1>1, <1>6, <2>3, <4>1, <4>2, <4>3, SameShape
    <3>2. u = [t EXCEPT !.root = c]
      BY <1>1, <1>2 DEF Put
    <3>3. /\ y.root = u.root /\ y.depth = u.depth /\ y.cache = u.cache /\ y.next = u.next
          /\ y \in TreeSet
      <4>1. c \in NodeSet
        BY <2>3 DEF NodeOK
      <4> QED
        BY <1>1, <3>2, <4>1 DEF TreeSet
    <3>4. r = [ok |-> FALSE, t |-> y]
      BY <2>2, <2>7
    <3> HIDE DEF u, y
    <3>5. Shape(y, W, D, z, z)
      BY <3>1, <3>3, FlagsShape
    <3>6. Shape(y, W, D, 0, 0)
      BY <3>5 DEF z
    <3>7. Taken(r, D, D1)
      BY <3>4, <3>6 DEF Taken, HasShape
    <3> QED
      BY <3>7 DEF r, D1, k
  <2> QED
    BY <2>5, <2>6, <2>7
<1> QED
  BY <1>10, <1>11

\* insert_multi.
LEMMA InsertMultiOK ==
  ASSUME NEW t, NEW W, NEW D, Shape(t, W, D, 0, 0), t.depth > 0, NEW e \in Pairs, e[2] # Dead
  PROVE  Taken(InsertMulti(t, e), D, [D EXCEPT ![e[1]] = e[2]])
<1> DEFINE k == e[1]
           d == t.depth
           D1 == [D EXCEPT ![k] = e[2]]
           path == PathTo(t, k)
           a == path[0]
           n == t.cache[a]
           i1 == Insert1(n, e)
           c == Compact(i1.node)
           full == IF ShouldSplit(n) THEN n ELSE c
           z == 0
           r == InsertMulti(t, e)
<1>1. /\ k \in Positions /\ D \in [Positions -> Nat] /\ D1 \in [Positions -> Nat]
      /\ d \in Nat /\ d > 0 /\ t \in TreeSet /\ Nested(d, W) /\ 0 \in 0..(d - 1) /\ 0 \in 0..d
  <2>1. t \in TreeSet /\ d \in Nat
    BY ShapeIs
  <2>2. D \in [Positions -> Nat] /\ Nested(d, W)
    BY DEF Shape
  <2>3. k \in Positions /\ e[2] \in Nat
    BY DEF Pairs
  <2> QED
    BY <2>1, <2>2, <2>3
<1>2. path = [l \in 0..d |-> W[l][k]]
  <2>1. k \in Positions
    BY <1>1
  <2> HIDE DEF k
  <2> QED
    BY <2>1, PathIs
<1>3. a = W[0][k] /\ \A i \in 1..(d - 1) : path[i] = W[i][k]
  BY <1>1, <1>2
<1> HIDE DEF path
<1>4. a \in DOMAIN t.cache /\ a # Root /\ n = NodeOf(t, W[0][k])
  <2>1. W[0][k] \in DOMAIN t.cache /\ W[0][k] # Root
    BY <1>1, ShapeIs
  <2> QED
    BY <1>3, <2>1 DEF NodeOf
<1>5. Receives(t, W, D, 0, 0, 0, k, D1, n, e)
  BY <1>4, LeafReceives
<1>6. r = IF ~ShouldSplit(n) /\ i1.ok THEN [ok |-> TRUE, t |-> Cached(t, a, Insert1(n, e).node)]
          ELSE IF ~ShouldSplit(n) /\ HasRoom(c)
            THEN [ok |-> TRUE, t |-> Cached(t, a, Insert1(c, e).node)]
          ELSE IF ~CanSplit(full) THEN [ok |-> FALSE, t |-> Cached(t, a, full)]
          ELSE [ok |-> TRUE, t |-> InsertRoute(SplitChild(t, a, Halves(full, e)), path)]
  BY DEF InsertMulti, path
<1>7. NodeOK(n) /\ n.level = 0
  BY <1>5 DEF Receives
<1>8. \A v : Cached(t, a, v) = Put(t, W[0][k], v)
  BY <1>3, <1>4 DEF Put
<1> HIDE DEF n, D1, k, a, d
<1>9. Shape(t, W, D, z, z) /\ Receives(t, W, D, z, z, z, k, D1, n, e) /\ z \in 0..(d - 1) /\ z \in 0..d
  BY <1>1, <1>5
<1>10. \A v : Cached(t, a, v) = Put(t, W[z][k], v)
  BY <1>8
<1>11. a = W[z][k] /\ n = NodeOf(t, W[z][k]) /\ n.level = z
  BY <1>3, <1>4, <1>7
<1> HIDE DEF z
<1>12. ASSUME NEW v, Receives(t, W, D, z, z, z, k, D1, v, e), Insert1(v, e).ok,
              r = [ok |-> TRUE, t |-> Cached(t, a, Insert1(v, e).node)]
       PROVE  Taken(r, D, D1)
  <2> DEFINE u == Put(t, W[z][k], Insert1(v, e).node)
  <2>1. Shape(u, W, D1, 0, 0)
    BY <1>1, <1>9, <1>12, ReceivesPut DEF d
  <2>2. r = [ok |-> TRUE, t |-> u]
    BY <1>10, <1>12
  <2> HIDE DEF u, r
  <2>3. Taken(r, D, D1)
    BY <2>1, <2>2 DEF Taken, HasShape
  <2> QED
    BY <2>3
<1>13. NodeOK(i1.node)
  BY <1>7, InsertOK
<1>14. ~i1.ok => i1.node.level = n.level /\ \A j : Content(i1.node, j) = Content(n, j)
  BY <1>7, InsertOK
<1>15. CASE ~ShouldSplit(n) /\ i1.ok
  <2>1. Insert1(n, e).ok /\ r = [ok |-> TRUE, t |-> Cached(t, a, Insert1(n, e).node)]
    BY <1>6, <1>15
  <2> HIDE DEF r
  <2>2. Taken(r, D, D1)
    BY <1>9, <1>12, <2>1
  <2> QED
    BY <2>2 DEF r, D1, k
<1>16. CASE ~(~ShouldSplit(n) /\ i1.ok)
  <2>1. ~ShouldSplit(n) =>
          /\ NodeOK(c) /\ Clean(c) /\ c.level = n.level /\ c.inc = <<>>
          /\ \A j : Content(c, j) = Content(n, j)
    <3> SUFFICES ASSUME ~ShouldSplit(n)
                 PROVE  /\ NodeOK(c) /\ Clean(c) /\ c.level = n.level /\ c.inc = <<>>
                        /\ \A j : Content(c, j) = Content(n, j)
      OBVIOUS
    <3>1. i1.node.level = n.level /\ \A j : Content(i1.node, j) = Content(n, j)
      BY <1>14, <1>16
    <3> HIDE DEF i1
    <3>2. /\ NodeOK(c) /\ Clean(c) /\ c.level = i1.node.level /\ c.inc = <<>>
          /\ \A j : Content(c, j) = Content(i1.node, j)
      BY <1>13, CompactOK
    <3> HIDE DEF c
    <3> QED
      BY <3>1, <3>2
  <2>2. r = IF ~ShouldSplit(n) /\ HasRoom(c)
              THEN [ok |-> TRUE, t |-> Cached(t, a, Insert1(c, e).node)]
            ELSE IF ~CanSplit(full) THEN [ok |-> FALSE, t |-> Cached(t, a, full)]
            ELSE [ok |-> TRUE, t |-> InsertRoute(SplitChild(t, a, Halves(full, e)), path)]
    BY <1>6, <1>16
  <2>3. full = IF ShouldSplit(n) THEN n ELSE c
    OBVIOUS
  <2> HIDE DEF i1, r, c, full
  <2>4. ~ShouldSplit(n) => Receives(t, W, D, z, z, z, k, D1, c, e)
    BY <1>9, <2>1, ReceivesSame
  <2>5. /\ NodeOK(full) /\ full.level = z /\ Receives(t, W, D, z, z, z, k, D1, full, e)
        /\ \A j : Content(full, j) = Content(n, j)
    BY <1>7, <1>9, <1>11, <2>1, <2>3, <2>4
  <2>6. CASE ~ShouldSplit(n) /\ HasRoom(c)
    <3>1. Insert1(c, e).ok
      <4>1. e \in Pairs /\ NodeOK(c)
        BY <2>1, <2>6
      <4> QED
        BY <2>6, <4>1, InsertOK
    <3>2. Taken(r, D, D1)
      BY <1>12, <2>2, <2>4, <2>6, <3>1
    <3> QED
      BY <3>2 DEF r, D1, k
  <2>7. CASE ~(~ShouldSplit(n) /\ HasRoom(c)) /\ ~CanSplit(full)
    <3> DEFINE u == Put(t, W[z][k], full)
    <3>1. Shape(u, W, D, z, z)
      <4>1. \A j : Content(full, j) = Content(NodeOf(t, W[z][k]), j)
        BY <1>11, <2>5
      <4>2. z > 0 => Clean(full)
        BY DEF z
      <4> QED
        BY <1>1, <1>9, <2>5, <4>1, <4>2, SameShape DEF d
    <3>2. r = [ok |-> FALSE, t |-> u]
      BY <1>10, <2>2, <2>7
    <3> HIDE DEF u
    <3>3. Taken(r, D, D1)
      BY <3>1, <3>2 DEF Taken, HasShape, z
    <3> QED
      BY <3>3 DEF r, D1, k
  <2>8. CASE ~(~ShouldSplit(n) /\ HasRoom(c)) /\ CanSplit(full)
    <3> DEFINE h == Halves(full, e)
               q == SplitChild(t, W[z][k], h)
               u == q.t
               y == h.median
    <3>1. r = [ok |-> TRUE, t |-> InsertRoute(q, path)]
      BY <1>11, <2>2, <2>8
    <3>2. PICK s : Splits(t, W, D, z, z, z, k, D1, h, s)
      BY <1>1, <2>5, <2>8, ReceivesSplit
    <3> HIDE DEF h
    <3>3. /\ u.depth = d /\ W[z][y] = W[z][k]
          /\ \E W1 : /\ Shape(u, W1, D1, z + 1, y) /\ y \in Starts(W1, z + 1)
                     /\ W1[z][y] = t.next /\ \A i \in 0..d : i # z => W1[i] = W[i]
      BY <1>1, <1>9, <3>2, SplitShape DEF d
    <3>4. q = [t |-> u, route |-> <<y, t.next>>, done |-> FALSE]
      BY DEF SplitChild
    <3> HIDE DEF u, y, q
    <3>5. PICK W1 : /\ Shape(u, W1, D1, z + 1, y) /\ y \in Starts(W1, z + 1)
                    /\ W1[z][y] = t.next /\ \A i \in 0..d : i # z => W1[i] = W[i]
      BY <3>3
    <3>6. u \in TreeSet /\ t.next \in Nat /\ y \in Positions
      BY <1>9, <3>5, ShapeIs DEF Starts
    <3>7. z + 1 = 1 /\ (z + 1) - 1 = z /\ 0 + 1 = 1 /\ z + 1 \in 1..d /\ z = 0 /\ 1 \in 1..d
          /\ \A j \in 1..d : j \in 0..d /\ j # z
      BY <1>1 DEF z
    <3>8. q.t = u /\ q.route = <<y, W1[(z + 1) - 1][y]>> /\ q.done = FALSE /\ q \in Records
      <4>1. <<y, t.next>> \in Pairs
        BY <3>6 DEF Pairs
      <4> QED
        BY <3>4, <3>5, <3>6, <3>7, <4>1 DEF Records
    <3>9. Waits(q, W1, D1, z + 1, y)
      BY <3>3, <3>5, <3>7, <3>8 DEF Waits
    <3>10. W[z + 1][y] = W[z + 1][k]
      BY <1>1, <3>3, <3>6, <3>7 DEF Nested
    <3>11. \A j \in (z + 1)..d : W1[j] = W[j]
      BY <3>5, <3>7
    <3>12. Pending(q, W, D1, d, k, z)
      BY <3>3, <3>6, <3>8, <3>9, <3>10, <3>11 DEF Pending
    <3>13. Pending(q, W, D1, d, k, 0)
      BY <3>12 DEF z
    <3>14. HasShape(InsertRoute(q, path), D1)
      BY <1>1, <1>3, <3>3, <3>8, <3>13, InsertRouteOK
    <3>15. Taken(r, D, D1)
      BY <3>1, <3>14 DEF Taken
    <3> QED
      BY <3>15 DEF r, D1, k
  <2> QED
    BY <2>6, <2>7, <2>8
<1> QED
  BY <1>15, <1>16

\* insert: the entry is in the tree if it says so, and the tree as before if not.
LEMMA TreeInsertOK ==
  ASSUME NEW t, NEW D, HasShape(t, D), NEW e \in Pairs, e[2] # Dead
  PROVE  Taken(TreeInsert(t, e), D, [D EXCEPT ![e[1]] = e[2]])
<1>1. PICK W : Shape(t, W, D, 0, 0)
  BY DEF HasShape
<1>2. t.depth \in Nat
  BY <1>1, ShapeIs
<1>3. CASE t.depth = 0
  BY <1>1, <1>3, InsertRootOK DEF TreeInsert
<1>4. CASE t.depth # 0
  <2>1. t.depth > 0
    BY <1>2, <1>4
  <2> QED
    BY <1>1, <1>4, <2>1, InsertMultiOK DEF TreeInsert
<1> QED
  BY <1>3, <1>4

-----------------------------------------------------------------------------
(* Merges up the path.                                                     *)

\* The node for k at level l begins at p; q is where its neighbour begins.
Leads(n, W, l, k, p) ==
  /\ p \in Positions /\ W[l][p] = W[l][k] /\ W[l + 1][p] = W[l + 1][k]
  /\ NodeOK(n) /\ Clean(n) /\ KeyOf(n, W[l][k]) = p
  /\ \A j \in Positions : Content(n, j) =
       IF W[l + 1][j] = W[l + 1][k] /\ j \in Starts(W, l + 1) THEN W[l][j] ELSE Dead

\* The parent of a node leads to it, and is responsible for all of it.
LEMMA ParentIs ==
  ASSUME NEW t, NEW W, NEW D, Shape(t, W, D, 0, 0), NEW l \in 0..(t.depth - 1), NEW k \in Positions
  PROVE  \E p \in Starts(W, l + 1) : Leads(NodeOf(t, W[l + 1][k]), W, l, k, p)
<1> DEFINE n == NodeOf(t, W[l + 1][k])
           d == t.depth
<1>1. d \in Nat /\ Positions \subseteq Nat
  BY ShapeIs, PosIs
<1>2. Convex(d, W) /\ Nested(d, W)
  BY DEF Shape
<1>3. /\ l \in 0..d /\ l + 1 \in 0..d /\ l + 1 \in 1..d /\ l + 1 > 0 /\ (l + 1) - 1 = l /\ l < d /\ l + 1 # 0
  BY <1>1
<1>4. /\ NodeOK(n) /\ Clean(n)
      /\ \A j \in Positions : Content(n, j) = IF W[l + 1][j] = W[l + 1][k] THEN Val(W, D, 0, 0, l + 1, j) ELSE Dead
  BY <1>3, ShapeIs
<1>5. \A j \in Positions : W[l][j] # Dead
  BY <1>3, ShapeIs
<1>6. \A j : Val(W, D, 0, 0, l + 1, j) = IF j \in Starts(W, l + 1) THEN W[l][j] ELSE Dead
  BY <1>3 DEF Val
<1> HIDE DEF n, d
<1>7. PICK p \in Starts(W, l + 1) : p \in Positions /\ W[l][p] = W[l][k]
  <2> DEFINE i == l + 1
  <2>1. i \in 1..d /\ i - 1 = l
    BY <1>3
  <2> HIDE DEF i
  <2>2. \E p \in Starts(W, i) : p \in Positions /\ W[i - 1][p] = W[i - 1][k]
    BY <1>1, <1>2, <2>1, StartOf
  <2>3. \E p \in Starts(W, i) : p \in Positions /\ W[l][p] = W[l][k]
    BY <2>1, <2>2
  <2> QED
    BY <2>3 DEF i
<1>8. W[l + 1][p] = W[l + 1][k]
  BY <1>2, <1>3, <1>7 DEF Nested
<1>9. \A j, y \in Starts(W, l + 1) : W[l][j] = W[l][y] => j = y
  BY <1>1, <1>2, <1>3, OneStart
<1>10. \A j \in Positions : Content(n, j) =
         IF W[l + 1][j] = W[l + 1][k] /\ j \in Starts(W, l + 1) THEN W[l][j] ELSE Dead
  BY <1>4, <1>6
<1>11. Content(n, p) = W[l][k] /\ W[l][k] # Dead
  BY <1>5, <1>7, <1>8, <1>10
<1>12. \A j : Content(n, j) = W[l][k] => j = p
  <2>1. \A j : Content(n, j) # Dead => j \in Positions
    BY <1>4, ContentWhere
  <2> QED
    BY <1>7, <1>9, <1>10, <1>11, <2>1
<1>13. KeyOf(n, W[l][k]) = p
  BY <1>4, <1>11, <1>12, KeyIs
<1>14. Leads(n, W, l, k, p)
  BY <1>4, <1>7, <1>8, <1>10, <1>13 DEF Leads
<1> QED
  BY <1>14 DEF n

\* A merge with a neighbour that the parent leads to.
LEMMA NeighboursMerge ==
  ASSUME NEW t, NEW W, NEW D, Shape(t, W, D, 0, 0), NEW l \in 0..(t.depth - 1), NEW k \in Positions,
         NEW u, Shape(u, W, D, 0, 0), u.depth = t.depth
  PROVE  LET n == NodeOf(t, W[l + 1][k])
             a == W[l][k]
         IN /\ RightOf(n, a) # 0 => Merged(Merge(u, W[l + 1][k], RightOf(n, a), a), t, W, D, l)
            /\ LeftOf(n, a) # 0 => Merged(Merge(u, W[l + 1][k], a, LeftOf(n, a)), t, W, D, l)
<1> DEFINE n == NodeOf(t, W[l + 1][k])
           a == W[l][k]
           d == t.depth
<1>1. d \in Nat /\ Positions \subseteq Nat
  BY ShapeIs, PosIs
<1>2. Convex(d, W)
  BY DEF Shape
<1>3. l \in 0..(d - 1) /\ l \in 0..d /\ l + 1 \in 0..d /\ l < d
  BY <1>1
<1>4. PICK p \in Starts(W, l + 1) :
           /\ p \in Positions /\ W[l][p] = W[l][k] /\ W[l + 1][p] = W[l + 1][k]
           /\ KeyOf(n, W[l][k]) = p
           /\ NodeOK(n) /\ Clean(n)
           /\ \A j \in Positions : Content(n, j) =
                IF W[l + 1][j] = W[l + 1][k] /\ j \in Starts(W, l + 1) THEN W[l][j] ELSE Dead
  <2>1. PICK p \in Starts(W, l + 1) : Leads(n, W, l, k, p)
    BY ParentIs
  <2> HIDE DEF n
  <2> QED
    BY <2>1 DEF Leads
<1>5. \A j \in Positions : W[l][j] # Dead
  BY <1>3, ShapeIs
<1> HIDE DEF n
<1>6. \A j \in Positions : Content(n, j) # Dead =>
        W[l + 1][j] = W[l + 1][k] /\ j \in Starts(W, l + 1) /\ Content(n, j) = W[l][j]
  BY <1>4
<1>7. \A b, c \in Positions : W[l + 1][b] = W[l + 1][k] /\ W[l + 1][c] = W[l + 1][k] =>
        \A j \in Positions : b <= j /\ j <= c => W[l + 1][j] = W[l + 1][k]
  BY <1>2, <1>3 DEF Convex
<1>8. \A j \in Starts(W, l + 1) : j \in Positions
  BY DEF Starts
<1>9. ASSUME NEW b, NEW c, Adjacent(d, W, l, b, c), NEW s, NEW o, Either(s, o, W[l][b], W[l][c]),
             W[l + 1][b] = W[l + 1][k]
      PROVE  Merged(Merge(u, W[l + 1][k], s, o), t, W, D, l)
  <2>1. Merged(Merge(u, W[l + 1][b], s, o), u, W, D, l)
    BY <1>9, MergeShape DEF d
  <2> QED
    BY <1>9, <2>1 DEF Merged
<1>10. ASSUME RightOf(n, a) # 0 PROVE Merged(Merge(u, W[l + 1][k], RightOf(n, a), a), t, W, D, l)
  <2>1. PICK q \in Positions :
           /\ p < q /\ Content(n, q) # Dead /\ RightOf(n, a) = Content(n, q)
           /\ \A j \in Positions : p < j /\ Content(n, j) # Dead => q <= j
    BY <1>4, <1>10, RightIs
  <2>2. /\ q \in Starts(W, l + 1) /\ W[l + 1][q] = W[l + 1][k] /\ RightOf(n, a) = W[l][q]
    BY <1>6, <2>1
  <2>3. ASSUME NEW j \in Starts(W, l + 1), p < j, j < q PROVE FALSE
    <3>1. j \in Positions /\ j \in Nat /\ p \in Nat /\ q \in Nat
      BY <1>1, <1>4, <1>8, <2>1
    <3>2. p <= j /\ j <= q /\ ~(q <= j)
      BY <2>3, <3>1
    <3>3. W[l + 1][j] = W[l + 1][k]
      BY <1>4, <1>7, <2>2, <3>1, <3>2
    <3>4. Content(n, j) # Dead
      BY <1>4, <1>5, <2>3, <3>1, <3>3
    <3> QED
      BY <2>1, <2>3, <3>1, <3>2, <3>4
  <2>4. Adjacent(d, W, l, p, q)
    BY <1>3, <1>4, <2>1, <2>2, <2>3 DEF Adjacent
  <2>5. Either(RightOf(n, a), a, W[l][p], W[l][q])
    BY <1>4, <2>2 DEF Either
  <2> QED
    BY <1>4, <1>9, <2>4, <2>5
<1>11. ASSUME LeftOf(n, a) # 0 PROVE Merged(Merge(u, W[l + 1][k], a, LeftOf(n, a)), t, W, D, l)
  <2>1. PICK q \in Positions :
           /\ q < p /\ Content(n, q) # Dead /\ LeftOf(n, a) = Content(n, q)
           /\ \A j \in Positions : j < p /\ Content(n, j) # Dead => j <= q
    BY <1>4, <1>11, LeftIs
  <2>2. /\ q \in Starts(W, l + 1) /\ W[l + 1][q] = W[l + 1][k] /\ LeftOf(n, a) = W[l][q]
    BY <1>6, <2>1
  <2>3. ASSUME NEW j \in Starts(W, l + 1), q < j, j < p PROVE FALSE
    <3>1. j \in Positions /\ j \in Nat /\ p \in Nat /\ q \in Nat
      BY <1>1, <1>4, <1>8, <2>1
    <3>2. q <= j /\ j <= p /\ ~(j <= q)
      BY <2>3, <3>1
    <3>3. W[l + 1][j] = W[l + 1][k]
      BY <1>4, <1>7, <2>2, <3>1, <3>2
    <3>4. Content(n, j) # Dead
      BY <1>4, <1>5, <2>3, <3>1, <3>3
    <3> QED
      BY <2>1, <2>3, <3>1, <3>2, <3>4
  <2>4. Adjacent(d, W, l, q, p)
    BY <1>3, <1>4, <2>1, <2>2, <2>3 DEF Adjacent
  <2>5. Either(a, LeftOf(n, a), W[l][q], W[l][p])
    BY <1>4, <2>2 DEF Either
  <2> QED
    BY <1>9, <2>2, <2>4, <2>5
<1> QED
  BY <1>10, <1>11 DEF n

-----------------------------------------------------------------------------
(* A delete.                                                               *)

\* try_merge_node keeps the shape, whether or not it merges.
LEMMA TryMergeOK ==
  ASSUME NEW t, NEW W, NEW D, Shape(t, W, D, 0, 0), NEW l \in 0..(t.depth - 1), NEW k \in Positions
  PROVE  Merged(TryMerge(t, W[l][k], W[l + 1][k]), t, W, D, l)
<1> DEFINE a == W[l][k]
           p == W[l + 1][k]
           n == NodeOf(t, p)
           c == Compact(t.cache[a])
           u == Cached(t, a, c)
           r == TryMerge(t, a, p)
           z == 0
<1>1. t.depth \in Nat /\ t \in TreeSet
  BY ShapeIs
<1>2. l \in 0..t.depth /\ l + 1 \in 0..t.depth /\ l < t.depth
  BY <1>1
<1>3. a \in DOMAIN t.cache /\ a # Root /\ NodeOf(t, a) = t.cache[a]
  <2>1. a \in DOMAIN t.cache /\ a # Root
    BY <1>2, ShapeIs
  <2> QED
    BY <2>1 DEF NodeOf
<1>4. NodeAt(t, p, 0) = n
  <2>1. p = Root \/ p \in DOMAIN t.cache
    BY <1>2, AddressIs
  <2> QED
    BY <2>1 DEF NodeAt, NodeOf
<1>5. NodeOK(t.cache[a]) /\ t.cache[a].level = l
  <2>1. NodeOK(NodeOf(t, a)) /\ NodeOf(t, a).level = l
    BY <1>2, ShapeIs
  <2> QED
    BY <1>3, <2>1
<1>6. /\ NodeOK(c) /\ Clean(c) /\ c.level = l /\ \A j : Content(c, j) = Content(NodeOf(t, a), j)
  BY <1>3, <1>5, CompactOK
<1>7. Shape(u, W, D, 0, 0) /\ u.depth = t.depth
  <2> HIDE DEF c, u, n, r
  <2>1. Shape(t, W, D, z, z)
    OBVIOUS
  <2> HIDE DEF z
  <2>2. Shape(Put(t, W[l][k], c), W, D, z, z) /\ Put(t, W[l][k], c).depth = t.depth
    BY <1>2, <1>6, <2>1, SameShape
  <2>3. Put(t, a, c) = u
    BY <1>3 DEF Put, u
  <2> QED
    BY <2>2, <2>3 DEF z
<1>8. /\ RightOf(n, a) # 0 => Merged(Merge(u, p, RightOf(n, a), a), t, W, D, l)
      /\ LeftOf(n, a) # 0 => Merged(Merge(u, p, a, LeftOf(n, a)), t, W, D, l)
  <2> HIDE DEF u
  <2> QED
    BY <1>7, NeighboursMerge
<1>9. r = IF ~Underfull(t.cache[a]) THEN [t |-> t, merged |-> FALSE]
          ELSE IF RightOf(n, a) # 0 THEN Merge(u, p, RightOf(n, a), a)
          ELSE IF LeftOf(n, a) # 0 THEN Merge(u, p, a, LeftOf(n, a))
          ELSE [t |-> u, merged |-> FALSE]
  BY <1>4 DEF TryMerge
<1> HIDE DEF n, u, r, a, p
<1>10. Merged([t |-> t, merged |-> FALSE], t, W, D, l)
  BY DEF Merged
<1>11. Merged([t |-> u, merged |-> FALSE], t, W, D, l)
  BY <1>7 DEF Merged
<1>12. Merged(r, t, W, D, l)
  BY <1>8, <1>9, <1>10, <1>11
<1> QED
  BY <1>12 DEF r, a, p

Outcomes == [t : TreeSet, merged : BOOLEAN]

\* After i steps up the path, the levels above are as they were.
Climbs(q, W, D, d, i) ==
  /\ q \in Outcomes /\ q.t.depth = d
  /\ \E V : Shape(q.t, V, D, 0, 0) /\ \A j \in (i + 1)..d : V[j] = W[j]

\* One step of the cascade.
Climb(q, a, p) == IF q.merged THEN TryMerge(q.t, a, p) ELSE q

\* What try_merge_node gives is a tree and whether it merged.
LEMMA TryMergeIn ==
  ASSUME NEW t \in TreeSet, NEW a \in DOMAIN t.cache, NEW p
  PROVE  \E v, m : TryMerge(t, a, p) = [t |-> v, merged |-> m]
  BY DEF TryMerge, Merge

\* After a merge the parent is the next to look at.
LEMMA TryMergeClimbs ==
  ASSUME NEW d \in Nat, NEW t, NEW W, NEW V, NEW D, NEW i \in 0..(d - 1), NEW k \in Positions,
         t.depth = d, Shape(t, V, D, 0, 0), \A j \in i..d : V[j] = W[j]
  PROVE  Climbs(TryMerge(t, W[i][k], W[i + 1][k]), W, D, d, i)
<1> DEFINE r == TryMerge(t, W[i][k], W[i + 1][k])
<1>1. /\ i \in i..d /\ i + 1 \in i..d /\ i \in 0..d /\ i < d
      /\ \A j \in (i + 1)..d : j \in i..d /\ j # i /\ j \in 0..d
  OBVIOUS
<1>2. V[i] = W[i] /\ V[i + 1] = W[i + 1]
  BY <1>1
<1>3. Merged(r, t, V, D, i)
  <2>1. Merged(TryMerge(t, V[i][k], V[i + 1][k]), t, V, D, i)
    BY TryMergeOK
  <2> QED
    BY <1>2, <2>1
<1>4. \E v, m : r = [t |-> v, merged |-> m]
  <2>1. V[i][k] \in DOMAIN t.cache /\ t \in TreeSet
    BY <1>1, ShapeIs
  <2>2. W[i][k] \in DOMAIN t.cache
    BY <1>2, <2>1
  <2>3. \A p : \E v, m : TryMerge(t, W[i][k], p) = [t |-> v, merged |-> m]
    BY <2>1, <2>2, TryMergeIn
  <2> QED
    BY <2>3
<1> HIDE DEF r
<1>5. PICK V1 : Shape(r.t, V1, D, 0, 0) /\ \A j \in 0..d : j # i => V1[j] = V[j]
  BY <1>3 DEF Merged
<1>6. r.t \in TreeSet
  BY <1>5, ShapeIs
<1>7. r \in Outcomes
  BY <1>3, <1>4, <1>6 DEF Outcomes, Merged
<1>8. \A j \in (i + 1)..d : V1[j] = W[j]
  BY <1>1, <1>5
<1>9. Climbs(r, W, D, d, i)
  BY <1>3, <1>5, <1>7, <1>8 DEF Climbs, Merged
<1> QED
  BY <1>9 DEF r

\* A level of the cascade.
LEMMA ClimbOK ==
  ASSUME NEW d \in Nat, NEW W, NEW D, NEW k \in Positions, NEW i \in 1..(d - 1),
         NEW q, Climbs(q, W, D, d, i - 1)
  PROVE  Climbs(Climb(q, W[i][k], W[i + 1][k]), W, D, d, i)
<1>1. (i - 1) + 1 = i /\ i \in 0..(d - 1) /\ \A j \in (i + 1)..d : j \in i..d
  OBVIOUS
<1>2. q \in Outcomes /\ q.t.depth = d
  BY DEF Climbs
<1>3. PICK V : Shape(q.t, V, D, 0, 0) /\ \A j \in i..d : V[j] = W[j]
  <2>1. \E V : Shape(q.t, V, D, 0, 0) /\ \A j \in ((i - 1) + 1)..d : V[j] = W[j]
    BY DEF Climbs
  <2> QED
    BY <1>1, <2>1
<1>4. CASE q.merged
  <2>1. Climbs(TryMerge(q.t, W[i][k], W[i + 1][k]), W, D, d, i)
    BY <1>1, <1>2, <1>3, TryMergeClimbs
  <2> QED
    BY <1>4, <2>1 DEF Climb
<1>5. CASE ~q.merged
  <2>1. \A j \in (i + 1)..d : V[j] = W[j]
    BY <1>1, <1>3
  <2>2. Climbs(q, W, D, d, i)
    BY <1>2, <1>3, <2>1 DEF Climbs
  <2> QED
    BY <1>5, <2>2 DEF Climb
<1> QED
  BY <1>4, <1>5

\* The cascade of merges up the path.
LEMMA CascadeOK ==
  ASSUME NEW q, q.merged, NEW W, NEW D, NEW k \in Positions, NEW d \in Nat, d > 0,
         Climbs(q, W, D, d, 0), NEW path, \A i \in 1..d : path[i] = W[i][k]
  PROVE  HasShape(Cascade(q.t, path), D)
<1> DEFINE n == d - 1
           b == [t |-> q.t, merged |-> TRUE]
           P == [i \in 0..n |-> {v \in Outcomes : Climbs(v, W, D, d, i)}]
           G == [p \in (1..n) \X Outcomes |-> Climb(p[2], path[p[1]], path[p[1] + 1])]
           Eq(f) == f = [i \in 0..n |->
                           IF i = 0 THEN b
                           ELSE IF f[i - 1].merged THEN TryMerge(f[i - 1].t, path[i], path[i + 1])
                           ELSE f[i - 1]]
           up == CHOOSE f : Eq(f)
<1>1. n \in Nat /\ q.t.depth = d
  BY DEF Climbs
<1>2. Cascade(q.t, path) = up[n].t
  BY <1>1 DEF Cascade
<1>3. b \in Outcomes /\ Climbs(b, W, D, d, 0)
  <2>1. q \in Outcomes
    BY DEF Climbs
  <2>2. b \in Outcomes /\ b.t = q.t
    BY <2>1 DEF Outcomes
  <2> HIDE DEF b
  <2> QED
    BY <2>2 DEF Climbs
<1>4. \A i \in 1..n : i - 1 \in 0..n /\ i \in 0..n /\ i # 0 /\ i \in 1..(d - 1) /\ i \in 1..d /\ i + 1 \in 1..d
  BY <1>1
<1>5. 0 \in 0..n /\ n \in 0..n /\ \A i \in 0..n : i # 0 => i \in 1..n
  BY <1>1
<1> HIDE DEF up, n, b
<1>6. \A i \in 1..n, v \in Outcomes : Climbs(v, W, D, d, i - 1) =>
        Climbs(Climb(v, path[i], path[i + 1]), W, D, d, i)
  <2> SUFFICES ASSUME NEW i \in 1..n, NEW v \in Outcomes, Climbs(v, W, D, d, i - 1)
               PROVE  Climbs(Climb(v, path[i], path[i + 1]), W, D, d, i)
    OBVIOUS
  <2>1. Climbs(Climb(v, W[i][k], W[i + 1][k]), W, D, d, i)
    BY <1>4, ClimbOK
  <2>2. path[i] = W[i][k] /\ path[i + 1] = W[i + 1][k]
    BY <1>4
  <2> QED
    BY <2>1, <2>2
<1>7. \A i \in 0..n : \A v : v \in P[i] <=> v \in Outcomes /\ Climbs(v, W, D, d, i)
  OBVIOUS
<1>8. \A i \in 1..n : \A v \in Outcomes : G[<<i, v>>] = Climb(v, path[i], path[i + 1])
  OBVIOUS
<1> HIDE DEF G, P
<1>9. \A i \in 1..n : \A v \in P[i - 1] : Climb(v, path[i], path[i + 1]) \in P[i]
  <2>1. \A i \in 1..n, v \in Outcomes : Climbs(v, W, D, d, i - 1) =>
          Climb(v, path[i], path[i + 1]) \in Outcomes
    BY <1>6 DEF Climbs
  <2> QED
    BY <1>4, <1>6, <1>7, <2>1
<1>10. b \in P[0] /\ \A i \in 1..n : \A v \in P[i - 1] : G[<<i, v>>] \in P[i]
  BY <1>3, <1>4, <1>5, <1>7, <1>8, <1>9
<1>11. PICK f : Stepping(f, n, b, G) /\ \A i \in 0..n : f[i] \in P[i]
  BY <1>1, <1>10, StepsExist
<1>12. Eq(f)
  <2>1. \A i \in 0..n : i # 0 => f[i - 1] \in Outcomes /\ i \in 1..n
    BY <1>4, <1>5, <1>7, <1>11
  <2>2. \A i \in 0..n : i # 0 => G[<<i, f[i - 1]>>] =
          IF f[i - 1].merged THEN TryMerge(f[i - 1].t, path[i], path[i + 1]) ELSE f[i - 1]
    BY <1>8, <2>1 DEF Climb
  <2> QED
    BY <1>11, <2>2 DEF Stepping
<1>13. Eq(up)
  BY <1>12 DEF up
<1>14. \A i \in 0..n : up[i] \in P[i]
  <2>1. up[0] \in P[0]
    BY <1>5, <1>10, <1>13
  <2>2. ASSUME NEW i \in 1..n, up[i - 1] \in P[i - 1] PROVE up[i] \in P[i]
    <3>1. up[i] = Climb(up[i - 1], path[i], path[i + 1])
      BY <1>4, <1>13 DEF Climb
    <3> QED
      BY <1>9, <2>2, <3>1
  <2> QED
    BY <1>1, <2>1, <2>2, StaysIn
<1>15. Climbs(up[n], W, D, d, n)
  BY <1>5, <1>7, <1>14
<1>16. HasShape(up[n].t, D)
  BY <1>15 DEF Climbs, HasShape
<1> QED
  BY <1>2, <1>16

\* What follows a merge keeps the shape.
LEMMA ShrunkOK ==
  ASSUME NEW q, NEW W, NEW D, NEW k \in Positions, NEW d \in Nat, d > 0,
         Climbs(q, W, D, d, 0), NEW path, \A i \in 1..d : path[i] = W[i][k]
  PROVE  HasShape(Shrunk(q, path), D)
<1>1. CASE q.merged
  <2>1. HasShape(Cascade(q.t, path), D)
    BY <1>1, CascadeOK
  <2>2. PICK V : Shape(Cascade(q.t, path), V, D, 0, 0)
    BY <2>1 DEF HasShape
  <2>3. Kept(Cascade(q.t, path), Collapse(Cascade(q.t, path)), D)
    BY <2>2, CollapseOK
  <2>4. HasShape(Collapse(Cascade(q.t, path)), D)
    BY <2>3 DEF Kept, HasShape
  <2> QED
    BY <1>1, <2>4 DEF Shrunk
<1>2. CASE ~q.merged
  <2>1. HasShape(q.t, D)
    BY DEF Climbs, HasShape
  <2> QED
    BY <1>2, <2>1 DEF Shrunk
<1> QED
  BY <1>1, <1>2

-----------------------------------------------------------------------------
(* What a delete leaves: the position is dead, or shows what it had before. *)

Removed(r, D, k) ==
  /\ r.ok \in BOOLEAN /\ (~r.ok => HasShape(r.t, D))
  /\ \E v \in {Dead, D[k]} : HasShape(r.t, [D EXCEPT ![k] = v])

Lessened(t, u, W, D, k) ==
  u.depth = t.depth /\ \E v \in {Dead, D[k]} : Shape(u, W, [D EXCEPT ![k] = v], 0, 0)

\* The leaf after delete_key, in its place.
LEMMA LeafDeleted ==
  ASSUME NEW t, NEW W, NEW D, Shape(t, W, D, 0, 0), NEW k \in Positions
  PROVE  Lessened(t, Put(t, W[0][k], DeleteKey(NodeOf(t, W[0][k]), k).node), W, D, k)
<1> DEFINE n == NodeOf(t, W[0][k])
           g == DeleteKey(n, k).node
           v == Content(g, k)
           D1 == [D EXCEPT ![k] = v]
           z == 0
<1>1. t.depth \in Nat /\ 0 \in 0..t.depth /\ D \in [Positions -> Nat] /\ z \in 0..t.depth
  <2>1. t.depth \in Nat
    BY ShapeIs
  <2>2. D \in [Positions -> Nat]
    BY DEF Shape
  <2> QED
    BY <2>1, <2>2
<1>2. \A V, E, m, x, j : Val(V, E, m, x, z, j) = E[j]
  BY DEF Val
<1>3. /\ NodeOK(n) /\ n.level = z
      /\ \A j \in Positions : Content(n, j) = IF W[z][j] = W[z][k] THEN D[j] ELSE Dead
  <2>1. /\ NodeOK(n) /\ n.level = 0
        /\ \A j \in Positions : Content(n, j) = IF W[0][j] = W[0][k] THEN Val(W, D, 0, 0, 0, j) ELSE Dead
    BY <1>1, ShapeIs
  <2>2. \A j : Val(W, D, 0, 0, 0, j) = D[j]
    BY DEF Val
  <2> QED
    BY <2>1, <2>2
<1>4. Shape(t, W, D, z, z) /\ n = NodeOf(t, W[z][k])
  OBVIOUS
<1>5. \A i \in 0..t.depth, j \in Positions : \A V, E, F :
        i # z => Val(V, E, z, z, i, j) = Val(V, F, z, z, i, j)
  BY DEF Val
<1> HIDE DEF n
<1>6. /\ NodeOK(g) /\ g.level = n.level
      /\ \A j : j # k => Content(g, j) = Content(n, j)
      /\ v \in {Dead, Content(n, k)}
  BY <1>3, DeleteOK
<1> HIDE DEF g, z
<1>7. v \in {Dead, D[k]} /\ D1 \in [Positions -> Nat]
  <2>1. v \in {Dead, D[k]}
    BY <1>3, <1>6
  <2>2. v \in Nat
    BY <1>1, <2>1 DEF Dead
  <2> QED
    BY <1>1, <2>1, <2>2
<1>8. \A j \in Positions : D1[j] = IF j = k THEN v ELSE D[j]
  BY <1>1
<1> HIDE DEF D1
<1>9. Says(g, W[z][k], z, W, D1, z, z)
  <2>1. \A j \in Positions : Content(g, j) = IF W[z][j] = W[z][k] THEN D1[j] ELSE Dead
    BY <1>3, <1>6, <1>8
  <2>2. \A j \in Positions : Content(g, j) = IF W[z][j] = W[z][k] THEN Val(W, D1, z, z, z, j) ELSE Dead
    BY <1>2, <2>1
  <2>3. ~(z > 0)
    BY DEF z
  <2> QED
    BY <2>2, <2>3 DEF Says
<1>10. Frame(t.depth, W, W[z][k], D1, z, z, D, z, z)
  <2> SUFFICES ASSUME NEW i \in 0..t.depth, NEW j \in Positions, W[i][j] # W[z][k]
               PROVE  Val(W, D1, z, z, i, j) = Val(W, D, z, z, i, j)
    BY DEF Frame
  <2>1. CASE i = z
    <3>1. j # k
      BY <2>1
    <3>2. Val(W, D1, z, z, i, j) = D1[j] /\ Val(W, D, z, z, i, j) = D[j]
      BY <1>2, <2>1
    <3> QED
      BY <1>8, <3>1, <3>2
  <2>2. CASE i # z
    BY <1>5, <2>2
  <2> QED
    BY <2>1, <2>2
<1>11. Shape(Put(t, W[z][k], g), W, D1, z, z) /\ Put(t, W[z][k], g).depth = t.depth
  <2>1. NodeOK(g) /\ g.level = z
    BY <1>3, <1>6
  <2>2. z \in 0..t.depth /\ Shape(t, W, D, z, z) /\ D1 \in [Positions -> Nat]
    BY <1>1, <1>4, <1>7
  <2> QED
    BY <1>9, <1>10, <2>1, <2>2, PutShape
<1> QED
  BY <1>7, <1>11 DEF z, g, D1, n, Lessened

\* delete in a tree that is only a root.
LEMMA DeleteRootOK ==
  ASSUME NEW t, NEW W, NEW D, Shape(t, W, D, 0, 0), t.depth = 0, NEW k \in Positions
  PROVE  Removed(DeleteRoot(t, k), D, k)
<1> DEFINE d == DeleteKey(t.root, k)
           r == DeleteRoot(t, k)
<1>1. D \in [Positions -> Nat] /\ \A j \in Positions : W[0][j] = Root
  BY DEF Shape, Ways
<1>2. t \in TreeSet
  BY ShapeIs
<1>3. NodeOf(t, W[0][k]) = t.root /\ \A n : Put(t, W[0][k], n) = [t EXCEPT !.root = n]
  BY <1>1 DEF NodeOf, Put
<1>4. NodeOK(t.root)
  BY DEF Shape, TreeOK
<1>5. d.ok \in BOOLEAN /\ (~d.ok => d.node = t.root)
  BY <1>4, DeleteOK
<1>6. PICK v \in {Dead, D[k]} : Shape([t EXCEPT !.root = d.node], W, [D EXCEPT ![k] = v], 0, 0)
  <2>1. Lessened(t, Put(t, W[0][k], DeleteKey(NodeOf(t, W[0][k]), k).node), W, D, k)
    BY LeafDeleted
  <2> QED
    BY <1>3, <2>1 DEF Lessened
<1>7. [t EXCEPT !.root = t.root] = t /\ [D EXCEPT ![k] = D[k]] = D
  BY <1>1, <1>2 DEF TreeSet
<1>8. r = IF t.shared THEN [ok |-> FALSE, t |-> t] ELSE [ok |-> d.ok, t |-> [t EXCEPT !.root = d.node]]
  BY DEF DeleteRoot
<1>9. HasShape(t, D)
  BY DEF HasShape
<1> HIDE DEF r, d
<1>10. CASE t.shared
  <2>1. r.ok = FALSE /\ r.t = t
    BY <1>8, <1>10
  <2>2. Removed(r, D, k)
    BY <1>7, <1>9, <2>1 DEF Removed
  <2> QED
    BY <2>2 DEF r
<1>11. CASE ~t.shared
  <2> DEFINE u == [t EXCEPT !.root = d.node]
  <2>1. r = [ok |-> d.ok, t |-> u]
    BY <1>8, <1>11
  <2>2. ~d.ok => u = t
    BY <1>5, <1>7
  <2>3. HasShape(u, [D EXCEPT ![k] = v])
    BY <1>6 DEF HasShape
  <2> HIDE DEF u
  <2>4. Removed(r, D, k)
    BY <1>5, <1>6, <1>9, <2>1, <2>2, <2>3 DEF Removed
  <2> QED
    BY <2>4 DEF r
<1> QED
  BY <1>10, <1>11

\* delete_multi.
LEMMA DeleteMultiOK ==
  ASSUME NEW t, NEW W, NEW D, Shape(t, W, D, 0, 0), t.depth > 0, NEW k \in Positions
  PROVE  Removed(DeleteMulti(t, k), D, k)
<1> DEFINE depth == t.depth
           path == PathTo(t, k)
           a == path[0]
           d == DeleteKey(t.cache[a], k)
           u == Cached(t, a, d.node)
           r == DeleteMulti(t, k)
<1>1. /\ D \in [Positions -> Nat] /\ depth \in Nat /\ depth > 0
      /\ 0 \in 0..depth /\ 1 \in 0..depth /\ 1 \in 1..depth /\ 0 \in 0..(depth - 1)
      /\ \A i \in 1..depth : i \in 0..depth
  <2>1. depth \in Nat
    BY ShapeIs
  <2>2. D \in [Positions -> Nat]
    BY DEF Shape
  <2> QED
    BY <2>1, <2>2
<1>2. path = [l \in 0..depth |-> W[l][k]]
  BY PathIs
<1>3. a = W[0][k] /\ \A i \in 1..depth : path[i] = W[i][k]
  BY <1>1, <1>2
<1>4. a \in DOMAIN t.cache /\ a # Root /\ NodeOf(t, a) = t.cache[a]
  <2>1. W[0][k] \in DOMAIN t.cache /\ W[0][k] # Root
    BY <1>1, ShapeIs
  <2> QED
    BY <1>3, <2>1 DEF NodeOf
<1>5. NodeOK(t.cache[a])
  BY <1>4 DEF Shape, TreeOK
<1>6. d.ok \in BOOLEAN
  BY <1>5, DeleteOK
<1>7. r = IF d.ok THEN [ok |-> TRUE, t |-> Shrunk(TryMerge(u, a, path[1]), path)]
          ELSE [ok |-> FALSE, t |-> t]
  BY DEF DeleteMulti
<1> HIDE DEF path
<1>8. PICK v \in {Dead, D[k]} : Shape(u, W, [D EXCEPT ![k] = v], 0, 0) /\ u.depth = depth
  <2>1. Lessened(t, Put(t, W[0][k], DeleteKey(NodeOf(t, W[0][k]), k).node), W, D, k)
    BY LeafDeleted
  <2>2. Put(t, W[0][k], DeleteKey(NodeOf(t, W[0][k]), k).node) = u
    BY <1>3, <1>4 DEF Put
  <2> QED
    BY <2>1, <2>2 DEF Lessened
<1> DEFINE D1 == [D EXCEPT ![k] = v]
           q == TryMerge(u, a, path[1])
<1>9. Climbs(q, W, D1, depth, 0)
  <2> HIDE DEF u, D1, a, depth, d
  <2>1. a = W[0][k] /\ path[1] = W[0 + 1][k]
    BY <1>1, <1>3
  <2>2. Shape(u, W, D1, 0, 0) /\ u.depth = depth
    BY <1>8 DEF D1
  <2>3. Climbs(TryMerge(u, W[0][k], W[0 + 1][k]), W, D1, depth, 0)
    <3> DEFINE z == 0
    <3>1. z \in 0..(depth - 1)
      BY <1>1
    <3>2. \A j \in z..depth : W[j] = W[j]
      OBVIOUS
    <3> HIDE DEF z
    <3>3. Climbs(TryMerge(u, W[z][k], W[z + 1][k]), W, D1, depth, z)
      BY <1>1, <2>2, <3>1, <3>2, TryMergeClimbs
    <3> QED
      BY <3>3 DEF z
  <2> QED
    BY <2>1, <2>3
<1>10. HasShape(Shrunk(q, path), D1)
  <2> HIDE DEF q, D1, depth, a
  <2> QED
    BY <1>1, <1>3, <1>9, ShrunkOK
<1>11. HasShape(t, D) /\ [D EXCEPT ![k] = D[k]] = D
  BY <1>1 DEF HasShape
<1> HIDE DEF r, d, q, u
<1>12. Removed(r, D, k)
  <2>1. CASE d.ok
    <3> DEFINE s == Shrunk(q, path)
    <3>1. r = [ok |-> TRUE, t |-> s]
      BY <1>7, <2>1 DEF q
    <3>2. HasShape(s, [D EXCEPT ![k] = v])
      BY <1>10
    <3> HIDE DEF s
    <3> QED
      BY <1>8, <3>1, <3>2 DEF Removed
  <2>2. CASE ~d.ok
    <3>1. r = [ok |-> FALSE, t |-> t]
      BY <1>7, <2>2
    <3> QED
      BY <1>11, <3>1 DEF Removed
  <2> QED
    BY <2>1, <2>2
<1> QED
  BY <1>12 DEF r

\* delete.
LEMMA TreeDeleteOK ==
  ASSUME NEW t, NEW D, HasShape(t, D), NEW k \in Positions
  PROVE  Removed(TreeDelete(t, k), D, k)
<1>1. PICK W : Shape(t, W, D, 0, 0)
  BY DEF HasShape
<1>2. t.depth \in Nat
  BY <1>1, ShapeIs
<1>3. CASE t.depth = 0
  BY <1>1, <1>3, DeleteRootOK DEF TreeDelete
<1>4. CASE t.depth # 0
  <2>1. t.depth > 0
    BY <1>2, <1>4
  <2> QED
    BY <1>1, <1>4, <2>1, DeleteMultiOK DEF TreeDelete
<1> QED
  BY <1>3, <1>4

-----------------------------------------------------------------------------
(* Trees that are only a root: a new one, one that was loaded.             *)

\* A root that says what is known of the positions has the shape.
LEMMA RootOnly ==
  ASSUME NEW t \in TreeSet, t.depth = 0, DOMAIN t.cache = {}, t.next > 0,
         NodeOK(t.root), t.root.level = 0, NEW D \in [Positions -> Nat],
         \A j \in Positions : Content(t.root, j) = D[j]
  PROVE  HasShape(t, D)
<1> DEFINE W == [l \in {0} |-> [j \in Positions |-> Root]]
<1>1. 0..0 = {0} /\ 0..(0 - 1) = {} /\ 1..0 = {}
  OBVIOUS
<1>2. \A j \in Positions : W[0][j] = Root
  OBVIOUS
<1>3. NodeOf(t, Root) = t.root
  BY DEF NodeOf
<1> HIDE DEF W
<1>4. TreeOK(t)
  BY DEF TreeOK
<1>5. Ways(t, W)
  <2>1. \A k \in Positions : W[t.depth][k] = Root
    BY <1>2
  <2>2. \A l \in 0..(t.depth - 1), k \in Positions : W[l][k] \in DOMAIN t.cache
    BY <1>1
  <2>3. \A l \in 0..t.depth, k \in Positions : NodeOf(t, W[l][k]).level = l
    BY <1>1, <1>2, <1>3
  <2>4. \A a \in DOMAIN t.cache : \E l \in 0..(t.depth - 1), k \in Positions : W[l][k] = a
    OBVIOUS
  <2> QED
    BY <2>1, <2>2, <2>3, <2>4 DEF Ways
<1>6. Nested(t.depth, W) /\ Convex(t.depth, W)
  <2>1. Nested(0, W)
    BY <1>1 DEF Nested
  <2>2. Convex(0, W)
    BY <1>1, <1>2 DEF Convex
  <2> QED
    BY <2>1, <2>2
<1>7. \A l \in 0..t.depth, k \in Positions : Says(NodeOf(t, W[l][k]), W[l][k], l, W, D, 0, 0)
  <2> SUFFICES ASSUME NEW l \in {0}, NEW k \in Positions
               PROVE  Says(NodeOf(t, W[l][k]), W[l][k], l, W, D, 0, 0)
    BY <1>1
  <2>1. W[l][k] = Root /\ l = 0 /\ NodeOf(t, W[l][k]) = t.root
    BY <1>2, <1>3
  <2>2. \A j \in Positions : W[l][j] = Root /\ Val(W, D, 0, 0, l, j) = D[j]
    BY <1>2, <2>1 DEF Val
  <2>3. ~(l > 0)
    BY <2>1
  <2> QED
    BY <2>1, <2>2, <2>3 DEF Says
<1>8. Shape(t, W, D, 0, 0)
  BY <1>4, <1>5, <1>6, <1>7 DEF Shape
<1> QED
  BY <1>8 DEF HasShape

\* What is known of a tree of depth 0.
LEMMA RootOnlyIs ==
  ASSUME NEW t, NEW D, HasShape(t, D), t.depth = 0
  PROVE  /\ t \in TreeSet /\ DOMAIN t.cache = {} /\ t.next > 0 /\ D \in [Positions -> Nat]
         /\ NodeOK(t.root) /\ t.root.level = 0
         /\ \A j \in Positions : Content(t.root, j) = D[j]
<1>1. PICK W : Shape(t, W, D, 0, 0)
  BY DEF HasShape
<1>2. t \in TreeSet /\ t.next > 0
  BY <1>1, ShapeIs
<1>3. D \in [Positions -> Nat] /\ NodeOK(t.root)
  BY <1>1 DEF Shape, TreeOK
<1>4. DOMAIN t.cache = {}
  <2>1. 0..(0 - 1) = {}
    OBVIOUS
  <2>2. \A a \in DOMAIN t.cache : \E l \in 0..(0 - 1), k \in Positions : W[l][k] = a
    BY <1>1 DEF Shape, Ways
  <2> QED
    BY <2>1, <2>2
<1>5. \A j \in Positions : W[0][j] = Root
  BY <1>1 DEF Shape, Ways
<1>6. 0 \in Positions /\ 0 \in 0..0 /\ NodeOf(t, Root) = t.root
  BY PosIs DEF NodeOf
<1>7. t.root.level = 0
  <2>1. \A k \in Positions : NodeOf(t, W[0][k]).level = 0
    BY <1>1, <1>6 DEF Shape, Ways
  <2> QED
    BY <1>5, <1>6, <2>1
<1>8. \A j \in Positions : Content(t.root, j) = D[j]
  <2>1. Says(NodeOf(t, W[0][0]), W[0][0], 0, W, D, 0, 0)
    BY <1>1, <1>6 DEF Shape
  <2>2. \A j \in Positions : Val(W, D, 0, 0, 0, j) = D[j]
    BY DEF Val
  <2>3. \A j \in Positions : Content(t.root, j) = IF W[0][j] = W[0][0] THEN Val(W, D, 0, 0, 0, j) ELSE Dead
    BY <1>5, <1>6, <2>1 DEF Says
  <2> QED
    BY <1>5, <1>6, <2>2, <2>3
<1> QED
  BY <1>2, <1>3, <1>4, <1>7, <1>8

NewCache == <<>>

\* An empty cache.
LEMMA NewCacheIs == NewCache \in UNION {[S -> NodeSet] : S \in SUBSET Nat} /\ DOMAIN NewCache = {}
<1>1. {} \in SUBSET Nat /\ NewCache \in [{} -> NodeSet]
  BY DEF NewCache
<1> QED
  BY <1>1

\* A new tree holds nothing.
LEMMA NewTreeOK == HasShape(NewTree, [j \in Positions |-> Dead])
<1> DEFINE t == NewTree
           D == [j \in Positions |-> Dead]
<1>1. /\ NodeOK(Empty(0)) /\ Empty(0).level = 0 /\ \A k : Content(Empty(0), k) = Dead
  BY EmptyOK
<1>2. Empty(0) \in NodeSet
  BY <1>1 DEF NodeOK
<1>3. /\ t = [root |-> Empty(0), depth |-> 0, cache |-> NewCache, next |-> 1, loaded |-> FALSE, shared |-> FALSE]
  BY DEF NewTree, NewCache
<1> HIDE DEF t
<1>4. /\ t.root = Empty(0) /\ t.depth = 0 /\ t.cache = NewCache /\ t.next = 1
      /\ t \in TreeSet
  BY <1>2, <1>3, NewCacheIs DEF TreeSet
<1>5. D \in [Positions -> Nat] /\ \A j \in Positions : Content(t.root, j) = D[j]
  BY <1>1, <1>4 DEF Dead
<1> HIDE DEF D
<1>6. HasShape(t, D)
  BY <1>1, <1>4, <1>5, NewCacheIs, RootOnly
<1> QED
  BY <1>6 DEF t, D

\* A root that is written and loaded holds what it did.
LEMMA ReloadedOK ==
  ASSUME NEW t, NEW D, HasShape(t, D), t.depth = 0 PROVE HasShape(Reloaded(t), D)
<1> DEFINE s == Live(Entries(t.root))
           p == Packed(Empty(0), s)
           n == [p EXCEPT !.aux = FALSE]
           u == Reloaded(t)
<1>1. /\ t \in TreeSet /\ t.next > 0 /\ D \in [Positions -> Nat] /\ NodeOK(t.root)
      /\ \A j \in Positions : Content(t.root, j) = D[j]
  BY RootOnlyIs
<1>2. Entries(t.root) \in Seq(Pairs) /\ Len(Entries(t.root)) \in Nat
      /\ EntryBytes * Len(Entries(t.root)) <= NodeSize
  BY <1>1, NodeFields, BytesFit
<1>3. /\ s \in Seq(Pairs) /\ Once(s) /\ \A i \in DOMAIN s : s[i][2] # Dead
      /\ \A k : Newest(s, k) = Content(t.root, k)
      /\ Len(s) \in Nat /\ Len(s) <= Len(Entries(t.root))
  BY <1>2, LiveIs, LiveNewest, LiveLen DEF Content
<1>4. EntryBytes * Len(s) <= NodeSize
  <2>1. /\ EntryBytes * Len(s) \in Nat /\ EntryBytes * Len(Entries(t.root)) \in Nat
        /\ EntryBytes * Len(s) <= EntryBytes * Len(Entries(t.root)) /\ NodeSize \in Nat
    BY <1>2, <1>3, Product, ConstantsAre
  <2> QED
    BY <1>2, <2>1
<1> HIDE DEF s
<1>5. NodeOK(Empty(0)) /\ Empty(0).level = 0
  BY EmptyOK
<1>6. /\ NodeOK(p) /\ p.level = 0 /\ Entries(p) = s /\ p.base = s /\ p.inc = <<>>
  BY <1>3, <1>4, <1>5, PackedOK
<1> HIDE DEF p
<1>7. /\ n \in NodeSet /\ n.level = p.level /\ n.base = p.base /\ n.inc = p.inc /\ n.at = p.at
      /\ n.count = p.count /\ n.aux = FALSE
  BY <1>6 DEF NodeOK, NodeSet
<1> HIDE DEF n
<1>8. NodeOK(n)
  BY <1>6, <1>7 DEF NodeOK, Fits
<1>9. \A k : Content(n, k) = Content(t.root, k)
  BY <1>3, <1>6, <1>7 DEF Content, Entries
<1>10. u = [t EXCEPT !.root = n, !.cache = NewCache, !.loaded = TRUE, !.shared = TRUE]
  BY DEF Reloaded, NewCache, n, p, s
<1>11. NewCache \in UNION {[S -> NodeSet] : S \in SUBSET Nat} /\ DOMAIN NewCache = {}
  BY NewCacheIs
<1> HIDE DEF u
<1>12. /\ u \in TreeSet /\ u.root = n /\ u.depth = 0 /\ u.cache = NewCache /\ u.next = t.next
  BY <1>1, <1>7, <1>10, <1>11 DEF TreeSet
<1>13. \A j \in Positions : Content(u.root, j) = D[j]
  BY <1>1, <1>9, <1>12
<1>14. HasShape(u, D)
  BY <1>1, <1>6, <1>7, <1>8, <1>11, <1>12, <1>13, RootOnly
<1> QED
  BY <1>14 DEF u

\* presplit_shard_boundaries changes nothing of what the tree holds.
LEMMA PresplitOK ==
  ASSUME NEW t, NEW D, HasShape(t, D) PROVE HasShape(Presplit(t), D)
<1> DEFINE h == Split(t.root)
           c == [k \in Positions |-> Content(t.root, k)]
<1>1. CASE t.depth = 0 /\ CanSplit(t.root) /\ Presplit(t) = RootSplit(t, h)
  <2>1. PICK W : Shape(t, W, D, 0, 0)
    BY DEF HasShape
  <2>2. /\ t \in TreeSet /\ D \in [Positions -> Nat] /\ NodeOK(t.root) /\ t.root.level = 0
        /\ \A j \in Positions : Content(t.root, j) = D[j]
    BY <1>1, RootOnlyIs
  <2>3. /\ HalvesOf(h, 0, c)
        /\ Content(t.root, h.median) # Dead
        /\ \E j \in Positions : j < h.median /\ Content(t.root, j) # Dead
    BY <1>1, <2>2, SplitOK
  <2> HIDE DEF h
  <2>4. h.median \in Positions /\ \A j \in Positions : c[j] = D[j] /\ c[j] = Content(t.root, j)
    BY <2>2, <2>3 DEF HalvesOf
  <2> HIDE DEF c
  <2> DEFINE z == 0
  <2>5. \A j \in Positions : W[z][j] = Root
    BY <1>1, <2>1 DEF Shape, Ways
  <2>6. \A j \in Positions : Val(W, D, 0, 0, z, j) = D[j]
    BY DEF Val
  <2>7. ~(z > 0) /\ z \in Positions /\ t.depth = z /\ Shape(t, W, D, z, z) /\ HalvesOf(h, z, c)
    BY <1>1, <2>1, <2>3, PosIs
  <2>8. \A i, j : Val(W, D, 0, 0, i, j) = Val(W, D, z, z, i, j)
    OBVIOUS
  <2> HIDE DEF z
  <2>9. Splits(t, W, D, z, z, z, z, D, h, c)
    <3>1. \A j \in Positions : c[j] = IF W[z][j] = W[z][z] THEN Val(W, D, 0, 0, z, j) ELSE Dead
      BY <2>4, <2>5, <2>6, <2>7
    <3>2. c[h.median] # Dead /\ \E j \in Positions : j < h.median /\ c[j] # Dead
      BY <2>3, <2>4
    <3> QED
      BY <2>7, <2>8, <3>1, <3>2 DEF Splits
  <2>10. HasShape(RootSplit(t, h), D)
    <3>1. Splits(t, W, D, z, z, t.depth, 0, D, h, c)
      BY <2>7, <2>9 DEF z
    <3>2. t.root.level = t.depth
      BY <1>1, <2>2
    <3>3. \E W1 : Shape(RootSplit(t, h), W1, D, 0, 0)
      BY <2>2, <2>7, <3>1, <3>2, RootSplitShape
    <3> QED
      BY <3>3 DEF HasShape
  <2> QED
    BY <1>1, <2>10
<1>2. CASE ~(t.depth = 0 /\ CanSplit(t.root) /\ Presplit(t) = RootSplit(t, h))
  <2>1. Presplit(t) = t
    BY <1>2 DEF Presplit
  <2> QED
    BY <2>1
<1> QED
  BY <1>1, <1>2

-----------------------------------------------------------------------------
(* What is known of the keys agrees with the tree, call by call.           *)

Agrees(D, nw, g) ==
  \A k \in Keys : IF k \in g THEN D[k] \in {Dead, nw[k]} ELSE D[k] = nw[k]

Knows(t, nw, g) ==
  /\ t \in TreeSet /\ nw \in [Keys -> Nat] /\ g \in SUBSET Keys
  /\ \E D : HasShape(t, D) /\ Agrees(D, nw, g)

\* The types of a tree with a shape, and of what it holds.
LEMMA HasShapeIs ==
  ASSUME NEW t, NEW D, HasShape(t, D) PROVE t \in TreeSet /\ D \in [Positions -> Nat]
<1>1. PICK W : Shape(t, W, D, 0, 0)
  BY DEF HasShape
<1>2. t \in TreeSet
  BY <1>1, ShapeIs
<1> QED
  BY <1>1, <1>2 DEF Shape

\* What is known of a key after an insert.
LEMMA AgreesInserted ==
  ASSUME NEW D \in [Positions -> Nat], NEW nw \in [Keys -> Nat], NEW g \in SUBSET Keys,
         Agrees(D, nw, g), NEW k \in Keys, NEW v
  PROVE  Agrees([D EXCEPT ![k] = v], [nw EXCEPT ![k] = v], g \ {k})
  BY ConstantsAre DEF Agrees, Positions

\* What is known of a key after a delete.
LEMMA AgreesDeleted ==
  ASSUME NEW D \in [Positions -> Nat], NEW nw \in [Keys -> Nat], NEW g \in SUBSET Keys,
         Agrees(D, nw, g), NEW k \in Keys, NEW v \in {Dead, D[k]}
  PROVE  Agrees([D EXCEPT ![k] = v], nw, g \union {k})
  BY ConstantsAre DEF Agrees, Positions

\* An insert of a value that is not Dead.
LEMMA KnowsTaken ==
  ASSUME NEW D, NEW nw \in [Keys -> Nat], NEW g \in SUBSET Keys, Agrees(D, nw, g),
         NEW k \in Keys, NEW v \in Nat, NEW r, D \in [Positions -> Nat],
         Taken(r, D, [D EXCEPT ![k] = v])
  PROVE  Knows(r.t, IF r.ok THEN [nw EXCEPT ![k] = v] ELSE nw, IF r.ok THEN g \ {k} ELSE g)
<1> DEFINE D1 == [D EXCEPT ![k] = v]
           nw1 == [nw EXCEPT ![k] = v]
           g1 == g \ {k}
<1>1. nw1 \in [Keys -> Nat] /\ g1 \in SUBSET Keys /\ Agrees(D1, nw1, g1)
  BY AgreesInserted
<1>2. r.ok \in BOOLEAN /\ HasShape(r.t, IF r.ok THEN D1 ELSE D)
  BY DEF Taken
<1> HIDE DEF D1, nw1, g1
<1>3. CASE r.ok
  <2>1. HasShape(r.t, D1)
    BY <1>2, <1>3
  <2>2. Knows(r.t, nw1, g1)
    BY <1>1, <2>1, HasShapeIs DEF Knows
  <2> QED
    BY <1>3, <2>2 DEF nw1, g1
<1>4. CASE ~r.ok
  <2>1. HasShape(r.t, D)
    BY <1>2, <1>4
  <2>2. Knows(r.t, nw, g)
    BY <2>1, HasShapeIs DEF Knows
  <2> QED
    BY <1>4, <2>2
<1> QED
  BY <1>3, <1>4

KnowsAll(w) == Knows(w.tree, w.newest, w.gone)

\* A value is 1 or 2.
LEMMA NextValueIs ==
  ASSUME NEW w PROVE \A k : NextValue(w, k) \in {1, 2}
  BY DEF NextValue

\* An insert keeps what is known in agreement with the tree.
LEMMA InsertedOK ==
  ASSUME NEW w, KnowsAll(w), NEW k \in Keys PROVE KnowsAll(Inserted(w, k))
<1> DEFINE v == NextValue(w, k)
           e == <<k, v>>
           r == TreeInsert(w.tree, e)
           x == Inserted(w, k)
<1>1. w.newest \in [Keys -> Nat] /\ w.gone \in SUBSET Keys
  BY DEF KnowsAll, Knows
<1>2. PICK D : HasShape(w.tree, D) /\ Agrees(D, w.newest, w.gone)
  BY DEF KnowsAll, Knows
<1>3. v \in Nat /\ v # Dead
  BY NextValueIs DEF Dead
<1> HIDE DEF v
<1>4. e \in Pairs /\ e[1] = k /\ e[2] = v
  BY <1>3, ConstantsAre DEF Pairs, Positions
<1> HIDE DEF e
<1>5. Taken(r, D, [D EXCEPT ![k] = v])
  <2>1. Taken(r, D, [D EXCEPT ![e[1]] = e[2]])
    BY <1>2, <1>3, <1>4, TreeInsertOK
  <2> QED
    BY <1>4, <2>1
<1>6. x.tree = r.t /\ x.newest = (IF r.ok THEN [w.newest EXCEPT ![k] = v] ELSE w.newest)
      /\ x.gone = IF r.ok THEN w.gone \ {k} ELSE w.gone
  BY DEF Inserted, v, e
<1> HIDE DEF r, x
<1>7. D \in [Positions -> Nat]
  BY <1>2, HasShapeIs
<1>8. Knows(r.t, IF r.ok THEN [w.newest EXCEPT ![k] = v] ELSE w.newest,
                 IF r.ok THEN w.gone \ {k} ELSE w.gone)
  BY <1>1, <1>2, <1>3, <1>5, <1>7, KnowsTaken
<1>9. KnowsAll(x)
  BY <1>6, <1>8 DEF KnowsAll
<1> QED
  BY <1>9 DEF x

Worlds == [tree : TreeSet, newest : [Keys -> Nat], gone : SUBSET Keys]

\* ... and so does a delete.
LEMMA DeletedOK ==
  ASSUME NEW w \in Worlds, KnowsAll(w), NEW k \in Keys PROVE KnowsAll(Deleted(w, k))
<1> DEFINE r == TreeDelete(w.tree, k)
           x == Deleted(w, k)
           g == w.gone \union {k}
<1>1. w.newest \in [Keys -> Nat] /\ w.gone \in SUBSET Keys /\ g \in SUBSET Keys
  BY DEF KnowsAll, Knows
<1>2. PICK D : HasShape(w.tree, D) /\ Agrees(D, w.newest, w.gone)
  BY DEF KnowsAll, Knows
<1>3. Removed(r, D, k)
  BY <1>2, ConstantsAre, TreeDeleteOK DEF Positions
<1>4. x.tree = r.t /\ x.newest = w.newest /\ x.gone = IF r.ok THEN g ELSE w.gone
  BY DEF Deleted, Worlds
<1> HIDE DEF r, x
<1>5. D \in [Positions -> Nat]
  BY <1>2, HasShapeIs
<1>6. CASE r.ok
  <2>1. PICK v \in {Dead, D[k]} : HasShape(r.t, [D EXCEPT ![k] = v])
    BY <1>3 DEF Removed
  <2>2. Agrees([D EXCEPT ![k] = v], w.newest, g)
    BY <1>1, <1>2, <1>5, AgreesDeleted
  <2> HIDE DEF g
  <2>3. Knows(r.t, w.newest, g)
    BY <1>1, <2>1, <2>2, HasShapeIs DEF Knows
  <2>4. KnowsAll(x)
    BY <1>4, <1>6, <2>3 DEF KnowsAll
  <2> QED
    BY <2>4 DEF x
<1>7. CASE ~r.ok
  <2>1. HasShape(r.t, D)
    BY <1>3, <1>7 DEF Removed
  <2>2. Knows(r.t, w.newest, w.gone)
    BY <1>1, <1>2, <2>1, HasShapeIs DEF Knows
  <2>3. KnowsAll(x)
    BY <1>4, <1>7, <2>2 DEF KnowsAll
  <2> QED
    BY <2>3 DEF x
<1> QED
  BY <1>6, <1>7

\* Nothing is known of a new tree.
LEMMA NewWorldOK == NewWorld \in Worlds /\ KnowsAll(NewWorld)
<1> DEFINE D == [j \in Positions |-> Dead]
           nw == [k \in Keys |-> Dead]
<1>1. HasShape(NewTree, D)
  BY NewTreeOK
<1>2. Agrees(D, nw, {})
  BY DEF Agrees, Positions
<1>3. nw \in [Keys -> Nat]
  BY DEF Dead
<1>4. NewWorld = [tree |-> NewTree, newest |-> nw, gone |-> {}]
  BY DEF NewWorld
<1> HIDE DEF D, nw
<1>5. NewTree \in TreeSet
  BY <1>1, HasShapeIs
<1>6. Knows(NewTree, nw, {})
  BY <1>1, <1>2, <1>3, <1>5 DEF Knows
<1> QED
  BY <1>3, <1>4, <1>5, <1>6 DEF Worlds, KnowsAll

\* A call of a script.
Called(w, c) == IF c > 0 THEN Inserted(w, c) ELSE Deleted(w, -c)

\* A call of a script keeps the agreement.
LEMMA CalledOK ==
  ASSUME NEW w \in Worlds, KnowsAll(w), NEW c \in -NKeys..NKeys, c # 0
  PROVE  Called(w, c) \in Worlds /\ KnowsAll(Called(w, c))
<1>1. ASSUME NEW x, KnowsAll(x), \E a, b, d : x = [tree |-> a, newest |-> b, gone |-> d]
      PROVE  x \in Worlds
  BY <1>1 DEF KnowsAll, Knows, Worlds
<1>2. CASE c > 0
  <2>1. c \in Keys
    BY <1>2, ConstantsAre
  <2>2. KnowsAll(Inserted(w, c))
    BY <2>1, InsertedOK
  <2>3. \E a, b, d : Inserted(w, c) = [tree |-> a, newest |-> b, gone |-> d]
    BY DEF Inserted
  <2> QED
    BY <1>1, <1>2, <2>2, <2>3 DEF Called
<1>3. CASE ~(c > 0)
  <2>1. -c \in Keys
    BY <1>3, ConstantsAre
  <2>2. KnowsAll(Deleted(w, -c))
    BY <2>1, DeletedOK
  <2>3. \E a, b, d : Deleted(w, -c) = [tree |-> a, newest |-> b, gone |-> d]
    <3> DEFINE r == TreeDelete(w.tree, -c)
               d == IF r.ok THEN w.gone \union {-c} ELSE w.gone
    <3>1. Deleted(w, -c) = [w EXCEPT !.tree = r.t, !.gone = d]
      BY DEF Deleted
    <3> HIDE DEF r, d
    <3>2. w = [tree |-> w.tree, newest |-> w.newest, gone |-> w.gone]
      BY DEF Worlds
    <3>3. Deleted(w, -c) = [tree |-> r.t, newest |-> w.newest, gone |-> d]
      BY <3>1, <3>2
    <3> QED
      BY <3>3
  <2> QED
    BY <1>1, <1>3, <2>2, <2>3 DEF Called
<1> QED
  BY <1>2, <1>3

\* What the calls of a script leave agrees.
LEMMA BuiltOK ==
  ASSUME NEW s \in Scripts PROVE KnowsAll(Built(s))
<1> DEFINE n == Len(s)
           P == [i \in 0..n |-> {w \in Worlds : KnowsAll(w)}]
           G == [p \in (1..n) \X Worlds |-> Called(p[2], s[p[1]])]
           Eq(f) == f = [i \in 0..n |->
                           IF i = 0 THEN NewWorld
                           ELSE IF s[i] > 0 THEN Inserted(f[i - 1], s[i])
                           ELSE Deleted(f[i - 1], -s[i])]
           after == CHOOSE f : Eq(f)
<1>1. s \in Seq({c \in -NKeys..NKeys : c # 0})
  BY ScriptAssumption
<1>2. n \in Nat /\ \A i \in 1..n : s[i] \in -NKeys..NKeys /\ s[i] # 0
  BY <1>1
<1>3. Built(s) = after[n]
  BY DEF Built
<1> HIDE DEF after, n
<1>4. \A i \in 1..n : i - 1 \in 0..n /\ i \in 0..n /\ i # 0
  BY <1>2
<1>5. 0 \in 0..n /\ n \in 0..n /\ \A i \in 0..n : i # 0 => i \in 1..n
  BY <1>2
<1>6. \A i \in 0..n : \A w : w \in P[i] <=> w \in Worlds /\ KnowsAll(w)
  OBVIOUS
<1>7. \A i \in 1..n : \A w \in Worlds : G[<<i, w>>] = Called(w, s[i])
  OBVIOUS
<1> HIDE DEF P, G
<1>8. \A i \in 1..n : \A w \in P[i - 1] : Called(w, s[i]) \in P[i]
  <2> SUFFICES ASSUME NEW i \in 1..n, NEW w \in P[i - 1] PROVE Called(w, s[i]) \in P[i]
    OBVIOUS
  <2>1. w \in Worlds /\ KnowsAll(w)
    BY <1>4, <1>6
  <2>2. Called(w, s[i]) \in Worlds /\ KnowsAll(Called(w, s[i]))
    BY <1>2, <2>1, CalledOK
  <2> QED
    BY <1>4, <1>6, <2>2
<1>9. NewWorld \in P[0] /\ \A i \in 1..n : \A w \in P[i - 1] : G[<<i, w>>] \in P[i]
  BY <1>4, <1>5, <1>6, <1>7, <1>8, NewWorldOK
<1>10. PICK f : Stepping(f, n, NewWorld, G) /\ \A i \in 0..n : f[i] \in P[i]
  BY <1>2, <1>9, StepsExist
<1>11. Eq(f)
  <2>1. \A i \in 0..n : i # 0 => f[i - 1] \in Worlds /\ i \in 1..n
    BY <1>4, <1>5, <1>6, <1>10
  <2>2. \A i \in 0..n : i # 0 => G[<<i, f[i - 1]>>] =
          IF s[i] > 0 THEN Inserted(f[i - 1], s[i]) ELSE Deleted(f[i - 1], -s[i])
    BY <1>7, <2>1 DEF Called
  <2> QED
    BY <1>10, <2>2 DEF Stepping
<1>12. Eq(after)
  BY <1>11 DEF after
<1>13. \A i \in 0..n : after[i] \in P[i]
  <2>1. after[0] \in P[0]
    BY <1>5, <1>9, <1>12
  <2>2. ASSUME NEW i \in 1..n, after[i - 1] \in P[i - 1] PROVE after[i] \in P[i]
    <3>1. after[i] = Called(after[i - 1], s[i])
      BY <1>4, <1>12 DEF Called
    <3> QED
      BY <1>8, <2>2, <3>1
  <2> QED
    BY <1>2, <2>1, <2>2, StaysIn
<1> QED
  BY <1>3, <1>5, <1>6, <1>13

-----------------------------------------------------------------------------
(* The invariant and its consequences.                                     *)

IInv == Knows(tree, newest, gone)

Addresses(t) == DOMAIN t.cache \union {Root}

\* Every address of the tree is responsible for some part.
LEMMA NodesAre ==
  ASSUME NEW t, NEW W, NEW D, Shape(t, W, D, 0, 0)
  PROVE  /\ \A a \in Addresses(t) :
              /\ NodeAt(t, a, 0) = NodeOf(t, a)
              /\ \E l \in 0..t.depth, k \in Positions : W[l][k] = a
         /\ \A l \in 0..t.depth, k \in Positions : W[l][k] \in Addresses(t)
<1>1. t.depth \in Nat /\ 0 \in Positions
  BY ShapeIs, PosIs
<1>2. \A k \in Positions : W[t.depth][k] = Root
  BY DEF Shape, Ways
<1>3. \A a \in DOMAIN t.cache : \E l \in 0..(t.depth - 1), k \in Positions : W[l][k] = a
  BY DEF Shape, Ways
<1>4. \A l \in 0..(t.depth - 1) : l \in 0..t.depth
  BY <1>1
<1>5. t.depth \in 0..t.depth
  BY <1>1
<1>6. \A l \in 0..t.depth, k \in Positions : W[l][k] \in Addresses(t)
  BY AddressIs DEF Addresses
<1>7. \A a \in Addresses(t) : NodeAt(t, a, 0) = NodeOf(t, a)
  BY DEF Addresses, NodeAt, NodeOf
<1>8. \A a \in Addresses(t) : \E l \in 0..t.depth, k \in Positions : W[l][k] = a
  BY <1>1, <1>2, <1>3, <1>4, <1>5 DEF Addresses
<1> QED
  BY <1>6, <1>7, <1>8

\* What the routing entries of a node are.
LEMMA RouteIs ==
  ASSUME NEW t, NEW W, NEW D, Shape(t, W, D, 0, 0), NEW l \in 1..t.depth, NEW k \in Positions,
         NEW i \in DOMAIN Entries(NodeOf(t, W[l][k]))
  PROVE  \E p \in Starts(W, l) :
           /\ p \in Positions /\ W[l][p] = W[l][k]
           /\ Entries(NodeOf(t, W[l][k]))[i][1] = p
           /\ Entries(NodeOf(t, W[l][k]))[i][2] = W[l - 1][p]
<1> DEFINE n == NodeOf(t, W[l][k])
           p == Entries(n)[i][1]
<1>1. l \in 0..t.depth /\ l > 0
  BY ShapeIs
<1>2. /\ NodeOK(n) /\ Clean(n)
      /\ \A j \in Positions : Content(n, j) = IF W[l][j] = W[l][k] THEN Val(W, D, 0, 0, l, j) ELSE Dead
  BY <1>1, ShapeIs
<1> HIDE DEF n
<1>3. p \in Positions /\ Entries(n)[i][2] = Content(n, p) /\ Entries(n)[i][2] # Dead
  <2>1. i \in DOMAIN Entries(n)
    BY DEF n
  <2> QED
    BY <1>2, <2>1, CleanIs
<1> HIDE DEF p
<1>4. W[l][p] = W[l][k] /\ Content(n, p) = Val(W, D, 0, 0, l, p) /\ Val(W, D, 0, 0, l, p) # Dead
  BY <1>2, <1>3
<1>5. p \in Starts(W, l) /\ Val(W, D, 0, 0, l, p) = W[l - 1][p]
  BY <1>1, <1>4 DEF Val
<1>6. Entries(n)[i][1] = p /\ Entries(n)[i][2] = W[l - 1][p]
  BY <1>3, <1>4, <1>5 DEF p
<1> QED
  BY <1>3, <1>4, <1>5, <1>6 DEF n

\* The entry that leads to an address.
LEMMA RouteTo ==
  ASSUME NEW t, NEW W, NEW D, Shape(t, W, D, 0, 0), NEW b \in DOMAIN t.cache
  PROVE  \E l \in 1..t.depth, p \in Positions : \E i \in DOMAIN Entries(NodeOf(t, W[l][p])) :
           Entries(NodeOf(t, W[l][p]))[i][2] = b
<1>1. PICK h \in 0..(t.depth - 1), k \in Positions : W[h][k] = b
  BY DEF Shape, Ways
<1> DEFINE l == h + 1
<1>2. t.depth \in Nat
  BY ShapeIs
<1>3. l \in 1..t.depth /\ l \in 0..t.depth /\ l > 0 /\ l - 1 = h /\ h \in 0..t.depth /\ h < t.depth
  BY <1>2
<1> HIDE DEF l
<1>4. Convex(t.depth, W)
  BY DEF Shape
<1>5. PICK p \in Starts(W, l) : p \in Positions /\ W[l - 1][p] = W[l - 1][k]
  <2>1. l \in 1..t.depth
    BY <1>3
  <2>2. \E q \in Starts(W, l) :
           /\ q \in Positions /\ q <= k /\ W[l - 1][q] = W[l - 1][k]
           /\ \A j \in Starts(W, l) : j <= k => j <= q
    BY <1>2, <1>4, <2>1, StartOf
  <2> QED
    BY <2>2
<1> DEFINE n == NodeOf(t, W[l][p])
<1>6. NodeOK(n) /\ Clean(n) /\ Content(n, p) = Val(W, D, 0, 0, l, p)
  BY <1>3, <1>5, ShapeIs
<1> HIDE DEF n
<1>7. Val(W, D, 0, 0, l, p) = W[l - 1][p]
  BY <1>3, <1>5 DEF Val
<1>8. W[l - 1][p] = b
  BY <1>1, <1>3, <1>5
<1>9. b # Dead
  BY <1>1, <1>3, ShapeIs
<1>10. \E i \in DOMAIN Entries(n) : Entries(n)[i][2] = b
  BY <1>6, <1>7, <1>8, <1>9, CleanIs
<1> QED
  BY <1>3, <1>5, <1>10 DEF n

\* The leaf of a position.
LEMMA LeafIs ==
  ASSUME NEW t, NEW W, NEW D, Shape(t, W, D, 0, 0), NEW k \in Positions
  PROVE  /\ LeafOf(t, k) = NodeOf(t, W[0][k]) /\ NodeOK(LeafOf(t, k))
         /\ Content(LeafOf(t, k), k) = D[k]
<1>1. t.depth \in Nat /\ 0 \in 0..t.depth
  BY ShapeIs
<1>2. PathTo(t, k)[0] = W[0][k]
  BY <1>1, PathIs
<1>3. W[0][k] \in Addresses(t)
  BY <1>1, NodesAre
<1>4. LeafOf(t, k) = NodeOf(t, W[0][k])
  BY <1>2, <1>3, NodesAre DEF LeafOf
<1>5. /\ NodeOK(NodeOf(t, W[0][k]))
      /\ Content(NodeOf(t, W[0][k]), k) = Val(W, D, 0, 0, 0, k)
  BY <1>1, ShapeIs
<1>6. Val(W, D, 0, 0, 0, k) = D[k]
  BY DEF Val
<1> QED
  BY <1>4, <1>5, <1>6

\* The parts of a routing entry.
LEMMA RouteFields ==
  ASSUME NEW r \in Routes
  PROVE  /\ r[1] \in DOMAIN Nodes /\ Nodes[r[1]].level # 0
         /\ r[2] \in DOMAIN Entries(Nodes[r[1]]) /\ r = <<r[1], r[2]>>
<1>1. PICK a \in DOMAIN Nodes :
        r \in {a} \X (IF Nodes[a].level = 0 THEN {} ELSE DOMAIN Entries(Nodes[a]))
  BY DEF Routes
<1> QED
  BY <1>1

\* Every entry of a routing node is a routing entry.
LEMMA RoutesAre ==
  ASSUME NEW a \in DOMAIN Nodes, Nodes[a].level # 0, NEW i \in DOMAIN Entries(Nodes[a])
  PROVE  <<a, i>> \in Routes
<1> DEFINE S == {{b} \X (IF Nodes[b].level = 0 THEN {} ELSE DOMAIN Entries(Nodes[b])) : b \in DOMAIN Nodes}
           P == {a} \X (IF Nodes[a].level = 0 THEN {} ELSE DOMAIN Entries(Nodes[a]))
<1>1. P \in S
  OBVIOUS
<1>2. <<a, i>> \in P
  OBVIOUS
<1>3. Routes = UNION S
  BY DEF Routes
<1> HIDE DEF P, S
<1> QED
  BY <1>1, <1>2, <1>3

\* A routing entry as the shape of the tree sees it.
Leading(r, W, l, p) ==
  /\ l \in 1..tree.depth /\ p \in Starts(W, l) /\ p \in Positions
  /\ r[1] = W[l][p] /\ Nodes[r[1]].level = l
  /\ r[2] \in DOMAIN Entries(Nodes[r[1]])
  /\ Entries(Nodes[r[1]])[r[2]][1] = p /\ LeadsTo(r) = W[l - 1][p]
  /\ Once(Entries(Nodes[r[1]])) /\ r = <<r[1], r[2]>>

\* Every routing entry stands where a part begins, and leads to the node of the part.
LEMMA LeadingIs ==
  ASSUME NEW W, NEW D, Shape(tree, W, D, 0, 0), NEW r \in Routes
  PROVE  \E l, p : Leading(r, W, l, p)
<1> DEFINE a == r[1]
           n == Nodes[a]
           i == r[2]
<1>1. a \in DOMAIN Nodes /\ n.level # 0 /\ i \in DOMAIN Entries(n) /\ r = <<r[1], r[2]>>
  BY RouteFields
<1>2. a \in Addresses(tree) /\ n = NodeAt(tree, a, 0)
  BY <1>1 DEF Nodes, Addresses
<1>3. PICK l \in 0..tree.depth, k \in Positions : W[l][k] = a
  BY <1>2, NodesAre
<1>4. n = NodeOf(tree, W[l][k])
  BY <1>2, <1>3, NodesAre
<1>5. LeadsTo(r) = Entries(n)[i][2]
  BY DEF LeadsTo
<1> HIDE DEF n, a, i
<1>6. n.level = l /\ tree.depth \in Nat
  BY <1>3, <1>4, ShapeIs
<1>7. l \in 1..tree.depth /\ l > 0
  BY <1>1, <1>3, <1>6
<1>8. Once(Entries(n))
  <2>1. Clean(n)
    BY <1>3, <1>4, <1>7, ShapeIs
  <2> QED
    BY <2>1 DEF Clean
<1>9. PICK p \in Starts(W, l) :
        /\ p \in Positions /\ W[l][p] = W[l][k]
        /\ Entries(n)[i][1] = p /\ Entries(n)[i][2] = W[l - 1][p]
  BY <1>1, <1>4, <1>7, RouteIs
<1>10. W[l][p] = a
  BY <1>3, <1>9
<1>11. Leading(r, W, l, p)
  BY <1>1, <1>5, <1>6, <1>7, <1>8, <1>9, <1>10 DEF Leading, n, a, i
<1> QED
  BY <1>11

\* The shape makes the routing exact.
LEMMA RoutesLeadIs ==
  ASSUME NEW W, NEW D, Shape(tree, W, D, 0, 0) PROVE RoutesLead
<1>1. tree.root.level = tree.depth
  <2>1. tree.depth \in 0..tree.depth /\ 0 \in Positions
    BY ShapeIs, PosIs
  <2>2. W[tree.depth][0] = Root
    BY <2>1 DEF Shape, Ways
  <2>3. NodeOf(tree, W[tree.depth][0]).level = tree.depth
    BY <2>1, ShapeIs
  <2> QED
    BY <2>2, <2>3 DEF NodeOf
<1>2. ASSUME NEW a \in DOMAIN Nodes
      PROVE  \E l \in 0..tree.depth, k \in Positions :
               W[l][k] = a /\ Nodes[a] = NodeOf(tree, W[l][k])
  <2>1. a \in Addresses(tree) /\ Nodes[a] = NodeAt(tree, a, 0)
    BY DEF Nodes, Addresses
  <2> QED
    BY <2>1, NodesAre
<1>3. \A a \in DOMAIN Nodes : FreeStart(Nodes[a]) <= NodeSize + 7
  <2> SUFFICES ASSUME NEW a \in DOMAIN Nodes PROVE FreeStart(Nodes[a]) <= NodeSize + 7
    OBVIOUS
  <2>1. NodeOK(Nodes[a])
    BY <1>2, ShapeIs
  <2> QED
    BY <2>1, StartIs
<1>4. ASSUME NEW r \in Routes
      PROVE  LeadsTo(r) \in DOMAIN tree.cache
             /\ tree.cache[LeadsTo(r)].level = Nodes[r[1]].level - 1
  <2>1. PICK l, p : Leading(r, W, l, p)
    BY LeadingIs
  <2>2. l \in 1..tree.depth /\ p \in Positions /\ LeadsTo(r) = W[l - 1][p] /\ Nodes[r[1]].level = l
    BY <2>1 DEF Leading
  <2>3. tree.depth \in Nat
    BY ShapeIs
  <2>4. l - 1 \in 0..tree.depth /\ l - 1 < tree.depth
    BY <2>2, <2>3
  <2>5. W[l - 1][p] \in DOMAIN tree.cache /\ W[l - 1][p] # Root /\ NodeOf(tree, W[l - 1][p]).level = l - 1
    BY <2>2, <2>4, ShapeIs
  <2> QED
    BY <2>2, <2>5 DEF NodeOf
<1>5. {LeadsTo(r) : r \in Routes} = DOMAIN tree.cache
  <2>1. ASSUME NEW b \in DOMAIN tree.cache PROVE \E r \in Routes : LeadsTo(r) = b
    <3>1. PICK l \in 1..tree.depth, p \in Positions :
            \E i \in DOMAIN Entries(NodeOf(tree, W[l][p])) : Entries(NodeOf(tree, W[l][p]))[i][2] = b
      BY RouteTo
    <3> DEFINE a == W[l][p]
               n == NodeOf(tree, a)
    <3>2. PICK i \in DOMAIN Entries(n) : Entries(n)[i][2] = b
      BY <3>1
    <3>3. l \in 0..tree.depth /\ l # 0
      BY ShapeIs
    <3>4. a \in Addresses(tree)
      BY <3>3, NodesAre
    <3>5. NodeAt(tree, a, 0) = n
      BY <3>4, NodesAre
    <3>6. a \in DOMAIN Nodes /\ Nodes[a] = n
      BY <3>4, <3>5 DEF Nodes, Addresses
    <3>7. n.level # 0
      BY <3>3, ShapeIs
    <3> HIDE DEF a, n
    <3>8. <<a, i>> \in Routes
      BY <3>2, <3>6, <3>7, RoutesAre
    <3>9. LeadsTo(<<a, i>>) = b
      BY <3>2, <3>6 DEF LeadsTo
    <3> QED
      BY <3>8, <3>9
  <2> QED
    BY <1>4, <2>1
<1>6. ASSUME NEW r \in Routes, NEW q \in Routes, LeadsTo(r) = LeadsTo(q) PROVE r = q
  <2>1. PICK l, p : Leading(r, W, l, p)
    BY LeadingIs
  <2>2. PICK h, s : Leading(q, W, h, s)
    BY LeadingIs
  <2>3. /\ l \in 1..tree.depth /\ h \in 1..tree.depth /\ p \in Positions /\ s \in Positions
        /\ p \in Starts(W, l) /\ s \in Starts(W, h) /\ W[l - 1][p] = W[h - 1][s]
    BY <1>6, <2>1, <2>2 DEF Leading
  <2>4. tree.depth \in Nat /\ l - 1 \in 0..tree.depth /\ h - 1 \in 0..tree.depth
    BY <2>3, ShapeIs
  <2>5. l - 1 = h - 1
    BY <2>3, <2>4, AddressIs
  <2>6. l = h
    BY <2>3, <2>5
  <2>7. p = s
    <3>1. Convex(tree.depth, W)
      BY DEF Shape
    <3>2. s \in Starts(W, l) /\ W[l - 1][p] = W[l - 1][s]
      BY <2>3, <2>6
    <3> QED
      BY <2>3, <2>4, <3>1, <3>2, OneStart
  <2>8. r[1] = q[1]
    BY <2>1, <2>2, <2>6, <2>7 DEF Leading
  <2>9. /\ r[2] \in DOMAIN Entries(Nodes[r[1]]) /\ q[2] \in DOMAIN Entries(Nodes[r[1]])
        /\ Entries(Nodes[r[1]])[r[2]][1] = Entries(Nodes[r[1]])[q[2]][1] /\ Once(Entries(Nodes[r[1]]))
    BY <2>1, <2>2, <2>7, <2>8 DEF Leading
  <2>10. r[2] = q[2]
    BY <2>9 DEF Once
  <2>11. r = <<r[1], r[2]>> /\ q = <<q[1], q[2]>>
    BY <2>1, <2>2 DEF Leading
  <2> QED
    BY <2>8, <2>10, <2>11
<1>7. ASSUME NEW a \in DOMAIN Nodes, Nodes[a].level = 0, NEW e \in Range(Live(Entries(Nodes[a])))
      PROVE  LeafOf(tree, e[1]) = Nodes[a]
  <2>1. PICK l \in 0..tree.depth, k \in Positions : W[l][k] = a /\ Nodes[a] = NodeOf(tree, W[l][k])
    BY <1>2
  <2> DEFINE n == Nodes[a]
             p == e[1]
  <2>2. /\ NodeOK(n) /\ l = 0
        /\ \A j \in Positions : Content(n, j) = IF W[l][j] = W[l][k] THEN Val(W, D, 0, 0, l, j) ELSE Dead
    <3>1. NodeOK(n) /\ n.level = l
      BY <2>1, ShapeIs
    <3>2. \A j \in Positions : Content(n, j) = IF W[l][j] = W[l][k] THEN Val(W, D, 0, 0, l, j) ELSE Dead
      BY <2>1, ShapeIs
    <3> QED
      BY <1>7, <3>1, <3>2
  <2>3. Entries(n) \in Seq(Pairs)
    BY <2>2, NodeFields
  <2>4. PICK i \in DOMAIN Live(Entries(n)) : Live(Entries(n))[i] = e
    BY DEF Range
  <2>5. e \in Pairs /\ e[2] = Content(n, p) /\ e[2] # Dead
    <3>1. Live(Entries(n)) \in Seq(Pairs)
      BY <2>3, LiveIs
    <3>2. e \in Pairs
      BY <2>4, <3>1
    <3>3. e[2] = Newest(Entries(n), p) /\ e[2] # Dead
      BY <2>3, <2>4, LiveIs
    <3> QED
      BY <3>2, <3>3 DEF Content
  <2>6. p \in Positions
    BY <2>5, PairFields
  <2> HIDE DEF p
  <2>7. W[0][p] = a
    BY <2>1, <2>2, <2>5, <2>6
  <2>8. LeafOf(tree, p) = NodeOf(tree, a)
    BY <2>6, <2>7, LeafIs
  <2> QED
    BY <2>1, <2>8 DEF p
<1> QED
  BY <1>1, <1>3, <1>4, <1>5, <1>6, <1>7 DEF RoutesLead

\* The invariant makes the routing exact.
LEMMA IInvLeads == IInv => RoutesLead
<1> SUFFICES ASSUME IInv PROVE RoutesLead
  OBVIOUS
<1>1. PICK D : HasShape(tree, D)
  BY DEF IInv, Knows
<1>2. PICK W : Shape(tree, W, D, 0, 0)
  BY <1>1 DEF HasShape
<1> QED
  BY <1>2, RoutesLeadIs

\* The invariant keeps what was acknowledged, and makes the readers agree.
LEMMA IInvReads == IInv => KeepsAcked /\ ReadsAgree
<1> SUFFICES ASSUME IInv PROVE KeepsAcked /\ ReadsAgree
  OBVIOUS
<1>1. PICK D : HasShape(tree, D) /\ Agrees(D, newest, gone)
  BY DEF IInv, Knows
<1>2. PICK W : Shape(tree, W, D, 0, 0)
  BY <1>1 DEF HasShape
<1>3. Keys \subseteq Positions
  BY DEF Positions
<1>4. \A k \in Keys : NodeOK(LeafOf(tree, k)) /\ Content(LeafOf(tree, k), k) = D[k]
  BY <1>2, <1>3, LeafIs
<1>5. KeepsAcked
  BY <1>1, <1>4 DEF KeepsAcked, Agrees
<1>6. ReadsAgree
  <2> SUFFICES ASSUME NEW k \in Keys, NEW n, n = LeafOf(tree, k)
               PROVE  /\ Len(Entries(n)) <= n.count => GetEntry(n, k) = Content(n, k)
                      /\ n.inc = <<>> => /\ Get(n, k) = Content(n, k)
                                         /\ Search(n, k) = Content(n, k)
    BY DEF ReadsAgree
  <2>1. NodeOK(n) /\ k \in Positions
    BY <1>3, <1>4
  <2> QED
    BY <2>1, GetEntryOK, ReadsOK
<1> QED
  BY <1>5, <1>6

-----------------------------------------------------------------------------
(* The steps.                                                              *)

\* insert_entry.
LEMMA EntryInsertedOK ==
  ASSUME IInv, NEW k \in Keys, InsertEntry(k) PROVE IInv'
<1> DEFINE v == NextValue(World, k)
           e == <<k, v>>
           i1 == Insert1(tree.root, e)
           i2 == Insert1(Compact(i1.node), e)
           n == IF i1.ok THEN i1.node ELSE i2.node
           ok == i1.ok \/ i2.ok
           u == [tree EXCEPT !.root = n, !.shared = ok /\ tree.loaded]
           r == [ok |-> ok, t |-> u]
<1>1. /\ tree.depth = 0
      /\ tree' = u
      /\ newest' = IF ok THEN [newest EXCEPT ![k] = v] ELSE newest
      /\ gone' = IF ok THEN gone \ {k} ELSE gone
  BY DEF InsertEntry
<1>2. PICK D : HasShape(tree, D) /\ Agrees(D, newest, gone)
  BY DEF IInv, Knows
<1>3. newest \in [Keys -> Nat] /\ gone \in SUBSET Keys
  BY DEF IInv, Knows
<1>4. /\ tree \in TreeSet /\ DOMAIN tree.cache = {} /\ tree.next > 0 /\ D \in [Positions -> Nat]
      /\ NodeOK(tree.root) /\ tree.root.level = 0
      /\ \A j \in Positions : Content(tree.root, j) = D[j]
  BY <1>1, <1>2, RootOnlyIs
<1>5. v \in Nat
  BY NextValueIs
<1> HIDE DEF v
<1>6. e \in Pairs /\ e[1] = k /\ e[2] = v /\ k \in Positions
  BY <1>5, ConstantsAre DEF Pairs, Positions
<1> HIDE DEF e
<1> DEFINE D1 == [D EXCEPT ![k] = v]
<1>7. D1 \in [Positions -> Nat] /\ \A j \in Positions : D1[j] = IF k = j THEN v ELSE D[j]
  BY <1>4, <1>5
<1> HIDE DEF D1
<1>8. /\ i1.ok \in BOOLEAN /\ NodeOK(i1.node) /\ i1.node.level = 0
      /\ \A j : Content(i1.node, j) = IF i1.ok /\ k = j THEN v ELSE Content(tree.root, j)
  BY <1>4, <1>6, InsertOK
<1> HIDE DEF i1
<1>9. /\ NodeOK(Compact(i1.node)) /\ Compact(i1.node).level = 0
      /\ \A j : Content(Compact(i1.node), j) = Content(i1.node, j)
  BY <1>8, CompactOK
<1>10. /\ i2.ok \in BOOLEAN /\ NodeOK(i2.node) /\ i2.node.level = 0
       /\ \A j : Content(i2.node, j) = IF i2.ok /\ k = j THEN v ELSE Content(Compact(i1.node), j)
  BY <1>6, <1>9, InsertOK
<1> HIDE DEF i2
<1>11. /\ ok \in BOOLEAN /\ NodeOK(n) /\ n.level = 0
       /\ \A j : Content(n, j) = IF ok /\ k = j THEN v ELSE Content(tree.root, j)
  BY <1>8, <1>9, <1>10
<1> HIDE DEF n, ok
<1>12. n \in NodeSet /\ tree.loaded \in BOOLEAN
  BY <1>4, <1>11 DEF NodeOK, TreeSet
<1>13. /\ u \in TreeSet /\ u.root = n /\ u.depth = 0 /\ u.cache = tree.cache /\ u.next = tree.next
  BY <1>1, <1>4, <1>11, <1>12 DEF TreeSet
<1>14. r.ok = ok /\ r.t = u
  OBVIOUS
<1> HIDE DEF u, r
<1>15. CASE ok
  <2>1. \A j \in Positions : Content(u.root, j) = D1[j]
    BY <1>4, <1>7, <1>11, <1>13, <1>15
  <2>2. HasShape(u, D1)
    BY <1>4, <1>7, <1>11, <1>13, <2>1, RootOnly
  <2>3. Agrees(D1, [newest EXCEPT ![k] = v], gone \ {k})
    BY <1>2, <1>3, <1>4, AgreesInserted DEF D1
  <2>4. [newest EXCEPT ![k] = v] \in [Keys -> Nat] /\ gone \ {k} \in SUBSET Keys
    BY <1>3, <1>5
  <2>5. newest' = [newest EXCEPT ![k] = v] /\ gone' = gone \ {k} /\ tree' = u
    BY <1>1, <1>15
  <2>6. HasShape(tree', D1) /\ Agrees(D1, newest', gone')
    BY <2>2, <2>3, <2>5
  <2>7. tree' \in TreeSet /\ newest' \in [Keys -> Nat] /\ gone' \in SUBSET Keys
    BY <1>13, <2>4, <2>5
  <2>8. Knows(tree', newest', gone')
    BY <2>6, <2>7 DEF Knows
  <2> QED
    BY <2>8 DEF IInv
<1>16. CASE ~ok
  <2>1. \A j \in Positions : Content(u.root, j) = D[j]
    BY <1>4, <1>11, <1>13, <1>16
  <2>2. HasShape(u, D)
    BY <1>4, <1>11, <1>13, <2>1, RootOnly
  <2>3. newest' = newest /\ gone' = gone /\ tree' = u
    BY <1>1, <1>16
  <2>4. HasShape(tree', D) /\ Agrees(D, newest', gone')
    BY <1>2, <2>2, <2>3
  <2>5. tree' \in TreeSet /\ newest' \in [Keys -> Nat] /\ gone' \in SUBSET Keys
    BY <1>3, <1>13, <2>3
  <2>6. Knows(tree', newest', gone')
    BY <2>4, <2>5 DEF Knows
  <2> QED
    BY <2>6 DEF IInv
<1> QED
  BY <1>15, <1>16

\* A call whose outcome agrees keeps the invariant.
LEMMA BecomesOK == ASSUME NEW w, KnowsAll(w), Becomes(w) PROVE IInv'
  BY DEF KnowsAll, Becomes, IInv

\* The state, taken as one record.
LEMMA WorldOK == ASSUME IInv PROVE World \in Worlds /\ KnowsAll(World)
  BY DEF IInv, Knows, KnowsAll, World, Worlds

\* Every script leaves a tree with the invariant.
LEMMA InitOK == Init => IInv
<1> SUFFICES ASSUME Init PROVE IInv
  OBVIOUS
<1>1. PICK w \in {Built(s) : s \in Scripts} : tree = w.tree /\ newest = w.newest /\ gone = w.gone
  BY DEF Init
<1>2. KnowsAll(w)
  BY BuiltOK
<1> QED
  BY <1>1, <1>2 DEF KnowsAll, IInv

\* A step that changes nothing of what the tree holds keeps the invariant.
LEMMA ReshapedOK ==
  ASSUME IInv, UNCHANGED <<newest, gone>>, \A D : HasShape(tree, D) => HasShape(tree', D)
  PROVE  IInv'
<1>1. PICK D : HasShape(tree, D) /\ Agrees(D, newest, gone)
  BY DEF IInv, Knows
<1>2. HasShape(tree', D) /\ Agrees(D, newest', gone')
  BY <1>1
<1>3. tree' \in TreeSet
  BY <1>2, HasShapeIs
<1>4. newest' \in [Keys -> Nat] /\ gone' \in SUBSET Keys
  BY DEF IInv, Knows
<1>5. Knows(tree', newest', gone')
  BY <1>2, <1>3, <1>4 DEF Knows
<1> QED
  BY <1>5 DEF IInv

\* Every step keeps the invariant.
LEMMA NextOK == IInv /\ [Next]_vars => IInv'
<1> SUFFICES ASSUME IInv, [Next]_vars PROVE IInv'
  OBVIOUS
<1>1. ASSUME NEW k \in Keys, Insert(k) PROVE IInv'
  <2>1. KnowsAll(Inserted(World, k))
    BY WorldOK, InsertedOK
  <2>2. Becomes(Inserted(World, k))
    BY <1>1 DEF Insert
  <2> QED
    BY <2>1, <2>2, BecomesOK
<1>2. ASSUME NEW k \in Keys, InsertEntry(k) PROVE IInv'
  BY <1>2, EntryInsertedOK
<1>3. ASSUME NEW k \in Keys, Delete(k) PROVE IInv'
  <2>1. KnowsAll(Deleted(World, k))
    BY WorldOK, DeletedOK
  <2>2. Becomes(Deleted(World, k))
    BY <1>3 DEF Delete
  <2> QED
    BY <2>1, <2>2, BecomesOK
<1>4. CASE Reload
  <2>1. \A D : HasShape(tree, D) => HasShape(Reloaded(tree), D)
    BY <1>4, ReloadedOK DEF Reload
  <2>2. tree' = Reloaded(tree) /\ UNCHANGED <<newest, gone>>
    BY <1>4 DEF Reload
  <2> QED
    BY <2>1, <2>2, ReshapedOK
<1>5. CASE PresplitShardBoundaries
  <2>1. \A D : HasShape(tree, D) => HasShape(Presplit(tree), D)
    BY PresplitOK
  <2>2. tree' = Presplit(tree) /\ UNCHANGED <<newest, gone>>
    BY <1>5 DEF PresplitShardBoundaries
  <2> QED
    BY <2>1, <2>2, ReshapedOK
<1>6. CASE UNCHANGED vars
  BY <1>6 DEF vars, IInv
<1> QED
  BY <1>1, <1>2, <1>3, <1>4, <1>5, <1>6 DEF Next

\* The inductive invariant: the nodes of the tree divide the positions among them,
\* level by level, and its leaves hold what the calls left.
THEOREM TreeIsSound == Spec => []IInv
<1> QED
  BY InitOK, NextOK, PTL DEF Spec

\* Whatever splits, merges and collapses have moved, the routing entries lead to
\* each node of the cache exactly once, one level down, and every live entry of a
\* leaf is found from the root in that leaf.
THEOREM RoutingIsExact == Spec => []RoutesLead
<1> QED
  BY TreeIsSound, IInvLeads, PTL

\* What an insert acknowledged is in the leaf its key leads to until it is
\* deleted; a deleted position never shows an older value than the newest.
THEOREM AckedIsKept == Spec => []KeepsAcked
<1>1. IInv => KeepsAcked
  BY IInvReads
<1> QED
  BY TreeIsSound, <1>1, PTL

\* get_entry, get and search, which read the sets of a leaf where they are, give
\* what collecting the leaf gives, under the conditions the property names.
THEOREM ReadersAgree == Spec => []ReadsAgree
<1>1. IInv => ReadsAgree
  BY IInvReads
<1> QED
  BY TreeIsSound, <1>1, PTL

=============================================================================
