-------------------------- MODULE SnapshotsProofs --------------------------
(***************************************************************************)
(* Theorems about Snapshots: what is deleted stays deleted as long as the  *)
(* volume is open, subvolumes and snapshots refer to each other, no        *)
(* subvolume has an unlinked parent, a snapshot descends, on the btree and *)
(* in the table, from just the living ancestors it was created under, and  *)
(* the check of a mount would lose nothing of this.                        *)
(***************************************************************************)
EXTENDS Snapshots, FiniteSetsExt, FiniteSetTheorems, WellFoundedInduction, TLAPS

-----------------------------------------------------------------------------
(* What FoldLeft computes.  The community modules define it by a function  *)
(* over the sets of indices, which is chosen; that there is such a         *)
(* function, and what it yields, is shown by a least counterexample.       *)

\* The least of a set of naturals.
LEMMA LeastNat ==
  ASSUME NEW S, S \subseteq Nat, S # {} PROVE \E x \in S : \A y \in S : x <= y
<1>1. PICK x \in S : \A y \in S : ~(<<y, x>> \in OpToRel(<, Nat))
  BY NatLessThanWellFounded, WFMin, Zenon
<1>2. ASSUME NEW y \in S PROVE x <= y
  <2>1. x \in Nat /\ y \in Nat
    OBVIOUS
  <2>2. ~(<<y, x>> \in {ss \in Nat \X Nat : ss[1] < ss[2]})
    BY <1>1 DEF OpToRel
  <2> QED
    BY <2>1, <2>2
<1> QED
  BY <1>2

\* The greatest of a set of naturals with a bound is the one that Max chooses.
LEMMA GreatestIsThere ==
  ASSUME NEW b \in Nat, NEW S, S \subseteq 0..b, S # {}
  PROVE  Max(S) \in S /\ \A j \in S : j <= Max(S)
<1> DEFINE T == {b - k : k \in S}
<1>1. \A k \in S : k \in Nat /\ k <= b /\ b - k \in Nat /\ b - k \in T
  OBVIOUS
<1>2. \A x \in T : \E k \in S : x = b - k
  OBVIOUS
<1> HIDE DEF T
<1>3. T \subseteq Nat /\ T # {}
  BY <1>1, <1>2
<1>4. PICK x \in T : \A y \in T : x <= y
  BY <1>3, LeastNat
<1>5. PICK k \in S : x = b - k
  BY <1>2
<1>6. \A j \in S : k >= j
  BY <1>1, <1>4, <1>5
<1>7. Max(S) \in S /\ \A j \in S : Max(S) >= j
  BY <1>6 DEF Max
<1> QED
  BY <1>1, <1>7

\* Recursion over D, a set of sets of indices: b for
\* none of them, else G of the greatest index and the value for those below it.
Below(n, k) == {s \in SUBSET (1..n) : Cardinality(s) <= k}
Prior(s) == s \ {Max(s)}
Folding(it, D, b, G) == it = [s \in D |-> IF s = {} THEN b ELSE G[<<Max(s), it[Prior(s)]>>]]

\* There are n indices up to n.
LEMMA UpToIsFinite == ASSUME NEW n \in Nat PROVE IsFiniteSet(1..n) /\ Cardinality(1..n) = n
<1>1. IF 1 > n THEN n = 0 ELSE n - 1 + 1 = n
  OBVIOUS
<1> QED
  BY <1>1, FS_Interval

\* A set of indices without its greatest has one index less.
LEMMA PriorIsLess ==
  ASSUME NEW n \in Nat, NEW s \in SUBSET (1..n)
  PROVE  /\ Cardinality(s) \in 0..n /\ (Cardinality(s) = 0 <=> s = {})
         /\ s # {} => /\ Max(s) \in 1..n /\ Prior(s) \in SUBSET (1..n)
                      /\ Max(s) \in s /\ s = Prior(s) \cup {Max(s)}
                      /\ Cardinality(Prior(s)) = Cardinality(s) - 1
<1>1. IsFiniteSet(1..n) /\ Cardinality(1..n) = n
  BY UpToIsFinite
<1>2. IsFiniteSet(s) /\ Cardinality(s) <= n
  BY <1>1, FS_Subset
<1>3. Cardinality(s) \in Nat /\ (Cardinality(s) = 0 <=> s = {})
  BY <1>2, FS_CardinalityType, FS_EmptySet
<1>4. ASSUME s # {} PROVE Max(s) \in s /\ Cardinality(Prior(s)) = Cardinality(s) - 1
  <2>0. s \subseteq 0..n
    OBVIOUS
  <2>1. Max(s) \in s
    BY <1>4, <2>0, GreatestIsThere
  <2> QED
    BY <1>2, <2>1, FS_RemoveElement DEF Prior
<1>5. Cardinality(s) \in 0..n
  BY <1>2, <1>3
<1>6. s # {} => Max(s) \in 1..n
  BY <1>4
<1>7. Prior(s) \in SUBSET (1..n)
  BY DEF Prior
<1>8. s # {} => s = Prior(s) \cup {Max(s)}
  BY <1>4 DEF Prior
<1> QED
  BY <1>3, <1>4, <1>5, <1>6, <1>7, <1>8

\* Such a function exists for all sets of indices up to n.
LEMMA FoldExists ==
  ASSUME NEW n \in Nat, NEW P, NEW b \in P, NEW G, \A i \in 1..n : \A v \in P : G[<<i, v>>] \in P
  PROVE  \E it \in [SUBSET (1..n) -> P] : Folding(it, SUBSET (1..n), b, G)
<1> DEFINE E(k) == \E it \in [Below(n, k) -> P] : Folding(it, Below(n, k), b, G)
           Bad == {k \in Nat : ~E(k)}
<1>1. E(0)
  <2>1. Below(n, 0) = {{}}
    BY PriorIsLess DEF Below
  <2> DEFINE it == [s \in {{}} |-> b]
  <2>2. it \in [Below(n, 0) -> P] /\ Folding(it, Below(n, 0), b, G)
    BY <2>1 DEF Folding
  <2> QED
    BY <2>2
<1>2. ASSUME NEW k \in Nat, E(k) PROVE E(k + 1)
  <2>1. PICK it \in [Below(n, k) -> P] : Folding(it, Below(n, k), b, G)
    BY <1>2
  <2> DEFINE ext == [s \in Below(n, k + 1) |->
                       IF s = {} THEN b ELSE G[<<Max(s), it[Prior(s)]>>]]
  <2>2. ASSUME NEW s \in Below(n, k + 1), s # {}
        PROVE  Prior(s) \in Below(n, k) /\ Max(s) \in 1..n
    BY <2>2, PriorIsLess DEF Below
  <2>3. ext \in [Below(n, k + 1) -> P]
    BY <2>2
  <2>4. ASSUME NEW s \in Below(n, k) PROVE ext[s] = it[s]
    <3>1. s \in Below(n, k + 1)
      BY PriorIsLess DEF Below
    <3>2. it[s] = IF s = {} THEN b ELSE G[<<Max(s), it[Prior(s)]>>]
      BY <2>1 DEF Folding
    <3> QED
      BY <3>1, <3>2
  <2>5. Folding(ext, Below(n, k + 1), b, G)
    <3>1. \A s \in Below(n, k + 1) : s # {} => ext[Prior(s)] = it[Prior(s)]
      BY <2>2, <2>4
    <3> QED
      BY <3>1 DEF Folding
  <2> QED
    BY <2>3, <2>5
<1> HIDE DEF E
<1>3. Bad = {}
  <2> SUFFICES ASSUME Bad # {} PROVE FALSE
    OBVIOUS
  <2>1. PICK k \in Bad : \A j \in Bad : k <= j
    BY LeastNat
  <2>2. k # 0 /\ k - 1 \in Nat
    BY <1>1
  <2>3. E(k - 1)
    BY <2>1, <2>2
  <2>4. E(k - 1 + 1)
    BY <1>2, <2>2, <2>3
  <2>5. k - 1 + 1 = k
    BY <2>2
  <2> QED
    BY <2>4, <2>5
<1>4. Below(n, n) = SUBSET (1..n)
  BY PriorIsLess DEF Below
<1>5. E(n)
  BY <1>3
<1> QED
  BY <1>4, <1>5 DEF E

\* If each step leads from P of the indices so far to P of the indices with the
\* next, then what a fold yields in the end is in P of all indices.
LEMMA FoldStays ==
  ASSUME NEW n \in Nat, NEW P, NEW it, it[{}] \in P[{}],
         \A s \in SUBSET (1..n) : s # {} /\ it[Prior(s)] \in P[Prior(s)] => it[s] \in P[s]
  PROVE  it[1..n] \in P[1..n]
<1> DEFINE Bad == {k \in Nat : \E s \in SUBSET (1..n) : Cardinality(s) = k /\ it[s] \notin P[s]}
<1> SUFFICES ASSUME it[1..n] \notin P[1..n] PROVE FALSE
  OBVIOUS
<1>1. Bad # {}
  <2>1. 1..n \in SUBSET (1..n)
    OBVIOUS
  <2>2. Cardinality(1..n) \in Nat
    BY <2>1, PriorIsLess
  <2>3. Cardinality(1..n) \in Bad
    BY <2>1, <2>2
  <2> QED
    BY <2>3
<1>2. PICK k \in Bad : \A j \in Bad : k <= j
  BY <1>1, LeastNat
<1>3. PICK s \in SUBSET (1..n) : Cardinality(s) = k /\ it[s] \notin P[s]
  OBVIOUS
<1>4. s # {}
  BY <1>3
<1>5. Cardinality(Prior(s)) = k - 1 /\ k - 1 \in Nat /\ Prior(s) \in SUBSET (1..n)
  BY <1>3, <1>4, PriorIsLess
<1>6. k - 1 \notin Bad
  BY <1>2, <1>5
<1> QED
  BY <1>3, <1>4, <1>5, <1>6

-----------------------------------------------------------------------------
\* A node of the tree but for its skips, which are of any set K, and for the bound of
\* its depth.
NodeOf(K) ==
  [kind : {"none", "normal", "whiteout"}, parent : Ref, children : [Slots -> Ref],
   subvol : 0..MaxSubvol, skip : K, isAncestor : SUBSET (1..Width),
   depth : Nat, deleted : BOOLEAN, SUBVOL : BOOLEAN]
NoSkips == <<0, 0, 0>>

\* What is marked is there.
MarkedIsStored(n) == \A id \in Ids : n[id].deleted => Stored(n, id)
Trees(K) == {n \in [Ids -> NodeOf(K)] : MarkedIsStored(n)}

\* What no operation takes back: a node stays, so does its mark, and it never gets
\* another subvolume.
Stays(s, t) ==
  /\ t.kind # "none"
  /\ s.deleted => t.deleted
  /\ t.subvol \in {0, s.subvol}
Follows(n, m) == \A id \in Ids : Stored(n, id) => Stays(n[id], m[id])

LEMMA FollowsOn ==
  ASSUME NEW l, NEW m, NEW n, Follows(l, m), Follows(m, n) PROVE Follows(l, n)
BY DEF Follows, Stays, Stored

LEMMA MoreSkips ==
  ASSUME NEW K, NEW L, K \subseteq L PROVE Trees(K) \subseteq Trees(L)
<1>1. \A s \in NodeOf(K) : s \in NodeOf(L)
  BY DEF NodeOf
<1> QED
  BY <1>1 DEF Trees

\* A node written back with other links, kind or depth.
LEMMA Rewritten ==
  ASSUME NEW K, NEW n \in Trees(K), NEW p \in Ids, NEW t \in NodeOf(K),
         t.kind # "none", Stored(n, p) => Stays(n[p], t),
         NEW m, m = [n EXCEPT ![p] = t]
  PROVE  m \in Trees(K) /\ Follows(n, m)
<1>1. n \in [Ids -> NodeOf(K)] /\ MarkedIsStored(n)
  BY DEF Trees
<1>2. m \in [Ids -> NodeOf(K)] /\ m[p] = t /\ \A id \in Ids \ {p} : m[id] = n[id]
  BY <1>1
<1>3. \A id \in Ids : n[id].subvol \in {0, n[id].subvol}
  OBVIOUS
<1> QED
  BY <1>1, <1>2, <1>3 DEF Trees, Follows, MarkedIsStored, Stored, Stays

LEMMA Pair == ASSUME NEW a \in Ref, NEW b \in Ref PROVE <<a, b>> \in [Slots -> Ref]
BY DEF Slots

LEMMA Mapped == ASSUME NEW K, NEW s \in NodeOf(K)
  PROVE /\ s.kind \in {"none", "normal", "whiteout"} /\ s.parent \in Ref /\ s.children \in [Slots -> Ref]
        /\ s.children[1] \in Ref /\ s.children[2] \in Ref
        /\ s.subvol \in 0..MaxSubvol /\ s.skip \in K /\ s.isAncestor \in SUBSET (1..Width)
        /\ s.depth \in Nat /\ s.deleted \in BOOLEAN /\ s.SUBVOL \in BOOLEAN
BY DEF NodeOf, Slots

-----------------------------------------------------------------------------
(* Deletion. *)

LEMMA SetDeletedKeeps ==
  ASSUME NEW K, NoSkips \in K, NEW n \in Trees(K), NEW id \in Ids
  PROVE  SetDeleted(n, id) \in Trees(K) /\ Follows(n, SetDeleted(n, id))
<1> DEFINE t == [n[id] EXCEPT !.kind = "whiteout", !.deleted = TRUE, !.skip = NoSkips]
<1>1. n[id] \in NodeOf(K)
  BY DEF Trees
<1>2. t \in NodeOf(K) /\ t.kind = "whiteout" /\ t.deleted = TRUE /\ t.subvol = n[id].subvol
  BY <1>1 DEF NodeOf
<1>3. Follows(n, n)
  BY DEF Follows, Stays, Stored
<1>4. SetDeleted(n, id) = IF Normal(n, id) THEN [n EXCEPT ![id] = t] ELSE n
  BY DEF SetDeleted, NoSkips
<1> HIDE DEF t
<1>5. Stays(n[id], t)
  BY <1>2 DEF Stays
<1> QED
  BY <1>2, <1>3, <1>4, <1>5, Rewritten

LEMMA ReplacedType ==
  ASSUME NEW c \in [Slots -> Ref], NEW old, NEW new \in Ref
  PROVE  Replaced(c, old, new) \in [Slots -> Ref]
BY DEF Replaced, Slots

LEMMA ParentTakesKeeps ==
  ASSUME NEW K, NEW n \in Trees(K), NEW p \in Ref, NEW id \in Ids, NEW child \in Ref
  PROVE  /\ ParentTakes(n, p, id, child) \in Trees(K)
         /\ Follows(n, ParentTakes(n, p, id, child))
<1> DEFINE t == [n[p] EXCEPT !.children = Replaced(n[p].children, id, child), !.kind = "normal"]
<1>1. CASE ~(p # 0 /\ Stored(n, p))
  BY <1>1 DEF Follows, Stays, Stored, ParentTakes
<1>2. CASE p # 0 /\ Stored(n, p)
  <2>1. p \in Ids /\ n[p] \in NodeOf(K)
    BY <1>2 DEF Ref, Ids, Trees
  <2>2. Replaced(n[p].children, id, child) \in [Slots -> Ref]
    BY <2>1, Mapped, ReplacedType
  <2>3. t \in NodeOf(K) /\ t.kind = "normal" /\ t.subvol = n[p].subvol /\ t.deleted = n[p].deleted
    BY <2>1, <2>2 DEF NodeOf
  <2>4. ParentTakes(n, p, id, child) = [n EXCEPT ![p] = t]
    BY <1>2 DEF ParentTakes
  <2> HIDE DEF t
  <2>5. Stays(n[p], t)
    BY <2>1, <2>3, Mapped DEF Stays
  <2> QED
    BY <2>1, <2>3, <2>4, <2>5, Rewritten
<1> QED
  BY <1>1, <1>2

LEMMA ChildTakesKeeps ==
  ASSUME NEW K, NEW n \in Trees(K), NEW p \in Ref, NEW child \in Ref
  PROVE  ChildTakes(n, p, child) \in Trees(K) /\ Follows(n, ChildTakes(n, p, child))
<1> DEFINE depth == IF p = 0 THEN 1 ELSE IF Stored(n, p) THEN n[p].depth + 1 ELSE n[child].depth
           t == [n[child] EXCEPT !.parent = p, !.kind = "normal", !.depth = depth]
<1>1. CASE ~(child # 0 /\ Stored(n, child))
  BY <1>1 DEF Follows, Stays, Stored, ChildTakes
<1>2. CASE child # 0 /\ Stored(n, child)
  <2>1. child \in Ids /\ n[child] \in NodeOf(K)
    BY <1>2 DEF Ref, Ids, Trees
  <2>2. depth \in Nat
    <3>1. p # 0 => n[p].depth + 1 \in Nat
      BY Mapped DEF Trees, Ref, Ids
    <3> QED
      BY <2>1, <3>1, Mapped
  <2>3. ChildTakes(n, p, child) = [n EXCEPT ![child] = t]
    BY <1>2 DEF ChildTakes
  <2> HIDE DEF depth
  <2>4. t \in NodeOf(K) /\ t.kind = "normal" /\ t.subvol = n[child].subvol /\ t.deleted = n[child].deleted
    BY <2>1, <2>2 DEF NodeOf
  <2> HIDE DEF t
  <2>5. Stays(n[child], t)
    BY <2>1, <2>4, Mapped DEF Stays
  <2> QED
    BY <2>1, <2>3, <2>4, <2>5, Rewritten
<1> QED
  BY <1>1, <1>2

LEMMA NodeDeleteKeeps ==
  ASSUME NEW K, NoSkips \in K, NEW n \in Trees(K), NEW id \in Ids
  PROVE  NodeDelete(n, id) \in Trees(K) /\ Follows(n, NodeDelete(n, id))
<1> DEFINE p == n[id].parent
           child == IF n[id].children[1] # 0 THEN n[id].children[1] ELSE n[id].children[2]
           n1 == ParentTakes(n, p, id, child)
           n2 == ChildTakes(n1, p, child)
<1>1. p \in Ref /\ child \in Ref
  BY Mapped DEF Trees
<1>2. NodeDelete(n, id) = SetDeleted(n2, id)
  BY DEF NodeDelete
<1> HIDE DEF p, child
<1>3. n1 \in Trees(K) /\ Follows(n, n1)
  BY <1>1, ParentTakesKeeps
<1> HIDE DEF n1
<1>4. n2 \in Trees(K) /\ Follows(n1, n2)
  BY <1>1, <1>3, ChildTakesKeeps
<1> HIDE DEF n2
<1>5. SetDeleted(n2, id) \in Trees(K) /\ Follows(n2, SetDeleted(n2, id))
  BY <1>4, SetDeletedKeeps
<1> QED
  BY <1>2, <1>3, <1>4, <1>5, FollowsOn

-----------------------------------------------------------------------------
(* Clean-up. *)

\* What is below a deleted node gets other skips, a smaller depth and a normal key.
LEMMA FixChildrenKeeps ==
  ASSUME NEW K, NEW n \in Trees(K), NEW dead \in SUBSET Ids
  PROVE  \E L : K \subseteq L /\ FixChildren(n, dead) \in Trees(L) /\ Follows(n, FixChildren(n, dead))
<1> DEFINE m == FixChildren(n, dead)
           L == K \cup {m[id].skip : id \in Ids}
           F(id) == n[id] = m[id] \/ \E d \in Nat : \E k \in L :
                      /\ Stored(n, id)
                      /\ m[id] = [n[id] EXCEPT !.depth = d, !.skip = k, !.kind = "normal"]
<1>1. n \in [Ids -> NodeOf(K)] /\ MarkedIsStored(n)
  BY DEF Trees
<1>2. m = [id \in Ids |-> m[id]]
  BY DEF FixChildren
<1>3. ASSUME NEW id \in Ids PROVE F(id)
  <2> DEFINE above == DeadAbove(n, dead, id)
             depth == DepthLeft(n, dead, id)
  <2>1. depth \in Nat
    <3>1. above \in Nat
      <4>1. IsFiniteSet(Ids)
        BY ConstantAssumption, UpToIsFinite DEF Ids
      <4>2. {d \in dead : IsAncestorBtree(n, d, id)} \subseteq Ids
        OBVIOUS
      <4>3. IsFiniteSet({d \in dead : IsAncestorBtree(n, d, id)})
        BY <4>1, <4>2, FS_Subset
      <4> QED
        BY <4>3, FS_CardinalityType DEF DeadAbove
    <3>2. n[id].depth \in Nat
      BY <1>1, Mapped
    <3>3. DepthLeft(n, dead, id) = IF n[id].depth > above THEN n[id].depth - above ELSE 0
      BY DEF DepthLeft
    <3> HIDE DEF above
    <3> QED
      BY <3>1, <3>2, <3>3
  <2> DEFINE k1 == SkipsLeft(n, dead)[id]
  <2>2. \/ m[id] = n[id]
        \/ Stored(n, id) /\ m[id] = [n[id] EXCEPT !.depth = depth, !.skip = k1, !.kind = "normal"]
    <3>1. m[id] = IF IsBelow(n, dead, id)
                  THEN [n[id] EXCEPT !.depth = depth, !.skip = k1, !.kind = "normal"] ELSE n[id]
      BY DEF FixChildren
    <3> QED
      BY <3>1 DEF IsBelow
  <2>3. m[id].skip \in L
    OBVIOUS
  <2> HIDE DEF L, m, depth, k1
  <2>4. CASE n[id] = m[id]
    BY <2>4
  <2>5. CASE Stored(n, id) /\ m[id] = [n[id] EXCEPT !.depth = depth, !.skip = k1, !.kind = "normal"]
    <3>1. m[id].skip = k1
      BY <1>1, <2>5 DEF NodeOf
    <3> QED
      BY <2>1, <2>3, <2>5, <3>1
  <2> QED
    BY <2>2, <2>4, <2>5
<1>4. K \subseteq L
  OBVIOUS
<1> HIDE DEF L, m
<1>5. ASSUME NEW id \in Ids
      PROVE  /\ m[id] \in NodeOf(L) /\ (m[id].deleted => m[id].kind # "none")
             /\ Stored(n, id) => Stays(n[id], m[id])
  <2>1. CASE n[id] = m[id]
    <3>1. n[id] \in NodeOf(L)
      BY <1>1, <1>4 DEF NodeOf
    <3> QED
      BY <1>1, <2>1, <3>1 DEF MarkedIsStored, Stored, Stays
  <2>2. CASE n[id] # m[id]
    <3>1. PICK d \in Nat, k \in L :
            Stored(n, id) /\ m[id] = [n[id] EXCEPT !.depth = d, !.skip = k, !.kind = "normal"]
      BY <1>3, <2>2
    <3>2. n[id] \in NodeOf(L)
      BY <1>1, <1>4 DEF NodeOf
    <3> DEFINE t == [n[id] EXCEPT !.depth = d, !.skip = k, !.kind = "normal"]
    <3>3. /\ t \in NodeOf(L) /\ t.kind = "normal"
          /\ t.deleted = n[id].deleted /\ t.subvol = n[id].subvol
      BY <3>2 DEF NodeOf
    <3>4. t = m[id]
      BY <3>1
    <3> QED
      BY <3>3, <3>4 DEF Stays
  <2> QED
    BY <2>1, <2>2
<1>6. m \in Trees(L)
  BY <1>2, <1>5 DEF Trees, MarkedIsStored, Stored
<1>7. Follows(n, m)
  BY <1>5 DEF Follows
<1> QED
  BY <1>4, <1>6, <1>7 DEF m

\* A fold of steps that keep the trees of K that follow n ends in one of them.
Later(n, K) == {m \in Trees(K) : Follows(n, m)}

\* A fold over the nodes to remove keeps what each removal keeps.
LEMMA RemovedIn ==
  ASSUME NEW n, NEW noKeys \in SUBSET Ids, NEW P, FixChildren(n, noKeys) \in P,
         \A m \in P : \A id \in Ids : RemovedIf(m, id, noKeys) \in P,
         NEW Q, FixChildren(n, noKeys) \in Q[{}],
         \A s \in SUBSET (1..MaxId) : s # {} =>
           \A m \in P : m \in Q[Prior(s)] => RemovedIf(m, Descending[Max(s)], noKeys) \in Q[s]
  PROVE  Removed(n, noKeys) \in P /\ Removed(n, noKeys) \in Q[1..MaxId]
<1> DEFINE ids == Descending
           base == FixChildren(n, noKeys)
           Step(m, id) == RemovedIf(m, id, noKeys)
           Eq(it) == it = [s \in SUBSET (1..MaxId) |->
                        IF s = {} THEN base ELSE Step(it[s \ {Max(s)}], ids[Max(s)])]
           iter == CHOOSE it : Eq(it)
           G == [p \in (1..MaxId) \X P |-> Step(p[2], ids[p[1]])]
<1>1. MaxId \in Nat /\ DOMAIN ids = 1..MaxId /\ \A k \in 1..MaxId : ids[k] \in Ids
  BY ConstantAssumption DEF Ids, Descending
<1>2. Removed(n, noKeys) = iter[1..MaxId]
  <2> HIDE DEF base, ids
  <2>1. FoldLeft(LAMBDA m, id : RemovedIf(m, id, noKeys), base, ids) = iter[1..MaxId]
    BY <1>1 DEF FoldLeft, MapThenFoldSet
  <2> QED
    BY <2>1 DEF Removed, base, ids
<1>3. /\ base \in P /\ base \in Q[{}]
      /\ \A m \in P : \A id \in Ids : Step(m, id) \in P
      /\ \A s \in SUBSET (1..MaxId) : s # {} =>
           \A m \in P : m \in Q[Prior(s)] => Step(m, ids[Max(s)]) \in Q[s]
  OBVIOUS
<1> HIDE DEF iter, ids, base
<1>4. \A i \in 1..MaxId : \A m \in P : G[<<i, m>>] \in P /\ G[<<i, m>>] = Step(m, ids[i])
  BY <1>1, <1>3
<1> HIDE DEF G, Step
<1>5. PICK it \in [SUBSET (1..MaxId) -> P] : Folding(it, SUBSET (1..MaxId), base, G)
  BY <1>1, <1>3, <1>4, FoldExists
<1>6. \A s \in SUBSET (1..MaxId) : s # {} => Max(s) \in 1..MaxId /\ it[s \ {Max(s)}] \in P
  BY <1>1, <1>5, PriorIsLess DEF Prior
<1>7. \A s \in SUBSET (1..MaxId) : s # {} => G[<<Max(s), it[Prior(s)]>>] = Step(it[s \ {Max(s)}], ids[Max(s)])
  BY <1>4, <1>6 DEF Prior
<1>8. Eq(it)
  BY <1>5, <1>7 DEF Folding
<1>9. Eq(iter)
  BY <1>8 DEF iter
<1> DEFINE R == [s \in SUBSET (1..MaxId) |-> P \cap Q[s]]
<1>10. iter[{}] \in R[{}]
  BY <1>3, <1>9
<1>11. ASSUME NEW s \in SUBSET (1..MaxId), s # {}, iter[Prior(s)] \in R[Prior(s)] PROVE iter[s] \in R[s]
  <2>1. Max(s) \in 1..MaxId /\ Prior(s) \in SUBSET (1..MaxId)
    BY <1>1, <1>11, PriorIsLess
  <2>2. iter[s] = Step(iter[Prior(s)], ids[Max(s)])
    BY <1>9, <1>11 DEF Prior
  <2>3. iter[Prior(s)] \in P /\ iter[Prior(s)] \in Q[Prior(s)] /\ ids[Max(s)] \in Ids
    BY <1>1, <1>11, <2>1
  <2> QED
    BY <1>3, <1>11, <2>2, <2>3
<1> HIDE DEF R
<1>12. iter[1..MaxId] \in R[1..MaxId]
  BY <1>1, <1>10, <1>11, FoldStays
<1> QED
  BY <1>2, <1>12 DEF R

LEMMA RemovedKeeps ==
  ASSUME NEW K, NoSkips \in K, NEW n \in Trees(K), NEW noKeys \in SUBSET Ids
  PROVE  \E L : NoSkips \in L /\ Removed(n, noKeys) \in Trees(L) /\ Follows(n, Removed(n, noKeys))
<1>1. PICK L : K \subseteq L /\ FixChildren(n, noKeys) \in Trees(L) /\ Follows(n, FixChildren(n, noKeys))
  BY FixChildrenKeeps
<1> DEFINE P == Later(n, L)
           Q == [s \in SUBSET (1..MaxId) |-> P]
<1>2. NoSkips \in L
  BY <1>1
<1>3. FixChildren(n, noKeys) \in P
  BY <1>1 DEF Later
<1>4. \A m \in P : \A id \in Ids : RemovedIf(m, id, noKeys) \in P
  <2> SUFFICES ASSUME NEW m \in P, NEW id \in Ids PROVE RemovedIf(m, id, noKeys) \in P
    OBVIOUS
  <2>1. m \in Trees(L) /\ Follows(n, m)
    BY DEF Later
  <2>2. NodeDelete(m, id) \in Trees(L) /\ Follows(m, NodeDelete(m, id))
    BY <1>2, <2>1, NodeDeleteKeeps
  <2>3. Follows(n, NodeDelete(m, id))
    BY <2>1, <2>2, FollowsOn
  <2> QED
    BY <2>2, <2>3 DEF Later, RemovedIf
<1> HIDE DEF P
<1>5. /\ FixChildren(n, noKeys) \in Q[{}]
      /\ \A s \in SUBSET (1..MaxId) : s # {} =>
           \A m \in P : m \in Q[Prior(s)] => RemovedIf(m, Descending[Max(s)], noKeys) \in Q[s]
  <2>1. ASSUME NEW s \in SUBSET (1..MaxId), s # {} PROVE Descending[Max(s)] \in Ids
    <3>1. Max(s) \in 1..MaxId
      BY <2>1, ConstantAssumption, PriorIsLess
    <3> QED
      BY <3>1, ConstantAssumption DEF Descending, Ids
  <2> QED
    BY <1>3, <1>4, <2>1
<1> HIDE DEF Q
<1>6. Removed(n, noKeys) \in P
  BY <1>3, <1>4, <1>5, RemovedIn
<1> QED
  BY <1>2, <1>6 DEF P, Later

\* The sequences that a set is put into have indices 1 to the number of its elements.
LEMMA SeqOfIds ==
  ASSUME NEW S \in SUBSET Ids, NEW order \in SetToSeqs(S)
  PROVE  Cardinality(S) \in Nat /\ order \in [1..Cardinality(S) -> S]
<1>1. IsFiniteSet(Ids)
  BY ConstantAssumption, UpToIsFinite DEF Ids
<1>2. Cardinality(S) \in Nat
  BY <1>1, FS_Subset, FS_CardinalityType
<1>3. order \in [1..Cardinality(S) -> S]
  BY DEF SetToSeqs
<1> QED
  BY <1>2, <1>3

\* The parent is written as it was read at the start, which takes back nothing of what
\* was there at the start.
LEMMA CollectKeeps ==
  ASSUME NEW K, NoSkips \in K, NEW old \in Trees(K), NEW n \in Later(old, K), NEW id \in Ids
  PROVE  Collect(n, old, id) \in Later(old, K)
<1> DEFINE p == old[id].parent
           cleared == [i \in Slots |-> IF old[p].children[i] = id THEN 0 ELSE old[p].children[i]]
           t == [old[p] EXCEPT !.kind = "normal", !.children = cleared]
           n1 == IF p = 0 \/ ~Stored(old, p) THEN n ELSE [n EXCEPT ![p] = t]
<1>1. n \in Trees(K) /\ Follows(old, n) /\ old \in [Ids -> NodeOf(K)]
  BY DEF Later, Trees
<1>2. Collect(n, old, id) = SetDeleted(n1, id)
  BY DEF Collect
<1>3. n1 \in Trees(K) /\ Follows(old, n1)
  <2>1. CASE p = 0 \/ ~Stored(old, p)
    BY <1>1, <2>1
  <2>2. CASE p # 0 /\ Stored(old, p)
    <3>1. p \in Ids /\ old[p] \in NodeOf(K)
      BY <1>1, <2>2, Mapped DEF Ref, Ids
    <3>2. cleared \in [Slots -> Ref]
      BY <3>1, Mapped, ConstantAssumption DEF Ref
    <3> HIDE DEF cleared, p
    <3>3. t \in NodeOf(K) /\ t.kind = "normal" /\ t.deleted = old[p].deleted /\ t.subvol = old[p].subvol
      BY <3>1, <3>2 DEF NodeOf
    <3> HIDE DEF t
    <3>4. n1 = [n EXCEPT ![p] = t]
      BY <2>2
    <3> HIDE DEF n1
    <3>5. n1 \in [Ids -> NodeOf(K)] /\ n1[p] = t /\ \A i \in Ids \ {p} : n1[i] = n[i]
      BY <1>1, <3>1, <3>3, <3>4 DEF Trees
    <3>6. MarkedIsStored(n1)
      BY <1>1, <3>3, <3>5 DEF Trees, MarkedIsStored, Stored
    <3>7. Stays(old[p], t)
      BY <3>1, <3>3, Mapped DEF Stays
    <3>8. Follows(old, n1)
      BY <1>1, <3>5, <3>7 DEF Follows
    <3> QED
      BY <3>5, <3>6, <3>8 DEF Trees
  <2> QED
    BY <2>1, <2>2
<1> HIDE DEF n1
<1>4. SetDeleted(n1, id) \in Trees(K) /\ Follows(n1, SetDeleted(n1, id))
  BY <1>3, SetDeletedKeeps
<1> QED
  BY <1>2, <1>3, <1>4, FollowsOn DEF Later

\* The same of the clean-up.
LEMMA CollectedIn ==
  ASSUME NEW n, NEW S \in SUBSET Ids, NEW order \in SetToSeqs(S),
         NEW P, FixChildren(n, DeadOf(n)) \in P,
         \A m \in P : \A id \in Ids : CollectIf(m, n, id) \in P
  PROVE  Collected(n, order) \in P
<1> DEFINE c == Cardinality(S)
           base == FixChildren(n, DeadOf(n))
           Step(m, id) == CollectIf(m, n, id)
           Eq(it) == it = [s \in SUBSET (1..c) |->
                        IF s = {} THEN base ELSE Step(it[s \ {Max(s)}], order[Max(s)])]
           iter == CHOOSE it : Eq(it)
           G == [p \in (1..c) \X P |-> Step(p[2], order[p[1]])]
<1>1. c \in Nat /\ DOMAIN order = 1..c /\ \A i \in 1..c : order[i] \in Ids
  BY SeqOfIds
<1> HIDE DEF c
<1>2. Collected(n, order) = iter[1..c]
  <2> HIDE DEF base
  <2>1. FoldLeft(LAMBDA m, id : CollectIf(m, n, id), base, order) = iter[1..c]
    BY <1>1 DEF FoldLeft, MapThenFoldSet
  <2> QED
    BY <2>1 DEF Collected, base
<1>3. base \in P /\ \A m \in P : \A id \in Ids : Step(m, id) \in P
  OBVIOUS
<1> HIDE DEF iter, base
<1>4. \A i \in 1..c : \A m \in P : G[<<i, m>>] \in P /\ G[<<i, m>>] = Step(m, order[i])
  BY <1>1, <1>3
<1> HIDE DEF G, Step
<1>5. PICK it \in [SUBSET (1..c) -> P] : Folding(it, SUBSET (1..c), base, G)
  BY <1>1, <1>3, <1>4, FoldExists
<1>6. \A s \in SUBSET (1..c) : s # {} => Max(s) \in 1..c /\ it[s \ {Max(s)}] \in P
  BY <1>1, <1>5, PriorIsLess DEF Prior
<1>7. \A s \in SUBSET (1..c) : s # {} => G[<<Max(s), it[Prior(s)]>>] = Step(it[s \ {Max(s)}], order[Max(s)])
  BY <1>4, <1>6 DEF Prior
<1>8. Eq(it)
  BY <1>5, <1>7 DEF Folding
<1>9. Eq(iter)
  BY <1>8 DEF iter
<1> DEFINE Q == [s \in SUBSET (1..c) |-> P]
<1>10. iter[{}] \in Q[{}]
  BY <1>3, <1>9
<1>11. ASSUME NEW s \in SUBSET (1..c), s # {}, iter[Prior(s)] \in Q[Prior(s)] PROVE iter[s] \in Q[s]
  <2>1. Max(s) \in 1..c /\ Prior(s) \in SUBSET (1..c)
    BY <1>1, <1>11, PriorIsLess
  <2>2. iter[s] = Step(iter[Prior(s)], order[Max(s)])
    BY <1>9, <1>11 DEF Prior
  <2>3. iter[Prior(s)] \in P /\ order[Max(s)] \in Ids
    BY <1>1, <1>11, <2>1
  <2> QED
    BY <1>3, <2>2, <2>3
<1> HIDE DEF Q
<1>12. iter[1..c] \in Q[1..c]
  BY <1>1, <1>10, <1>11, FoldStays
<1> QED
  BY <1>2, <1>12 DEF Q

LEMMA CollectedKeeps ==
  ASSUME NEW K, NoSkips \in K, NEW n \in Trees(K), NEW S \in SUBSET Ids, NEW order \in SetToSeqs(S)
  PROVE  \E L : NoSkips \in L /\ Collected(n, order) \in Later(n, L)
<1>1. DeadOf(n) \in SUBSET Ids
  BY DEF DeadOf
<1>2. PICK L : /\ K \subseteq L /\ FixChildren(n, DeadOf(n)) \in Trees(L)
               /\ Follows(n, FixChildren(n, DeadOf(n)))
  BY <1>1, FixChildrenKeeps
<1> DEFINE P == Later(n, L)
<1>3. NoSkips \in L /\ n \in Trees(L)
  BY <1>2, MoreSkips
<1>4. \A m \in P : \A id \in Ids : CollectIf(m, n, id) \in P
  BY <1>3, CollectKeeps DEF CollectIf
<1>5. FixChildren(n, DeadOf(n)) \in P
  BY <1>2 DEF Later
<1> HIDE DEF P
<1>6. Collected(n, order) \in P
  BY <1>4, <1>5, CollectedIn
<1> QED
  BY <1>3, <1>6 DEF P

-----------------------------------------------------------------------------
(* The check at mount. *)

OwnSkips(K, skips) == K \cup {skips[id] : id \in DOMAIN skips} \cup {NoSkips}

LEMMA OwnFixKeeps ==
  ASSUME NEW K, NEW n \in Trees(K), NEW svs \in [Subvols -> BchSubvolume], NEW id \in Ids, NEW skips
  PROVE  /\ OwnFix(n, svs, id, skips) \in NodeOf(OwnSkips(K, skips))
         /\ OwnFix(n, svs, id, skips).deleted = n[id].deleted
         /\ OwnFix(n, svs, id, skips).kind = n[id].kind
         /\ OwnFix(n, svs, id, skips).subvol \in {0, n[id].subvol}
<1> DEFINE L == OwnSkips(K, skips)
           s == n[id]
           skip == IF id \in DOMAIN skips THEN skips[id] ELSE s.skip
           depth == n[s.parent].depth + 1
           placed == IF s.parent = 0 THEN [s EXCEPT !.depth = 1, !.skip = <<0, 0, 0>>]
                     ELSE [s EXCEPT !.depth = depth, !.skip = skip]
           crossed == CrossChecked(placed, id, svs)
           children == [i \in Slots |-> IF s.children[i] \in Alive(n) THEN s.children[i] ELSE 0]
<1>1. n \in [Ids -> NodeOf(K)] /\ s \in NodeOf(K)
  BY DEF Trees
<1>2. OwnFix(n, svs, id, skips) = [crossed EXCEPT !.children = children]
  BY DEF OwnFix
<1>3. K \subseteq L /\ skip \in L /\ <<0, 0, 0>> \in L
  BY <1>1, Mapped DEF OwnSkips, NoSkips
<1>4. s.parent # 0 => depth \in Nat
  BY <1>1, Mapped DEF Ref, Ids
<1>5. children \in [Slots -> Ref]
  BY <1>1, Mapped, ConstantAssumption DEF Ref
<1> HIDE DEF L, skip, depth, children
<1>6. s \in NodeOf(L)
  BY <1>1, <1>3 DEF NodeOf
<1> HIDE DEF s
<1>7. /\ placed \in NodeOf(L) /\ placed.deleted = s.deleted
      /\ placed.kind = s.kind /\ placed.subvol = s.subvol
  <2>1. CASE s.parent = 0
    BY <1>3, <1>6, <2>1 DEF NodeOf
  <2>2. CASE s.parent # 0
    BY <1>3, <1>4, <1>6, <2>2 DEF NodeOf
  <2> QED
    BY <2>1, <2>2
<1> HIDE DEF placed
<1>8. /\ crossed \in NodeOf(L) /\ crossed.deleted = s.deleted
      /\ crossed.kind = s.kind /\ crossed.subvol \in {0, s.subvol}
  <2> DEFINE known == placed.subvol # 0 /\ svs[placed.subvol].exists
             mine == known /\ svs[placed.subvol].snapshot = id
             v == IF placed.subvol # 0 /\ ~known THEN 0 ELSE placed.subvol
  <2>1. mine \in BOOLEAN
    OBVIOUS
  <2>2. v \in 0..MaxSubvol /\ v \in {0, s.subvol}
    BY <1>7, Mapped, ConstantAssumption
  <2>3. crossed = IF ~placed.SUBVOL THEN placed ELSE [placed EXCEPT !.SUBVOL = mine, !.subvol = v]
    BY DEF CrossChecked
  <2> HIDE DEF mine, v
  <2>4. CASE ~placed.SUBVOL
    BY <1>7, <2>3, <2>4
  <2>5. CASE placed.SUBVOL
    BY <1>7, <2>1, <2>2, <2>3, <2>5 DEF NodeOf
  <2> QED
    BY <2>4, <2>5
<1> HIDE DEF crossed
<1>9. /\ [crossed EXCEPT !.children = children] \in NodeOf(L)
      /\ [crossed EXCEPT !.children = children].deleted = crossed.deleted
      /\ [crossed EXCEPT !.children = children].kind = crossed.kind
      /\ [crossed EXCEPT !.children = children].subvol = crossed.subvol
  BY <1>5, <1>8 DEF NodeOf
<1> QED
  BY <1>2, <1>8, <1>9 DEF L, s

\* Where no chain is broken a repair is for a living node, and takes back nothing.
LEMMA FixesKeep ==
  ASSUME NEW K, NEW n \in Trees(K), NEW svs \in [Subvols -> BchSubvolume], NEW skips,
         ~ChainBroken(n), NEW x \in Alive(n), NEW f \in FixesAt(n, svs, x, skips)
  PROVE  /\ f[1] \in Alive(n) /\ f[2] \in NodeOf(OwnSkips(K, skips))
         /\ f[2].deleted = n[f[1]].deleted /\ f[2].kind = n[f[1]].kind
         /\ f[2].subvol \in {0, n[f[1]].subvol}
<1> DEFINE L == OwnSkips(K, skips)
           own == OwnFix(n, svs, x, skips)
           p == n[x].parent
           adopting == Adopting(n[p], x)
           Moved(c) == [n[c] EXCEPT !.parent = x]
<1>1. n \in [Ids -> NodeOf(K)] /\ x \in Ids /\ Alive(n) \subseteq Ids /\ K \subseteq L
  BY DEF Trees, Alive, OwnSkips
<1>2. \A c \in Ids : n[c] \in NodeOf(L)
  BY <1>1 DEF NodeOf
<1>3. \/ f = <<x, own>>
      \/ x \in Missing(n) /\ f = <<p, adopting>>
      \/ \E c \in Alive(n) : f = <<c, Moved(c)>>
  BY DEF FixesAt
<1>4. CASE f = <<x, own>>
  BY <1>1, <1>4, OwnFixKeeps
<1>5. CASE x \in Missing(n) /\ f = <<p, adopting>>
  <2>1. p \in Alive(n) /\ p \in Ids
    BY <1>1, <1>5 DEF Missing, ChainBroken
  <2>2. n[p] \in NodeOf(L) /\ x \in Ref
    BY <1>1, <1>2, <2>1 DEF Ids, Ref
  <2>3. /\ adopting \in NodeOf(L) /\ adopting.deleted = n[p].deleted
        /\ adopting.kind = n[p].kind /\ adopting.subvol = n[p].subvol
    <3> DEFINE q == n[p]
               i == IF q.children[1] = 0 THEN 1 ELSE 2
               children == [q.children EXCEPT ![i] = x]
    <3>1. q \in NodeOf(L)
      BY <2>2
    <3>2. adopting = [q EXCEPT !.children = children]
      BY DEF Adopting
    <3> HIDE DEF q, adopting
    <3>3. children \in [Slots -> Ref]
      BY <2>2, <3>1, Mapped DEF Slots
    <3> HIDE DEF children
    <3>4. /\ adopting \in NodeOf(L) /\ adopting.deleted = q.deleted
          /\ adopting.kind = q.kind /\ adopting.subvol = q.subvol
      BY <3>1, <3>2, <3>3 DEF NodeOf
    <3> QED
      BY <3>4 DEF q
  <2> HIDE DEF p, adopting, L
  <2>4. f[1] = p /\ f[2] = adopting
    BY <1>5
  <2> QED
    BY <2>1, <2>3, <2>4 DEF L
<1>6. ASSUME NEW c \in Alive(n), f = <<c, Moved(c)>>
      PROVE  /\ f[1] \in Alive(n) /\ f[2] \in NodeOf(L)
             /\ f[2].deleted = n[f[1]].deleted /\ f[2].kind = n[f[1]].kind
             /\ f[2].subvol \in {0, n[f[1]].subvol}
  <2>1. x \in Ref /\ n[c] \in NodeOf(L)
    BY <1>1, <1>2 DEF Ids, Ref
  <2>2. /\ Moved(c) \in NodeOf(L) /\ Moved(c).deleted = n[c].deleted
        /\ Moved(c).kind = n[c].kind /\ Moved(c).subvol = n[c].subvol
    BY <2>1 DEF NodeOf
  <2> HIDE DEF Moved, L
  <2>3. f[1] = c /\ f[2] = Moved(c)
    BY <1>6
  <2> QED
    BY <2>2, <2>3
<1> QED
  BY <1>3, <1>4, <1>5, <1>6

\* The check leaves a node as it is or writes one of the repairs that are for it.
LEMMA CheckedIs ==
  ASSUME NEW n, NEW svs, NEW skips, NEW order \in SetToSeqs(Repairing(n, svs, skips)), NEW id \in Ids
  PROVE  \/ Checked(n, svs, order, skips)[id] = n[id]
         \/ \E x \in Alive(n) : \E f \in FixesAt(n, svs, x, skips) :
              f[1] = id /\ Checked(n, svs, order, skips)[id] = f[2]
<1> DEFINE c == Cardinality(Repairing(n, svs, skips))
           fixes == [k \in DOMAIN order |-> FixesAt(n, svs, order[k], skips)]
           of == {k \in DOMAIN order : \E f \in fixes[k] : f[1] = id}
           fix == CHOOSE f \in fixes[Min(of)] : f[1] = id
           m == Checked(n, svs, order, skips)
<1>1. Repairing(n, svs, skips) \subseteq Alive(n) /\ Alive(n) \subseteq Ids
  BY DEF Repairing, Alive
<1>2. c \in Nat /\ DOMAIN order = 1..c /\ \A k \in 1..c : order[k] \in Alive(n)
  BY <1>1, SeqOfIds
<1>3. m[id] = IF of = {} THEN n[id] ELSE fix[2]
  BY DEF Checked
<1> HIDE DEF c, m
<1>4. ASSUME of # {} PROVE \E x \in Alive(n) : \E f \in FixesAt(n, svs, x, skips) : f[1] = id /\ fix[2] = f[2]
  <2>1. Min(of) \in of
    <3>1. of \subseteq Nat
      BY <1>2
    <3> HIDE DEF of
    <3>2. PICK k \in of : \A j \in of : k <= j
      BY <1>4, <3>1, LeastNat
    <3> QED
      BY <3>2 DEF Min
  <2> DEFINE k == Min(of)
  <2>2. k \in DOMAIN order /\ \E g \in fixes[k] : g[1] = id
    BY <2>1
  <2> HIDE DEF k
  <2>3. fix \in fixes[k] /\ fix[1] = id
    BY <2>2 DEF k
  <2>4. fix \in FixesAt(n, svs, order[k], skips) /\ order[k] \in Alive(n)
    BY <1>2, <2>2, <2>3
  <2> QED
    BY <2>3, <2>4
<1> QED
  BY <1>3, <1>4 DEF m

LEMMA CheckedKeeps ==
  ASSUME NEW K, NEW n \in Trees(K), NEW svs \in [Subvols -> BchSubvolume], NEW skips,
         ~ChainBroken(n), NEW order \in SetToSeqs(Repairing(n, svs, skips))
  PROVE  Checked(n, svs, order, skips) \in Later(n, OwnSkips(K, skips))
<1> DEFINE L == OwnSkips(K, skips)
           m == Checked(n, svs, order, skips)
<1>1. m = [id \in Ids |-> m[id]]
  BY DEF Checked
<1>2. n \in [Ids -> NodeOf(K)] /\ MarkedIsStored(n) /\ K \subseteq L
  BY DEF Trees, OwnSkips
<1>3. ASSUME NEW id \in Ids
      PROVE  /\ m[id] \in NodeOf(L) /\ (m[id].deleted => m[id].kind # "none")
             /\ Stored(n, id) => Stays(n[id], m[id])
  <2>1. CASE m[id] = n[id]
    <3>1. n[id] \in NodeOf(L)
      BY <1>2 DEF NodeOf
    <3> QED
      BY <1>2, <2>1, <3>1 DEF MarkedIsStored, Stored, Stays
  <2>2. CASE m[id] # n[id]
    <3> HIDE DEF m
    <3>1. PICK x \in Alive(n) : \E f \in FixesAt(n, svs, x, skips) : f[1] = id /\ m[id] = f[2]
      BY <2>2, CheckedIs DEF m
    <3>2. PICK f \in FixesAt(n, svs, x, skips) : f[1] = id /\ m[id] = f[2]
      BY <3>1
    <3>3. /\ id \in Alive(n) /\ m[id] \in NodeOf(L)
          /\ m[id].deleted = n[id].deleted /\ m[id].kind = n[id].kind
          /\ m[id].subvol \in {0, n[id].subvol}
      BY <3>2, FixesKeep
    <3> QED
      BY <3>3 DEF Alive, Stored, Stays
  <2> QED
    BY <2>1, <2>2
<1> HIDE DEF m
<1>4. m \in Trees(L)
  BY <1>1, <1>3 DEF Trees, MarkedIsStored, Stored
<1>5. Follows(n, m)
  BY <1>3 DEF Follows
<1> QED
  BY <1>4, <1>5 DEF Later, m

-----------------------------------------------------------------------------
(* New nodes. *)

LEMMA NextIdIsFresh ==
  ASSUME NEW n
  PROVE  /\ NextId(n) >= 1 => NextId(n) \in Ids /\ ~Stored(n, NextId(n))
         /\ NextId(n) >= 2 => NextId(n) >= 1 /\ NextId(n) - 1 \in Ids /\ ~Stored(n, NextId(n) - 1)
<1> DEFINE used == {id \in Ids : Stored(n, id)}
<1>1. MaxId \in Nat \ {0} /\ used \subseteq Nat
  BY ConstantAssumption DEF Ids
<1>2. NextId(n) = IF used = {} THEN MaxId ELSE Min(used) - 1
  BY DEF NextId
<1>3. \A id \in Ids : Stored(n, id) => id \in used
  OBVIOUS
<1>4. used \subseteq Ids
  OBVIOUS
<1> HIDE DEF used
<1>5. CASE used = {}
  BY <1>1, <1>2, <1>3, <1>5 DEF Ids
<1>6. CASE used # {}
  <2>1. PICK least \in used : \A id \in used : least <= id
    BY <1>1, <1>6, LeastNat
  <2>2. Min(used) \in used /\ \A id \in used : Min(used) <= id
    BY <2>1 DEF Min
  <2> DEFINE x == Min(used)
  <2> HIDE DEF x
  <2>3. NextId(n) = x - 1 /\ x \in Ids /\ \A id \in used : x <= id
    BY <1>2, <1>4, <1>6, <2>2 DEF x
  <2>4. \A id \in Ids : id < x => ~Stored(n, id)
    BY <1>3, <2>3 DEF Ids
  <2> QED
    BY <1>1, <2>3, <2>4 DEF Ids
<1> QED
  BY <1>5, <1>6

LEMMA NewLeafType ==
  ASSUME NEW K, NoSkips \in K, NEW v \in 0..MaxSubvol
  PROVE  /\ NewLeaf(v) \in NodeOf(K) /\ NewLeaf(v).kind = "normal"
         /\ NewLeaf(v).subvol = v /\ NewLeaf(v).deleted = FALSE
<1>1. <<0, 0>> \in [Slots -> Ref] /\ 0 \in Ref
  BY Pair, ConstantAssumption DEF Ref
<1> QED
  BY <1>1 DEF NewLeaf, Absent, NodeOf, NoSkips

LEMMA AbsentType ==
  ASSUME NEW K, NoSkips \in K
  PROVE  Absent \in NodeOf(K) /\ Absent.kind = "none" /\ Absent.deleted = FALSE
<1>1. <<0, 0>> \in [Slots -> Ref] /\ 0 \in Ref /\ 0 \in 0..MaxSubvol
  BY Pair, ConstantAssumption DEF Ref
<1> QED
  BY <1>1 DEF Absent, NodeOf, NoSkips

LEMMA ChildOfType ==
  ASSUME NEW K, NEW n \in Trees(K), NEW parent \in Ids, NEW id \in Ids, NEW v \in 0..MaxSubvol,
         NEW skip \in K
  PROVE  /\ ChildOf(n, parent, id, v, skip) \in NodeOf(K)
         /\ ChildOf(n, parent, id, v, skip).kind = "normal"
         /\ ChildOf(n, parent, id, v, skip).subvol = v
<1> DEFINE bits == BitsUnder(n[parent], parent - id)
           depth == n[parent].depth + 1
<1>1. bits \in SUBSET (1..Width)
  BY DEF BitsUnder
<1>2. depth \in Nat
  BY Mapped DEF Trees
<1>3. <<0, 0>> \in [Slots -> Ref] /\ parent \in Ref
  BY Pair, ConstantAssumption DEF Ref, Ids
<1> DEFINE t == [Absent EXCEPT !.kind = "normal", !.parent = parent, !.subvol = v, !.skip = skip,
                               !.isAncestor = bits, !.depth = depth, !.SUBVOL = TRUE]
<1>4. ChildOf(n, parent, id, v, skip) = t
  BY DEF ChildOf
<1>5. Absent \in NodeOf(K \cup {NoSkips})
  BY AbsentType
<1> HIDE DEF bits, depth
<1>6. t \in NodeOf(K) /\ t.kind = "normal" /\ t.subvol = v
  BY <1>1, <1>2, <1>3, <1>5 DEF NodeOf
<1> QED
  BY <1>4, <1>6

LEMMA InteriorType ==
  ASSUME NEW K, NEW s \in NodeOf(K), NEW children \in [Slots -> Ref]
  PROVE  LET t == Interior(s, children)
         IN  t \in NodeOf(K) /\ t.kind = "normal" /\ t.subvol = 0 /\ t.deleted = s.deleted
<1>1. 0 \in 0..MaxSubvol
  BY ConstantAssumption
<1> QED
  BY <1>1 DEF Interior, NodeOf

\* A node with one more child.
LEMMA WithChildKeeps ==
  ASSUME NEW K, NEW n \in Trees(K), NEW parent \in Ids, Stored(n, parent),
         NEW id \in Ids, ~Stored(n, id), NEW skip \in K
  PROVE  WithChild(n, parent, id, skip) \in Trees(K) /\ Follows(n, WithChild(n, parent, id, skip))
<1> DEFINE t == ChildOf(n, parent, id, 0, skip)
           children == [n[parent].children EXCEPT ![1] = id]
           u == Interior(n[parent], children)
           n1 == [n EXCEPT ![id] = t]
           n2 == [n1 EXCEPT ![parent] = u]
<1>1. n \in [Ids -> NodeOf(K)] /\ n[parent] \in NodeOf(K) /\ id \in Ref /\ id # parent
  BY DEF Trees, Ids, Ref
<1>2. t \in NodeOf(K) /\ t.kind = "normal"
  <2>1. 0 \in 0..MaxSubvol
    BY ConstantAssumption
  <2> QED
    BY <2>1, ChildOfType
<1>3. children \in [Slots -> Ref]
  BY <1>1, Mapped DEF Slots
<1>4. WithChild(n, parent, id, skip) = n2
  <2>1. WithChild(n, parent, id, skip) = [n EXCEPT ![id] = t, ![parent] = Interior(n[parent], children)]
    BY <1>1 DEF WithChild
  <2> HIDE DEF t, children
  <2> QED
    BY <2>1
<1> HIDE DEF t, children
<1>5. u \in NodeOf(K) /\ u.kind = "normal" /\ u.subvol = 0 /\ u.deleted = n[parent].deleted
  BY <1>1, <1>3, InteriorType
<1> HIDE DEF u
<1>6. n1 \in Trees(K) /\ Follows(n, n1) /\ n1[parent] = n[parent]
  BY <1>1, <1>2, Rewritten
<1> HIDE DEF n1
<1>7. Stays(n1[parent], u)
  BY <1>5, <1>6 DEF Stays
<1>8. n2 \in Trees(K) /\ Follows(n1, n2)
  BY <1>5, <1>6, <1>7, Rewritten
<1> HIDE DEF n2
<1> QED
  BY <1>4, <1>6, <1>8, FollowsOn

\* A node with two children, one for each subvolume.
LEMMA WithChildrenKeeps ==
  ASSUME NEW K, NEW n \in Trees(K), NEW parent \in Ids, Stored(n, parent),
         NEW id \in Ids, ~Stored(n, id), id - 1 \in Ids, ~Stored(n, id - 1), NEW skip \in K,
         NEW new \in 0..MaxSubvol, NEW src \in 0..MaxSubvol
  PROVE  LET m == WithChildren(n, parent, id, new, src, skip)
         IN  /\ m \in Trees(K) /\ Follows(n, m)
             /\ Stored(m, id) /\ m[id].subvol = new
             /\ Stored(m, id - 1) /\ m[id - 1].subvol = src
<1> DEFINE t == ChildOf(n, parent, id, new, skip)
           r == ChildOf(n, parent, id - 1, src, skip)
           children == <<id, id - 1>>
           u == Interior(n[parent], children)
           n1 == [n EXCEPT ![id] = t]
           n2 == [n1 EXCEPT ![id - 1] = r]
           n3 == [n2 EXCEPT ![parent] = u]
<1>1. /\ n \in [Ids -> NodeOf(K)] /\ n[parent] \in NodeOf(K) /\ id \in Ref /\ id - 1 \in Ref
      /\ id # parent /\ id - 1 # parent /\ id # id - 1
  BY DEF Trees, Ids, Ref
<1>2. /\ t \in NodeOf(K) /\ t.kind = "normal" /\ t.subvol = new
      /\ r \in NodeOf(K) /\ r.kind = "normal" /\ r.subvol = src
  BY ChildOfType
<1>3. children \in [Slots -> Ref]
  BY <1>1, Pair
<1>4. WithChildren(n, parent, id, new, src, skip) = n3
  <2>1. WithChildren(n, parent, id, new, src, skip) =
          [n EXCEPT ![id] = t, ![id - 1] = r, ![parent] = Interior(n[parent], children)]
    BY <1>1 DEF WithChildren
  <2> HIDE DEF t, r, children
  <2> QED
    BY <2>1
<1> HIDE DEF t, r, children
<1>5. u \in NodeOf(K) /\ u.kind = "normal" /\ u.subvol = 0 /\ u.deleted = n[parent].deleted
  BY <1>1, <1>3, InteriorType
<1> HIDE DEF u
<1>6. n1 \in Trees(K) /\ Follows(n, n1) /\ n1[parent] = n[parent] /\ ~Stored(n1, id - 1) /\ n1[id] = t
  <2>1. n1 \in Trees(K) /\ Follows(n, n1)
    BY <1>1, <1>2, Rewritten
  <2> QED
    BY <1>1, <2>1 DEF Stored
<1> HIDE DEF n1
<1>7. /\ n2 \in Trees(K) /\ Follows(n1, n2) /\ n2[parent] = n[parent]
      /\ n2[id] = t /\ n2[id - 1] = r
  <2>1. n2 \in Trees(K) /\ Follows(n1, n2)
    BY <1>1, <1>2, <1>6, Rewritten
  <2> QED
    BY <1>1, <1>6, <2>1 DEF Trees
<1> HIDE DEF n2
<1>8. Stays(n2[parent], u)
  BY <1>5, <1>7 DEF Stays
<1>9. n3 \in Trees(K) /\ Follows(n2, n3)
  BY <1>5, <1>7, <1>8, Rewritten
<1>10. n3[id] = t /\ n3[id - 1] = r
  BY <1>1, <1>7 DEF Trees
<1> HIDE DEF n3
<1>11. Follows(n, n3)
  BY <1>6, <1>7, <1>9, FollowsOn
<1> QED
  BY <1>2, <1>4, <1>9, <1>10, <1>11 DEF Stored

-----------------------------------------------------------------------------
(* The subvolumes of a tree. *)

LinkedIn(s, v) == s[v].exists /\ ~s[v].unlinked

\* A linked subvolume has a snapshot that is there, is nobody else's, and that no
\* other linked one has.
Refers(n, s) ==
  \A v \in Subvols : LinkedIn(s, v) =>
    /\ s[v].snapshot \in Ids /\ Stored(n, s[v].snapshot)
    /\ n[s[v].snapshot].subvol \in {0, v}
    /\ \A w \in Subvols : LinkedIn(s, w) /\ s[v].snapshot = s[w].snapshot => v = w

Parented(s) ==
  \A v \in Subvols : LinkedIn(s, v) /\ s[v].creationParent # 0 =>
    s[v].creationParent \in Subvols /\ LinkedIn(s, s[v].creationParent)

SvTypes == [Subvols -> BchSubvolume]

LEMMA RefersLater ==
  ASSUME NEW K, NEW n, NEW m, Follows(n, m), NEW s \in SvTypes, Refers(n, s)
  PROVE  Refers(m, s)
BY DEF Refers, Follows, Stays, Stored

LEMMA NewSubvolType ==
  ASSUME NEW snapshot \in Ref, NEW parent \in 0..MaxSubvol
  PROVE  /\ NewSubvol(snapshot, parent) \in BchSubvolume
         /\ NewSubvol(snapshot, parent).exists = TRUE /\ NewSubvol(snapshot, parent).unlinked = FALSE
         /\ NewSubvol(snapshot, parent).snapshot = snapshot
         /\ NewSubvol(snapshot, parent).creationParent = parent
BY DEF NewSubvol, BchSubvolume

SnapInv ==
  /\ \E K : NoSkips \in K /\ node \in Trees(K)
  /\ sv \in SvTypes
  /\ counter \in 1..(MaxSubvol + 1)
  /\ root \in Ids
  /\ first \in {0, 1}
  /\ Refers(node, sv)
  /\ Parented(sv)

\* A step that only changes the tree.
LEMMA TreeStep ==
  ASSUME SnapInv, NEW L, NoSkips \in L, node' \in Trees(L), Follows(node, node'),
         counter' \in 1..(MaxSubvol + 1), root' \in Ids, sv' = sv, first' = first
  PROVE  SnapInv'
<1>1. Refers(node', sv)
  BY RefersLater DEF SnapInv
<1>2. Refers(node, sv)' /\ Parented(sv)'
  BY <1>1 DEF SnapInv, Refers, Parented, LinkedIn, Stored
<1>3. (\E K : NoSkips \in K /\ node \in Trees(K))'
  OBVIOUS
<1> QED
  BY <1>2, <1>3 DEF SnapInv

\* The first trees: the root snapshot, with or without a subvolume on it.
LEMMA FirstTrees ==
  ASSUME first \in {0, 1}
  PROVE  /\ FirstNode \in Trees({NoSkips})
         /\ FirstSv \in SvTypes /\ Refers(FirstNode, FirstSv) /\ Parented(FirstSv)
<1>1. MaxId \in Ids /\ 1 \in Subvols /\ first \in 0..MaxSubvol /\ 0 \in 0..MaxSubvol /\ 0 \in Ref /\ MaxId \in Ref
  BY ConstantAssumption DEF Ids, Ref, Subvols
<1> DEFINE K == {NoSkips}
<1>2. NoSkips \in K
  OBVIOUS
<1> HIDE DEF K
<1>3. FirstNode \in Trees(K) /\ Stored(FirstNode, MaxId) /\ FirstNode[MaxId].subvol = first
  <2>1. /\ NewLeaf(first) \in NodeOf(K) /\ NewLeaf(first).kind = "normal" /\ NewLeaf(first).subvol = first
        /\ Absent \in NodeOf(K) /\ Absent.deleted = FALSE
    BY <1>1, <1>2, NewLeafType, AbsentType
  <2>2. FirstNode \in [Ids -> NodeOf(K)]
    BY <2>1 DEF FirstNode
  <2>3. /\ FirstNode[MaxId] = NewLeaf(first)
        /\ \A id \in Ids : FirstNode[id] = NewLeaf(first) \/ FirstNode[id] = Absent
    BY <1>1 DEF FirstNode
  <2> QED
    BY <2>1, <2>2, <2>3 DEF Trees, MarkedIsStored, Stored
<1>4. NoSubvol \in BchSubvolume /\ NoSubvol.exists = FALSE
  BY <1>1 DEF NoSubvol, BchSubvolume
<1>5. /\ NewSubvol(MaxId, 0) \in BchSubvolume /\ NewSubvol(MaxId, 0).snapshot = MaxId
      /\ NewSubvol(MaxId, 0).creationParent = 0
  BY <1>1, NewSubvolType
<1>6. FirstSv \in SvTypes
  BY <1>4, <1>5 DEF FirstSv, SvTypes
<1>7. \A v \in Subvols : LinkedIn(FirstSv, v) =>
        v = first /\ FirstSv[v].snapshot = MaxId /\ FirstSv[v].creationParent = 0
  BY <1>4, <1>5 DEF FirstSv, LinkedIn
<1> QED
  BY <1>1, <1>3, <1>6, <1>7 DEF Refers, Parented, K

LEMMA InitHolds == Init => SnapInv
BY FirstTrees, ConstantAssumption DEF Init, SnapInv, Ids

-----------------------------------------------------------------------------
(* The steps. *)

\* The tree after a step follows the one before it.
Continues == \E L : NoSkips \in L /\ node' \in Trees(L) /\ Follows(node, node')

LEMMA CreateSnapshotKeeps ==
  ASSUME SnapInv, CreateSnapshot PROVE SnapInv' /\ Continues
<1>1. PICK K : NoSkips \in K /\ node \in Trees(K)
  BY DEF SnapInv
<1>2. PICK skip : node' = WithChild(node, root, NextId(node), skip)
  BY DEF CreateSnapshot
<1>3. NextId(node) \in Ids /\ ~Stored(node, NextId(node)) /\ root \in Ids /\ Stored(node, root)
  BY NextIdIsFresh DEF CreateSnapshot, SnapInv, Normal, Stored
<1> DEFINE L == K \cup {skip}
<1>4. NoSkips \in L /\ node \in Trees(L) /\ skip \in L
  BY <1>1, MoreSkips
<1> HIDE DEF L
<1>5. node' \in Trees(L) /\ Follows(node, node')
  BY <1>2, <1>3, <1>4, WithChildKeeps
<1>6. sv' = sv /\ counter' \in 1..(MaxSubvol + 1) /\ root' \in Ids /\ first' = first
  BY DEF CreateSnapshot, SnapInv, Keep, Rest
<1>7. SnapInv'
  BY <1>4, <1>5, <1>6, TreeStep
<1> QED
  BY <1>4, <1>5, <1>7 DEF Continues

LEMMA DeleteSnapshotKeeps ==
  ASSUME SnapInv, NEW id \in Ids, DeleteSnapshot(id) PROVE SnapInv' /\ Continues
<1>1. PICK K : NoSkips \in K /\ node \in Trees(K)
  BY DEF SnapInv
<1>2. node' \in Trees(K) /\ Follows(node, node')
  BY <1>1, SetDeletedKeeps DEF DeleteSnapshot
<1>3. sv' = sv /\ counter' \in 1..(MaxSubvol + 1) /\ root' \in Ids /\ first' = first
  BY DEF DeleteSnapshot, SnapInv, Deleting, Rest
<1>4. SnapInv'
  BY <1>1, <1>2, <1>3, TreeStep
<1> QED
  BY <1>1, <1>2, <1>4 DEF Continues

LEMMA DeleteInteriorKeeps ==
  ASSUME SnapInv, DeleteInterior PROVE SnapInv' /\ Continues
<1>1. PICK K : NoSkips \in K /\ node \in Trees(K)
  BY DEF SnapInv
<1>2. PICK noKeys \in SUBSET SingleChild(node) : node' = Removed(node, noKeys)
  BY DEF DeleteInterior
<1>3. noKeys \in SUBSET Ids
  BY DEF SingleChild, Alive
<1>4. PICK L : NoSkips \in L /\ node' \in Trees(L) /\ Follows(node, node')
  BY <1>1, <1>2, <1>3, RemovedKeeps
<1>5. sv' = sv /\ counter' \in 1..(MaxSubvol + 1) /\ root' \in Ids /\ first' = first
  BY DEF DeleteInterior, SnapInv, Deleting, Rest
<1>6. SnapInv'
  BY <1>4, <1>5, TreeStep
<1> QED
  BY <1>4, <1>6 DEF Continues

LEMMA DeleteDeadKeeps ==
  ASSUME SnapInv, DeleteDead PROVE SnapInv' /\ Continues
<1>1. PICK K : NoSkips \in K /\ node \in Trees(K)
  BY DEF SnapInv
<1> DEFINE S == {id \in DeadOf(node) : ~HasVolumeRef(node, id)}
<1>2. PICK order \in SetToSeqs(S) : node' = Collected(node, order)
  BY DEF DeleteDead
<1>3. S \in SUBSET Ids
  BY DEF DeadOf
<1> HIDE DEF S
<1>4. PICK L : NoSkips \in L /\ node' \in Trees(L) /\ Follows(node, node')
  BY <1>1, <1>2, <1>3, CollectedKeeps DEF Later
<1>5. sv' = sv /\ counter' \in 1..(MaxSubvol + 1) /\ root' \in Ids /\ first' = first
  BY DEF DeleteDead, SnapInv
<1>6. SnapInv'
  BY <1>4, <1>5, TreeStep
<1> QED
  BY <1>4, <1>6 DEF Continues

\* The first trees have no deleted parent, so the check does not give up on them.
LEMMA FirstTaken == ASSUME first \in {0, 1} PROVE ~ChainBroken(FirstNode)
<1>1. \A id \in Ids : FirstNode[id].parent = 0
  BY DEF FirstNode, NewLeaf, Absent
<1> QED
  BY <1>1 DEF ChainBroken, Alive

\* The check leaves the root of the first trees a living root.
LEMMA FirstRootStays ==
  ASSUME first \in {0, 1}, NEW skips,
         NEW order \in SetToSeqs(Repairing(FirstNode, FirstSv, skips))
  PROVE  /\ MaxId \in Alive(Checked(FirstNode, FirstSv, order, skips))
         /\ Checked(FirstNode, FirstSv, order, skips)[MaxId].parent = 0
<1> DEFINE n == FirstNode
           m == Checked(n, FirstSv, order, skips)
<1>0. SUFFICES MaxId \in Alive(m) /\ m[MaxId].parent = 0
  OBVIOUS
<1>1. \A id \in Ids : n[id].parent = 0 /\ n[id].children = <<0, 0>>
  BY DEF FirstNode, NewLeaf, Absent
<1>2. MaxId \in Ids /\ 0 \notin Alive(n) /\ MaxId \in Alive(n)
  BY ConstantAssumption DEF Ids, Alive, FirstNode, NewLeaf, Absent, Stored
<1>3. n \in Trees({NoSkips}) /\ FirstSv \in [Subvols -> BchSubvolume] /\ ~ChainBroken(n)
  BY FirstTrees, FirstTaken DEF SvTypes
<1> HIDE DEF n
<1>4. CASE m[MaxId] = n[MaxId]
  <2> HIDE DEF m
  <2> QED
    BY <1>1, <1>2, <1>4 DEF Alive, Stored
<1>5. CASE m[MaxId] # n[MaxId]
  <2>1. PICK x \in Alive(n) : \E f \in FixesAt(n, FirstSv, x, skips) : f[1] = MaxId /\ m[MaxId] = f[2]
    BY <1>2, <1>3, <1>5, CheckedIs DEF n
  <2>2. PICK f \in FixesAt(n, FirstSv, x, skips) : f[1] = MaxId /\ m[MaxId] = f[2]
    BY <2>1
  <2>3. x \in Ids /\ n[x].parent = 0 /\ \A i \in Slots : n[x].children[i] = 0
    BY <1>1 DEF Alive, Slots
  <2>4. x \notin Missing(n) /\ \A i \in Slots : n[x].children[i] \notin Alive(n)
    BY <1>2, <2>3 DEF Missing
  <2>5. f = <<x, OwnFix(n, FirstSv, x, skips)>>
    BY <2>2, <2>4 DEF FixesAt
  <2>6. OwnFix(n, FirstSv, x, skips).parent = n[x].parent
    BY <2>3 DEF OwnFix, CrossChecked
  <2>7. f[2] = OwnFix(n, FirstSv, x, skips) /\ f[1] = x
    BY <2>5
  <2>8. MaxId \in Alive(n) /\ m[MaxId].deleted = n[MaxId].deleted /\ m[MaxId].kind = n[MaxId].kind
    BY <1>3, <2>2, FixesKeep
  <2> HIDE DEF m
  <2> QED
    BY <2>2, <2>3, <2>6, <2>7, <2>8 DEF Alive, Stored
<1> QED
  BY <1>4, <1>5 DEF n

LEMMA MountKeeps ==
  ASSUME SnapInv, Mount PROVE SnapInv'
<1>1. first \in {0, 1} /\ first' = first /\ sv' = FirstSv /\ counter' \in 1..(MaxSubvol + 1)
  BY ConstantAssumption DEF Mount, SnapInv
<1>2. PICK skips \in Rebuilt(FirstNode) : \E order \in SetToSeqs(Repairing(FirstNode, FirstSv, skips)) :
        node' = Checked(FirstNode, FirstSv, order, skips)
  BY DEF Mount, CheckedAll
<1>3. PICK order \in SetToSeqs(Repairing(FirstNode, FirstSv, skips)) :
        node' = Checked(FirstNode, FirstSv, order, skips)
  BY <1>2
<1> DEFINE K == {NoSkips}
           L == OwnSkips(K, skips)
<1>4. node' \in Trees(L) /\ Follows(FirstNode, node') /\ NoSkips \in L
  <2>1. FirstNode \in Trees(K) /\ FirstSv \in SvTypes
    BY <1>1, FirstTrees
  <2> QED
    BY <1>1, <1>3, <2>1, FirstTaken, CheckedKeeps DEF Later, SvTypes, OwnSkips
<1> HIDE DEF L
<1>5. Refers(node', FirstSv)
  BY <1>1, <1>4, FirstTrees, RefersLater
<1>6. root' \in Ids
  <2> DEFINE roots == {id \in Alive(node') : node'[id].parent = 0}
  <2>1. MaxId \in Ids
    BY ConstantAssumption DEF Ids
  <2>2. MaxId \in roots
    BY <1>1, <1>3, FirstRootStays
  <2>3. roots \subseteq 0..MaxId /\ MaxId \in Nat /\ roots \subseteq Ids
    BY ConstantAssumption DEF Alive, Ids
  <2>4. root' = Max(roots)
    BY DEF Mount
  <2> HIDE DEF roots
  <2> QED
    BY <2>2, <2>3, <2>4, GreatestIsThere
<1>7. Parented(FirstSv) /\ FirstSv \in SvTypes
  BY <1>1, FirstTrees
<1>8. Refers(node, sv)' /\ Parented(sv)' /\ sv' \in SvTypes
  BY <1>1, <1>5, <1>7 DEF Refers, Parented, LinkedIn, Stored
<1>9. (\E M : NoSkips \in M /\ node \in Trees(M))'
  BY <1>4
<1> QED
  BY <1>1, <1>6, <1>8, <1>9 DEF SnapInv

LEMMA CreateSubvolKeeps ==
  ASSUME SnapInv, CreateSubvol PROVE SnapInv' /\ Continues
<1> DEFINE id == NextId(node)
<1>1. PICK K : NoSkips \in K /\ node \in Trees(K)
  BY DEF SnapInv
<1>2. /\ id \in Ids /\ ~Stored(node, id) /\ id \in Ref
      /\ counter \in Subvols /\ counter \in 0..MaxSubvol /\ 0 \in 0..MaxSubvol
      /\ counter' \in 1..(MaxSubvol + 1) /\ root' \in Ids /\ first' \in {0, 1}
  BY NextIdIsFresh, ConstantAssumption DEF CreateSubvol, SnapInv, Subvols, Ids, Ref, Keep, Rest
<1>3. /\ node' = [node EXCEPT ![id] = NewLeaf(counter)]
      /\ sv' = [sv EXCEPT ![counter] = NewSubvol(id, 0)]
  BY DEF CreateSubvol
<1> HIDE DEF id
<1>4. /\ node' \in Trees(K) /\ Follows(node, node')
      /\ Stored(node', id) /\ node'[id].subvol = counter
  <2> DEFINE t == NewLeaf(counter)
  <2>1. t \in NodeOf(K) /\ t.kind = "normal" /\ t.subvol = counter
    BY <1>1, <1>2, NewLeafType
  <2>2. node' = [node EXCEPT ![id] = t]
    BY <1>3
  <2> HIDE DEF t
  <2>3. node' \in Trees(K) /\ Follows(node, node')
    BY <1>1, <1>2, <2>1, <2>2, Rewritten
  <2>4. node'[id] = t
    BY <1>1, <1>2, <2>2 DEF Trees
  <2> QED
    BY <2>1, <2>3, <2>4 DEF Stored
<1> DEFINE e == NewSubvol(id, 0)
<1>5. /\ e \in BchSubvolume /\ e.exists = TRUE /\ e.unlinked = FALSE /\ e.snapshot = id
      /\ e.creationParent = 0
  BY <1>2, NewSubvolType
<1>6. sv \in SvTypes /\ sv' = [sv EXCEPT ![counter] = e]
  BY <1>3 DEF SnapInv
<1> HIDE DEF e
<1>7. /\ sv' \in SvTypes /\ sv'[counter] = e
      /\ \A v \in Subvols \ {counter} : sv'[v] = sv[v]
  BY <1>2, <1>5, <1>6 DEF SvTypes
<1>8. Refers(node', sv')
  <2>1. Refers(node', sv) /\ Refers(node, sv)
    BY <1>4, <1>6, RefersLater DEF SnapInv
  <2>2. \A v \in Subvols \ {counter} : LinkedIn(sv, v) => sv[v].snapshot # id
    BY <1>2, <2>1 DEF Refers
  <2> QED
    BY <1>2, <1>4, <1>5, <1>7, <2>1, <2>2 DEF Refers, LinkedIn
<1>9. Parented(sv')
  BY <1>5, <1>7 DEF Parented, LinkedIn, SnapInv
<1>10. SnapInv'
  <2>1. Refers(node, sv)' /\ Parented(sv)'
    BY <1>8, <1>9 DEF Refers, Parented, LinkedIn, Stored
  <2> QED
    BY <1>1, <1>2, <1>4, <1>7, <2>1 DEF SnapInv
<1> QED
  BY <1>1, <1>4, <1>10 DEF Continues

LEMMA SnapshotSubvolKeeps ==
  ASSUME SnapInv, NEW v \in Subvols, SnapshotSubvol(v) PROVE SnapInv' /\ Continues
<1> DEFINE id == NextId(node)
           parent == sv[v].snapshot
<1>1. PICK K : NoSkips \in K /\ node \in Trees(K)
  BY DEF SnapInv
<1>2. /\ counter \in Subvols /\ counter \in 0..MaxSubvol /\ v \in 0..MaxSubvol
      /\ counter' \in 1..(MaxSubvol + 1) /\ root' \in Ids /\ first' = first /\ first \in {0, 1}
      /\ LinkedIn(sv, v) /\ parent \in Ids /\ Stored(node, parent) /\ sv \in SvTypes
  BY ConstantAssumption DEF SnapshotSubvol, SnapInv, Subvols, Linked, LinkedIn, Refers, Keep, Rest
<1>3. CASE UNCHANGED <<node, sv>>
  <2>1. Follows(node, node') /\ node' \in Trees(K) /\ sv' = sv
    BY <1>1, <1>3 DEF Follows, Stays, Stored
  <2> QED
    BY <1>1, <1>2, <2>1, TreeStep DEF Continues
<1>4. CASE /\ id >= 2
           /\ \E skip \in SkipsOf(node, parent) :
                node' = WithChildren(node, parent, id, counter, v, skip)
           /\ sv' = [[sv EXCEPT ![v].snapshot = id - 1] EXCEPT ![counter] = NewSubvol(id, v)]
  <2>1. PICK skip : node' = WithChildren(node, parent, id, counter, v, skip)
    BY <1>4
  <2>2. id \in Ids /\ ~Stored(node, id) /\ id - 1 \in Ids /\ ~Stored(node, id - 1)
    BY <1>4, NextIdIsFresh
  <2>3. id \in Ref /\ id - 1 \in Ref /\ id # id - 1
    BY <2>2 DEF Ids, Ref
  <2> DEFINE L == K \cup {skip}
             e == NewSubvol(id, v)
             f == [sv[v] EXCEPT !.snapshot = id - 1]
             s1 == [sv EXCEPT ![v] = f]
  <2>4. NoSkips \in L /\ node \in Trees(L) /\ skip \in L
    BY <1>1, MoreSkips
  <2>5. sv' = [s1 EXCEPT ![counter] = e]
    BY <1>4
  <2> HIDE DEF id, parent, L
  <2>6. /\ node' \in Trees(L) /\ Follows(node, node')
        /\ Stored(node', id) /\ node'[id].subvol = counter
        /\ Stored(node', id - 1) /\ node'[id - 1].subvol = v
    BY <1>2, <2>1, <2>2, <2>4, WithChildrenKeeps
  <2>7. /\ e \in BchSubvolume /\ e.exists = TRUE /\ e.unlinked = FALSE /\ e.snapshot = id
        /\ e.creationParent = v
    BY <1>2, <2>3, NewSubvolType
  <2>8. /\ f \in BchSubvolume /\ f.exists = sv[v].exists /\ f.unlinked = sv[v].unlinked
        /\ f.snapshot = id - 1 /\ f.creationParent = sv[v].creationParent
    BY <1>2, <2>3 DEF SvTypes, BchSubvolume
  <2> HIDE DEF e, f
  <2>9. s1 \in SvTypes /\ s1[v] = f /\ \A w \in Subvols \ {v} : s1[w] = sv[w]
    BY <1>2, <2>8 DEF SvTypes
  <2> HIDE DEF s1
  <2>10. /\ sv' \in SvTypes /\ sv'[counter] = e /\ (v # counter => sv'[v] = f)
         /\ \A w \in Subvols \ {v, counter} : sv'[w] = sv[w]
    BY <1>2, <2>5, <2>7, <2>9 DEF SvTypes
  <2>11. Refers(node', sv')
    <3>1. Refers(node', sv) /\ Refers(node, sv)
      BY <1>2, <2>6, RefersLater DEF SnapInv
    <3>2. \A w \in Subvols : LinkedIn(sv, w) => sv[w].snapshot # id /\ sv[w].snapshot # id - 1
      BY <2>2, <3>1 DEF Refers
    <3>3. \A w \in Subvols :
            \/ w = counter /\ sv'[w].snapshot = id
            \/ w = v /\ w # counter /\ sv'[w].snapshot = id - 1
            \/ w \notin {v, counter} /\ sv'[w] = sv[w]
      BY <2>7, <2>8, <2>10
    <3>4. ASSUME NEW w \in Subvols, LinkedIn(sv', w)
          PROVE  /\ sv'[w].snapshot \in Ids /\ Stored(node', sv'[w].snapshot)
                 /\ node'[sv'[w].snapshot].subvol \in {0, w}
      <4>1. CASE w = counter /\ sv'[w].snapshot = id
        BY <2>2, <2>6, <4>1
      <4>2. CASE w = v /\ w # counter /\ sv'[w].snapshot = id - 1
        BY <2>2, <2>6, <4>2
      <4>3. CASE w \notin {v, counter} /\ sv'[w] = sv[w]
        BY <3>1, <3>4, <4>3 DEF Refers, LinkedIn
      <4> QED
        BY <3>3, <4>1, <4>2, <4>3
    <3>5. ASSUME NEW w \in Subvols, LinkedIn(sv', w), NEW x \in Subvols, LinkedIn(sv', x),
                 sv'[w].snapshot = sv'[x].snapshot
          PROVE  w = x
      <4>1. ASSUME NEW y \in Subvols \ {v, counter}, LinkedIn(sv', y)
            PROVE  sv'[y].snapshot = sv[y].snapshot /\ LinkedIn(sv, y)
        BY <2>10, <4>1 DEF LinkedIn
      <4> QED
        BY <2>3, <3>1, <3>2, <3>3, <3>5, <4>1 DEF Refers
    <3> QED
      BY <3>4, <3>5 DEF Refers
  <2>12. Parented(sv')
    <3>1. Parented(sv) /\ counter \in Subvols
      BY <1>2 DEF SnapInv
    <3>2. LinkedIn(sv', v) /\ LinkedIn(sv', counter)
      BY <1>2, <2>7, <2>8, <2>10 DEF LinkedIn
    <3>3. \A w \in Subvols : LinkedIn(sv, w) => LinkedIn(sv', w)
      BY <2>10, <3>2 DEF LinkedIn
    <3>4. \A w \in Subvols : LinkedIn(sv', w) =>
            sv'[w].creationParent = v \/ (LinkedIn(sv, w) /\ sv'[w].creationParent = sv[w].creationParent)
      BY <1>2, <2>7, <2>8, <2>10 DEF LinkedIn
    <3> QED
      BY <3>1, <3>2, <3>3, <3>4 DEF Parented
  <2>13. SnapInv'
    <3>1. Refers(node, sv)' /\ Parented(sv)'
      BY <2>11, <2>12 DEF Refers, Parented, LinkedIn, Stored
    <3> QED
      BY <1>2, <2>4, <2>6, <2>10, <3>1 DEF SnapInv
  <2> QED
    BY <2>4, <2>6, <2>13 DEF Continues
<1> QED
  BY <1>3, <1>4 DEF SnapshotSubvol

LEMMA DeleteSubvolKeeps ==
  ASSUME SnapInv, NEW v \in Subvols, DeleteSubvol(v) PROVE SnapInv' /\ Continues
<1> DEFINE after == Reparented(v)
           e == [after[v] EXCEPT !.unlinked = TRUE]
           ok == v # 1 /\ sv[v].exists /\ TriggerOk(v, e)
<1>1. PICK K : NoSkips \in K /\ node \in Trees(K)
  BY DEF SnapInv
<1>2. /\ counter' \in 1..(MaxSubvol + 1) /\ root' \in Ids /\ sv \in SvTypes
      /\ 0 \in 0..MaxSubvol /\ first' \in {0, 1}
  BY ConstantAssumption DEF DeleteSubvol, SnapInv, Deleting, Rest
<1>3. /\ sv' = IF ok THEN [after EXCEPT ![v] = e] ELSE after
      /\ node' = IF ok THEN SetDeleted(node, e.snapshot) ELSE node
  BY DEF DeleteSubvol
<1>4. ASSUME NEW w \in Subvols
      PROVE  /\ after[w] \in BchSubvolume /\ after[w].snapshot = sv[w].snapshot
             /\ after[w].exists = sv[w].exists /\ after[w].unlinked = sv[w].unlinked
             /\ after[w].creationParent \in {0, sv[w].creationParent}
             /\ LinkedIn(sv, w) => after[w].creationParent # v
  <2> DEFINE t == [sv[w] EXCEPT !.creationParent = 0]
  <2>1. /\ t \in BchSubvolume /\ t.snapshot = sv[w].snapshot /\ t.exists = sv[w].exists
        /\ t.unlinked = sv[w].unlinked /\ t.creationParent = 0
    BY <1>2 DEF SvTypes, BchSubvolume
  <2>2. after[w] = IF sv[w].creationParent = v /\ Linked(w) THEN t ELSE sv[w]
    BY DEF Reparented
  <2>3. v # 0
    BY DEF Subvols
  <2> HIDE DEF t
  <2> QED
    BY <1>2, <2>1, <2>2, <2>3 DEF SvTypes, Linked, LinkedIn
<1>5. after = [w \in Subvols |-> after[w]]
  BY DEF Reparented
<1> HIDE DEF after
<1>6. /\ e \in BchSubvolume /\ e.snapshot = sv[v].snapshot /\ e.unlinked = TRUE
  BY <1>4 DEF BchSubvolume
<1> HIDE DEF e
<1>7. node' \in Trees(K) /\ Follows(node, node')
  <2>1. CASE ~ok
    BY <1>1, <1>3, <2>1 DEF Follows, Stays, Stored
  <2>2. CASE ok
    <3>1. CASE e.snapshot \in Ids
      BY <1>1, <1>3, <2>2, <3>1, SetDeletedKeeps
    <3>2. CASE e.snapshot \notin Ids
      <4>1. SetDeleted(node, e.snapshot) = node
        BY <1>1, <3>2 DEF SetDeleted, Trees
      <4> QED
        BY <1>1, <1>3, <2>2, <4>1 DEF Follows, Stays, Stored
    <3> QED
      BY <3>1, <3>2
  <2> QED
    BY <2>1, <2>2
<1>8. /\ sv' \in SvTypes
      /\ \A w \in Subvols :
           /\ LinkedIn(sv', w) => /\ LinkedIn(sv, w) /\ sv'[w].snapshot = sv[w].snapshot
                                  /\ sv'[w].creationParent \in {0, sv[w].creationParent}
                                  /\ sv'[w].creationParent # v
           /\ LinkedIn(sv, w) /\ w # v => LinkedIn(sv', w)
  <2>1. CASE ok
    <3>1. sv' = [after EXCEPT ![v] = e]
      BY <1>3, <2>1
    <3>2. sv'[v] = e /\ \A w \in Subvols \ {v} : sv'[w] = after[w]
      BY <1>5, <3>1
    <3>3. sv' \in SvTypes
      BY <1>4, <1>5, <1>6, <3>1 DEF SvTypes
    <3> QED
      BY <1>4, <1>6, <3>2, <3>3 DEF LinkedIn
  <2>2. CASE ~ok
    <3>1. sv' = after
      BY <1>3, <2>2
    <3> QED
      BY <1>4, <1>5, <3>1 DEF LinkedIn, SvTypes
  <2> QED
    BY <2>1, <2>2
<1>9. Refers(node', sv')
  <2>1. Refers(node', sv)
    BY <1>2, <1>7, RefersLater DEF SnapInv
  <2> QED
    BY <1>8, <2>1 DEF Refers
<1>10. Parented(sv')
  BY <1>8 DEF Parented, SnapInv
<1>11. Refers(node, sv)' /\ Parented(sv)'
  BY <1>9, <1>10 DEF Refers, Parented, LinkedIn, Stored
<1> QED
  BY <1>1, <1>2, <1>7, <1>8, <1>11 DEF SnapInv, Continues

LEMMA StepKeeps == SnapInv /\ [Next]_vars => SnapInv' /\ (Continues \/ Mount)
<1> SUFFICES ASSUME SnapInv, [Next]_vars PROVE SnapInv' /\ (Continues \/ Mount)
  OBVIOUS
<1>1. CASE UNCHANGED vars
  <2>1. PICK K : NoSkips \in K /\ node \in Trees(K)
    BY DEF SnapInv
  <2>2. /\ node' = node /\ sv' = sv /\ counter' \in 1..(MaxSubvol + 1) /\ root' \in Ids
        /\ Follows(node, node') /\ first' = first
    BY <1>1 DEF vars, SnapInv, Follows, Stays, Stored
  <2> QED
    BY <2>1, <2>2, TreeStep DEF Continues
<1>2. CASE Mount
  BY <1>2, MountKeeps
<1>3. CASE Next /\ ~Mount
  BY <1>3, CreateSnapshotKeeps, CreateSubvolKeeps, DeleteInteriorKeeps, DeleteDeadKeeps,
     DeleteSnapshotKeeps, SnapshotSubvolKeeps, DeleteSubvolKeeps DEF Next
<1> QED
  BY <1>1, <1>2, <1>3

LEMMA Invariant == Spec => []SnapInv
BY InitHolds, StepKeeps, PTL DEF Spec

-----------------------------------------------------------------------------
\* The snapshot of a linked subvolume never names another one, and no two linked
\* subvolumes share one, whatever is snapshotted, deleted or cleaned up
\* (snapshot_subvol, bch2_snapshot_node_create).  Nor has one an unlinked parent,
\* whether or not the deletion of the parent is refused after its children were
\* reparented (Volume::delete_subvol, bch2_subvolumes_reparent).
THEOREM SubvolsStayMatched == Spec => []SubvolsAgree
<1>1. SnapInv => SubvolBackRef
  BY DEF SnapInv, Refers, SubvolBackRef, Linked, LinkedIn
<1>2. SnapInv => NoOrphan
  BY DEF SnapInv, Parented, NoOrphan, Linked, LinkedIn
<1> QED
  BY <1>1, <1>2, Invariant, PTL DEF SubvolsAgree

-----------------------------------------------------------------------------
(* Climbing the tree. *)

\* A function on a set D of ids, or 0, that is B where it stops and elsewhere comes by
\* G from its value at the next id up, N.
Climbs(f, D, Stop, B, N, G) == f = [c \in D |-> IF c \in Stop THEN B[c] ELSE G[<<c, f[N[c]]>>]]

\* There is one, because the ids end at MaxId.
LEMMA ClimbExists ==
  ASSUME NEW D \in SUBSET Ref, NEW V, NEW Stop, NEW B, NEW N, NEW G,
         \A c \in D : c \in Stop => B[c] \in V,
         \A c \in D : c \notin Stop => N[c] \in D /\ (N[c] \in Stop \/ N[c] > c),
         \A c \in D : \A v \in V : G[<<c, v>>] \in V
  PROVE  \E f \in [D -> V] : Climbs(f, D, Stop, B, N, G)
<1> DEFINE Top(k) == {c \in D : c \in Stop \/ c > MaxId - k}
           E(k) == \E f \in [Top(k) -> V] : Climbs(f, Top(k), Stop, B, N, G)
           Bad == {k \in Nat : ~E(k)}
<1>0. MaxId \in Nat /\ \A c \in D : c \in 0..MaxId
  BY ConstantAssumption DEF Ref
<1>1. E(0)
  <2> DEFINE f == [c \in Top(0) |-> B[c]]
  <2>1. \A c \in Top(0) : c \in Stop /\ c \in D
    BY <1>0
  <2>2. f \in [Top(0) -> V]
    BY <2>1
  <2>3. Climbs(f, Top(0), Stop, B, N, G)
    BY <2>1 DEF Climbs
  <2> QED
    BY <2>2, <2>3
<1>2. ASSUME NEW k \in Nat, E(k) PROVE E(k + 1)
  <2>1. PICK f \in [Top(k) -> V] : Climbs(f, Top(k), Stop, B, N, G)
    BY <1>2
  <2> DEFINE g == [c \in Top(k + 1) |-> IF c \in Stop THEN B[c] ELSE G[<<c, f[N[c]]>>]]
  <2>2. ASSUME NEW c \in Top(k + 1), c \notin Stop PROVE c \in D /\ N[c] \in Top(k) /\ N[c] \in Top(k + 1)
    <3>1. c \in D /\ c \in 0..MaxId /\ c > MaxId - (k + 1)
      BY <1>0, <2>2
    <3>2. N[c] \in D /\ (N[c] \in Stop \/ N[c] > c)
      BY <2>2, <3>1
    <3>3. N[c] \in 0..MaxId
      BY <1>0, <3>2
    <3> QED
      BY <1>0, <3>1, <3>2, <3>3
  <2>3. g \in [Top(k + 1) -> V]
    <3>1. ASSUME NEW c \in Top(k + 1) PROVE (IF c \in Stop THEN B[c] ELSE G[<<c, f[N[c]]>>]) \in V
      BY <2>1, <2>2
    <3> QED
      BY <3>1
  <2>4. ASSUME NEW c \in Top(k) PROVE g[c] = f[c]
    <3>1. c \in Top(k + 1)
      BY <1>0
    <3>2. f[c] = IF c \in Stop THEN B[c] ELSE G[<<c, f[N[c]]>>]
      BY <2>1 DEF Climbs
    <3> QED
      BY <3>1, <3>2
  <2>5. Climbs(g, Top(k + 1), Stop, B, N, G)
    <3>1. \A c \in Top(k + 1) : c \notin Stop => g[N[c]] = f[N[c]]
      BY <2>2, <2>4
    <3> HIDE DEF Top
    <3> QED
      BY <3>1 DEF Climbs
  <2> QED
    BY <2>3, <2>5
<1> HIDE DEF E
<1>3. Bad = {}
  <2> SUFFICES ASSUME Bad # {} PROVE FALSE
    OBVIOUS
  <2>1. PICK k \in Bad : \A j \in Bad : k <= j
    BY LeastNat
  <2>2. k # 0 /\ k - 1 \in Nat
    BY <1>1
  <2>3. E(k - 1)
    BY <2>1, <2>2
  <2>4. E(k - 1 + 1)
    BY <1>2, <2>2, <2>3
  <2>5. k - 1 + 1 = k
    BY <2>2
  <2> QED
    BY <2>4, <2>5
<1>4. E(MaxId + 1)
  BY <1>0, <1>3
<1>5. Top(MaxId + 1) = D
  BY <1>0
<1> QED
  BY <1>4, <1>5 DEF E

\* What is true of an id when it is true of all above it is true of every id.
LEMMA FromTheTop ==
  ASSUME NEW S, \A c \in Ids : (\A a \in Ids : a > c => a \in S) => c \in S
  PROVE  Ids \subseteq S
<1> DEFINE Bad == {MaxId - c : c \in {d \in Ids : d \notin S}}
<1> SUFFICES ASSUME NEW d \in Ids, d \notin S PROVE FALSE
  OBVIOUS
<1>0. MaxId \in Nat /\ \A c \in Ids : c \in Nat /\ c <= MaxId
  BY ConstantAssumption DEF Ids
<1>1. Bad \subseteq Nat /\ Bad # {}
  BY <1>0
<1>2. PICK k \in Bad : \A j \in Bad : k <= j
  BY <1>1, LeastNat
<1>3. PICK c \in Ids : c \notin S /\ k = MaxId - c
  BY <1>2
<1>4. ASSUME NEW a \in Ids, a > c PROVE a \in S
  <2> SUFFICES ASSUME a \notin S PROVE FALSE
    OBVIOUS
  <2>1. MaxId - a \in Bad
    OBVIOUS
  <2>2. MaxId - c <= MaxId - a
    BY <1>2, <1>3, <2>1
  <2> QED
    BY <1>0, <1>4, <2>2
<1> QED
  BY <1>3, <1>4

\* Every parent is stored and above its child.
Rising(n) ==
  \A c \in Ids : Stored(n, c) =>
    \/ n[c].parent = 0
    \/ n[c].parent \in Ids /\ n[c].parent > c /\ Stored(n, n[c].parent)

Ends(n) == {c \in Ref : c = 0 \/ ~Stored(n, c)}

\* A reference is 0 or an id.
LEMMA RefIsId == 0 \in Ref /\ Ids \subseteq Ref /\ \A c \in Ref : c = 0 \/ c \in Ids
BY ConstantAssumption DEF Ref, Ids

\* The chain of a node is the node and the chain of its parent.
LEMMA ChainIs ==
  ASSUME NEW n, Rising(n)
  PROVE  /\ \A c \in Ref : Chain(n, c) \in Seq(Ids)
         /\ \A c \in Ends(n) : Chain(n, c) = <<>>
         /\ \A c \in Ids : Stored(n, c) =>
              n[c].parent \in Ref /\ Chain(n, c) = <<c>> \o Chain(n, n[c].parent)
<1> DEFINE Eq(f) == f = [i \in Ref |-> IF i = 0 \/ ~Stored(n, i) THEN <<>> ELSE <<i>> \o f[n[i].parent]]
           path == CHOOSE f : Eq(f)
           N == [c \in Ref |-> n[c].parent]
           B == [c \in Ref |-> <<>>]
           G == [p \in Ref \X Seq(Ids) |-> <<p[1]>> \o p[2]]
           H == [p \in Ref \X Seq(Ids) |-> IF p[1] = 0 THEN <<>> ELSE G[p]]
<1>1. \A c \in Ref : Chain(n, c) = path[c]
  BY DEF Chain
<1> HIDE DEF path
<1>2. \A c \in Ref : c \notin Ends(n) => c \in Ids /\ Stored(n, c)
  BY RefIsId DEF Ends
<1>3. \A c \in Ref : c \notin Ends(n) => n[c].parent \in Ref /\ (n[c].parent \in Ends(n) \/ n[c].parent > c)
  BY <1>2, RefIsId DEF Rising, Ends
<1>4. \A c \in Ref : \A v \in Seq(Ids) : H[<<c, v>>] \in Seq(Ids)
  <2> SUFFICES ASSUME NEW c \in Ref, NEW v \in Seq(Ids) PROVE H[<<c, v>>] \in Seq(Ids)
    OBVIOUS
  <2>1. CASE c = 0
    BY <2>1
  <2>2. CASE c # 0
    <3>1. c \in Ids
      BY <2>2, RefIsId
    <3>2. H[<<c, v>>] = <<c>> \o v
      BY <2>2
    <3> QED
      BY <3>1, <3>2
  <2> QED
    BY <2>1, <2>2
<1>5. \A c \in Ref : \A v \in Seq(Ids) : c # 0 => H[<<c, v>>] = <<c>> \o v
  OBVIOUS
<1>6. \A c \in Ref : B[c] = <<>> /\ N[c] = n[c].parent
  OBVIOUS
<1>7. \A c \in Ref : B[c] \in Seq(Ids)
  BY <1>6
<1> HIDE DEF N, B, H
<1>8. PICK f \in [Ref -> Seq(Ids)] : Climbs(f, Ref, Ends(n), B, N, H)
  <2>1. \A c \in Ref : c \notin Ends(n) => N[c] \in Ref /\ (N[c] \in Ends(n) \/ N[c] > c)
    BY <1>3, <1>6
  <2>2. Ref \in SUBSET Ref
    OBVIOUS
  <2> QED
    BY <1>4, <1>7, <2>1, <2>2, ClimbExists
<1>9. Eq(f)
  <2>1. ASSUME NEW c \in Ref
        PROVE  (IF c \in Ends(n) THEN B[c] ELSE H[<<c, f[N[c]]>>]) =
               (IF c = 0 \/ ~Stored(n, c) THEN <<>> ELSE <<c>> \o f[n[c].parent])
    <3>1. c \in Ends(n) <=> c = 0 \/ ~Stored(n, c)
      BY DEF Ends
    <3>2. CASE c \in Ends(n)
      BY <1>6, <3>1, <3>2
    <3>3. CASE c \notin Ends(n)
      <4>1. f[N[c]] \in Seq(Ids) /\ N[c] = n[c].parent /\ c # 0
        BY <1>3, <1>6, <1>8, <3>1, <3>3
      <4> QED
        BY <1>5, <3>1, <3>3, <4>1
    <3> QED
      BY <3>2, <3>3
  <2> QED
    BY <1>8, <2>1 DEF Climbs
<1>10. Eq(path)
  BY <1>9 DEF path
<1>11. \A c \in Ref : path[c] = IF c = 0 \/ ~Stored(n, c) THEN <<>> ELSE <<c>> \o path[n[c].parent]
  BY <1>10
<1> HIDE DEF Eq
<1>12. path[0] = <<>> /\ \A c \in Ids : ~Stored(n, c) => path[c] = <<>>
  BY <1>11, RefIsId, Zenon
<1>13. ASSUME NEW c \in Ids, Stored(n, c) PROVE path[c] = <<c>> \o path[n[c].parent]
  <2>1. c # 0 /\ c \in Ref
    BY RefIsId DEF Ids
  <2> QED
    BY <1>11, <1>13, <2>1, Zenon
<1> DEFINE S == {c \in Ids : path[c] \in Seq(Ids)}
<1>14. ASSUME NEW c \in Ids, \A a \in Ids : a > c => a \in S PROVE c \in S
  <2>1. CASE ~Stored(n, c)
    <3>1. <<>> \in Seq(Ids)
      OBVIOUS
    <3> QED
      BY <1>12, <2>1, <3>1, Zenon
  <2>2. CASE Stored(n, c)
    <3> DEFINE s == path[n[c].parent]
    <3>1. s \in Seq(Ids)
      <4>1. CASE n[c].parent = 0
        <5>1. <<>> \in Seq(Ids)
          OBVIOUS
        <5> QED
          BY <1>12, <4>1, <5>1, Zenon
      <4>2. CASE n[c].parent \in Ids /\ n[c].parent > c
        BY <1>14, <4>2, Zenon
      <4> QED
        BY <2>2, <4>1, <4>2, Zenon DEF Rising
    <3> HIDE DEF s
    <3>2. <<c>> \o s \in Seq(Ids)
      BY <3>1
    <3>3. path[c] = <<c>> \o s
      BY <1>13, <2>2, Zenon DEF s
    <3> QED
      BY <3>2, <3>3, Zenon
  <2> QED
    BY <2>1, <2>2, Zenon
<1> HIDE DEF S
<1>15. Ids \subseteq S
  BY <1>14, FromTheTop, Zenon
<1>16. \A c \in Ref : path[c] \in Seq(Ids)
  <2>1. \A c \in Ids : path[c] \in Seq(Ids)
    BY <1>15, Zenon DEF S
  <2>2. <<>> \in Seq(Ids)
    OBVIOUS
  <2> QED
    BY <1>12, <2>1, <2>2, RefIsId, Zenon
<1>17. \A c \in Ends(n) : c \in Ref /\ path[c] = <<>>
  BY <1>12, RefIsId, Zenon DEF Ends
<1>18. \A c \in Ids : Stored(n, c) => n[c].parent \in Ref /\ c \in Ref
  BY RefIsId, Zenon DEF Rising
<1> QED
  BY <1>1, <1>13, <1>16, <1>17, <1>18, Zenon

\* A node with its ancestors.
UpSet(n, c) == ToSet(Chain(n, c))

\* So are the nodes on it.
LEMMA UpSetIs ==
  ASSUME NEW n, Rising(n)
  PROVE  /\ \A c \in Ref : UpSet(n, c) \subseteq Ids
         /\ \A c \in Ends(n) : UpSet(n, c) = {}
         /\ \A c \in Ids : Stored(n, c) =>
              n[c].parent \in Ref /\ UpSet(n, c) = {c} \cup UpSet(n, n[c].parent)
<1>1. ASSUME NEW c \in Ref PROVE UpSet(n, c) \subseteq Ids
  <2>1. Chain(n, c) \in Seq(Ids)
    BY ChainIs
  <2> QED
    BY <2>1 DEF UpSet, ToSet
<1>2. ASSUME NEW c \in Ends(n) PROVE UpSet(n, c) = {}
  <2>1. Chain(n, c) = <<>>
    BY ChainIs
  <2> QED
    BY <2>1 DEF UpSet, ToSet
<1>3. ASSUME NEW c \in Ids, Stored(n, c)
      PROVE  n[c].parent \in Ref /\ UpSet(n, c) = {c} \cup UpSet(n, n[c].parent)
  <2> DEFINE s == Chain(n, n[c].parent)
             t == Chain(n, c)
  <2>1. n[c].parent \in Ref /\ t = <<c>> \o s
    BY <1>3, ChainIs
  <2>2. s \in Seq(Ids)
    BY <2>1, ChainIs
  <2> HIDE DEF s, t
  <2>3. Len(t) = Len(s) + 1 /\ t[1] = c /\ \A i \in 1..Len(s) : t[i + 1] = s[i]
    BY <2>1, <2>2
  <2>4. DOMAIN t = 1..(Len(s) + 1) /\ DOMAIN s = 1..Len(s) /\ Len(s) \in Nat
    BY <2>1, <2>2, <2>3
  <2>5. \A j \in 1..(Len(s) + 1) : j = 1 \/ (j - 1 \in 1..Len(s) /\ j = j - 1 + 1)
    BY <2>4
  <2>6. ToSet(t) = {c} \cup ToSet(s)
    <3>1. ASSUME NEW x \in ToSet(t) PROVE x \in {c} \cup ToSet(s)
      <4>1. PICK j \in 1..(Len(s) + 1) : x = t[j]
        BY <2>4 DEF ToSet
      <4>2. j = 1 \/ (j - 1 \in DOMAIN s /\ x = s[j - 1])
        BY <2>3, <2>4, <2>5, <4>1
      <4> QED
        BY <2>3, <4>1, <4>2 DEF ToSet
    <3>2. ASSUME NEW x \in ToSet(s) PROVE x \in ToSet(t)
      <4>1. PICK j \in 1..Len(s) : x = s[j]
        BY <2>4 DEF ToSet
      <4>2. j + 1 \in DOMAIN t /\ t[j + 1] = x
        BY <2>3, <2>4, <4>1
      <4> QED
        BY <4>2 DEF ToSet
    <3>3. c \in ToSet(t)
      <4>1. 1 \in DOMAIN t
        BY <2>4
      <4> QED
        BY <2>3, <4>1 DEF ToSet
    <3> QED
      BY <3>1, <3>2, <3>3
  <2> QED
    BY <2>1, <2>6 DEF UpSet, s, t
<1> QED
  BY <1>1, <1>2, <1>3

\* The ancestors of a node are above it, and of two of them the higher one is an
\* ancestor of the other.
LEMMA UpSetOrder ==
  ASSUME NEW n, Rising(n), NEW c \in Ids
  PROVE  \A a \in UpSet(n, c) :
           /\ a \in Ids /\ a >= c /\ Stored(n, c) /\ Stored(n, a) /\ UpSet(n, a) \subseteq UpSet(n, c)
           /\ \A b \in UpSet(n, c) : b >= a => b \in UpSet(n, a)
<1> DEFINE S == {x \in Ids : \A a \in UpSet(n, x) :
           /\ a \in Ids /\ a >= x /\ Stored(n, x) /\ Stored(n, a) /\ UpSet(n, a) \subseteq UpSet(n, x)
           /\ \A b \in UpSet(n, x) : b >= a => b \in UpSet(n, a)}
<1>1. ASSUME NEW x \in Ids, \A y \in Ids : y > x => y \in S PROVE x \in S
  <2>0. x \in Ref
    BY RefIsId
  <2>1. CASE ~Stored(n, x)
    <3>1. UpSet(n, x) = {}
      BY <2>0, <2>1, UpSetIs DEF Ends
    <3> QED
      BY <3>1
  <2>2. CASE Stored(n, x)
    <3> DEFINE p == n[x].parent
               U == UpSet(n, p)
    <3>1. UpSet(n, x) = {x} \cup U /\ p \in Ref
      BY <2>2, UpSetIs
    <3>2. CASE p = 0
      <4>1. U = {}
        BY <3>2, UpSetIs, RefIsId DEF Ends
      <4>2. x \in Nat
        BY DEF Ids
      <4> QED
        BY <2>2, <3>1, <4>1, <4>2
    <3>3. CASE p # 0
      <4>1. p \in Ids /\ p > x /\ Stored(n, p) /\ x \in Nat /\ p \in Nat
        BY <2>2, <3>3 DEF Rising, Ids
      <4>2. \A a \in U : /\ a \in Ids /\ a >= p /\ Stored(n, a) /\ UpSet(n, a) \subseteq U
                         /\ \A b \in U : b >= a => b \in UpSet(n, a)
        BY <1>1, <4>1
      <4>3. \A a \in U : a \in Nat /\ a > x
        BY <4>1, <4>2 DEF Ids
      <4> HIDE DEF U, p
      <4>4. ASSUME NEW a \in UpSet(n, x)
            PROVE  /\ a \in Ids /\ a >= x /\ Stored(n, a) /\ UpSet(n, a) \subseteq UpSet(n, x)
                   /\ \A b \in UpSet(n, x) : b >= a => b \in UpSet(n, a)
        <5>1. CASE a = x
          BY <2>2, <4>1, <5>1
        <5>2. CASE a \in U
          <6>1. ~(x >= a)
            BY <4>1, <4>3, <5>2
          <6> QED
            BY <3>1, <4>2, <4>3, <5>2, <6>1, <4>1
        <5> QED
          BY <3>1, <5>1, <5>2
      <4> QED
        BY <2>2, <4>4
    <3> QED
      BY <3>2, <3>3
  <2> QED
    BY <2>1, <2>2
<1>2. Ids \subseteq S
  <2> HIDE DEF S
  <2> QED
    BY <1>1, FromTheTop
<1> QED
  BY <1>2

-----------------------------------------------------------------------------
(* The tree and the ancestors its nodes were created under. *)

\* The ancestors of a node are above it, and each has what is above it among them as
\* its own.
Lineage(n, ln) ==
  /\ ln \in [Ids -> SUBSET Ids]
  /\ \A c \in Ids : ~Stored(n, c) => ln[c] = {}
  /\ \A c \in Ids : \A a \in ln[c] :
       /\ a > c /\ Stored(n, a) /\ ln[a] \subseteq ln[c]
       /\ \A b \in ln[c] : b > a => b \in ln[a]

\* The parent is one of them, and none that lives is passed over.
Covered(n, ln, c) ==
  /\ n[c].parent = 0 => Alive(n) \cap ln[c] = {}
  /\ n[c].parent # 0 => /\ n[c].parent \in ln[c]
                        /\ Alive(n) \cap ln[c] \subseteq {n[c].parent} \cup ln[n[c].parent]

\* A bit below the last says exactly whether the id at that distance is one of them.
BitsRight(n, ln, c) == \A d \in 1..(Width - 1) : d \in n[c].isAncestor <=> c + d \in ln[c]

\* The nodes whose parent is c.
Sons(n, c) == {y \in Ids : Stored(n, y) /\ n[y].parent = c}

\* What node c of n may be rewritten to: with the same parent and bits, and no children
\* but its own.
Revised(n, c, t) ==
  /\ t.kind = "none" <=> n[c].kind = "none"
  /\ t.parent = n[c].parent /\ t.isAncestor = n[c].isAncestor
  /\ n[c].deleted => t.deleted
  /\ t.kind \notin {"none", "normal"} => t.deleted
  /\ t.depth <= MaxId + 1 - c
  /\ t.kind # "none" /\ ~t.deleted => \A i \in Slots : t.children[i] \in {0} \cup Sons(n, c)

\* Skips that a node with that parent may have.
Leads(n, parent, skip) == \A i \in 1..3 : skip[i] \in {0} \cup UpSet(n, parent)

\* Every node is rewritten in that way, and the skips of all but X lead to ancestors.
Redone(n, m, X) ==
  \A c \in Ids : /\ Revised(n, c, m[c])
                 /\ Stored(n, c) /\ c \notin X => Leads(n, n[c].parent, m[c].skip)

AnySkips == [1..3 -> Ref]

Sound(n, ln, X) ==
  /\ n \in Trees(AnySkips)
  /\ Lineage(n, ln)
  /\ \A c \in Ids : Stored(n, c) => Covered(n, ln, c) /\ BitsRight(n, ln, c)
  /\ Redone(n, n, X)

\* No skips are skips too.
LEMMA NoSkipsType == NoSkips \in AnySkips /\ \A i \in 1..3 : NoSkips[i] = 0
BY RefIsId DEF NoSkips, AnySkips

\* A sound tree has its parents above their children.
LEMMA SoundRises == ASSUME NEW n, NEW ln, NEW X, Sound(n, ln, X) PROVE Rising(n)
BY Mapped, RefIsId DEF Sound, Lineage, Covered, Rising, Trees

\* The nodes above one on the way up are ancestors it was created under, and those of
\* them that live are all on the way.
LEMMA WayUp ==
  ASSUME NEW n, NEW ln, NEW X, Sound(n, ln, X), NEW c \in Ids, Stored(n, c)
  PROVE  /\ n[c].parent \in Ref
         /\ UpSet(n, n[c].parent) \subseteq ln[c]
         /\ Alive(n) \cap ln[c] \subseteq UpSet(n, n[c].parent)
         /\ UpSet(n, c) = {c} \cup UpSet(n, n[c].parent)
         /\ Ancestors(n, c) = UpSet(n, n[c].parent)
<1> DEFINE U(x) == UpSet(n, n[x].parent)
           S == {x \in Ids : Stored(n, x) => U(x) \subseteq ln[x] /\ Alive(n) \cap ln[x] \subseteq U(x)}
<1>1. Rising(n)
  BY SoundRises
<1>2. ASSUME NEW x \in Ids, \A y \in Ids : y > x => y \in S PROVE x \in S
  <2> SUFFICES ASSUME Stored(n, x) PROVE U(x) \subseteq ln[x] /\ Alive(n) \cap ln[x] \subseteq U(x)
    OBVIOUS
  <2> DEFINE p == n[x].parent
  <2>1. Covered(n, ln, x)
    BY DEF Sound
  <2>2. CASE p = 0
    <3>1. U(x) = {}
      BY <1>1, <2>2, UpSetIs, RefIsId DEF Ends
    <3> QED
      BY <2>1, <2>2, <3>1 DEF Covered
  <2>3. CASE p # 0
    <3>1. p \in Ids /\ p > x /\ Stored(n, p) /\ p \in S
      BY <1>1, <1>2, <2>3 DEF Rising
    <3>2. U(x) = {p} \cup U(p)
      BY <1>1, <3>1, UpSetIs
    <3>3. U(p) \subseteq ln[p] /\ Alive(n) \cap ln[p] \subseteq U(p)
      BY <3>1
    <3>4. p \in ln[x] /\ ln[p] \subseteq ln[x] /\ Alive(n) \cap ln[x] \subseteq {p} \cup ln[p]
      BY <2>1, <2>3 DEF Covered, Sound, Lineage
    <3> HIDE DEF U, p
    <3> QED
      BY <3>2, <3>3, <3>4
  <2> QED
    BY <2>2, <2>3
<1>3. Ids \subseteq S
  <2> HIDE DEF S
  <2> QED
    BY <1>2, FromTheTop, Zenon
<1>4. n[c].parent \in Ref /\ UpSet(n, c) = {c} \cup U(c)
  BY <1>1, UpSetIs
<1>5. U(c) \subseteq ln[c] /\ Alive(n) \cap ln[c] \subseteq U(c)
  BY <1>3
<1>6. c \notin U(c)
  BY <1>5 DEF Sound, Lineage, Ids
<1>7. Ancestors(n, c) = UpSet(n, c) \ {c}
  BY DEF Ancestors, UpSet
<1> QED
  BY <1>4, <1>5, <1>6, <1>7

\* Where the same nodes have the same parents the same nodes are on the way up.
LEMMA SameWayUp ==
  ASSUME NEW n, NEW m, Rising(n), Rising(m),
         \A c \in Ids : (Stored(m, c) <=> Stored(n, c)) /\ m[c].parent = n[c].parent
  PROVE  \A c \in Ref : UpSet(m, c) = UpSet(n, c)
<1> DEFINE S == {x \in Ids : UpSet(m, x) = UpSet(n, x)}
<1>1. 0 \in Ends(n) /\ 0 \in Ends(m) /\ UpSet(m, 0) = UpSet(n, 0)
  BY UpSetIs, RefIsId DEF Ends
<1>2. ASSUME NEW x \in Ids, \A y \in Ids : y > x => y \in S PROVE x \in S
  <2>1. CASE ~Stored(n, x)
    <3>1. x \in Ends(n) /\ x \in Ends(m)
      BY <2>1, RefIsId DEF Ends
    <3> QED
      BY <3>1, UpSetIs
  <2>2. CASE Stored(n, x)
    <3>1. /\ UpSet(n, x) = {x} \cup UpSet(n, n[x].parent)
          /\ UpSet(m, x) = {x} \cup UpSet(m, m[x].parent) /\ m[x].parent = n[x].parent
      BY <2>2, UpSetIs
    <3>2. n[x].parent = 0 \/ n[x].parent \in S
      BY <1>2, <2>2 DEF Rising
    <3> QED
      BY <1>1, <3>1, <3>2
  <2> QED
    BY <2>1, <2>2
<1>3. Ids \subseteq S
  <2> HIDE DEF S
  <2> QED
    BY <1>2, FromTheTop, Zenon
<1> QED
  BY <1>1, <1>3, RefIsId

\* A tree whose nodes are all rewritten as they may be is still sound.
LEMMA RedoneIsSound ==
  ASSUME NEW n, NEW ln, NEW X, Sound(n, ln, X), NEW m \in Trees(AnySkips), NEW Y, Redone(n, m, Y)
  PROVE  Sound(m, ln, Y)
<1>1. ASSUME NEW c \in Ids
      PROVE  /\ Stored(m, c) <=> Stored(n, c)
             /\ m[c].parent = n[c].parent /\ m[c].isAncestor = n[c].isAncestor
             /\ n[c].deleted => m[c].deleted
  BY DEF Redone, Revised, Stored
<1>2. Alive(m) \subseteq Alive(n)
  BY <1>1 DEF Alive
<1>3. Lineage(m, ln)
  BY <1>1 DEF Sound, Lineage
<1>4. ASSUME NEW c \in Ids, Stored(m, c) PROVE Covered(m, ln, c) /\ BitsRight(m, ln, c)
  <2>1. Covered(n, ln, c) /\ BitsRight(n, ln, c)
    BY <1>1, <1>4 DEF Sound
  <2> QED
    BY <1>1, <1>2, <2>1 DEF Covered, BitsRight
<1>5. Rising(n)
  BY SoundRises
<1>6. Rising(m)
  BY <1>1, <1>5 DEF Rising
<1>7. \A c \in Ref : UpSet(m, c) = UpSet(n, c)
  BY <1>1, <1>5, <1>6, SameWayUp
<1>8. \A c \in Ids : Sons(m, c) = Sons(n, c)
  BY <1>1 DEF Sons
<1>9. Redone(m, m, Y)
  <2> SUFFICES ASSUME NEW c \in Ids
               PROVE  /\ Revised(m, c, m[c])
                      /\ Stored(m, c) /\ c \notin Y => Leads(m, m[c].parent, m[c].skip)
    BY DEF Redone
  <2>1. /\ Revised(n, c, m[c])
        /\ Stored(n, c) /\ c \notin Y => Leads(n, n[c].parent, m[c].skip)
    BY DEF Redone
  <2>2. Stored(m, c) => UpSet(m, m[c].parent) = UpSet(n, n[c].parent)
    BY <1>1, <1>7, WayUp
  <2>3. Revised(m, c, m[c])
    BY <1>1, <1>8, <2>1 DEF Revised
  <2> QED
    BY <1>1, <2>1, <2>2, <2>3 DEF Leads
<1> QED
  BY <1>3, <1>4, <1>9 DEF Sound

-----------------------------------------------------------------------------
(* Skips. *)

\* Three ids are put in order, and none is made up.
LEMMA SortedIs ==
  ASSUME NEW X \in SUBSET Ref, NEW a \in X, NEW b \in X, NEW c \in X, NEW s, s[1] = a, s[2] = b, s[3] = c
  PROVE  Sorted(s) \in [1..3 -> X]
<1> DEFINE Orders == {q \in [1..3 -> 1..3] : {q[1], q[2], q[3]} = 1..3}
           T == {<<s[p[1]], s[p[2]], s[p[3]]>> : p \in Orders}
           Ordered(t) == t[1] <= t[2] /\ t[2] <= t[3]
<1>1. \A t \in T : t \in [1..3 -> X]
  <2> SUFFICES ASSUME NEW p \in Orders PROVE <<s[p[1]], s[p[2]], s[p[3]]>> \in [1..3 -> X]
    OBVIOUS
  <2>1. p[1] \in 1..3 /\ p[2] \in 1..3 /\ p[3] \in 1..3
    OBVIOUS
  <2>2. \A i \in 1..3 : s[i] \in X
    OBVIOUS
  <2> QED
    BY <2>1, <2>2
<1>2. ASSUME NEW i \in 1..3, NEW j \in 1..3, NEW k \in 1..3, i # j, j # k, i # k
      PROVE  <<s[i], s[j], s[k]>> \in T
  <2> DEFINE q == <<i, j, k>>
  <2>1. q \in [1..3 -> 1..3] /\ q[1] = i /\ q[2] = j /\ q[3] = k
    OBVIOUS
  <2>2. {i, j, k} = 1..3
    BY <1>2
  <2>3. q \in Orders
    BY <2>1, <2>2
  <2> QED
    BY <2>1, <2>3
<1>3. <<a, b, c>> \in T /\ <<a, c, b>> \in T /\ <<b, a, c>> \in T
      /\ <<b, c, a>> \in T /\ <<c, a, b>> \in T /\ <<c, b, a>> \in T
  BY <1>2
<1>4. a \in Nat /\ b \in Nat /\ c \in Nat
  BY DEF Ref
<1> HIDE DEF T
<1>5. \E t \in T : Ordered(t)
  <2>1. \/ (a <= b /\ b <= c) \/ (a <= c /\ c <= b) \/ (b <= a /\ a <= c)
        \/ (b <= c /\ c <= a) \/ (c <= a /\ a <= b) \/ (c <= b /\ b <= a)
    BY <1>4
  <2> QED
    BY <1>3, <2>1
<1>6. Sorted(s) \in T
  <2>1. Sorted(s) = CHOOSE t \in T : Ordered(t)
    BY DEF Sorted, T
  <2> QED
    BY <1>5, <2>1
<1> QED
  BY <1>1, <1>6

\* The skips found for a child of id are id and what is above it.
LEMMA SkipsOfIs ==
  ASSUME NEW n, Rising(n), NEW id \in Ids, NEW s \in SkipsOf(n, id)
  PROVE  s \in AnySkips /\ Leads(n, id, s)
<1> DEFINE X == {0} \cup UpSet(n, id)
           chain == Chain(n, id)
<1>0. X \in SUBSET Ref /\ 0 \in X
  BY UpSetIs, RefIsId
<1>1. PICK g \in SkiplistGets(n, id) : s = Sorted(g)
  BY DEF SkipsOf
<1>2. g[1] \in X /\ g[2] \in X /\ g[3] \in X
  <2>1. CASE n[id].parent = 0
    BY <1>1, <2>1 DEF SkiplistGets
  <2>2. CASE n[id].parent # 0
    <3> DEFINE steps == 0..(n[id].depth - 1)
    <3>1. PICK k \in [1..3 -> steps] :
            g = IF \A j \in 1..3 : k[j] < Len(chain) THEN [j \in 1..3 |-> chain[k[j] + 1]] ELSE <<0, 0, 0>>
      BY <1>1, <2>2 DEF SkiplistGets
    <3>2. chain \in Seq(Ids)
      BY ChainIs, RefIsId
    <3>3. ASSUME NEW j \in 1..3, k[j] < Len(chain) PROVE chain[k[j] + 1] \in X
      <4>1. k[j] + 1 \in DOMAIN chain
        BY <3>2, <3>3
      <4> QED
        BY <4>1 DEF UpSet, ToSet
    <3> HIDE DEF X, chain, steps
    <3> QED
      BY <1>0, <3>1, <3>3
  <2> QED
    BY <2>1, <2>2
<1> HIDE DEF X
<1>3. s \in [1..3 -> X]
  BY <1>0, <1>1, <1>2, SortedIs
<1>4. s \in AnySkips
  BY <1>0, <1>3 DEF AnySkips
<1> QED
  BY <1>3, <1>4 DEF X, Leads

\* A recursion by which each id is made from those above it has a solution.
FromAbove(V, G) ==
  /\ \A c \in Ids : \A f \in [Ids -> V] : G[<<c, f>>] \in V
  /\ \A c \in Ids : \A f, g \in [Ids -> V] :
       (\A a \in Ids : a > c => f[a] = g[a]) => G[<<c, f>>] = G[<<c, g>>]

\* There is a function that is what G makes of its own values above.
LEMMA ClimbAny ==
  ASSUME NEW V, NEW w \in V, NEW G, FromAbove(V, G)
  PROVE  \E f \in [Ids -> V] : \A c \in Ids : f[c] = G[<<c, f>>]
<1> DEFINE W == [Ids -> V]
           H == [p \in Ids \X W |-> [p[2] EXCEPT ![p[1]] = G[p]]]
           D == Ids
           top == [c \in Ids |-> w]
           Stop == {MaxId}
           B == [c \in Ids |-> [top EXCEPT ![c] = G[<<c, top>>]]]
           N == [c \in Ids |-> c + 1]
<1>0. MaxId \in Nat /\ D \in SUBSET Ref /\ top \in W /\ Ids = 1..MaxId
  BY ConstantAssumption, RefIsId DEF Ids
<1> USE DEF FromAbove
<1>1. \A c \in D : c \in Stop => B[c] \in W
  BY <1>0
<1>2. \A c \in D : c \notin Stop => N[c] \in D /\ (N[c] \in Stop \/ N[c] > c)
  BY <1>0
<1>3. \A c \in D : \A v \in W : H[<<c, v>>] \in W /\ H[<<c, v>>] = [v EXCEPT ![c] = G[<<c, v>>]]
  OBVIOUS
<1> HIDE DEF W, H, D, Stop, B, N
<1>4. PICK h \in [D -> W] : Climbs(h, D, Stop, B, N, H)
  BY <1>0, <1>1, <1>2, <1>3, ClimbExists
<1> USE DEF D
<1>5. \A c \in Ids : h[c] = IF c = MaxId THEN [top EXCEPT ![c] = G[<<c, top>>]]
                            ELSE [h[c + 1] EXCEPT ![c] = G[<<c, h[c + 1]>>]]
  <2>1. \A c \in Ids : h[c] = IF c \in Stop THEN B[c] ELSE H[<<c, h[N[c]]>>]
    BY <1>4 DEF Climbs
  <2>2. ASSUME NEW c \in Ids, c # MaxId PROVE c \notin Stop /\ N[c] = c + 1 /\ h[c + 1] \in W
    BY <1>0, <1>4, <2>2 DEF Stop, N
  <2>3. ASSUME NEW c \in Ids, c # MaxId PROVE h[c] = [h[c + 1] EXCEPT ![c] = G[<<c, h[c + 1]>>]]
    <3>1. h[c] = H[<<c, h[N[c]]>>] /\ N[c] = c + 1 /\ h[c + 1] \in W
      BY <2>1, <2>2, <2>3
    <3>2. H[<<c, h[c + 1]>>] = [h[c + 1] EXCEPT ![c] = G[<<c, h[c + 1]>>]]
      BY <1>3, <3>1
    <3> QED
      BY <3>1, <3>2
  <2> QED
    BY <2>1, <2>3 DEF Stop, B
<1> DEFINE f == [c \in Ids |-> h[c][c]]
           S == {c \in Ids : \A a \in Ids : a >= c => h[c][a] = f[a]}
<1>6. \A c \in Ids : h[c] \in [Ids -> V]
  BY <1>4 DEF W
<1>7. ASSUME NEW c \in Ids, \A y \in Ids : y > c => y \in S PROVE c \in S
  <2>1. ASSUME NEW a \in Ids, a > c PROVE h[c][a] = f[a]
    <3>1. c + 1 \in Ids /\ c # MaxId /\ c + 1 > c /\ a >= c + 1
      BY <1>0, <2>1
    <3>2. h[c + 1][a] = f[a] /\ h[c + 1] \in [Ids -> V]
      BY <1>6, <1>7, <3>1
    <3>3. h[c] = [h[c + 1] EXCEPT ![c] = G[<<c, h[c + 1]>>]]
      BY <1>5, <3>1
    <3> QED
      BY <1>0, <2>1, <3>2, <3>3
  <2> QED
    BY <1>0, <2>1
<1>8. Ids \subseteq S
  <2> HIDE DEF S
  <2> QED
    BY <1>7, FromTheTop, Zenon
<1>9. f \in [Ids -> V]
  BY <1>6
<1>10. ASSUME NEW c \in Ids PROVE f[c] = G[<<c, f>>]
  <2>1. CASE c = MaxId
    <3>1. h[c][c] = G[<<c, top>>]
      BY <1>0, <1>5, <2>1 DEF W
    <3>2. G[<<c, top>>] = G[<<c, f>>]
      <4>1. \A a \in Ids : ~(a > c)
        BY <1>0, <2>1
      <4>2. top \in [Ids -> V]
        BY <1>0 DEF W
      <4> HIDE DEF f, top
      <4> QED
        BY <1>9, <4>1, <4>2
    <3> QED
      BY <3>1, <3>2
  <2>2. CASE c # MaxId
    <3>1. c + 1 \in Ids /\ h[c + 1] \in [Ids -> V]
      BY <1>0, <1>6, <2>2
    <3>2. h[c][c] = G[<<c, h[c + 1]>>]
      BY <1>5, <2>2, <3>1
    <3>3. \A a \in Ids : a > c => h[c + 1][a] = f[a]
      BY <1>0, <1>8, <3>1
    <3>4. G[<<c, h[c + 1]>>] = G[<<c, f>>]
      <4> HIDE DEF f
      <4> QED
        BY <1>9, <3>1, <3>3
    <3> QED
      BY <3>2, <3>4
  <2> QED
    BY <2>1, <2>2
<1> HIDE DEF f
<1> QED
  BY <1>9, <1>10

-----------------------------------------------------------------------------
(* What the clean-up makes of skips. *)

\* The first node from c up that is not dead, or 0.
Effective(n, dead) ==
  CHOOSE f : f = [i \in Ref |-> IF i \notin dead THEN i ELSE f[n[i].parent]]

\* It ends at 0 or at an ancestor that is not dead.
LEMMA EffectiveIs ==
  ASSUME NEW n, Rising(n), NEW dead \in SUBSET Ids, \A d \in dead : Stored(n, d),
         NEW i \in Ref, i = 0 \/ Stored(n, i)
  PROVE  /\ Effective(n, dead)[i] \in {0} \cup UpSet(n, i)
         /\ Effective(n, dead)[i] \notin dead
<1> DEFINE Eq(f) == f = [x \in Ref |-> IF x \notin dead THEN x ELSE f[n[x].parent]]
           e == Effective(n, dead)
           Stop == {x \in Ref : x \notin dead}
           B == [x \in Ref |-> x]
           N == [x \in Ref |-> n[x].parent]
           G == [p \in Ref \X Ref |-> p[2]]
           S == {x \in Ids : Stored(n, x) => e[x] \in {0} \cup UpSet(n, x) /\ e[x] \notin dead}
<1>1. \A x \in dead : x \in Ids /\ x \in Ref /\ (n[x].parent = 0 \/ (n[x].parent \in Ids /\ n[x].parent > x /\ Stored(n, n[x].parent)))
  BY RefIsId DEF Rising
<1>2. 0 \in Stop
  BY RefIsId DEF Ids
<1>3. \E f \in [Ref -> Ref] : Climbs(f, Ref, Stop, B, N, G)
  <2>1. \A c \in Ref : c \in Stop => B[c] \in Ref
    OBVIOUS
  <2>2. \A c \in Ref : c \notin Stop => N[c] \in Ref /\ (N[c] \in Stop \/ N[c] > c)
    BY <1>1, <1>2, RefIsId
  <2>3. \A c \in Ref : \A v \in Ref : G[<<c, v>>] \in Ref
    OBVIOUS
  <2>4. Ref \in SUBSET Ref
    OBVIOUS
  <2> HIDE DEF Stop, B, N, G
  <2> QED
    BY <2>1, <2>2, <2>3, <2>4, ClimbExists
<1>4. PICK f \in [Ref -> Ref] : Climbs(f, Ref, Stop, B, N, G)
  BY <1>3
<1>5. Eq(f)
  <2>1. ASSUME NEW x \in Ref
        PROVE  (IF x \in Stop THEN B[x] ELSE G[<<x, f[N[x]]>>]) = IF x \notin dead THEN x ELSE f[n[x].parent]
    BY <1>1, <1>4, RefIsId
  <2> HIDE DEF Stop, B, N, G
  <2> QED
    BY <1>4, <2>1 DEF Climbs
<1>6. Eq(e)
  BY <1>5 DEF Effective
<1> HIDE DEF e
<1>7. \A x \in Ref : e[x] = IF x \notin dead THEN x ELSE e[n[x].parent]
  BY <1>6
<1> HIDE DEF Eq
<1>8. e[0] = 0 /\ 0 \notin dead
  BY <1>7, RefIsId DEF Ids
<1>9. ASSUME NEW x \in Ids, \A y \in Ids : y > x => y \in S PROVE x \in S
  <2> SUFFICES ASSUME Stored(n, x) PROVE e[x] \in {0} \cup UpSet(n, x) /\ e[x] \notin dead
    OBVIOUS
  <2>0. x \in Ref /\ UpSet(n, x) = {x} \cup UpSet(n, n[x].parent)
    BY RefIsId, UpSetIs
  <2>1. CASE x \notin dead
    BY <1>7, <2>0, <2>1
  <2>2. CASE x \in dead
    <3>1. e[x] = e[n[x].parent]
      BY <1>7, <2>0, <2>2
    <3>2. n[x].parent = 0 \/ (n[x].parent \in S /\ Stored(n, n[x].parent))
      BY <1>1, <1>9, <2>2
    <3> QED
      BY <1>8, <2>0, <3>1, <3>2
  <2> QED
    BY <2>1, <2>2
<1>10. Ids \subseteq S
  <2> HIDE DEF S
  <2> QED
    BY <1>9, FromTheTop, Zenon
<1> QED
  BY <1>8, <1>10, RefIsId DEF e

\* Skips are taken over from above, and those of the dead are not among them.
LEMMA SkipsLeftIs ==
  ASSUME NEW n, Rising(n), NEW dead \in SUBSET Ids, \A d \in dead : Stored(n, d),
         \A c \in Ids : n[c].skip \in AnySkips,
         \A c \in Ids : Stored(n, c) => Leads(n, n[c].parent, n[c].skip),
         NEW id \in Ids
  PROVE  /\ SkipsLeft(n, dead)[id] \in AnySkips
         /\ Stored(n, id) => Leads(n, n[id].parent, SkipsLeft(n, dead)[id])
         /\ (\A c \in Ids \ dead : Stored(n, c) /\ ~IsBelow(n, dead, c) =>
               \A i \in 1..3 : n[c].skip[i] \notin dead)
            => (Stored(n, id) /\ id \notin dead => \A i \in 1..3 : SkipsLeft(n, dead)[id][i] \notin dead)
<1> DEFINE e == Effective(n, dead)
           P(c) == e[n[c].parent]
           Body(c, f) == IF ~IsBelow(n, dead, c) THEN n[c].skip
                         ELSE IF DepthLeft(n, dead, c) = 0 \/ P(c) = 0 THEN <<0, 0, 0>>
                         ELSE Sorted(<<P(c), f[P(c)][1], IF f[P(c)][1] = 0 THEN 0 ELSE f[f[P(c)][1]][2]>>)
           Up(c, f) == IF ~IsBelow(n, dead, c) THEN n[c].skip
                       ELSE IF DepthLeft(n, dead, c) = 0 \/ P(c) = 0 THEN <<0, 0, 0>>
                       ELSE Sorted(<<P(c), f[P(c)][1], IF f[P(c)][1] > c THEN f[f[P(c)][1]][2] ELSE 0>>)
           Eq(f) == f = [c \in Ids |-> Body(c, f)]
           k == CHOOSE f : Eq(f)
           V == AnySkips
           G == [p \in Ids \X [Ids -> V] |-> Up(p[1], p[2])]
           Kept == \A c \in Ids \ dead : Stored(n, c) /\ ~IsBelow(n, dead, c) =>
                     \A i \in 1..3 : n[c].skip[i] \notin dead
           Good(c, s) == /\ s \in AnySkips
                         /\ Stored(n, c) => Leads(n, n[c].parent, s)
                         /\ Kept /\ Stored(n, c) /\ c \notin dead => \A i \in 1..3 : s[i] \notin dead
<1>1. SkipsLeft(n, dead) = k
  BY DEF SkipsLeft, Effective
<1>2. 0 \notin dead /\ 0 \in Ref
  BY RefIsId DEF Ids
<1>3. ASSUME NEW c \in Ids, IsBelow(n, dead, c)
      PROVE  /\ Stored(n, c) /\ c \notin dead /\ n[c].parent \in Ref
             /\ P(c) \in {0} \cup UpSet(n, n[c].parent) /\ P(c) \notin dead
             /\ P(c) # 0 => /\ P(c) \in Ids /\ P(c) > c /\ Stored(n, P(c))
                            /\ UpSet(n, P(c)) \subseteq UpSet(n, n[c].parent)
  <2> DEFINE q == n[c].parent
  <2>1. Stored(n, c) /\ c \notin dead
    BY <1>3 DEF IsBelow
  <2>2. q \in Ref /\ (q = 0 \/ (q \in Ids /\ q > c /\ Stored(n, q)))
    BY <2>1, RefIsId DEF Rising
  <2>3. P(c) \in {0} \cup UpSet(n, q) /\ P(c) \notin dead
    BY <2>2, EffectiveIs
  <2>4. UpSet(n, 0) = {}
    BY UpSetIs, RefIsId DEF Ends
  <2>5. P(c) # 0 => P(c) \in Ids /\ P(c) >= q /\ q > c /\ Stored(n, P(c)) /\ UpSet(n, P(c)) \subseteq UpSet(n, q)
    BY <2>2, <2>3, <2>4, UpSetOrder
  <2>6. P(c) # 0 => P(c) > c
    BY <2>2, <2>5 DEF Ids
  <2> QED
    BY <2>1, <2>2, <2>3, <2>5, <2>6
<1> HIDE DEF P, e
<1>4. ASSUME NEW c \in Ids, NEW f, \A y \in Ids : y > c => Good(y, f[y])
      PROVE  Body(c, f) = Up(c, f) /\ Good(c, Body(c, f))
  <2>1. CASE ~IsBelow(n, dead, c)
    BY <2>1
  <2>2. CASE IsBelow(n, dead, c) /\ (DepthLeft(n, dead, c) = 0 \/ P(c) = 0)
    <3>1. Body(c, f) = NoSkips /\ Up(c, f) = NoSkips
      BY <2>2 DEF NoSkips
    <3>2. Leads(n, n[c].parent, NoSkips)
      BY NoSkipsType DEF Leads
    <3> QED
      BY <1>2, <3>1, <3>2, NoSkipsType
  <2>3. CASE IsBelow(n, dead, c) /\ ~(DepthLeft(n, dead, c) = 0 \/ P(c) = 0)
    <3> DEFINE p == P(c)
               s1 == f[p][1]
               s2 == IF s1 = 0 THEN 0 ELSE f[s1][2]
               U == UpSet(n, n[c].parent)
               X == {0} \cup U
               Y == {x \in X : x \notin dead}
    <3>1. /\ Stored(n, c) /\ c \notin dead /\ n[c].parent \in Ref
          /\ p \in U /\ p \notin dead /\ p \in Ids /\ p > c /\ Stored(n, p) /\ UpSet(n, p) \subseteq U
      BY <1>3, <2>3
    <3>2. Good(p, f[p])
      BY <1>4, <3>1
    <3>3. UpSet(n, p) = {p} \cup UpSet(n, n[p].parent)
      BY <3>1, UpSetIs
    <3>4. s1 \in Ref /\ s1 \in {0} \cup UpSet(n, n[p].parent) /\ (Kept => s1 \notin dead)
      BY <3>1, <3>2 DEF AnySkips, Leads
    <3>5. s1 # 0 => /\ s1 \in Ids /\ s1 > c /\ Stored(n, s1) /\ UpSet(n, s1) \subseteq U
      <4> SUFFICES ASSUME s1 # 0 PROVE s1 \in Ids /\ s1 > c /\ Stored(n, s1) /\ UpSet(n, s1) \subseteq U
        OBVIOUS
      <4>1. s1 \in UpSet(n, p)
        BY <3>3, <3>4
      <4>2. s1 \in Ids /\ s1 >= p /\ Stored(n, s1) /\ UpSet(n, s1) \subseteq UpSet(n, p)
        BY <3>1, <4>1, UpSetOrder
      <4>3. s1 > c
        BY <3>1, <4>2 DEF Ids
      <4> QED
        BY <3>1, <4>2, <4>3
    <3>6. s2 \in X /\ (Kept => s2 \notin dead)
      <4>1. CASE s1 = 0
        BY <1>2, <4>1
      <4>2. CASE s1 # 0
        <5>1. Good(s1, f[s1]) /\ UpSet(n, s1) = {s1} \cup UpSet(n, n[s1].parent)
          BY <1>4, <3>5, <4>2, UpSetIs
        <5>2. f[s1][2] \in {0} \cup UpSet(n, n[s1].parent) /\ (Kept /\ s1 \notin dead => f[s1][2] \notin dead)
          BY <3>5, <4>2, <5>1 DEF Leads
        <5> QED
          BY <3>4, <3>5, <4>2, <5>1, <5>2
      <4> QED
        BY <4>1, <4>2
    <3>7. p \in X /\ s1 \in X
      BY <3>1, <3>3, <3>4
    <3>8. s1 > c <=> s1 # 0
      BY <3>5 DEF Ids
    <3>9. Body(c, f) = Sorted(<<p, s1, s2>>) /\ Up(c, f) = Sorted(<<p, s1, s2>>)
      <4>1. Body(c, f) = Sorted(<<p, s1, s2>>)
        BY <2>3
      <4>2. (IF s1 > c THEN f[s1][2] ELSE 0) = s2
        BY <3>8
      <4>3. Up(c, f) = Sorted(<<p, s1, IF s1 > c THEN f[s1][2] ELSE 0>>)
        BY <2>3
      <4> HIDE DEF Up, Body, s1, s2, p
      <4> QED
        BY <4>1, <4>2, <4>3
    <3> HIDE DEF s1, s2, p, Body, Up
    <3>10. X \in SUBSET Ref
      BY <1>2, <3>1, UpSetIs, RefIsId
    <3>11. Sorted(<<p, s1, s2>>) \in [1..3 -> X]
      <4> HIDE DEF X
      <4> QED
        BY <3>6, <3>7, <3>10, SortedIs
    <3>12. ASSUME Kept PROVE Sorted(<<p, s1, s2>>) \in [1..3 -> Y]
      <4>1. p \in Y /\ s1 \in Y /\ s2 \in Y /\ Y \in SUBSET Ref
        BY <3>1, <3>4, <3>6, <3>7, <3>10, <3>12
      <4> HIDE DEF X, Y
      <4> QED
        BY <4>1, SortedIs
    <3> DEFINE t == Sorted(<<p, s1, s2>>)
    <3> HIDE DEF t
    <3>13. t \in AnySkips /\ Leads(n, n[c].parent, t)
      BY <3>10, <3>11 DEF AnySkips, Leads, t
    <3>14. Kept => \A i \in 1..3 : t[i] \notin dead
      BY <3>12 DEF t
    <3> QED
      BY <3>9, <3>13, <3>14 DEF t
  <2> QED
    BY <2>1, <2>2, <2>3
<1>5. \E f \in [Ids -> V] : \A c \in Ids : f[c] = G[<<c, f>>]
  <2>1. NoSkips \in V
    BY NoSkipsType
  <2>2. \A c \in Ids : \A f \in [Ids -> V] : G[<<c, f>>] = Up(c, f)
    OBVIOUS
  <2>3. ASSUME NEW c \in Ids, NEW f \in [Ids -> V] PROVE Up(c, f) \in V
    <3>1. CASE ~IsBelow(n, dead, c)
      BY <3>1
    <3>2. CASE IsBelow(n, dead, c) /\ (DepthLeft(n, dead, c) = 0 \/ P(c) = 0)
      BY <2>1, <3>2 DEF NoSkips
    <3>3. CASE IsBelow(n, dead, c) /\ ~(DepthLeft(n, dead, c) = 0 \/ P(c) = 0)
      <4> DEFINE s1 == f[P(c)][1]
                 s2 == IF s1 > c THEN f[s1][2] ELSE 0
      <4>1. P(c) \in Ids /\ P(c) \in Ref
        BY <1>3, <3>3, RefIsId
      <4>2. s1 \in Ref
        BY <4>1 DEF AnySkips
      <4>3. s1 > c => s1 \in Ids
        BY <4>2, RefIsId DEF Ids
      <4>4. s2 \in Ref
        BY <1>2, <4>3 DEF AnySkips
      <4>5. Up(c, f) = Sorted(<<P(c), s1, s2>>)
        BY <3>3
      <4> HIDE DEF s1, s2, Up
      <4>6. Ref \in SUBSET Ref
        OBVIOUS
      <4>7. Sorted(<<P(c), s1, s2>>) \in [1..3 -> Ref]
        BY <4>1, <4>2, <4>4, <4>6, SortedIs
      <4> QED
        BY <4>5, <4>7 DEF AnySkips
    <3> QED
      BY <3>1, <3>2, <3>3
  <2>4. ASSUME NEW c \in Ids, NEW f \in [Ids -> V], NEW g \in [Ids -> V], \A a \in Ids : a > c => f[a] = g[a]
        PROVE  Up(c, f) = Up(c, g)
    <3>1. CASE IsBelow(n, dead, c) /\ ~(DepthLeft(n, dead, c) = 0 \/ P(c) = 0)
      <4> DEFINE s1 == f[P(c)][1]
      <4>1. P(c) \in Ids /\ f[P(c)] = g[P(c)]
        BY <1>3, <2>4, <3>1
      <4>2. s1 \in Ref
        BY <4>1 DEF AnySkips
      <4>3. s1 > c => s1 \in Ids
        BY <4>2, RefIsId DEF Ids
      <4>4. s1 = g[P(c)][1]
        BY <4>1
      <4>5. (IF s1 > c THEN f[s1][2] ELSE 0) = (IF s1 > c THEN g[s1][2] ELSE 0)
        BY <2>4, <4>3
      <4>6. Up(c, f) = Sorted(<<P(c), s1, IF s1 > c THEN f[s1][2] ELSE 0>>)
        BY <3>1
      <4>7. Up(c, g) = Sorted(<<P(c), s1, IF s1 > c THEN g[s1][2] ELSE 0>>)
        <5>1. Up(c, g) = Sorted(<<P(c), g[P(c)][1], IF g[P(c)][1] > c THEN g[g[P(c)][1]][2] ELSE 0>>)
          BY <3>1
        <5> HIDE DEF Up, s1
        <5> QED
          BY <4>4, <5>1
      <4> HIDE DEF Up, s1
      <4> QED
        BY <4>5, <4>6, <4>7
    <3>2. CASE ~(IsBelow(n, dead, c) /\ ~(DepthLeft(n, dead, c) = 0 \/ P(c) = 0))
      BY <3>2
    <3> QED
      BY <3>1, <3>2
  <2> HIDE DEF G, V, Up, Body, Good, Kept, Eq, k
  <2>5. \A c \in Ids : \A f \in [Ids -> V] : G[<<c, f>>] \in V
    BY <2>2, <2>3
  <2>6. \A c \in Ids : \A f, g \in [Ids -> V] :
          (\A a \in Ids : a > c => f[a] = g[a]) => G[<<c, f>>] = G[<<c, g>>]
    <3> SUFFICES ASSUME NEW c \in Ids, NEW f \in [Ids -> V], NEW g \in [Ids -> V],
                        \A a \in Ids : a > c => f[a] = g[a]
                 PROVE  G[<<c, f>>] = G[<<c, g>>]
      BY Zenon
    <3>1. Up(c, f) = Up(c, g)
      BY <2>4
    <3> QED
      BY <2>2, <3>1
  <2>7. FromAbove(V, G)
    BY <2>5, <2>6, Zenon DEF FromAbove
  <2> QED
    BY <2>1, <2>7, ClimbAny
<1>6. PICK f \in [Ids -> V] : \A c \in Ids : f[c] = Up(c, f)
  <2>1. PICK f \in [Ids -> V] : \A c \in Ids : f[c] = G[<<c, f>>]
    BY <1>5
  <2>2. \A c \in Ids : f[c] = G[<<c, f>>] /\ G[<<c, f>>] = Up(c, f)
    <3>1. \A c \in Ids : G[<<c, f>>] = Up(c, f)
      OBVIOUS
    <3> HIDE DEF G, Up
    <3> QED
      BY <2>1, <3>1
  <2> HIDE DEF Up, G
  <2> QED
    BY <2>2
<1> HIDE DEF Body, Up, Good, Kept
<1>7. ASSUME NEW g, \A c \in Ids : g[c] = Body(c, g) \/ g[c] = Up(c, g)
      PROVE  \A c \in Ids : Good(c, g[c])
  <2> DEFINE S == {c \in Ids : Good(c, g[c])}
  <2>1. ASSUME NEW c \in Ids, \A y \in Ids : y > c => y \in S PROVE c \in S
    <3>1. \A y \in Ids : y > c => Good(y, g[y])
      BY <2>1
    <3>2. Body(c, g) = Up(c, g) /\ Good(c, Body(c, g))
      BY <1>4, <3>1
    <3> QED
      BY <1>7, <3>2
  <2>2. Ids \subseteq S
    <3> HIDE DEF S
    <3> QED
      BY <2>1, FromTheTop, Zenon
  <2> QED
    BY <2>2
<1>8. Eq(f)
  <2>1. \A c \in Ids : Good(c, f[c])
    BY <1>6, <1>7
  <2>2. \A c \in Ids : f[c] = Body(c, f)
    BY <1>4, <1>6, <2>1
  <2> QED
    BY <2>2
<1>9. Eq(k)
  BY <1>8
<1> HIDE DEF k
<1>10. Good(id, k[id])
  BY <1>7, <1>9
<1> HIDE DEF Eq, V, G
<1> QED
  BY <1>1, <1>10 DEF Good, Kept

-----------------------------------------------------------------------------
(* The test on the btree. *)

\* From a living node on, skips, bits and parents find it among the ancestors that a
\* node was created under, and nothing else.
LEMMA BtreeFinds ==
  ASSUME NEW n, NEW ln, Sound(n, ln, {}), NEW a \in Alive(n), NEW d \in Ids
  PROVE  IsAncestorBtree(n, a, d) <=> a = d \/ a \in ln[d]
<1> DEFINE Good(c) == GoodSkips(n, c, a)
           Jump(c) == n[c].skip[Max(Good(c))]
           Body(c, f) == /\ Stored(n, c) /\ n[c].parent # 0
                         /\ IF Good(c) # {} THEN Jump(c) = a \/ f[Jump(c)]
                            ELSE IF a - c < Width THEN (a - c) \in n[c].isAncestor
                            ELSE n[c].parent = a \/ f[n[c].parent]
           Eq(f) == f = [c \in Ids |-> Body(c, f)]
           from == CHOOSE f : Eq(f)
           is == [c \in Ids |-> a \in ln[c]]
<1>1. IsAncestorBtree(n, a, d) <=> (a = d \/ (a > d /\ from[d]))
  BY DEF IsAncestorBtree
<1>2. /\ Rising(n) /\ Lineage(n, ln) /\ n \in Trees(AnySkips) /\ a \in Ids
      /\ \A c \in Ids : Stored(n, c) => Covered(n, ln, c) /\ BitsRight(n, ln, c) /\ Leads(n, n[c].parent, n[c].skip)
  BY SoundRises DEF Sound, Redone, Alive
<1>3. Ids \subseteq Nat /\ a \in Nat
  BY <1>2 DEF Ids
<1>4. ASSUME NEW c \in Ids, NEW f, \A y \in Ids : y > c => (f[y] <=> a \in ln[y])
      PROVE  Body(c, f) <=> a \in ln[c]
  <2>1. CASE ~Stored(n, c)
    BY <1>2, <2>1 DEF Lineage
  <2>2. CASE Stored(n, c) /\ n[c].parent = 0
    <3>1. a \notin ln[c]
      BY <1>2, <2>2 DEF Covered
    <3> QED
      BY <2>2, <3>1
  <2>3. CASE Stored(n, c) /\ n[c].parent # 0
    <3> DEFINE p == n[c].parent
    <3>1. /\ p \in Ids /\ p > c /\ p \in ln[c] /\ Alive(n) \cap ln[c] \subseteq {p} \cup ln[p]
          /\ UpSet(n, p) \subseteq ln[c]
      BY <1>2, <2>3, WayUp DEF Covered, Rising
    <3>3. CASE Good(c) # {}
      <4> DEFINE i == Max(Good(c))
      <4>1. i \in Good(c)
        <5>1. Good(c) \subseteq 0..3
          BY DEF GoodSkips
        <5> HIDE DEF Good
        <5> QED
          BY <3>3, <5>1, GreatestIsThere
      <4> DEFINE j == Jump(c)
      <4>2. i \in 1..3 /\ j = n[c].skip[i] /\ j # 0 /\ j <= a /\ j > c
        BY <4>1 DEF GoodSkips
      <4>3. j \in ln[c]
        BY <1>2, <2>3, <3>1, <4>2 DEF Leads
      <4>4. j \in Ids /\ ln[j] \subseteq ln[c] /\ \A b \in ln[c] : b > j => b \in ln[j]
        BY <1>2, <4>3 DEF Lineage
      <4>5. Body(c, f) <=> j = a \/ f[j]
        BY <2>3, <3>3
      <4>6. f[j] <=> a \in ln[j]
        BY <1>4, <4>2, <4>4
      <4> HIDE DEF j, Body, i
      <4>7. j = a \/ a > j
        BY <1>3, <4>2, <4>4
      <4> QED
        BY <4>3, <4>4, <4>5, <4>6, <4>7
    <3>4. CASE Good(c) = {} /\ a - c < Width
      <4>1. Body(c, f) <=> (a - c) \in n[c].isAncestor
        BY <2>3, <3>4
      <4> HIDE DEF Body
      <4>2. CASE a > c
        <5>1. a - c \in 1..(Width - 1) /\ c + (a - c) = a
          BY <1>3, <3>4, <4>2, ConstantAssumption
        <5> QED
          BY <1>2, <2>3, <4>1, <5>1 DEF BitsRight
      <4>3. CASE ~(a > c)
        <5>1. n[c].isAncestor \in SUBSET (1..Width)
          BY <1>2, Mapped DEF Trees
        <5>2. (a - c) \notin n[c].isAncestor
          BY <1>3, <4>3, <5>1
        <5>3. a \notin ln[c]
          BY <1>2, <4>3 DEF Lineage
        <5> QED
          BY <4>1, <5>2, <5>3
      <4> QED
        BY <4>2, <4>3
    <3>5. CASE Good(c) = {} /\ ~(a - c < Width)
      <4>1. Body(c, f) <=> p = a \/ f[p]
        BY <2>3, <3>5
      <4> HIDE DEF Body
      <4>2. f[p] <=> a \in ln[p]
        BY <1>4, <3>1
      <4>3. ln[p] \subseteq ln[c]
        BY <1>2, <3>1 DEF Lineage
      <4> QED
        BY <3>1, <4>1, <4>2, <4>3
    <3> QED
      BY <3>3, <3>4, <3>5
  <2> QED
    BY <2>1, <2>2, <2>3
<1>5. Eq(is)
  <2>1. \A y \in Ids : is[y] <=> a \in ln[y]
    OBVIOUS
  <2>2. \A c \in Ids : Body(c, is) <=> a \in ln[c]
    <3> HIDE DEF is, Body
    <3> QED
      BY <1>4, <2>1
  <2>3. \A c \in Ids : Body(c, is) \in BOOLEAN
    BY Zenon
  <2>4. \A c \in Ids : is[c] = Body(c, is)
    <3>1. \A c \in Ids : is[c] \in BOOLEAN
      OBVIOUS
    <3> HIDE DEF is, Body
    <3> QED
      BY <2>1, <2>2, <2>3, <3>1
  <2> HIDE DEF Body
  <2> QED
    BY <2>4
<1>6. Eq(from)
  BY <1>5
<1> HIDE DEF from
<1> DEFINE S == {c \in Ids : from[c] <=> a \in ln[c]}
<1>7. \A c \in Ids : from[c] = Body(c, from)
  <2> HIDE DEF Body
  <2> QED
    BY <1>6
<1> HIDE DEF Eq, Body
<1>8. ASSUME NEW c \in Ids, \A y \in Ids : y > c => y \in S PROVE c \in S
  <2>1. \A y \in Ids : y > c => (from[y] <=> a \in ln[y])
    BY <1>8
  <2> QED
    BY <1>4, <1>7, <2>1
<1>9. Ids \subseteq S
  <2> HIDE DEF S
  <2> QED
    BY <1>8, FromTheTop, Zenon
<1>10. from[d] <=> a \in ln[d]
  BY <1>9
<1>11. a \in ln[d] => a > d
  BY <1>2 DEF Lineage
<1> QED
  BY <1>1, <1>10, <1>11

-----------------------------------------------------------------------------
(* Deletion and clean-up. *)

\* A deletion rewrites the node as it may be.
LEMMA DeletedRedone ==
  ASSUME NEW n, NEW m \in Trees(AnySkips), NEW X, Redone(n, m, X), NEW id \in Ids
  PROVE  SetDeleted(m, id) \in Trees(AnySkips) /\ Redone(n, SetDeleted(m, id), X)
<1> DEFINE t == [m[id] EXCEPT !.kind = "whiteout", !.deleted = TRUE, !.skip = NoSkips]
<1>1. SetDeleted(m, id) \in Trees(AnySkips)
  BY SetDeletedKeeps, NoSkipsType
<1>2. m \in [Ids -> NodeOf(AnySkips)]
  BY DEF Trees
<1>3. CASE ~Normal(m, id)
  BY <1>1, <1>3 DEF SetDeleted
<1>4. CASE Normal(m, id)
  <2>1. SetDeleted(m, id) = [m EXCEPT ![id] = t]
    BY <1>4 DEF SetDeleted, NoSkips
  <2>2. /\ t.kind = "whiteout" /\ t.deleted = TRUE /\ t.skip = NoSkips
        /\ t.parent = m[id].parent /\ t.isAncestor = m[id].isAncestor /\ t.depth = m[id].depth
    BY <1>2 DEF NodeOf
  <2> HIDE DEF t
  <2>3. SetDeleted(m, id)[id] = t /\ \A c \in Ids \ {id} : SetDeleted(m, id)[c] = m[c]
    BY <1>2, <2>1
  <2>4. Revised(n, id, t)
    BY <1>4, <2>2 DEF Redone, Revised, Normal
  <2>5. Leads(n, n[id].parent, NoSkips)
    BY NoSkipsType DEF Leads
  <2>6. Redone(n, SetDeleted(m, id), X)
    BY <2>2, <2>3, <2>4, <2>5 DEF Redone
  <2> QED
    BY <1>1, <2>6
<1> QED
  BY <1>3, <1>4

\* A deletion leaves the tree sound.
LEMMA DeletedSound ==
  ASSUME NEW n, NEW ln, NEW X, Sound(n, ln, X), NEW id \in Ids PROVE Sound(SetDeleted(n, id), ln, X)
<1>1. n \in Trees(AnySkips) /\ Redone(n, n, X)
  BY DEF Sound
<1>2. SetDeleted(n, id) \in Trees(AnySkips) /\ Redone(n, SetDeleted(n, id), X)
  BY <1>1, DeletedRedone
<1> QED
  BY <1>2, RedoneIsSound

\* The nodes below a dead one get skips to what is left.
LEMMA FixChildrenSound ==
  ASSUME NEW n, NEW ln, Sound(n, ln, {}), NEW dead \in SUBSET Ids, \A d \in dead : Stored(n, d)
  PROVE  /\ FixChildren(n, dead) \in Trees(AnySkips)
         /\ Redone(n, FixChildren(n, dead), {})
         /\ dead \subseteq Alive(n) =>
              \A c \in Ids : Stored(n, c) /\ c \notin dead =>
                \A i \in 1..3 : FixChildren(n, dead)[c].skip[i] \notin dead
<1> DEFINE m == FixChildren(n, dead)
           skips == SkipsLeft(n, dead)
           depth(c) == DepthLeft(n, dead, c)
           t(c) == [n[c] EXCEPT !.depth = depth(c), !.skip = skips[c], !.kind = "normal"]
<1>1. /\ n \in [Ids -> NodeOf(AnySkips)] /\ MarkedIsStored(n) /\ Rising(n)
      /\ \A c \in Ids : Revised(n, c, n[c]) /\ (Stored(n, c) => Leads(n, n[c].parent, n[c].skip))
  BY SoundRises DEF Sound, Redone, Trees
<1>2. \A c \in Ids : n[c].skip \in AnySkips
  BY <1>1, Mapped
<1>3. ASSUME NEW c \in Ids PROVE m[c] = IF IsBelow(n, dead, c) THEN t(c) ELSE n[c]
  BY DEF FixChildren
<1>4. ASSUME NEW c \in Ids PROVE depth(c) \in Nat /\ depth(c) <= n[c].depth /\ DeadAbove(n, dead, c) \in Nat
  <2> DEFINE above == DeadAbove(n, dead, c)
  <2>1. above \in Nat
    <3>1. IsFiniteSet(Ids)
      BY ConstantAssumption, UpToIsFinite DEF Ids
    <3>2. {d \in dead : IsAncestorBtree(n, d, c)} \subseteq Ids
      OBVIOUS
    <3>3. IsFiniteSet({d \in dead : IsAncestorBtree(n, d, c)})
      BY <3>1, <3>2, FS_Subset
    <3> QED
      BY <3>3, FS_CardinalityType DEF DeadAbove
  <2>2. n[c].depth \in Nat
    BY <1>1, Mapped
  <2>3. depth(c) = IF n[c].depth > above THEN n[c].depth - above ELSE 0
    BY DEF DepthLeft
  <2> HIDE DEF above, depth
  <2> QED
    BY <2>1, <2>2, <2>3 DEF above
<1>5. ASSUME NEW c \in Ids
      PROVE  /\ skips[c] \in AnySkips
             /\ Stored(n, c) => Leads(n, n[c].parent, skips[c])
  BY <1>1, <1>2, SkipsLeftIs
<1> HIDE DEF skips, depth
<1>6. ASSUME NEW c \in Ids, IsBelow(n, dead, c)
      PROVE  /\ t(c) \in NodeOf(AnySkips) /\ t(c).kind = "normal" /\ t(c).skip = skips[c]
             /\ Revised(n, c, t(c)) /\ Stored(n, c)
  <2>1. Stored(n, c)
    BY <1>6 DEF IsBelow
  <2>2. n[c] \in NodeOf(AnySkips) /\ skips[c] \in AnySkips /\ depth(c) \in Nat
    BY <1>1, <1>4, <1>5
  <2> DEFINE s == n[c]
             u == [s EXCEPT !.depth = depth(c), !.skip = skips[c], !.kind = "normal"]
  <2>3. /\ u \in NodeOf(AnySkips) /\ u.kind = "normal" /\ u.skip = skips[c] /\ u.depth = depth(c)
        /\ u.parent = s.parent /\ u.isAncestor = s.isAncestor /\ u.deleted = s.deleted /\ u.children = s.children
    BY <2>2 DEF NodeOf
  <2>4. u = t(c)
    OBVIOUS
  <2> HIDE DEF u
  <2>5. Revised(n, c, s) /\ depth(c) <= s.depth /\ s.depth \in Nat
    BY <1>1, <1>4, <2>2, Mapped
  <2>6. depth(c) <= MaxId + 1 - c
    BY <2>2, <2>5, ConstantAssumption DEF Revised, Ids
  <2>7. Revised(n, c, u)
    BY <2>1, <2>3, <2>5, <2>6 DEF Revised, Stored
  <2> QED
    BY <2>1, <2>3, <2>4, <2>7
<1> HIDE DEF t
<1>7. m \in Trees(AnySkips)
  <2>1. m = [c \in Ids |-> m[c]]
    BY DEF FixChildren
  <2>2. \A c \in Ids : m[c] \in NodeOf(AnySkips)
    BY <1>1, <1>3, <1>6
  <2> HIDE DEF m
  <2>3. MarkedIsStored(m)
    BY <1>1, <1>3, <1>6 DEF MarkedIsStored, Stored
  <2> QED
    BY <2>1, <2>2, <2>3 DEF Trees
<1> HIDE DEF m
<1>8. Redone(n, m, {})
  BY <1>1, <1>3, <1>5, <1>6 DEF Redone
<1>9. ASSUME dead \subseteq Alive(n), NEW c \in Ids, Stored(n, c), c \notin dead
      PROVE  \A i \in 1..3 : m[c].skip[i] \notin dead
  <2>1. ASSUME NEW x \in Ids \ dead, Stored(n, x), ~IsBelow(n, dead, x)
        PROVE  \A i \in 1..3 : n[x].skip[i] \notin dead
    <3>1. {d \in dead : IsAncestorBtree(n, d, x)} = {}
      <4> DEFINE A == {d \in dead : IsAncestorBtree(n, d, x)}
      <4>1. DeadAbove(n, dead, x) = 0
        BY <2>1 DEF IsBelow
      <4>2. IsFiniteSet(Ids) /\ A \subseteq Ids
        BY ConstantAssumption, UpToIsFinite DEF Ids
      <4>3. IsFiniteSet(A)
        BY <4>2, FS_Subset
      <4> QED
        BY <4>1, <4>3, FS_EmptySet DEF DeadAbove
    <3>2. \A d \in dead : d \notin ln[x]
      BY <1>9, <3>1, BtreeFinds
    <3>3. UpSet(n, n[x].parent) \subseteq ln[x]
      BY <2>1, WayUp
    <3>4. 0 \notin dead
      BY DEF Ids
    <3> QED
      BY <1>1, <2>1, <3>2, <3>3, <3>4 DEF Leads
  <2>2. \A i \in 1..3 : skips[c][i] \notin dead
    BY <1>1, <1>2, <1>9, <2>1, SkipsLeftIs DEF skips
  <2>3. CASE IsBelow(n, dead, c)
    BY <1>3, <1>6, <2>2, <2>3
  <2>4. CASE ~IsBelow(n, dead, c)
    BY <1>3, <1>9, <2>1, <2>4
  <2> QED
    BY <2>3, <2>4
<1> QED
  BY <1>7, <1>8, <1>9 DEF m

\* The parent is written as it was at the start, without the node that is collected.
LEMMA CollectRedone ==
  ASSUME NEW n, NEW ln, Sound(n, ln, {}), NEW m \in Trees(AnySkips), Redone(n, m, {}), NEW id \in Ids
  PROVE  Collect(m, n, id) \in Trees(AnySkips) /\ Redone(n, Collect(m, n, id), {})
<1> DEFINE p == n[id].parent
           cleared == [i \in Slots |-> IF n[p].children[i] = id THEN 0 ELSE n[p].children[i]]
           t == [n[p] EXCEPT !.kind = "normal", !.children = cleared]
           m1 == IF p = 0 \/ ~Stored(n, p) THEN m ELSE [m EXCEPT ![p] = t]
<1>1. n \in [Ids -> NodeOf(AnySkips)] /\ MarkedIsStored(n) /\ m \in [Ids -> NodeOf(AnySkips)] /\ MarkedIsStored(m)
  BY DEF Sound, Trees
<1>2. Collect(m, n, id) = SetDeleted(m1, id)
  BY DEF Collect
<1>3. m1 \in Trees(AnySkips) /\ Redone(n, m1, {})
  <2>1. CASE p = 0 \/ ~Stored(n, p)
    BY <2>1
  <2>2. CASE p # 0 /\ Stored(n, p)
    <3>1. p \in Ids /\ n[p] \in NodeOf(AnySkips)
      BY <1>1, <2>2, Mapped DEF Ref, Ids
    <3>2. cleared \in [Slots -> Ref] /\ \A i \in Slots : cleared[i] \in {0, n[p].children[i]}
      BY <3>1, Mapped, ConstantAssumption DEF Ref
    <3> HIDE DEF cleared, p
    <3>3. /\ t \in NodeOf(AnySkips) /\ t.kind = "normal" /\ t.children = cleared
          /\ t.deleted = n[p].deleted /\ t.parent = n[p].parent /\ t.isAncestor = n[p].isAncestor
          /\ t.depth = n[p].depth /\ t.skip = n[p].skip
      BY <3>1, <3>2 DEF NodeOf
    <3> HIDE DEF t
    <3>4. m1 = [m EXCEPT ![p] = t]
      BY <2>2
    <3> HIDE DEF m1
    <3>5. m1 \in [Ids -> NodeOf(AnySkips)] /\ m1[p] = t /\ \A i \in Ids \ {p} : m1[i] = m[i]
      BY <1>1, <3>1, <3>3, <3>4
    <3>6. MarkedIsStored(m1)
      BY <1>1, <3>3, <3>5 DEF MarkedIsStored, Stored
    <3>7. Revised(n, p, n[p]) /\ Leads(n, n[p].parent, n[p].skip)
      BY <2>2, <3>1 DEF Sound, Redone
    <3>8. Revised(n, p, t) /\ Leads(n, n[p].parent, t.skip)
      BY <2>2, <3>2, <3>3, <3>7 DEF Revised, Stored
    <3>9. Redone(n, m1, {})
      BY <3>5, <3>8 DEF Redone
    <3> QED
      BY <3>5, <3>6, <3>9 DEF Trees
  <2> QED
    BY <2>1, <2>2
<1> HIDE DEF m1
<1> QED
  BY <1>2, <1>3, DeletedRedone

\* A clean-up leaves the tree sound.
LEMMA CollectedSound ==
  ASSUME NEW n, NEW ln, Sound(n, ln, {}), NEW S \in SUBSET Ids, NEW order \in SetToSeqs(S)
  PROVE  Sound(Collected(n, order), ln, {})
<1> DEFINE P == {m \in Trees(AnySkips) : Redone(n, m, {})}
<1>1. DeadOf(n) \in SUBSET Ids /\ \A d \in DeadOf(n) : Stored(n, d)
  BY DEF DeadOf
<1>2. FixChildren(n, DeadOf(n)) \in P
  BY <1>1, FixChildrenSound
<1>3. \A m \in P : \A id \in Ids : CollectIf(m, n, id) \in P
  BY CollectRedone DEF CollectIf
<1>4. Collected(n, order) \in P
  <2> HIDE DEF P
  <2> QED
    BY <1>2, <1>3, CollectedIn
<1> QED
  BY <1>4, RedoneIsSound

\* What the removal of an inner node writes: its child under its parent.
LEMMA NodeDeleteIs ==
  ASSUME NEW n \in Trees(AnySkips), NEW id \in Ids, Normal(n, id),
         NEW p \in Ref, p = n[id].parent, p = 0 \/ (p \in Ids /\ p > id /\ Stored(n, p)),
         NEW y \in Ref, y = 0 \/ (y \in Ids /\ y < id /\ Stored(n, y)),
         y = IF n[id].children[1] # 0 THEN n[id].children[1] ELSE n[id].children[2],
         NEW c \in Ids
  PROVE  LET m == NodeDelete(n, id)
         IN  /\ m[c].isAncestor = n[c].isAncestor
             /\ m[c].kind \in {n[c].kind, "normal", "whiteout"} /\ (m[c].kind = "none" <=> n[c].kind = "none")
             /\ m[c].parent = IF c = y THEN p ELSE n[c].parent
             /\ m[c].depth = IF c = y THEN (IF p = 0 THEN 1 ELSE n[p].depth + 1) ELSE n[c].depth
             /\ m[c].children = IF c = p THEN Replaced(n[c].children, id, y) ELSE n[c].children
             /\ c = id => m[c].deleted /\ m[c].skip = NoSkips
             /\ c # id => /\ m[c].deleted = n[c].deleted /\ m[c].skip = n[c].skip
                          /\ m[c].kind = n[c].kind \/ m[c].kind = "normal"
<1> DEFINE n1 == ParentTakes(n, p, id, y)
           n2 == ChildTakes(n1, p, y)
           m == NodeDelete(n, id)
<1>1. m = SetDeleted(n2, id)
  BY DEF NodeDelete
<1>2. n1 \in Trees(AnySkips) /\ n2 \in Trees(AnySkips) /\ m \in Trees(AnySkips)
  <2>1. n1 \in Trees(AnySkips)
    BY ParentTakesKeeps
  <2> HIDE DEF n1
  <2>2. n2 \in Trees(AnySkips)
    BY <2>1, ChildTakesKeeps
  <2> HIDE DEF n2
  <2> QED
    BY <1>1, <2>1, <2>2, SetDeletedKeeps, NoSkipsType
<1>3. n \in [Ids -> NodeOf(AnySkips)] /\ n1 \in [Ids -> NodeOf(AnySkips)] /\ n2 \in [Ids -> NodeOf(AnySkips)]
  BY <1>2 DEF Trees
<1>4. /\ p # 0 => n1 = [n EXCEPT ![p] = [n[p] EXCEPT !.children = Replaced(n[p].children, id, y), !.kind = "normal"]]
      /\ p = 0 => n1 = n
  BY DEF ParentTakes
<1> HIDE DEF n1
<1>5. ASSUME NEW x \in Ids
      PROVE  /\ n1[x].isAncestor = n[x].isAncestor /\ n1[x].parent = n[x].parent /\ n1[x].depth = n[x].depth
             /\ n1[x].deleted = n[x].deleted /\ n1[x].skip = n[x].skip
             /\ n1[x].children = IF x = p THEN Replaced(n[x].children, id, y) ELSE n[x].children
             /\ n1[x].kind = IF x = p THEN "normal" ELSE n[x].kind
  <2>1. CASE x # p
    <3>1. n1[x] = n[x]
      BY <1>3, <1>4, <2>1
    <3> QED
      BY <2>1, <3>1
  <2>2. CASE x = p
    <3> DEFINE s == n[p]
               r == Replaced(s.children, id, y)
               t == [s EXCEPT !.children = r, !.kind = "normal"]
    <3>1. p # 0 /\ s \in NodeOf(AnySkips)
      BY <1>3, <2>2 DEF Ids
    <3>2. n1[x] = t
      BY <1>3, <1>4, <2>2, <3>1
    <3> HIDE DEF r, s
    <3>3. /\ t.isAncestor = s.isAncestor /\ t.parent = s.parent /\ t.depth = s.depth
          /\ t.deleted = s.deleted /\ t.skip = s.skip /\ t.children = r /\ t.kind = "normal"
      BY <3>1 DEF NodeOf
    <3> HIDE DEF t
    <3> QED
      BY <2>2, <3>2, <3>3 DEF s, r
  <2> QED
    BY <2>1, <2>2
<1> DEFINE depth == IF p = 0 THEN 1 ELSE IF Stored(n1, p) THEN n1[p].depth + 1 ELSE n1[y].depth
<1>6. /\ y # 0 => n2 = [n1 EXCEPT ![y] = [n1[y] EXCEPT !.parent = p, !.kind = "normal", !.depth = depth]]
      /\ y = 0 => n2 = n1
  <2>1. y # 0 => Stored(n1, y)
    BY <1>5 DEF Stored
  <2> QED
    BY <2>1 DEF ChildTakes
<1>7. y # 0 => depth = IF p = 0 THEN 1 ELSE n[p].depth + 1
  BY <1>5 DEF Stored
<1> HIDE DEF n2, depth
<1>8. ASSUME NEW x \in Ids
      PROVE  /\ n2[x].isAncestor = n1[x].isAncestor /\ n2[x].children = n1[x].children
             /\ n2[x].deleted = n1[x].deleted /\ n2[x].skip = n1[x].skip
             /\ n2[x].parent = IF x = y THEN p ELSE n1[x].parent
             /\ n2[x].depth = IF x = y THEN depth ELSE n1[x].depth
             /\ n2[x].kind = IF x = y THEN "normal" ELSE n1[x].kind
  <2>1. CASE x # y
    <3>1. n2[x] = n1[x]
      BY <1>3, <1>6, <2>1
    <3> QED
      BY <2>1, <3>1
  <2>2. CASE x = y
    <3> DEFINE s == n1[y]
               t == [s EXCEPT !.parent = p, !.kind = "normal", !.depth = depth]
    <3>1. y # 0 /\ s \in NodeOf(AnySkips)
      BY <1>3, <2>2 DEF Ids
    <3>2. n2[x] = t
      BY <1>3, <1>6, <2>2, <3>1
    <3> HIDE DEF s
    <3>3. /\ t.isAncestor = s.isAncestor /\ t.children = s.children
          /\ t.deleted = s.deleted /\ t.skip = s.skip /\ t.parent = p /\ t.depth = depth /\ t.kind = "normal"
      BY <3>1 DEF NodeOf
    <3> HIDE DEF t
    <3> QED
      BY <2>2, <3>2, <3>3 DEF s
  <2> QED
    BY <2>1, <2>2
<1>9. id # p /\ id # y /\ (y # 0 => y # p)
  BY DEF Ids
<1>10. Normal(n2, id)
  BY <1>5, <1>8, <1>9 DEF Normal
<1>11. m = [n2 EXCEPT ![id] = [n2[id] EXCEPT !.kind = "whiteout", !.deleted = TRUE, !.skip = NoSkips]]
  BY <1>1, <1>10 DEF SetDeleted, NoSkips
<1> HIDE DEF m
<1>12. ASSUME NEW x \in Ids
       PROVE  /\ m[x].isAncestor = n2[x].isAncestor /\ m[x].children = n2[x].children
              /\ m[x].parent = n2[x].parent /\ m[x].depth = n2[x].depth
              /\ m[x].deleted = IF x = id THEN TRUE ELSE n2[x].deleted
              /\ m[x].skip = IF x = id THEN NoSkips ELSE n2[x].skip
              /\ m[x].kind = IF x = id THEN "whiteout" ELSE n2[x].kind
  <2>1. CASE x # id
    <3>1. m[x] = n2[x]
      BY <1>3, <1>11, <2>1
    <3> QED
      BY <2>1, <3>1
  <2>2. CASE x = id
    <3> DEFINE s == n2[id]
               t == [s EXCEPT !.kind = "whiteout", !.deleted = TRUE, !.skip = NoSkips]
    <3>1. s \in NodeOf(AnySkips)
      BY <1>3
    <3>2. m[x] = t
      BY <1>3, <1>11, <2>2
    <3> HIDE DEF s
    <3>3. /\ t.isAncestor = s.isAncestor /\ t.children = s.children
          /\ t.deleted = TRUE /\ t.skip = NoSkips /\ t.parent = s.parent /\ t.depth = s.depth /\ t.kind = "whiteout"
      BY <3>1 DEF NodeOf
    <3> HIDE DEF t
    <3> QED
      BY <2>2, <3>2, <3>3 DEF s
  <2> QED
    BY <2>1, <2>2
<1>13. n[p].kind # "none" \/ p = 0
  BY DEF Stored
<1>14. n[y].kind # "none" \/ y = 0
  BY DEF Stored
<1>15. n[id].kind = "normal"
  BY DEF Normal
<1>16. 0 \notin Ids
  BY DEF Ids
<1>17. m[c].parent = IF c = y THEN p ELSE n[c].parent
  <2>1. m[c].parent = n2[c].parent
    BY <1>12
  <2>2. n2[c].parent = IF c = y THEN p ELSE n1[c].parent
    BY <1>8
  <2>3. n1[c].parent = n[c].parent
    BY <1>5
  <2> QED
    BY <2>1, <2>2, <2>3
<1>18. m[c].depth = IF c = y THEN (IF p = 0 THEN 1 ELSE n[p].depth + 1) ELSE n[c].depth
  <2>1. m[c].depth = n2[c].depth
    BY <1>12
  <2>2. n2[c].depth = IF c = y THEN depth ELSE n1[c].depth
    BY <1>8
  <2>3. n1[c].depth = n[c].depth
    BY <1>5
  <2> QED
    BY <1>7, <1>16, <2>1, <2>2, <2>3
<1>19. /\ m[c].kind \in {n[c].kind, "normal", "whiteout"} /\ (m[c].kind = "none" <=> n[c].kind = "none")
       /\ c # id => m[c].kind = n[c].kind \/ m[c].kind = "normal"
  <2>1. m[c].kind = IF c = id THEN "whiteout" ELSE n2[c].kind
    BY <1>12
  <2>2. n2[c].kind = IF c = y THEN "normal" ELSE n1[c].kind
    BY <1>8
  <2>3. n1[c].kind = IF c = p THEN "normal" ELSE n[c].kind
    BY <1>5
  <2> QED
    BY <1>13, <1>14, <1>15, <1>16, <2>1, <2>2, <2>3
<1>20. /\ m[c].isAncestor = n[c].isAncestor
       /\ m[c].children = IF c = p THEN Replaced(n[c].children, id, y) ELSE n[c].children
  <2>1. m[c].isAncestor = n2[c].isAncestor /\ m[c].children = n2[c].children
    BY <1>12
  <2>2. n2[c].isAncestor = n1[c].isAncestor /\ n2[c].children = n1[c].children
    BY <1>8
  <2>3. n1[c].isAncestor = n[c].isAncestor /\ n1[c].children = IF c = p THEN Replaced(n[c].children, id, y) ELSE n[c].children
    BY <1>5
  <2> QED
    BY <2>1, <2>2, <2>3
<1>21. /\ c = id => m[c].deleted /\ m[c].skip = NoSkips
       /\ c # id => m[c].deleted = n[c].deleted /\ m[c].skip = n[c].skip
  <2>1. /\ c = id => m[c].deleted = TRUE /\ m[c].skip = NoSkips
        /\ c # id => m[c].deleted = n2[c].deleted /\ m[c].skip = n2[c].skip
    BY <1>12
  <2>2. n2[c].deleted = n1[c].deleted /\ n2[c].skip = n1[c].skip
    BY <1>8
  <2>3. n1[c].deleted = n[c].deleted /\ n1[c].skip = n[c].skip
    BY <1>5
  <2> QED
    BY <2>1, <2>2, <2>3
<1> QED
  BY <1>17, <1>18, <1>19, <1>20, <1>21 DEF m

\* X of the nodes K are still to be removed: they live, and no other node skips to
\* one of K.
Cleared(n, K, X) ==
  /\ X \subseteq K /\ X \subseteq Alive(n)
  /\ \A c \in Ids : Stored(n, c) /\ c \notin X => \A i \in 1..3 : n[c].skip[i] \notin K

\* Taking an inner node out leaves the tree sound but for what is still to be taken out.
LEMMA RemoveSound ==
  ASSUME NEW n, NEW ln, NEW K \in SUBSET Ids, NEW X, Sound(n, ln, X), Cleared(n, K, X), NEW id \in X
  PROVE  LET m == NodeDelete(n, id)
         IN  m \in Trees(AnySkips) /\ Sound(m, ln, X \ {id}) /\ Cleared(m, K, X \ {id})
<1> DEFINE p == n[id].parent
           y == IF n[id].children[1] # 0 THEN n[id].children[1] ELSE n[id].children[2]
           m == NodeDelete(n, id)
           Z == X \ {id}
<1>1. /\ n \in Trees(AnySkips) /\ n \in [Ids -> NodeOf(AnySkips)] /\ Lineage(n, ln) /\ Rising(n)
      /\ \A c \in Ids : Stored(n, c) => Covered(n, ln, c) /\ BitsRight(n, ln, c)
      /\ \A c \in Ids : Revised(n, c, n[c]) /\ (Stored(n, c) /\ c \notin X => Leads(n, n[c].parent, n[c].skip))
  BY SoundRises DEF Sound, Redone, Trees
<1>2. id \in Ids /\ Stored(n, id) /\ ~n[id].deleted /\ id \in Alive(n) /\ id \in K
  BY DEF Cleared, Alive
<1>3. Normal(n, id)
  BY <1>1, <1>2 DEF Revised, Normal, Stored
<1>4. p \in Ref /\ (p = 0 \/ (p \in Ids /\ p > id /\ Stored(n, p) /\ p \in ln[id]))
  BY <1>1, <1>2, RefIsId DEF Rising, Covered
<1>5. y \in Ref /\ (y = 0 \/ y \in Sons(n, id))
  <2>1. n[id].children[1] \in Ref /\ n[id].children[2] \in Ref
    BY <1>1, <1>2, Mapped
  <2>2. \A i \in Slots : n[id].children[i] \in {0} \cup Sons(n, id)
    BY <1>1, <1>2 DEF Revised, Stored
  <2> QED
    BY <2>1, <2>2 DEF Slots
<1>6. y = 0 \/ (y \in Ids /\ y < id /\ Stored(n, y) /\ n[y].parent = id)
  BY <1>1, <1>2, <1>5 DEF Sons, Rising, Ids
<1> HIDE DEF p, y, m
<1>7. m \in Trees(AnySkips)
  BY <1>1, <1>2, NodeDeleteKeeps, NoSkipsType DEF m
<1>8. ASSUME NEW c \in Ids
      PROVE  /\ m[c].isAncestor = n[c].isAncestor
             /\ m[c].kind \in {n[c].kind, "normal", "whiteout"} /\ (m[c].kind = "none" <=> n[c].kind = "none")
             /\ m[c].parent = IF c = y THEN p ELSE n[c].parent
             /\ m[c].depth = IF c = y THEN (IF p = 0 THEN 1 ELSE n[p].depth + 1) ELSE n[c].depth
             /\ m[c].children = IF c = p THEN Replaced(n[c].children, id, y) ELSE n[c].children
             /\ c = id => m[c].deleted /\ m[c].skip = NoSkips
             /\ c # id => /\ m[c].deleted = n[c].deleted /\ m[c].skip = n[c].skip
                          /\ m[c].kind = n[c].kind \/ m[c].kind = "normal"
  BY <1>1, <1>2, <1>3, <1>4, <1>5, <1>6, NodeDeleteIs DEF m, p, y
<1>9. Alive(m) = Alive(n) \ {id} /\ \A c \in Ids : Stored(m, c) <=> Stored(n, c)
  <2>1. ASSUME NEW c \in Ids PROVE (Stored(m, c) <=> Stored(n, c)) /\ (m[c].deleted <=> n[c].deleted \/ c = id)
    BY <1>8 DEF Stored
  <2> QED
    BY <2>1 DEF Alive
<1>10. Lineage(m, ln)
  BY <1>1, <1>9 DEF Lineage
<1>11. ASSUME NEW c \in Ids, Stored(m, c) PROVE Covered(m, ln, c) /\ BitsRight(m, ln, c)
  <2>1. Covered(n, ln, c) /\ BitsRight(n, ln, c) /\ Stored(n, c)
    BY <1>1, <1>9, <1>11
  <2>2. BitsRight(m, ln, c)
    BY <1>8, <2>1 DEF BitsRight
  <2>3. CASE c # y
    <3>1. m[c].parent = n[c].parent
      BY <1>8, <2>3
    <3> QED
      BY <1>9, <2>1, <2>2, <3>1 DEF Covered
  <2>4. CASE c = y
    <3>1. m[c].parent = p /\ n[c].parent = id /\ id # 0
      BY <1>6, <1>8, <2>4 DEF Ids
    <3>2. id \in ln[c] /\ Alive(n) \cap ln[c] \subseteq {id} \cup ln[id]
      BY <2>1, <3>1 DEF Covered
    <3>3. ln[id] \subseteq ln[c]
      BY <1>1, <3>2 DEF Lineage
    <3>4. Covered(n, ln, id)
      BY <1>1, <1>2
    <3>5. CASE p = 0
      <4>1. Alive(n) \cap ln[id] = {}
        BY <3>4, <3>5 DEF Covered, p
      <4>2. Alive(m) \cap ln[c] = {}
        BY <1>9, <3>2, <4>1
      <4> QED
        BY <2>2, <3>1, <3>5, <4>2 DEF Covered
    <3>6. CASE p # 0
      <4>1. Alive(n) \cap ln[id] \subseteq {p} \cup ln[p] /\ p \in ln[id]
        BY <3>4, <3>6 DEF Covered, p
      <4>2. Alive(m) \cap ln[c] \subseteq {p} \cup ln[p]
        BY <1>9, <3>2, <4>1
      <4> QED
        BY <2>2, <3>1, <3>3, <3>6, <4>1, <4>2 DEF Covered
    <3> QED
      BY <3>5, <3>6
  <2> QED
    BY <2>3, <2>4
<1>12. Rising(m)
  <2> SUFFICES ASSUME NEW c \in Ids, Stored(m, c)
               PROVE  \/ m[c].parent = 0
                      \/ m[c].parent \in Ids /\ m[c].parent > c /\ Stored(m, m[c].parent)
    BY DEF Rising
  <2>1. CASE c # y
    BY <1>1, <1>8, <1>9, <2>1 DEF Rising
  <2>2. CASE c = y
    <3>1. m[c].parent = p /\ c < id
      BY <1>6, <1>8, <2>2 DEF Ids
    <3> QED
      BY <1>2, <1>4, <1>9, <3>1 DEF Ids
  <2> QED
    BY <2>1, <2>2
<1>13. \A c \in Ref : UpSet(n, c) \subseteq UpSet(m, c) \cup {id}
  <2> DEFINE S == {x \in Ids : UpSet(n, x) \subseteq UpSet(m, x) \cup {id}}
  <2>1. UpSet(n, 0) = {}
    BY <1>1, UpSetIs, RefIsId DEF Ends
  <2>2. ASSUME NEW x \in Ids, \A z \in Ids : z > x => z \in S PROVE x \in S
    <3>1. CASE ~Stored(n, x)
      <4>1. UpSet(n, x) = {}
        BY <1>1, <3>1, UpSetIs, RefIsId DEF Ends
      <4> QED
        BY <4>1
    <3>2. CASE Stored(n, x) /\ x # y
      <4>1. UpSet(n, x) = {x} \cup UpSet(n, n[x].parent) /\ UpSet(m, x) = {x} \cup UpSet(m, n[x].parent)
        BY <1>1, <1>8, <1>9, <1>12, <3>2, UpSetIs
      <4>2. n[x].parent = 0 \/ n[x].parent \in S
        BY <1>1, <2>2, <3>2 DEF Rising
      <4> QED
        BY <2>1, <4>1, <4>2
    <3>3. CASE Stored(n, x) /\ x = y
      <4>1. UpSet(n, x) = {x} \cup UpSet(n, id) /\ UpSet(n, id) = {id} \cup UpSet(n, p)
        <5>1. x \in Ids /\ n[x].parent = id
          BY <1>6, <3>3 DEF Ids
        <5> QED
          BY <1>1, <1>2, <3>3, <5>1, UpSetIs DEF p
      <4>2. UpSet(m, x) = {x} \cup UpSet(m, p)
        BY <1>8, <1>9, <1>12, <3>3, UpSetIs
      <4>3. p = 0 \/ p \in S
        BY <1>2, <1>4, <1>6, <2>2, <3>3 DEF Ids
      <4> QED
        BY <2>1, <4>1, <4>2, <4>3
    <3> QED
      BY <3>1, <3>2, <3>3
  <2>3. Ids \subseteq S
    <3> HIDE DEF S
    <3> QED
      BY <2>2, FromTheTop, Zenon
  <2> QED
    BY <2>1, <2>3, RefIsId
<1>14. Cleared(m, K, Z)
  <2>1. ASSUME NEW c \in Ids, Stored(m, c), c \notin Z PROVE \A i \in 1..3 : m[c].skip[i] \notin K
    <3>1. CASE c = id
      BY <1>8, <3>1, NoSkipsType DEF Ids
    <3>2. CASE c # id
      BY <1>8, <1>9, <2>1, <3>2 DEF Cleared
    <3> QED
      BY <3>1, <3>2
  <2> QED
    BY <1>9, <2>1 DEF Cleared
<1>15. ASSUME NEW c \in Ids, Stored(m, c), c \notin Z PROVE Leads(m, m[c].parent, m[c].skip)
  <2>1. CASE c = id
    BY <1>8, <2>1, NoSkipsType DEF Leads
  <2>2. CASE c # id
    <3>1. m[c].skip = n[c].skip /\ Stored(n, c) /\ c \notin X
      BY <1>8, <1>9, <1>15, <2>2
    <3>2. Leads(n, n[c].parent, n[c].skip) /\ n[c].parent \in Ref
      BY <1>1, <3>1, UpSetIs
    <3>3. UpSet(n, n[c].parent) \subseteq UpSet(m, m[c].parent) \cup {id}
      <4>1. CASE c # y
        BY <1>8, <1>13, <3>2, <4>1
      <4>2. CASE c = y
        <5>1. n[c].parent = id /\ m[c].parent = p /\ UpSet(n, id) = {id} \cup UpSet(n, p)
          <6>1. n[c].parent = id /\ m[c].parent = p
            BY <1>6, <1>8, <4>2 DEF Ids
          <6> QED
            BY <1>1, <1>2, <6>1, UpSetIs DEF p
        <5> QED
          BY <1>4, <1>13, <5>1
      <4> QED
        BY <4>1, <4>2
    <3>4. \A i \in 1..3 : n[c].skip[i] \notin K
      BY <3>1 DEF Cleared
    <3> QED
      BY <1>2, <3>1, <3>2, <3>3, <3>4 DEF Leads
  <2> QED
    BY <2>1, <2>2
<1>16. ASSUME NEW c \in Ids PROVE Revised(m, c, m[c])
  <2>1. Revised(n, c, n[c])
    BY <1>1
  <2>2. m[c].kind \notin {"none", "normal"} => m[c].deleted
    BY <1>8, <2>1 DEF Revised
  <2>3. m[c].depth <= MaxId + 1 - c
    <3>1. CASE c # y
      BY <1>8, <2>1, <3>1 DEF Revised
    <3>2. CASE c = y /\ p = 0
      BY <1>8, <3>2, ConstantAssumption DEF Ids
    <3>3. CASE c = y /\ p # 0
      <4>1. n[p].depth \in Nat /\ n[p].depth <= MaxId + 1 - p /\ p > c + 1 /\ p \in Nat /\ c \in Nat /\ MaxId \in Nat
        BY <1>1, <1>2, <1>4, <1>6, <3>3, Mapped, ConstantAssumption DEF Revised, Ids
      <4>2. m[c].depth = n[p].depth + 1
        BY <1>8, <3>3
      <4> QED
        BY <4>1, <4>2
    <3> QED
      BY <3>1, <3>2, <3>3
  <2>4. ASSUME c \in Alive(m), NEW i \in Slots PROVE m[c].children[i] \in {0} \cup Sons(m, c)
    <3>1. c \in Alive(n) /\ c # id
      BY <1>9, <2>4
    <3>2. n[c].children[i] \in {0} \cup Sons(n, c)
      BY <2>1, <3>1 DEF Alive, Revised, Stored
    <3>3. Sons(n, c) \subseteq Sons(m, c)
      <4> SUFFICES ASSUME NEW z \in Sons(n, c) PROVE z \in Sons(m, c)
        OBVIOUS
      <4>1. z \in Ids /\ Stored(n, z) /\ n[z].parent = c
        BY DEF Sons
      <4>2. z # y
        BY <1>6, <3>1, <4>1 DEF Ids
      <4>3. m[z].parent = c
        BY <1>8, <4>1, <4>2
      <4> QED
        BY <1>9, <4>1, <4>3 DEF Sons
    <3>4. CASE c # p
      BY <1>8, <3>2, <3>3, <3>4
    <3>5. CASE c = p
      <4>1. m[c].children[i] \in {n[c].children[i], y}
        <5>1. m[c].children = Replaced(n[c].children, id, y)
          BY <1>8, <3>5
        <5>2. n[c].children \in [Slots -> Ref]
          BY <1>1, Mapped
        <5> QED
          BY <5>1, <5>2 DEF Replaced, Slots
      <4>2. y \in {0} \cup Sons(m, c)
        BY <1>6, <1>8, <1>9, <3>5 DEF Sons
      <4> QED
        BY <3>2, <3>3, <4>1, <4>2
    <3> QED
      BY <3>4, <3>5
  <2> QED
    BY <2>2, <2>3, <2>4 DEF Revised, Alive, Stored
<1>17. Sound(m, ln, Z)
  BY <1>7, <1>10, <1>11, <1>15, <1>16 DEF Sound, Redone
<1> QED
  BY <1>7, <1>14, <1>17 DEF m

\* Taking out a set of inner nodes with one child leaves the tree sound.
LEMMA RemovedSound ==
  ASSUME NEW n, NEW ln, Sound(n, ln, {}), NEW noKeys \in SUBSET Alive(n)
  PROVE  Sound(Removed(n, noKeys), ln, {})
<1> DEFINE base == FixChildren(n, noKeys)
           Left(s) == noKeys \ {Descending[k] : k \in s}
           Q == [s \in SUBSET (1..MaxId) |->
                   {m \in Trees(AnySkips) : Sound(m, ln, Left(s)) /\ Cleared(m, noKeys, Left(s))}]
<1>1. /\ noKeys \in SUBSET Ids /\ \A d \in noKeys : Stored(n, d)
      /\ MaxId \in Nat /\ Ids = 1..MaxId /\ \A k \in 1..MaxId : Descending[k] = MaxId + 1 - k
  BY ConstantAssumption DEF Alive, Descending, Ids
<1>2. /\ base \in Trees(AnySkips) /\ Redone(n, base, {})
      /\ \A c \in Ids : Stored(n, c) /\ c \notin noKeys => \A i \in 1..3 : base[c].skip[i] \notin noKeys
      /\ \A c \in noKeys : base[c] = n[c]
  <2>1. \A c \in noKeys : base[c] = n[c]
    BY <1>1 DEF FixChildren, IsBelow
  <2> HIDE DEF base
  <2> QED
    BY <1>1, <2>1, FixChildrenSound DEF base
<1> HIDE DEF base
<1>3. base \in Q[{}]
  <2>1. Left({}) = noKeys
    OBVIOUS
  <2>2. Redone(n, base, noKeys)
    BY <1>2 DEF Redone
  <2>3. Sound(base, ln, noKeys)
    BY <1>2, <2>2, RedoneIsSound
  <2>4. \A c \in Ids : Stored(base, c) => Stored(n, c)
    BY <1>2 DEF Redone, Revised, Stored
  <2>5. noKeys \subseteq Alive(base)
    BY <1>2 DEF Alive, Stored
  <2>6. Cleared(base, noKeys, noKeys)
    BY <1>2, <2>4, <2>5 DEF Cleared
  <2> QED
    BY <1>2, <2>1, <2>3, <2>6
<1>4. ASSUME NEW s \in SUBSET (1..MaxId), s # {}, NEW m \in Trees(AnySkips), m \in Q[Prior(s)]
      PROVE  RemovedIf(m, Descending[Max(s)], noKeys) \in Q[s]
  <2> DEFINE id == Descending[Max(s)]
             X == Left(Prior(s))
  <2>1. Max(s) \in s /\ Max(s) \in 1..MaxId /\ Prior(s) \in SUBSET (1..MaxId)
    BY <1>1, <1>4, PriorIsLess
  <2>2. s = Prior(s) \cup {Max(s)} /\ Max(s) \notin Prior(s)
    BY <1>1, <1>4, PriorIsLess DEF Prior
  <2>3. Sound(m, ln, X) /\ Cleared(m, noKeys, X)
    BY <1>4, <2>1
  <2>4. Left(s) = X \ {id}
    BY <2>2
  <2>5. id \notin {Descending[k] : k \in Prior(s)}
    BY <1>1, <2>1, <2>2
  <2>6. CASE id \in noKeys
    <3>1. id \in X
      BY <2>5, <2>6
    <3>2. RemovedIf(m, id, noKeys) = NodeDelete(m, id)
      BY <2>6 DEF RemovedIf
    <3> HIDE DEF X, id, Left
    <3>3. LET r == NodeDelete(m, id) IN r \in Trees(AnySkips) /\ Sound(r, ln, X \ {id}) /\ Cleared(r, noKeys, X \ {id})
      BY <1>1, <2>3, <3>1, RemoveSound
    <3> QED
      BY <2>4, <3>2, <3>3 DEF id
  <2>7. CASE id \notin noKeys
    <3>1. RemovedIf(m, id, noKeys) = m /\ Left(s) = X
      BY <2>4, <2>7 DEF RemovedIf
    <3> HIDE DEF X, Left
    <3> QED
      BY <2>3, <3>1
  <2> QED
    BY <2>6, <2>7
<1>5. \A m \in Trees(AnySkips) : \A id \in Ids : RemovedIf(m, id, noKeys) \in Trees(AnySkips)
  BY NodeDeleteKeeps, NoSkipsType DEF RemovedIf
<1>6. Removed(n, noKeys) \in Q[1..MaxId]
  <2> HIDE DEF Q
  <2> QED
    BY <1>1, <1>2, <1>3, <1>4, <1>5, RemovedIn DEF base
<1>7. Left(1..MaxId) = {}
  <2>1. ASSUME NEW c \in noKeys PROVE c \in {Descending[k] : k \in 1..MaxId}
    <3>1. MaxId + 1 - c \in 1..MaxId /\ Descending[MaxId + 1 - c] = c
      BY <1>1
    <3> QED
      BY <3>1
  <2> QED
    BY <2>1
<1> HIDE DEF Left
<1> QED
  BY <1>6, <1>7

-----------------------------------------------------------------------------
(* New nodes under old ones. *)

\* What a node made under p is created under.
Under(ln, p) == IF p = 0 THEN {} ELSE ln[p] \cup {p}

\* A node that is no one's parent does not change what is above the others.
LEMMA NewNodeWayUp ==
  ASSUME NEW n, NEW m, Rising(n), Rising(m), NEW id \in Ids, ~Stored(n, id),
         \A c \in Ids : c # id => m[c] = n[c]
  PROVE  \A c \in Ref : c # id => UpSet(m, c) = UpSet(n, c)
<1>0. 0 \notin Ids /\ \A c \in Ids : c # id => (Stored(m, c) <=> Stored(n, c))
  BY DEF Ids, Stored
<1> DEFINE S == {x \in Ids : x # id => UpSet(m, x) = UpSet(n, x)}
<1>1. UpSet(n, 0) = {} /\ UpSet(m, 0) = {} /\ 0 # id
  BY <1>0, UpSetIs, RefIsId DEF Ends
<1>2. ASSUME NEW x \in Ids, \A z \in Ids : z > x => z \in S PROVE x \in S
  <2> SUFFICES ASSUME x # id PROVE UpSet(m, x) = UpSet(n, x)
    OBVIOUS
  <2>1. CASE ~Stored(n, x)
    <3>1. UpSet(n, x) = {} /\ UpSet(m, x) = {}
      BY <1>0, <2>1, UpSetIs, RefIsId DEF Ends
    <3> QED
      BY <3>1
  <2>2. CASE Stored(n, x)
    <3>1. UpSet(n, x) = {x} \cup UpSet(n, n[x].parent) /\ UpSet(m, x) = {x} \cup UpSet(m, n[x].parent)
      BY <1>0, <2>2, UpSetIs
    <3>2. n[x].parent = 0 \/ (n[x].parent \in S /\ n[x].parent # id)
      BY <1>2, <2>2 DEF Rising
    <3> QED
      BY <1>1, <3>1, <3>2
  <2> QED
    BY <2>1, <2>2
<1>3. Ids \subseteq S
  <2> HIDE DEF S
  <2> QED
    BY <1>2, FromTheTop, Zenon
<1> QED
  BY <1>1, <1>3, RefIsId

\* A node below all others.
LEMMA NewNodeSound ==
  ASSUME NEW n, NEW ln, Sound(n, ln, {}), NEW p \in Ref, p = 0 \/ (p \in Ids /\ Stored(n, p)),
         NEW id \in Ids, ~Stored(n, id), \A c \in Ids : Stored(n, c) => id < c,
         NEW t \in NodeOf(AnySkips), t.kind = "normal", t.deleted = FALSE, t.parent = p,
         t.depth <= MaxId + 1 - id, Leads(n, p, t.skip), \A i \in Slots : t.children[i] = 0,
         \A d \in 1..(Width - 1) : d \in t.isAncestor <=> id + d \in Under(ln, p)
  PROVE  Sound([n EXCEPT ![id] = t], [ln EXCEPT ![id] = Under(ln, p)], {})
<1> DEFINE m == [n EXCEPT ![id] = t]
           L == Under(ln, p)
           l2 == [ln EXCEPT ![id] = L]
<1>1. /\ n \in [Ids -> NodeOf(AnySkips)] /\ MarkedIsStored(n) /\ Lineage(n, ln) /\ Rising(n)
      /\ \A c \in Ids : Stored(n, c) => Covered(n, ln, c) /\ BitsRight(n, ln, c)
      /\ \A c \in Ids : Revised(n, c, n[c]) /\ (Stored(n, c) => Leads(n, n[c].parent, n[c].skip))
  BY SoundRises DEF Sound, Redone, Trees
<1>2. m \in [Ids -> NodeOf(AnySkips)] /\ m[id] = t /\ \A c \in Ids : c # id => m[c] = n[c]
  BY <1>1
<1>3. Ids \subseteq Nat /\ 0 \notin Ids
  BY DEF Ids
<1>4. L \in SUBSET Ids /\ \A a \in L : a \in Ids /\ Stored(n, a) /\ a > id
  <2>1. CASE p = 0
    BY <2>1 DEF Under
  <2>2. CASE p # 0
    BY <1>1, <2>2 DEF Under, Lineage
  <2> QED
    BY <2>1, <2>2
<1>5. l2 \in [Ids -> SUBSET Ids] /\ l2[id] = L /\ \A c \in Ids : c # id => l2[c] = ln[c]
  BY <1>1, <1>4 DEF Lineage
<1> HIDE DEF m, l2, L
<1>6. Alive(m) = Alive(n) \cup {id} /\ \A c \in Ids : Stored(m, c) <=> Stored(n, c) \/ c = id
  BY <1>2 DEF Alive, Stored
<1>7. \A c \in Ids : id \notin ln[c]
  BY <1>1 DEF Lineage
<1>8. ln[id] = {}
  BY <1>1 DEF Lineage
<1>9. Lineage(m, l2)
  <2>1. ASSUME NEW c \in Ids, ~Stored(m, c) PROVE l2[c] = {}
    BY <1>1, <1>5, <1>6, <2>1 DEF Lineage
  <2>2. ASSUME NEW c \in Ids, NEW a \in l2[c]
        PROVE  /\ a > c /\ Stored(m, a) /\ l2[a] \subseteq l2[c]
               /\ \A b \in l2[c] : b > a => b \in l2[a]
    <3>1. CASE c # id
      <4>1. l2[c] = ln[c] /\ a \in ln[c] /\ a # id /\ a \in Ids
        BY <1>1, <1>5, <1>7, <2>2, <3>1 DEF Lineage
      <4>2. l2[a] = ln[a]
        BY <1>5, <4>1
      <4> QED
        BY <1>1, <1>6, <4>1, <4>2 DEF Lineage
    <3>2. CASE c = id
      <4>1. l2[c] = L /\ a \in L /\ a \in Ids /\ Stored(n, a) /\ a > c /\ a # id
        BY <1>3, <1>4, <1>5, <2>2, <3>2
      <4>2. l2[a] = ln[a] /\ p # 0
        BY <1>5, <4>1 DEF L, Under
      <4>3. L = ln[p] \cup {p} /\ p \in Ids
        BY <4>2 DEF L, Under
      <4>4. CASE a = p
        BY <1>3, <1>6, <4>1, <4>2, <4>3, <4>4
      <4>5. CASE a # p
        <5>1. a \in ln[p] /\ a > p /\ ln[a] \subseteq ln[p] /\ \A b \in ln[p] : b > a => b \in ln[a]
          BY <1>1, <4>1, <4>3, <4>5 DEF Lineage
        <5>2. ~(p > a)
          BY <1>3, <4>1, <4>3, <5>1
        <5> QED
          BY <1>6, <4>1, <4>2, <4>3, <5>1, <5>2
      <4> QED
        BY <4>4, <4>5
    <3> QED
      BY <3>1, <3>2
  <2> QED
    BY <1>5, <2>1, <2>2 DEF Lineage
<1>10. ASSUME NEW c \in Ids, Stored(m, c) PROVE Covered(m, l2, c) /\ BitsRight(m, l2, c)
  <2>1. CASE c # id
    <3>1. Stored(n, c) /\ m[c] = n[c] /\ l2[c] = ln[c] /\ Covered(n, ln, c) /\ BitsRight(n, ln, c)
      BY <1>1, <1>2, <1>5, <1>6, <1>10, <2>1
    <3>2. Alive(m) \cap ln[c] = Alive(n) \cap ln[c]
      BY <1>6, <1>7
    <3>3. n[c].parent # 0 => n[c].parent \in Ids /\ n[c].parent # id /\ l2[n[c].parent] = ln[n[c].parent]
      BY <1>1, <1>5, <3>1 DEF Rising
    <3> QED
      BY <3>1, <3>2, <3>3 DEF Covered, BitsRight
  <2>2. CASE c = id
    <3>1. m[c].parent = p /\ m[c].isAncestor = t.isAncestor /\ l2[c] = L
      BY <1>2, <1>5, <2>2
    <3>2. BitsRight(m, l2, c)
      BY <2>2, <3>1 DEF BitsRight, L
    <3>3. p # 0 => p # id /\ l2[p] = ln[p]
      BY <1>3, <1>5
    <3>4. Covered(m, l2, c)
      BY <3>1, <3>3 DEF Covered, L, Under
    <3> QED
      BY <3>2, <3>4
  <2> QED
    BY <2>1, <2>2
<1>11. Rising(m)
  BY <1>1, <1>2, <1>3, <1>6 DEF Rising
<1>12. \A c \in Ref : c # id => UpSet(m, c) = UpSet(n, c)
  BY <1>1, <1>2, <1>11, NewNodeWayUp
<1>13. Redone(m, m, {})
  <2>1. ASSUME NEW c \in Ids, Stored(m, c) PROVE Leads(m, m[c].parent, m[c].skip)
    <3>1. CASE c = id
      <4>1. m[c].parent = p /\ m[c].skip = t.skip /\ p # id
        BY <1>2, <1>3, <3>1
      <4> QED
        BY <1>12, <4>1 DEF Leads
    <3>2. CASE c # id
      <4>1. Stored(n, c) /\ m[c] = n[c]
        BY <1>2, <1>6, <2>1, <3>2
      <4>2. n[c].parent \in Ref /\ n[c].parent # id
        BY <1>1, <1>3, <4>1, RefIsId DEF Rising
      <4> QED
        BY <1>1, <1>12, <4>1, <4>2 DEF Leads
    <3> QED
      BY <3>1, <3>2
  <2>2. ASSUME NEW c \in Ids PROVE Revised(m, c, m[c])
    <3>1. CASE c = id
      BY <1>2, <3>1 DEF Revised
    <3>2. CASE c # id
      <4>1. Sons(n, c) \subseteq Sons(m, c)
        BY <1>2, <1>6 DEF Sons
      <4>2. m[c] = n[c] /\ Revised(n, c, n[c])
        BY <1>1, <1>2, <3>2
      <4> QED
        BY <4>1, <4>2 DEF Revised
    <3> QED
      BY <3>1, <3>2
  <2> QED
    BY <2>1, <2>2 DEF Redone
<1>14. m \in Trees(AnySkips)
  BY <1>1, <1>2 DEF Trees, MarkedIsStored, Stored
<1>15. Sound(m, l2, {})
  BY <1>9, <1>10, <1>13, <1>14 DEF Sound
<1> QED
  BY <1>15 DEF m, l2, L

\* An inner node written with children of its own.
LEMMA InteriorSound ==
  ASSUME NEW n, NEW ln, Sound(n, ln, {}), NEW p \in Ids, Stored(n, p),
         NEW children \in [Slots -> Ref], \A i \in Slots : children[i] \in {0} \cup Sons(n, p) \cup {n[p].children[1], n[p].children[2]}
  PROVE  Sound([n EXCEPT ![p] = Interior(n[p], children)], ln, {})
<1> DEFINE s == n[p]
           t == Interior(s, children)
           m == [n EXCEPT ![p] = t]
<1>1. /\ n \in [Ids -> NodeOf(AnySkips)] /\ MarkedIsStored(n) /\ s \in NodeOf(AnySkips)
      /\ \A c \in Ids : Revised(n, c, n[c]) /\ (Stored(n, c) => Leads(n, n[c].parent, n[c].skip))
  BY DEF Sound, Redone, Trees
<1> HIDE DEF s
<1>2. /\ t \in NodeOf(AnySkips) /\ t.kind = "normal" /\ t.deleted = s.deleted /\ t.children = children
      /\ t.parent = s.parent /\ t.isAncestor = s.isAncestor /\ t.depth = s.depth /\ t.skip = s.skip
  <2>1. 0 \in 0..MaxSubvol
    BY ConstantAssumption
  <2> QED
    BY <1>1, <2>1 DEF Interior, NodeOf
<1> HIDE DEF t
<1>3. m \in [Ids -> NodeOf(AnySkips)] /\ m[p] = t /\ \A c \in Ids : c # p => m[c] = n[c]
  BY <1>1, <1>2
<1>4. m = [n EXCEPT ![p] = Interior(n[p], children)]
  BY DEF t, s
<1> HIDE DEF m
<1>5. m \in Trees(AnySkips)
  BY <1>1, <1>2, <1>3 DEF Trees, MarkedIsStored, Stored
<1>6. Revised(n, p, s) /\ Leads(n, s.parent, s.skip) /\ s.kind # "none"
  BY <1>1 DEF s, Stored
<1>7. Revised(n, p, t)
  <2>1. ASSUME ~t.deleted, NEW i \in Slots PROVE t.children[i] \in {0} \cup Sons(n, p)
    <3>1. \A j \in Slots : s.children[j] \in {0} \cup Sons(n, p)
      BY <1>2, <1>6, <2>1 DEF Revised
    <3>2. s.children[1] \in {0} \cup Sons(n, p) /\ s.children[2] \in {0} \cup Sons(n, p)
      BY <3>1 DEF Slots
    <3> QED
      BY <1>2, <3>2 DEF s
  <2> QED
    BY <1>2, <1>6, <2>1 DEF Revised
<1>8. Redone(n, m, {})
  <2>1. \A c \in Ids : Revised(n, c, m[c])
    BY <1>1, <1>3, <1>7
  <2>2. \A c \in Ids : Stored(n, c) => Leads(n, n[c].parent, m[c].skip)
    BY <1>1, <1>2, <1>3, <1>6 DEF s
  <2> QED
    BY <2>1, <2>2 DEF Redone
<1> QED
  BY <1>4, <1>5, <1>8, RedoneIsSound

\* A new id is below all that were given out.
LEMMA NextIdIsBelow ==
  ASSUME NEW n, NextId(n) >= 1
  PROVE  /\ NextId(n) \in Ids /\ ~Stored(n, NextId(n))
         /\ \A c \in Ids : Stored(n, c) => NextId(n) < c
<1> DEFINE used == {id \in Ids : Stored(n, id)}
<1>1. NextId(n) \in Ids /\ ~Stored(n, NextId(n))
  BY NextIdIsFresh
<1>2. NextId(n) = IF used = {} THEN MaxId ELSE Min(used) - 1
  BY DEF NextId
<1>3. ASSUME NEW c \in Ids, Stored(n, c) PROVE NextId(n) < c
  <2>1. c \in used /\ used \subseteq Nat
    BY <1>3 DEF Ids
  <2> HIDE DEF used
  <2>2. PICK least \in used : \A x \in used : least <= x
    BY <2>1, LeastNat
  <2> DEFINE x == Min(used)
  <2>3. x \in used /\ \A a \in used : x <= a
    BY <2>2 DEF Min
  <2>4. NextId(n) = x - 1
    BY <1>2, <2>1
  <2> HIDE DEF x
  <2>5. x \in Nat /\ c \in Nat /\ x <= c
    BY <2>1, <2>3
  <2> QED
    BY <2>4, <2>5
<1> QED
  BY <1>1, <1>3

\* The child of p with id id: its bits are those of p, moved.
LEMMA ChildOfIs ==
  ASSUME NEW n, NEW ln, Sound(n, ln, {}), NEW p \in Ids, Stored(n, p), NEW id \in Ids, id < p,
         NEW v \in 0..MaxSubvol, NEW skip \in AnySkips
  PROVE  LET t == ChildOf(n, p, id, v, skip)
         IN  /\ t \in NodeOf(AnySkips) /\ t.kind = "normal" /\ t.deleted = FALSE /\ t.parent = p
             /\ t.depth <= MaxId + 1 - id /\ t.skip = skip /\ \A i \in Slots : t.children[i] = 0
             /\ \A d \in 1..(Width - 1) : d \in t.isAncestor <=> id + d \in ln[p] \cup {p}
<1> DEFINE gap == p - id
           bits == BitsUnder(n[p], gap)
           depth == n[p].depth + 1
           t == [Absent EXCEPT !.kind = "normal", !.parent = p, !.subvol = v, !.skip = skip,
                               !.isAncestor = bits, !.depth = depth, !.SUBVOL = TRUE]
<1>1. ChildOf(n, p, id, v, skip) = t
  BY DEF ChildOf
<1>2. /\ n \in [Ids -> NodeOf(AnySkips)] /\ Lineage(n, ln) /\ BitsRight(n, ln, p) /\ Revised(n, p, n[p])
  BY DEF Sound, Redone, Trees
<1>3. p \in Nat /\ id \in Nat /\ gap \in Nat \ {0} /\ p = id + gap /\ MaxId \in Nat /\ p <= MaxId /\ Width \in Nat \ {0}
  BY ConstantAssumption DEF Ids
<1>4. bits \in SUBSET (1..Width)
  BY DEF BitsUnder
<1>5. n[p].depth \in Nat /\ depth \in Nat /\ depth <= MaxId + 1 - id /\ n[p].isAncestor \in SUBSET (1..Width)
  BY <1>2, <1>3, Mapped DEF Revised
<1>6. ASSUME NEW d \in 1..(Width - 1) PROVE d \in bits <=> id + d \in ln[p] \cup {p}
  <2>1. \A a \in ln[p] : a > p
    BY <1>2 DEF Lineage
  <2>2. CASE gap >= Width
    <3>1. bits = {}
      BY <2>2 DEF BitsUnder
    <3>2. id + d < p
      BY <1>3, <2>2
    <3> QED
      BY <1>3, <2>1, <3>1, <3>2
  <2>3. CASE ~(gap >= Width)
    <3>1. d \in bits <=> d = gap \/ d - gap \in n[p].isAncestor
      BY <1>3, <2>3 DEF BitsUnder
    <3>2. CASE d = gap
      BY <1>3, <3>1, <3>2
    <3>3. CASE d > gap
      <4>1. d - gap \in 1..(Width - 1) /\ id + d = p + (d - gap) /\ id + d # p /\ d # gap
        BY <1>3, <3>3
      <4>2. d - gap \in n[p].isAncestor <=> p + (d - gap) \in ln[p]
        BY <1>2, <4>1 DEF BitsRight
      <4> HIDE DEF gap, bits
      <4> QED
        BY <3>1, <4>1, <4>2
    <3>4. CASE d < gap
      <4>1. d - gap \notin n[p].isAncestor /\ d # gap /\ id + d < p
        BY <1>3, <1>5, <3>4
      <4>2. id + d \notin ln[p] /\ id + d # p
        BY <1>3, <2>1, <4>1
      <4> HIDE DEF gap, bits
      <4> QED
        BY <3>1, <4>1, <4>2
    <3> QED
      BY <1>3, <3>2, <3>3, <3>4
  <2> QED
    BY <2>2, <2>3
<1>7. <<0, 0>> \in [Slots -> Ref] /\ p \in Ref
  BY Pair, RefIsId
<1>8. Absent \in NodeOf(AnySkips) /\ Absent.deleted = FALSE /\ Absent.children = <<0, 0>>
  BY AbsentType, NoSkipsType DEF Absent
<1> HIDE DEF bits, depth, gap
<1>9. /\ t \in NodeOf(AnySkips) /\ t.kind = "normal" /\ t.deleted = FALSE /\ t.parent = p
      /\ t.depth = depth /\ t.skip = skip /\ t.children = <<0, 0>> /\ t.isAncestor = bits
  BY <1>4, <1>5, <1>7, <1>8 DEF NodeOf
<1> HIDE DEF t
<1> QED
  BY <1>1, <1>5, <1>6, <1>9 DEF Slots

\* A new root leaves the tree sound.
LEMMA NewLeafSound ==
  ASSUME NEW n, NEW ln, Sound(n, ln, {}), NEW v \in 0..MaxSubvol, NextId(n) >= 1
  PROVE  Sound([n EXCEPT ![NextId(n)] = NewLeaf(v)], ln, {})
<1> DEFINE id == NextId(n)
           t == NewLeaf(v)
<1>1. id \in Ids /\ ~Stored(n, id) /\ \A c \in Ids : Stored(n, c) => id < c
  BY NextIdIsBelow
<1> HIDE DEF id
<1>2. t \in NodeOf(AnySkips) /\ t.kind = "normal" /\ t.deleted = FALSE
  BY NewLeafType, NoSkipsType
<1>3. /\ t.parent = 0 /\ t.depth = 1 /\ t.skip = NoSkips /\ t.children = <<0, 0>> /\ t.isAncestor = {}
  BY DEF NewLeaf, Absent, NoSkips
<1> HIDE DEF t
<1>4. 1 <= MaxId + 1 - id
  BY <1>1, ConstantAssumption DEF Ids
<1>5. Leads(n, 0, t.skip) /\ \A i \in Slots : t.children[i] = 0
  BY <1>3, NoSkipsType DEF Leads, Slots
<1>6. Sound([n EXCEPT ![id] = t], [ln EXCEPT ![id] = Under(ln, 0)], {})
  <2>1. Under(ln, 0) = {}
    BY DEF Under
  <2>2. \A d \in 1..(Width - 1) : d \in t.isAncestor <=> id + d \in Under(ln, 0)
    BY <1>3, <2>1
  <2> QED
    BY <1>1, <1>2, <1>3, <1>4, <1>5, <2>2, RefIsId, NewNodeSound
<1>7. ln \in [Ids -> SUBSET Ids] /\ ln[id] = {} /\ Under(ln, 0) = {}
  BY <1>1 DEF Sound, Lineage, Under
<1>8. [ln EXCEPT ![id] = Under(ln, 0)] = ln
  BY <1>7
<1> QED
  BY <1>6, <1>8 DEF id, t

\* A snapshot of a node leaves the tree sound.
LEMMA WithChildSound ==
  ASSUME NEW n, NEW ln, Sound(n, ln, {}), NEW p \in Ids, Stored(n, p), NextId(n) >= 1,
         NEW skip \in SkipsOf(n, p)
  PROVE  Sound(WithChild(n, p, NextId(n), skip), [ln EXCEPT ![NextId(n)] = ln[p] \cup {p}], {})
<1> DEFINE id == NextId(n)
           t == ChildOf(n, p, id, 0, skip)
           children == [n[p].children EXCEPT ![1] = id]
           n1 == [n EXCEPT ![id] = t]
           l1 == [ln EXCEPT ![id] = ln[p] \cup {p}]
<1>1. id \in Ids /\ ~Stored(n, id) /\ id < p /\ id # p /\ \A c \in Ids : Stored(n, c) => id < c
  BY NextIdIsBelow
<1> HIDE DEF id
<1>2. Rising(n) /\ n \in [Ids -> NodeOf(AnySkips)] /\ 0 \in 0..MaxSubvol /\ p \in Ref /\ p # 0 /\ id \in Ref
  BY <1>1, SoundRises, ConstantAssumption, RefIsId DEF Sound, Trees, Ids
<1>3. skip \in AnySkips /\ Leads(n, p, skip)
  BY <1>2, SkipsOfIs
<1>4. /\ t \in NodeOf(AnySkips) /\ t.kind = "normal" /\ t.deleted = FALSE /\ t.parent = p
      /\ t.depth <= MaxId + 1 - id /\ t.skip = skip /\ \A i \in Slots : t.children[i] = 0
      /\ \A d \in 1..(Width - 1) : d \in t.isAncestor <=> id + d \in ln[p] \cup {p}
  BY <1>1, <1>2, <1>3, ChildOfIs
<1>5. Under(ln, p) = ln[p] \cup {p}
  BY <1>2 DEF Under
<1>6. children \in [Slots -> Ref] /\ \A i \in Slots : children[i] \in {id, n[p].children[1], n[p].children[2]}
  BY <1>1, <1>2, Mapped DEF Slots
<1>7. WithChild(n, p, id, skip) = [n1 EXCEPT ![p] = Interior(n[p], children)]
  <2>1. WithChild(n, p, id, skip) = [n EXCEPT ![id] = t, ![p] = Interior(n[p], children)]
    BY <1>1, <1>2 DEF WithChild
  <2> HIDE DEF t, children
  <2> QED
    BY <2>1
<1> HIDE DEF t, children
<1>8. Sound(n1, l1, {})
  BY <1>1, <1>2, <1>3, <1>4, <1>5, NewNodeSound
<1>9. n1[id] = t /\ n1[p] = n[p]
  BY <1>1, <1>2
<1> HIDE DEF n1, l1
<1>10. Stored(n1, p) /\ id \in Sons(n1, p)
  BY <1>1, <1>4, <1>9 DEF Stored, Sons
<1>11. Sound([n1 EXCEPT ![p] = Interior(n1[p], children)], l1, {})
  BY <1>6, <1>8, <1>9, <1>10, InteriorSound
<1> QED
  BY <1>7, <1>9, <1>11 DEF id, l1

\* A node with two new children leaves the tree sound.
LEMMA WithChildrenSound ==
  ASSUME NEW n, NEW ln, Sound(n, ln, {}), NEW p \in Ids, Stored(n, p), NextId(n) >= 2,
         NEW new \in 0..MaxSubvol, NEW src \in 0..MaxSubvol, NEW skip \in SkipsOf(n, p)
  PROVE  LET id == NextId(n)
         IN  Sound(WithChildren(n, p, id, new, src, skip),
                   [[ln EXCEPT ![id] = ln[p] \cup {p}] EXCEPT ![id - 1] = ln[p] \cup {p}], {})
<1> DEFINE id == NextId(n)
           t == ChildOf(n, p, id, new, skip)
           r == ChildOf(n, p, id - 1, src, skip)
           children == <<id, id - 1>>
           L == ln[p] \cup {p}
           n1 == [n EXCEPT ![id] = t]
           n2 == [n1 EXCEPT ![id - 1] = r]
           l1 == [ln EXCEPT ![id] = L]
           l2 == [l1 EXCEPT ![id - 1] = L]
<1>1. /\ id \in Ids /\ ~Stored(n, id) /\ id < p /\ id # p /\ \A c \in Ids : Stored(n, c) => id < c
      /\ id - 1 \in Ids /\ ~Stored(n, id - 1) /\ id - 1 < p /\ id - 1 # p /\ id - 1 # id
  BY NextIdIsBelow, NextIdIsFresh DEF Ids
<1> HIDE DEF id
<1>2. /\ Rising(n) /\ n \in [Ids -> NodeOf(AnySkips)] /\ p \in Ref /\ p # 0 /\ id \in Ref /\ id - 1 \in Ref
      /\ ln \in [Ids -> SUBSET Ids]
  <2>1. Rising(n) /\ n \in [Ids -> NodeOf(AnySkips)] /\ ln \in [Ids -> SUBSET Ids]
    BY SoundRises DEF Sound, Trees, Lineage
  <2>2. p \in Ref /\ id \in Ref /\ id - 1 \in Ref /\ p # 0
    BY <1>1, RefIsId DEF Ids
  <2> QED
    BY <2>1, <2>2
<1>3. skip \in AnySkips /\ Leads(n, p, skip)
  BY <1>2, SkipsOfIs
<1>4. /\ t \in NodeOf(AnySkips) /\ t.kind = "normal" /\ t.deleted = FALSE /\ t.parent = p
      /\ t.depth <= MaxId + 1 - id /\ t.skip = skip /\ \A i \in Slots : t.children[i] = 0
      /\ \A d \in 1..(Width - 1) : d \in t.isAncestor <=> id + d \in ln[p] \cup {p}
  BY <1>1, <1>2, <1>3, ChildOfIs
<1>5. /\ r \in NodeOf(AnySkips) /\ r.kind = "normal" /\ r.deleted = FALSE /\ r.parent = p
      /\ r.depth <= MaxId + 1 - (id - 1) /\ r.skip = skip /\ \A i \in Slots : r.children[i] = 0
      /\ \A d \in 1..(Width - 1) : d \in r.isAncestor <=> (id - 1) + d \in ln[p] \cup {p}
  BY <1>1, <1>2, <1>3, ChildOfIs
<1>6. Under(ln, p) = L
  BY <1>2 DEF Under
<1>7. children \in [Slots -> Ref] /\ \A i \in Slots : children[i] \in {id, id - 1}
  BY <1>2, Pair DEF Slots
<1>8. WithChildren(n, p, id, new, src, skip) = [n2 EXCEPT ![p] = Interior(n[p], children)]
  <2>1. WithChildren(n, p, id, new, src, skip) =
          [n EXCEPT ![id] = t, ![id - 1] = r, ![p] = Interior(n[p], children)]
    BY <1>1, <1>2 DEF WithChildren
  <2> HIDE DEF t, r, children
  <2> QED
    BY <2>1
<1> HIDE DEF t, r, children
<1>9. Sound(n1, l1, {}) /\ UpSet(n1, p) = UpSet(n, p)
  <2>1. \A d \in 1..(Width - 1) : d \in t.isAncestor <=> id + d \in Under(ln, p)
    BY <1>4, <1>6
  <2>2. l1 = [ln EXCEPT ![id] = Under(ln, p)]
    BY <1>6
  <2>3. \A c \in Ids : c # id => n1[c] = n[c]
    BY <1>2, <1>4
  <2> HIDE DEF L, l1
  <2>4. Sound(n1, l1, {})
    BY <1>1, <1>2, <1>3, <1>4, <2>1, <2>2, NewNodeSound
  <2> HIDE DEF n1
  <2>5. Rising(n1) /\ Rising(n)
    BY <2>4, SoundRises
  <2> QED
    BY <1>1, <1>2, <2>3, <2>4, <2>5, NewNodeWayUp
<1>10. n1[id] = t /\ n1[p] = n[p] /\ n1[id - 1] = n[id - 1] /\ n1 \in [Ids -> NodeOf(AnySkips)]
       /\ \A c \in Ids : c # id => n1[c] = n[c]
  BY <1>1, <1>2, <1>4
<1>11. l1[p] = ln[p]
  BY <1>1, <1>2
<1> HIDE DEF n1, l1
<1>12. Stored(n1, p) /\ ~Stored(n1, id - 1) /\ \A c \in Ids : Stored(n1, c) => id - 1 < c
  <2>1. \A c \in Ids : Stored(n1, c) => c = id \/ Stored(n, c)
    BY <1>10 DEF Stored
  <2>2. \A c \in Ids : Stored(n1, c) => id - 1 < c
    BY <1>1, <2>1 DEF Ids
  <2> QED
    BY <1>1, <1>10, <2>2 DEF Stored
<1>13. Leads(n1, p, skip)
  BY <1>3, <1>9 DEF Leads
<1>14. Under(l1, p) = L
  BY <1>2, <1>11 DEF Under
<1>15. Sound(n2, l2, {})
  <2> DEFINE k == id - 1
  <2>1. k \in Ids /\ ~Stored(n1, k) /\ \A c \in Ids : Stored(n1, c) => k < c
    BY <1>1, <1>12
  <2>2. r.depth <= MaxId + 1 - k /\ \A d \in 1..(Width - 1) : d \in r.isAncestor <=> k + d \in Under(l1, p)
    BY <1>5, <1>14
  <2>3. n2 = [n1 EXCEPT ![k] = r] /\ l2 = [l1 EXCEPT ![k] = Under(l1, p)]
    BY <1>14
  <2> HIDE DEF k, L, n2, l2
  <2> QED
    BY <1>2, <1>5, <1>9, <1>12, <1>13, <2>1, <2>2, <2>3, NewNodeSound
<1>16. n2[id] = t /\ n2[p] = n[p] /\ n2[id - 1] = r
  BY <1>1, <1>10
<1> HIDE DEF n2, l2, L
<1>17. Stored(n2, p) /\ id \in Sons(n2, p) /\ id - 1 \in Sons(n2, p)
  BY <1>1, <1>4, <1>5, <1>12, <1>10, <1>16 DEF Stored, Sons
<1>18. Sound([n2 EXCEPT ![p] = Interior(n2[p], children)], l2, {})
  BY <1>7, <1>15, <1>17, InteriorSound
<1> QED
  BY <1>8, <1>16, <1>18 DEF id, l2, l1, L

-----------------------------------------------------------------------------
(* The check leaves the tree sound. *)

\* What a node's own repair sets and what it leaves.
LEMMA OwnFixIs ==
  ASSUME NEW K, NEW n \in Trees(K), NEW svs \in [Subvols -> BchSubvolume], NEW id \in Ids, NEW skips
  PROVE  LET s == n[id]
             t == OwnFix(n, svs, id, skips)
         IN  /\ t.parent = s.parent /\ t.isAncestor = s.isAncestor
             /\ t.depth = IF s.parent = 0 THEN 1 ELSE n[s.parent].depth + 1
             /\ t.skip = IF s.parent = 0 THEN NoSkips ELSE IF id \in DOMAIN skips THEN skips[id] ELSE s.skip
             /\ \A i \in Slots : t.children[i] \in {0, s.children[i]}
<1> DEFINE s == n[id]
           skip == IF id \in DOMAIN skips THEN skips[id] ELSE s.skip
           depth == n[s.parent].depth + 1
           placed == IF s.parent = 0 THEN [s EXCEPT !.depth = 1, !.skip = <<0, 0, 0>>]
                     ELSE [s EXCEPT !.depth = depth, !.skip = skip]
           crossed == CrossChecked(placed, id, svs)
           children == [i \in Slots |-> IF s.children[i] \in Alive(n) THEN s.children[i] ELSE 0]
           t == [crossed EXCEPT !.children = children]
<1>1. OwnFix(n, svs, id, skips) = t
  BY DEF OwnFix
<1>2. s \in NodeOf(K)
  BY DEF Trees
<1>3. \A i \in Slots : children[i] \in {0, s.children[i]}
  OBVIOUS
<1> HIDE DEF s, skip, depth, children
<1>4. /\ placed.parent = s.parent /\ placed.isAncestor = s.isAncestor /\ "children" \in DOMAIN placed
      /\ placed.depth = IF s.parent = 0 THEN 1 ELSE depth
      /\ placed.skip = IF s.parent = 0 THEN NoSkips ELSE skip
  <2>1. CASE s.parent = 0
    BY <1>2, <2>1 DEF NodeOf, NoSkips
  <2>2. CASE s.parent # 0
    BY <1>2, <2>2 DEF NodeOf
  <2> QED
    BY <2>1, <2>2
<1> HIDE DEF placed
<1>5. /\ crossed.parent = placed.parent /\ crossed.isAncestor = placed.isAncestor /\ "children" \in DOMAIN crossed
      /\ crossed.depth = placed.depth /\ crossed.skip = placed.skip
  BY <1>4 DEF CrossChecked
<1> HIDE DEF crossed
<1>6. /\ t.parent = crossed.parent /\ t.isAncestor = crossed.isAncestor
      /\ t.depth = crossed.depth /\ t.skip = crossed.skip /\ t.children = children
  BY <1>5
<1> HIDE DEF t
<1> QED
  BY <1>1, <1>3, <1>4, <1>5, <1>6 DEF s, skip, depth

\* The skips that the check makes for bad nodes lead to ancestors.
LEMMA RebuiltIs ==
  ASSUME NEW n, NEW ln, Sound(n, ln, {}), NEW skips \in Rebuilt(n)
  PROVE  /\ OwnSkips(AnySkips, skips) \subseteq AnySkips
         /\ \A id \in DOMAIN skips : Leads(n, n[id].parent, skips[id])
<1>1. DOMAIN skips = BadNodes(n) /\ \A id \in BadNodes(n) : skips[id] \in SkipsOf(n, n[id].parent)
  BY DEF Rebuilt
<1>2. ASSUME NEW id \in BadNodes(n) PROVE skips[id] \in AnySkips /\ Leads(n, n[id].parent, skips[id])
  <2>1. id \in Ids /\ Stored(n, id) /\ n[id].parent # 0
    BY DEF BadNodes, Alive
  <2>2. Rising(n) /\ n \in Trees(AnySkips)
    BY SoundRises DEF Sound
  <2>3. n[id].parent \in Ids /\ Stored(n, n[id].parent)
    BY <2>1, <2>2 DEF Rising
  <2> QED
    BY <1>1, <2>2, <2>3, SkipsOfIs
<1> QED
  BY <1>1, <1>2, NoSkipsType DEF OwnSkips

\* A repair rewrites its node as it may be.
LEMMA FixesRevise ==
  ASSUME NEW n, NEW ln, Sound(n, ln, {}), ~ChainBroken(n),
         NEW svs \in [Subvols -> BchSubvolume], NEW skips \in Rebuilt(n),
         NEW x \in Alive(n), NEW f \in FixesAt(n, svs, x, skips)
  PROVE  Revised(n, f[1], f[2]) /\ Leads(n, n[f[1]].parent, f[2].skip)
<1> DEFINE own == OwnFix(n, svs, x, skips)
           p == n[x].parent
           adopting == Adopting(n[p], x)
<1>1. /\ n \in Trees(AnySkips) /\ n \in [Ids -> NodeOf(AnySkips)] /\ x \in Ids /\ Stored(n, x) /\ ~n[x].deleted
      /\ Rising(n)
  BY SoundRises DEF Sound, Trees, Alive
<1>2. \A c \in Ids : Revised(n, c, n[c]) /\ (Stored(n, c) => Leads(n, n[c].parent, n[c].skip))
  BY DEF Sound, Redone
<1>3. \A c \in Alive(n) : \A i \in Slots : n[c].children[i] \in {0} \cup Sons(n, c)
  BY <1>2 DEF Revised, Alive, Stored
<1>4. \/ f = <<x, own>>
      \/ x \in Missing(n) /\ f = <<p, adopting>>
      \/ \E c \in Alive(n) : c \in {n[x].children[i] : i \in Slots} /\ n[c].parent # x
  BY DEF FixesAt
<1>5. CASE f = <<x, own>>
  <2>1. own.kind = n[x].kind /\ own.deleted = n[x].deleted
    BY <1>1, OwnFixKeeps
  <2>2. /\ own.parent = n[x].parent /\ own.isAncestor = n[x].isAncestor
        /\ own.depth = IF p = 0 THEN 1 ELSE n[p].depth + 1
        /\ own.skip = IF p = 0 THEN NoSkips ELSE IF x \in DOMAIN skips THEN skips[x] ELSE n[x].skip
        /\ \A i \in Slots : own.children[i] \in {0, n[x].children[i]}
    BY <1>1, OwnFixIs
  <2>3. own.depth <= MaxId + 1 - x
    <3>1. CASE p = 0
      BY <1>1, <2>2, <3>1, ConstantAssumption DEF Ids
    <3>2. CASE p # 0
      <4>1. p \in Ids /\ p > x
        BY <1>1, <3>2 DEF Rising
      <4>2. n[p].depth <= MaxId + 1 - p /\ n[p].depth \in Nat
        BY <1>1, <1>2, <4>1, Mapped DEF Revised
      <4> HIDE DEF own
      <4>3. own.depth = n[p].depth + 1
        BY <2>2, <3>2
      <4> HIDE DEF p
      <4> QED
        BY <1>1, <4>1, <4>2, <4>3, ConstantAssumption DEF Ids
    <3> QED
      BY <3>1, <3>2
  <2>4. Leads(n, p, own.skip)
    <3>1. Leads(n, p, NoSkips)
      BY NoSkipsType DEF Leads
    <3>2. Leads(n, p, n[x].skip)
      BY <1>1, <1>2
    <3>3. x \in DOMAIN skips => Leads(n, p, skips[x])
      BY RebuiltIs
    <3> QED
      BY <2>2, <3>1, <3>2, <3>3
  <2>5. \A i \in Slots : own.children[i] \in {0} \cup Sons(n, x)
    BY <1>3, <2>2
  <2> HIDE DEF own, p
  <2>6. Revised(n, x, own)
    BY <1>1, <1>2, <2>1, <2>2, <2>3, <2>5 DEF Revised
  <2> QED
    BY <1>5, <2>4, <2>6 DEF p
<1>6. CASE x \in Missing(n) /\ f = <<p, adopting>>
  <2>1. p \in Alive(n) /\ p \in Ids /\ Stored(n, p) /\ ~n[p].deleted
    BY <1>1, <1>6 DEF Missing, ChainBroken, Alive
  <2>2. x \in Sons(n, p)
    BY <1>1 DEF Sons
  <2> DEFINE q == n[p]
             i == IF q.children[1] = 0 THEN 1 ELSE 2
             children == [q.children EXCEPT ![i] = x]
  <2>3. q \in NodeOf(AnySkips)
    BY <1>1, <2>1
  <2>4. adopting = [q EXCEPT !.children = children]
    BY DEF Adopting
  <2>5. \A j \in Slots : q.children[j] \in {0} \cup Sons(n, p)
    BY <1>3, <2>1
  <2> HIDE DEF q, adopting, p
  <2>6. children \in [Slots -> Ref] /\ \A j \in Slots : children[j] \in {0} \cup Sons(n, p)
    BY <1>1, <2>2, <2>3, <2>5, Mapped, RefIsId DEF Slots
  <2> HIDE DEF children
  <2>7. /\ adopting.kind = q.kind /\ adopting.deleted = q.deleted /\ adopting.parent = q.parent
        /\ adopting.isAncestor = q.isAncestor /\ adopting.depth = q.depth /\ adopting.skip = q.skip
        /\ adopting.children = children
    BY <2>3, <2>4 DEF NodeOf
  <2>8. Revised(n, p, adopting)
    BY <1>2, <2>1, <2>6, <2>7 DEF Revised, q
  <2>9. Leads(n, n[p].parent, adopting.skip)
    BY <1>2, <2>1, <2>7 DEF q
  <2> QED
    BY <1>6, <2>8, <2>9
<1>7. ~ \E c \in Alive(n) : c \in {n[x].children[i] : i \in Slots} /\ n[c].parent # x
  BY <1>1, <1>3 DEF Sons, Alive, Ids
<1> QED
  BY <1>4, <1>5, <1>6, <1>7

\* All repairs of a check together leave the tree sound.
LEMMA CheckedSound ==
  ASSUME NEW n, NEW ln, Sound(n, ln, {}), ~ChainBroken(n),
         NEW svs \in [Subvols -> BchSubvolume], NEW skips \in Rebuilt(n),
         NEW order \in SetToSeqs(Repairing(n, svs, skips))
  PROVE  Sound(Checked(n, svs, order, skips), ln, {})
<1> DEFINE m == Checked(n, svs, order, skips)
<1>1. n \in Trees(AnySkips)
  BY DEF Sound
<1>2. m \in Trees(OwnSkips(AnySkips, skips))
  BY <1>1, CheckedKeeps DEF Later
<1>3. m \in Trees(AnySkips)
  BY <1>2, RebuiltIs, MoreSkips
<1>4. Redone(n, m, {})
  <2> SUFFICES ASSUME NEW c \in Ids
               PROVE  Revised(n, c, m[c]) /\ (Stored(n, c) => Leads(n, n[c].parent, m[c].skip))
    BY DEF Redone
  <2>1. CASE m[c] = n[c]
    BY <2>1 DEF Sound, Redone
  <2>2. CASE m[c] # n[c]
    <3> HIDE DEF m
    <3>1. PICK x \in Alive(n) : \E f \in FixesAt(n, svs, x, skips) : f[1] = c /\ m[c] = f[2]
      BY <2>2, CheckedIs DEF m
    <3>2. PICK f \in FixesAt(n, svs, x, skips) : f[1] = c /\ m[c] = f[2]
      BY <3>1
    <3> QED
      BY <3>2, FixesRevise
  <2> QED
    BY <2>1, <2>2
<1> HIDE DEF m
<1> QED
  BY <1>3, <1>4, RedoneIsSound DEF m

-----------------------------------------------------------------------------
(* The tree stays sound. *)

Kin == SnapInv /\ Sound(node, line, {})
Counts == /\ mounts \in 0..MaxMounts /\ cleans \in 0..MaxCleans /\ deletes \in 0..MaxDeletes

\* The tree of a new volume is sound.
LEMMA FirstSound ==
  ASSUME first \in {0, 1}
  PROVE  Sound(FirstNode, [id \in Ids |-> {}], {})
<1> DEFINE n == FirstNode
           ln == [id \in Ids |-> {}]
           t == NewLeaf(first)
<1>0. first \in 0..MaxSubvol
  BY ConstantAssumption
<1>1. MaxId \in Ids /\ \A id \in Ids : 0 <= MaxId + 1 - id /\ 1 <= MaxId + 1 - id
  BY ConstantAssumption DEF Ids
<1>2. t \in NodeOf(AnySkips) /\ t.kind = "normal" /\ t.deleted = FALSE
  BY <1>0, NewLeafType, NoSkipsType
<1>3. t.parent = 0 /\ t.depth = 1 /\ t.skip = NoSkips /\ t.children = <<0, 0>> /\ t.isAncestor = {}
  BY DEF NewLeaf, Absent, NoSkips
<1>4. Absent \in NodeOf(AnySkips) /\ Absent.kind = "none" /\ Absent.deleted = FALSE /\ Absent.depth = 0
  BY AbsentType, NoSkipsType DEF Absent
<1> HIDE DEF t
<1>5. \A id \in Ids : n[id] = IF id = MaxId THEN t ELSE Absent
  BY DEF t, FirstNode
<1>6. n \in [Ids -> NodeOf(AnySkips)]
  <2>1. n = [id \in Ids |-> n[id]]
    BY DEF FirstNode
  <2> HIDE DEF n
  <2> QED
    BY <1>2, <1>4, <1>5, <2>1
<1>7. ln \in [Ids -> SUBSET Ids] /\ \A id \in Ids : ln[id] = {}
  OBVIOUS
<1> HIDE DEF n, ln
<1>8. \A id \in Ids : Stored(n, id) <=> id = MaxId
  BY <1>2, <1>4, <1>5 DEF Stored
<1>9. n \in Trees(AnySkips)
  BY <1>4, <1>5, <1>6, <1>8 DEF Trees, MarkedIsStored
<1>10. Lineage(n, ln)
  BY <1>7 DEF Lineage
<1>11. \A c \in Ids : Stored(n, c) => Covered(n, ln, c) /\ BitsRight(n, ln, c)
  BY <1>3, <1>5, <1>7, <1>8 DEF Covered, BitsRight
<1>12. ASSUME NEW c \in Ids
       PROVE  Revised(n, c, n[c]) /\ (Stored(n, c) => Leads(n, n[c].parent, n[c].skip))
  <2>1. CASE c = MaxId
    <3>1. n[c] = t
      BY <1>5, <2>1
    <3>2. Leads(n, 0, t.skip)
      BY <1>3, NoSkipsType DEF Leads
    <3>3. \A i \in Slots : t.children[i] = 0
      BY <1>3 DEF Slots
    <3> QED
      BY <1>1, <1>2, <1>3, <3>1, <3>2, <3>3 DEF Revised
  <2>2. CASE c # MaxId
    <3>1. n[c] = Absent /\ ~Stored(n, c)
      BY <1>5, <1>8, <2>2
    <3> QED
      BY <1>1, <1>4, <3>1 DEF Revised
  <2> QED
    BY <2>1, <2>2
<1> QED
  BY <1>9, <1>10, <1>11, <1>12 DEF Sound, Redone, n, ln, t

\* The invariant holds at the start, and every step keeps it.
LEMMA InitKin == Init => Kin /\ Counts
BY FirstSound, InitHolds, ConstantAssumption DEF Init, Kin, Counts

LEMMA CreateSnapshotKin == ASSUME Kin, CreateSnapshot PROVE Sound(node', line', {})
<1> DEFINE id == NextId(node)
<1>1. PICK skip \in SkipsOf(node, root) : node' = WithChild(node, root, id, skip)
  BY DEF CreateSnapshot
<1>2. id >= 1 /\ Stored(node, root) /\ root \in Ids /\ Sound(node, line, {})
  BY DEF CreateSnapshot, Normal, Stored, Kin, SnapInv
<1>3. line' = [i \in Ids |-> IF i \in {id} THEN line[root] \cup {root} ELSE line[i]]
  BY DEF CreateSnapshot, Born
<1>4. line \in [Ids -> SUBSET Ids]
  BY <1>2 DEF Sound, Lineage
<1> HIDE DEF id
<1>5. line' = [line EXCEPT ![id] = line[root] \cup {root}]
  BY <1>3, <1>4
<1> QED
  BY <1>1, <1>2, <1>5, WithChildSound DEF id

LEMMA SnapshotSubvolKin ==
  ASSUME Kin, NEW v \in Subvols, SnapshotSubvol(v) PROVE Sound(node', line', {})
<1> DEFINE id == NextId(node)
           p == sv[v].snapshot
<1>1. Sound(node, line, {}) /\ p \in Ids /\ Stored(node, p)
  BY DEF SnapshotSubvol, Kin, SnapInv, Refers, Linked, LinkedIn
<1>2. CASE UNCHANGED <<node, line>>
  BY <1>1, <1>2
<1>3. CASE /\ id >= 2
           /\ \E skip \in SkipsOf(node, p) : node' = WithChildren(node, p, id, counter, v, skip)
           /\ Born({id, id - 1}, p)
  <2>1. PICK skip \in SkipsOf(node, p) : node' = WithChildren(node, p, id, counter, v, skip)
    BY <1>3
  <2>2. line' = [i \in Ids |-> IF i \in {id, id - 1} THEN line[p] \cup {p} ELSE line[i]]
    BY <1>3 DEF Born
  <2>3. line \in [Ids -> SUBSET Ids] /\ id \in Ids /\ id - 1 \in Ids
    BY <1>1, <1>3, NextIdIsFresh DEF Sound, Lineage
  <2>4. counter \in 0..MaxSubvol /\ v \in 0..MaxSubvol
    BY ConstantAssumption DEF SnapshotSubvol, Kin, SnapInv, Subvols
  <2> DEFINE l2 == [[line EXCEPT ![id] = line[p] \cup {p}] EXCEPT ![id - 1] = line[p] \cup {p}]
  <2>5. line' = l2
    <3>1. id # id - 1
      BY <2>3 DEF Ids
    <3> HIDE DEF id, p
    <3> QED
      BY <2>2, <2>3, <3>1
  <2>6. Sound(WithChildren(node, p, id, counter, v, skip), l2, {})
    BY <1>1, <1>3, <2>4, WithChildrenSound
  <2> QED
    BY <2>1, <2>5, <2>6
<1> QED
  BY <1>2, <1>3 DEF SnapshotSubvol

LEMMA DeleteSubvolKin ==
  ASSUME Kin, NEW v \in Subvols, DeleteSubvol(v) PROVE Sound(node', line', {})
<1>1. Sound(node, line, {}) /\ node \in [Ids -> NodeOf(AnySkips)] /\ line' = line
  BY DEF Kin, Sound, Trees, DeleteSubvol
<1>2. node' = node \/ \E id : node' = SetDeleted(node, id)
  BY DEF DeleteSubvol
<1>3. ASSUME NEW id, node' = SetDeleted(node, id) PROVE Sound(node', line', {})
  <2>1. CASE id \in Ids
    BY <1>1, <1>3, <2>1, DeletedSound
  <2>2. CASE id \notin Ids
    BY <1>1, <1>3, <2>2 DEF SetDeleted
  <2> QED
    BY <2>1, <2>2
<1> QED
  BY <1>1, <1>2, <1>3

LEMMA MountKin == ASSUME Kin, Mount PROVE Sound(node', line', {})
<1>1. first \in {0, 1} /\ line' = [id \in Ids |-> {}]
  BY DEF Kin, SnapInv, Mount
<1>2. PICK skips \in Rebuilt(FirstNode) : \E order \in SetToSeqs(Repairing(FirstNode, FirstSv, skips)) :
        node' = Checked(FirstNode, FirstSv, order, skips)
  BY DEF Mount, CheckedAll
<1>3. PICK order \in SetToSeqs(Repairing(FirstNode, FirstSv, skips)) :
        node' = Checked(FirstNode, FirstSv, order, skips)
  BY <1>2
<1>4. Sound(FirstNode, line', {}) /\ FirstSv \in [Subvols -> BchSubvolume] /\ ~ChainBroken(FirstNode)
  BY <1>1, FirstSound, FirstTrees, FirstTaken DEF SvTypes
<1> QED
  BY <1>3, <1>4, CheckedSound

LEMMA KinStep == Kin /\ Counts /\ [Next]_vars => Kin' /\ Counts'
<1> SUFFICES ASSUME Kin, Counts, [Next]_vars PROVE Kin' /\ Counts'
  OBVIOUS
<1>1. SnapInv'
  BY StepKeeps DEF Kin
<1>2. Counts'
  <2>1. mounts' = mounts /\ cleans' = cleans /\ deletes' = deletes => Counts'
    BY DEF Counts
  <2>2. Deleting => Counts'
    BY ConstantAssumption DEF Counts, Deleting, Rest
  <2>3. DeleteDead => Counts'
    BY ConstantAssumption DEF Counts, DeleteDead
  <2>4. Mount => Counts'
    BY ConstantAssumption DEF Counts, Mount
  <2> QED
    BY <2>1, <2>2, <2>3, <2>4 DEF Next, vars, CreateSnapshot, CreateSubvol, DeleteInterior, DeleteSnapshot,
         SnapshotSubvol, DeleteSubvol, Keep, Rest
<1>3. Sound(node', line', {})
  <2>0. Sound(node, line, {})
    BY DEF Kin
  <2>1. CASE UNCHANGED vars
    BY <2>0, <2>1 DEF vars
  <2>2. ASSUME NEW id \in Ids, DeleteSnapshot(id) PROVE Sound(node', line', {})
    BY <2>0, <2>2, DeletedSound DEF DeleteSnapshot
  <2>3. CASE CreateSubvol
    <3>1. counter \in 0..MaxSubvol /\ NextId(node) >= 1 /\ line' = line
          /\ node' = [node EXCEPT ![NextId(node)] = NewLeaf(counter)]
      BY <2>3, ConstantAssumption DEF CreateSubvol, Kin, SnapInv
    <3> QED
      BY <2>0, <3>1, NewLeafSound
  <2>4. CASE DeleteInterior
    <3>1. PICK noKeys \in SUBSET SingleChild(node) : node' = Removed(node, noKeys)
      BY <2>4 DEF DeleteInterior
    <3>2. noKeys \in SUBSET Alive(node) /\ line' = line
      BY <2>4 DEF SingleChild, DeleteInterior
    <3> QED
      BY <2>0, <3>1, <3>2, RemovedSound
  <2>5. CASE DeleteDead
    <3> DEFINE S == {id \in DeadOf(node) : ~HasVolumeRef(node, id)}
    <3>1. PICK order \in SetToSeqs(S) : node' = Collected(node, order)
      BY <2>5 DEF DeleteDead
    <3>2. S \in SUBSET Ids /\ line' = line
      BY <2>5 DEF DeadOf, DeleteDead
    <3> HIDE DEF S
    <3> QED
      BY <2>0, <3>1, <3>2, CollectedSound
  <2> QED
    BY <2>1, <2>2, <2>3, <2>4, <2>5, CreateSnapshotKin, SnapshotSubvolKin, DeleteSubvolKin, MountKin DEF Next
<1> QED
  BY <1>1, <1>2, <1>3 DEF Kin

LEMMA AlwaysKin == Spec => [](Kin /\ Counts)
BY InitKin, KinStep, PTL DEF Spec

-----------------------------------------------------------------------------
\* As long as a volume is open no clean-up takes the mark of a deleted node back
\* (bch2_delete_dead_snapshots), and no new node gets its id.
THEOREM DeletedStaysDeleted == Spec => NoResurrection
<1>1. SnapInv /\ Continues => \A id \in Ids : node[id].deleted => node'[id].deleted
  BY DEF SnapInv, Trees, MarkedIsStored, Continues, Follows, Stays
<1>2. Counts /\ Mount => mounts' # mounts
  BY ConstantAssumption DEF Counts, Mount
<1>3. SnapInv /\ Counts /\ [Next]_vars =>
        [mounts' = mounts => \A id \in Ids : node[id].deleted => node'[id].deleted]_vars
  BY <1>1, <1>2, StepKeeps
<1> QED
  BY <1>3, Invariant, AlwaysKin, PTL DEF Spec, NoResurrection

\* What a living snapshot is found to descend from is what it was created under, as
\* far as that is left, whatever was deleted, collected or removed around it
\* (bch2_snapshot_is_ancestor, fix_child_of_deleted).
THEOREM AncestryIsKept == Spec => []AncestryKept
<1>1. Kin => AncestryKept
  BY BtreeFinds DEF Kin, AncestryKept, Sees, Alive
<1> QED
  BY <1>1, AlwaysKin, PTL

\* Whatever is in memory, no repair of the check at mount that does not give up on it
\* changes what a living snapshot is found to descend from, or takes the mark of a
\* deleted one back (bch2_check_snapshots).
THEOREM CheckLosesNothing == Spec => []CheckKeeps
<1>1. ASSUME Kin, Takes(node), NEW n \in CheckedAll(node, sv)
      PROVE  Sees(n) /\ \A id \in Ids : node[id].deleted => n[id].deleted
  <2>1. PICK skips \in Rebuilt(node) : \E order \in SetToSeqs(Repairing(node, sv, skips)) :
          n = Checked(node, sv, order, skips)
    BY <1>1 DEF CheckedAll
  <2>2. PICK order \in SetToSeqs(Repairing(node, sv, skips)) : n = Checked(node, sv, order, skips)
    BY <2>1
  <2>3. /\ Sound(node, line, {}) /\ sv \in [Subvols -> BchSubvolume] /\ ~ChainBroken(node)
        /\ node \in Trees(AnySkips)
    BY <1>1 DEF Kin, SnapInv, SvTypes, Takes, Sound
  <2>4. Sound(n, line, {})
    BY <2>2, <2>3, CheckedSound
  <2>5. Sees(n)
    BY <2>4, BtreeFinds DEF Sees, Alive
  <2>6. Follows(node, n)
    BY <2>2, <2>3, CheckedKeeps DEF Later
  <2>7. \A id \in Ids : node[id].deleted => n[id].deleted
    BY <2>3, <2>6 DEF Trees, MarkedIsStored, Follows, Stays
  <2> QED
    BY <2>5, <2>7
<1>2. Kin => CheckKeeps
  BY <1>1 DEF CheckKeeps
<1> QED
  BY <1>2, AlwaysKin, PTL

-----------------------------------------------------------------------------
(* The table in memory. *)

\* Where the table goes from c when it looks for a: the two walks of IsAncestorTable.
TableBelow(n, a, c) ==
  LET le == {i \in 1..3 : n[c].skip[i] # 0 /\ n[c].skip[i] <= a}
  IN  IF le # {} THEN n[c].skip[Max(le)] ELSE n[c].parent
IsNear(n, a, f) ==
  f = [c \in Ref |-> IF c = 0 \/ c >= a - Width THEN c
                     ELSE IF c \in Alive(n) THEN f[TableBelow(n, a, c)] ELSE 0]
IsWalk(n, a, f) ==
  f = [c \in Ref |-> IF c = 0 \/ c >= a THEN c = a ELSE c \in Alive(n) /\ f[n[c].parent]]

\* From a living node the table goes up to an ancestor, and never past the one it looks for.
LEMMA TableBelowIs ==
  ASSUME NEW n, NEW ln, Sound(n, ln, {}), NEW a \in Ids, NEW c \in Alive(n)
  PROVE  LET b == TableBelow(n, a, c)
         IN  /\ b = 0 \/ (b \in UpSet(n, c) /\ b \in Ids /\ b > c)
             /\ a \in UpSet(n, c) /\ a # c => b # 0 /\ b <= a /\ a \in UpSet(n, b)
<1> DEFINE p == n[c].parent
           le == {i \in 1..3 : n[c].skip[i] # 0 /\ n[c].skip[i] <= a}
           j == n[c].skip[Max(le)]
           b == TableBelow(n, a, c)
<1>1. /\ Rising(n) /\ c \in Ids /\ Stored(n, c) /\ Leads(n, p, n[c].skip)
  BY SoundRises DEF Sound, Redone, Alive
<1>2. p \in Ref /\ UpSet(n, c) = {c} \cup UpSet(n, p) /\ (p = 0 => UpSet(n, p) = {})
  BY <1>1, UpSetIs, RefIsId DEF Ends
<1>3. p # 0 => p \in Ids /\ p > c /\ p \in UpSet(n, p)
  BY <1>1, UpSetIs DEF Rising
<1>4. \A x \in UpSet(n, p) : x \in Ids /\ x >= p /\ x > c
  BY <1>1, <1>2, <1>3, UpSetOrder DEF Ids
<1>5. CASE le # {}
  <2>1. Max(le) \in le
    <3>1. le \subseteq 0..3
      OBVIOUS
    <3> HIDE DEF le
    <3> QED
      BY <1>5, <3>1, GreatestIsThere
  <2>2. j # 0 /\ j <= a /\ j \in UpSet(n, p)
    BY <1>1, <2>1 DEF Leads
  <2>3. b = j
    BY <1>5 DEF TableBelow
  <2> HIDE DEF j, b, p
  <2>4. j \in Ids /\ j > c /\ j \in UpSet(n, c)
    BY <1>2, <1>4, <2>2
  <2>5. a \in UpSet(n, c) => a \in UpSet(n, j)
    BY <1>1, <2>2, <2>4, UpSetOrder DEF Ids
  <2> QED
    BY <2>2, <2>3, <2>4, <2>5 DEF b
<1>6. CASE le = {}
  <2>1. b = p
    BY <1>6 DEF TableBelow
  <2> HIDE DEF b, p
  <2> QED
    BY <1>2, <1>3, <1>4, <2>1 DEF b, Ids
<1> QED
  BY <1>5, <1>6

\* Both walks end.
LEMMA WalksExist ==
  ASSUME NEW n, NEW ln, Sound(n, ln, {}), NEW a \in Ids
  PROVE  (\E f : IsNear(n, a, f)) /\ (\E f : IsWalk(n, a, f))
<1>0. Ref \subseteq Nat /\ a \in Nat /\ Width \in Nat /\ Alive(n) \subseteq Ids /\ Ids \subseteq Ref
  BY ConstantAssumption, RefIsId DEF Ref, Ids, Alive
<1>1. \E f : IsNear(n, a, f)
  <2> DEFINE Stop == {c \in Ref : c = 0 \/ c >= a - Width \/ c \notin Alive(n)}
             B == [c \in Ref |-> IF c = 0 \/ c >= a - Width THEN c ELSE 0]
             N == [c \in Ref |-> TableBelow(n, a, c)]
             G == [p \in Ref \X Ref |-> p[2]]
  <2>1. \A c \in Ref : B[c] \in Ref
    BY RefIsId
  <2>2. \A c \in Ref : c \notin Stop => N[c] \in Ref /\ (N[c] \in Stop \/ N[c] > c)
    <3> SUFFICES ASSUME NEW c \in Ref, c \in Alive(n)
                 PROVE  N[c] \in Ref /\ (N[c] = 0 \/ N[c] > c)
      BY <1>0, RefIsId
    <3> QED
      BY TableBelowIs, RefIsId
  <2>3. \A c \in Ref : \A v \in Ref : G[<<c, v>>] = v
    OBVIOUS
  <2>4. \A c \in Ref : \A v \in Ref : G[<<c, v>>] \in Ref
    BY <2>3
  <2> HIDE DEF G, B, N, Stop
  <2>5. PICK f \in [Ref -> Ref] : Climbs(f, Ref, Stop, B, N, G)
    BY <2>1, <2>2, <2>4, ClimbExists
  <2>6. ASSUME NEW c \in Ref
        PROVE  f[c] = IF c = 0 \/ c >= a - Width THEN c
                      ELSE IF c \in Alive(n) THEN f[TableBelow(n, a, c)] ELSE 0
    <3>1. f[c] = IF c \in Stop THEN B[c] ELSE G[<<c, f[N[c]]>>]
      BY <2>5 DEF Climbs
    <3>2. c \notin Stop => G[<<c, f[N[c]]>>] = f[N[c]]
      BY <2>2, <2>3
    <3> QED
      BY <3>1, <3>2 DEF Stop, B, N
  <2>7. IsNear(n, a, f)
    BY <2>6 DEF IsNear
  <2> QED
    BY <2>7
<1>2. \E f : IsWalk(n, a, f)
  <2> DEFINE Stop == {c \in Ref : c = 0 \/ c >= a \/ c \notin Alive(n)}
             B == [c \in Ref |-> IF c = 0 \/ c >= a THEN c = a ELSE FALSE]
             N == [c \in Ref |-> n[c].parent]
             G == [p \in Ref \X BOOLEAN |-> p[2]]
  <2>1. \A c \in Ref : B[c] \in BOOLEAN
    OBVIOUS
  <2>2. \A c \in Ref : c \notin Stop => N[c] \in Ref /\ (N[c] \in Stop \/ N[c] > c)
    <3>1. Rising(n)
      BY SoundRises
    <3>2. \A c \in Alive(n) : n[c].parent \in Ref /\ (n[c].parent = 0 \/ n[c].parent > c)
      BY <3>1, RefIsId DEF Rising, Alive
    <3> QED
      BY <1>0, <3>2, RefIsId
  <2>3. \A c \in Ref : \A v \in BOOLEAN : G[<<c, v>>] = v
    OBVIOUS
  <2>4. \A c \in Ref : \A v \in BOOLEAN : G[<<c, v>>] \in BOOLEAN
    BY <2>3
  <2> HIDE DEF G, B, N, Stop
  <2>5. PICK f \in [Ref -> BOOLEAN] : Climbs(f, Ref, Stop, B, N, G)
    BY <2>1, <2>2, <2>4, ClimbExists
  <2>6. ASSUME NEW c \in Ref
        PROVE  f[c] = IF c = 0 \/ c >= a THEN c = a ELSE c \in Alive(n) /\ f[n[c].parent]
    <3>1. f[c] = IF c \in Stop THEN B[c] ELSE G[<<c, f[N[c]]>>]
      BY <2>5 DEF Climbs
    <3>2. c \notin Stop => G[<<c, f[N[c]]>>] = f[N[c]] /\ f[N[c]] \in BOOLEAN
      BY <2>2, <2>3
    <3>3. c \in Stop => B[c] = IF c = 0 \/ c >= a THEN c = a ELSE FALSE
      BY DEF B
    <3>4. N[c] = n[c].parent
      BY DEF N
    <3>5. c \in Stop <=> c = 0 \/ c >= a \/ c \notin Alive(n)
      BY DEF Stop
    <3> QED
      BY <3>1, <3>2, <3>3, <3>4, <3>5
  <2>7. IsWalk(n, a, f)
    BY <2>6 DEF IsWalk
  <2> QED
    BY <2>7
<1> QED
  BY <1>1, <1>2

\* The table finds nothing but what is above a node, and all of it where none of it is
\* deleted.
LEMMA TableFinds ==
  ASSUME NEW n, NEW ln, Sound(n, ln, {}), NEW a \in Ids, NEW d \in Alive(n)
  PROVE  /\ IsAncestorTable(n, d, a) => a = d \/ a \in UpSet(n, d)
         /\ UpSet(n, d) \subseteq Alive(n) /\ a \in UpSet(n, d) => IsAncestorTable(n, d, a)
<1> DEFINE near == CHOOSE f : IsNear(n, a, f)
           walk == CHOOSE f : IsWalk(n, a, f)
           start == near[d]
<1>1. IsNear(n, a, near) /\ IsWalk(n, a, walk)
  BY WalksExist
<1>2. IsAncestorTable(n, d, a) <=>
        \/ d = a
        \/ /\ a > d /\ start # 0
           /\ \/ start \in Alive(n) /\ (a - start) \in TableBits(n, start)
              \/ walk[start]
  BY DEF IsAncestorTable, IsNear, IsWalk, TableBelow
<1> HIDE DEF near, walk
<1>3. /\ Rising(n) /\ Alive(n) \subseteq Ids /\ d \in Ids /\ Stored(n, d)
      /\ a \in Nat /\ Ids \subseteq Nat /\ 0 \notin Ids /\ Width \in Nat /\ Ids \subseteq Ref /\ 0 \in Ref
      /\ \A c \in Alive(n) : c \in Ids /\ Stored(n, c)
  BY SoundRises, ConstantAssumption, RefIsId DEF Alive, Ids
<1>4. /\ near[0] = 0
      /\ \A c \in Ids : near[c] = IF c >= a - Width THEN c
                                  ELSE IF c \in Alive(n) THEN near[TableBelow(n, a, c)] ELSE 0
  BY <1>1, <1>3 DEF IsNear
<1>5. /\ walk[0] = FALSE /\ walk[a] = TRUE
      /\ \A c \in Ids : walk[c] => (c = a \/ (c \in Alive(n) /\ walk[n[c].parent]))
  <2>1. \A c \in Ref : walk[c] = IF c = 0 \/ c >= a THEN c = a ELSE c \in Alive(n) /\ walk[n[c].parent]
    BY <1>1 DEF IsWalk
  <2>2. walk[0] = (0 = a) /\ walk[a] = (a = a)
    BY <1>3, <2>1
  <2>3. ASSUME NEW c \in Ids, walk[c] PROVE c = a \/ (c \in Alive(n) /\ walk[n[c].parent])
    BY <1>3, <2>1, <2>3
  <2> QED
    BY <1>3, <2>2, <2>3
<1>6. \A c \in Ids : Stored(n, c) => c \in UpSet(n, c)
  BY <1>3, UpSetIs
<1>7. \A c, x \in Ids : x \in UpSet(n, c) =>
        /\ x >= c /\ Stored(n, c) /\ Stored(n, x) /\ UpSet(n, x) \subseteq UpSet(n, c)
        /\ \A b \in UpSet(n, c) : b >= x => b \in UpSet(n, x)
  BY <1>3, UpSetOrder
<1>8. \A c \in Ids : UpSet(n, c) \subseteq Ids
  BY <1>3, UpSetIs
<1>9. \A c \in Ids : Stored(n, c) => near[c] \in {0} \cup UpSet(n, c)
  <2> DEFINE S == {c \in Ids : Stored(n, c) => near[c] \in {0} \cup UpSet(n, c)}
  <2>1. ASSUME NEW c \in Ids, \A y \in Ids : y > c => y \in S PROVE c \in S
    <3> SUFFICES ASSUME Stored(n, c), ~(c >= a - Width), c \in Alive(n) PROVE near[c] \in {0} \cup UpSet(n, c)
      BY <1>4, <1>6
    <3> DEFINE b == TableBelow(n, a, c)
    <3>1. b = 0 \/ (b \in UpSet(n, c) /\ b \in Ids /\ b > c)
      BY TableBelowIs
    <3>2. near[c] = near[b]
      BY <1>4
    <3>3. b # 0 => Stored(n, b) /\ near[b] \in {0} \cup UpSet(n, b) /\ UpSet(n, b) \subseteq UpSet(n, c)
      BY <1>7, <2>1, <3>1
    <3> HIDE DEF b
    <3> QED
      BY <1>4, <3>1, <3>2, <3>3
  <2>2. Ids \subseteq S
    <3> HIDE DEF S
    <3> QED
      BY <2>1, FromTheTop, Zenon
  <2> QED
    BY <2>2
<1>10. \A c \in Ids : Stored(n, c) /\ walk[c] => a \in UpSet(n, c)
  <2> DEFINE S == {c \in Ids : Stored(n, c) /\ walk[c] => a \in UpSet(n, c)}
  <2>1. ASSUME NEW c \in Ids, \A y \in Ids : y > c => y \in S PROVE c \in S
    <3> SUFFICES ASSUME Stored(n, c), walk[c], c # a PROVE a \in UpSet(n, c)
      BY <1>6
    <3> DEFINE p == n[c].parent
    <3>1. walk[p] /\ p # 0
      BY <1>5
    <3>2. p \in Ids /\ p > c /\ Stored(n, p)
      BY <1>3, <3>1 DEF Rising
    <3>3. UpSet(n, c) = {c} \cup UpSet(n, p)
      BY <1>3, UpSetIs
    <3> HIDE DEF p
    <3> QED
      BY <2>1, <3>1, <3>2, <3>3
  <2>2. Ids \subseteq S
    <3> HIDE DEF S
    <3> QED
      BY <2>1, FromTheTop, Zenon
  <2> QED
    BY <2>2
<1>11. ASSUME IsAncestorTable(n, d, a), a # d PROVE a \in UpSet(n, d)
  <2>1. start # 0 /\ start \in UpSet(n, d) /\ start \in Ids /\ Stored(n, start)
        /\ UpSet(n, start) \subseteq UpSet(n, d)
    BY <1>2, <1>3, <1>7, <1>8, <1>9, <1>11
  <2> HIDE DEF start
  <2>2. CASE (a - start) \in TableBits(n, start)
    <3>1. PICK x \in Ancestors(n, start) : a - start = x - start
      BY <2>2 DEF TableBits
    <3>2. x \in UpSet(n, start) /\ x \in Ids
      BY <1>8, <2>1 DEF Ancestors, UpSet
    <3>3. x = a
      BY <1>3, <2>1, <3>1, <3>2
    <3> QED
      BY <2>1, <3>2, <3>3
  <2>3. CASE walk[start]
    BY <1>10, <2>1, <2>3
  <2> QED
    BY <1>2, <1>11, <2>2, <2>3
<1>12. ASSUME UpSet(n, d) \subseteq Alive(n), a \in UpSet(n, d) PROVE IsAncestorTable(n, d, a)
  <2> DEFINE Ok(x) == /\ x # 0 /\ x \in UpSet(n, d) /\ x <= a /\ x >= a - Width /\ a \in UpSet(n, x)
             S == {c \in Ids : c \in UpSet(n, d) /\ c <= a /\ a \in UpSet(n, c) => Ok(near[c])}
  <2>1. ASSUME NEW c \in Ids, \A y \in Ids : y > c => y \in S PROVE c \in S
    <3> SUFFICES ASSUME c \in UpSet(n, d), c <= a, a \in UpSet(n, c) PROVE Ok(near[c])
      OBVIOUS
    <3>1. CASE c >= a - Width
      BY <1>3, <1>4, <3>1
    <3>2. CASE ~(c >= a - Width)
      <4> DEFINE b == TableBelow(n, a, c)
      <4>1. c \in Alive(n) /\ a # c
        BY <1>3, <1>12, <3>2
      <4>2. b \in UpSet(n, c) /\ b \in Ids /\ b > c /\ b <= a /\ a \in UpSet(n, b)
        BY <4>1, TableBelowIs
      <4>3. near[c] = near[b]
        BY <1>4, <3>2, <4>1
      <4>4. b \in UpSet(n, d)
        BY <1>3, <1>7, <4>2
      <4> HIDE DEF b, Ok
      <4> QED
        BY <2>1, <4>2, <4>3, <4>4
    <3> QED
      BY <3>1, <3>2
  <2>2. d \in S
    <3>1. Ids \subseteq S
      <4> HIDE DEF S
      <4> QED
        BY <2>1, FromTheTop, Zenon
    <3> QED
      BY <1>3, <3>1
  <2>3. d \in UpSet(n, d) /\ d <= a
    BY <1>3, <1>6, <1>7, <1>12
  <2>4. Ok(start)
    BY <1>12, <2>2, <2>3
  <2>5. start \in Ids /\ start \in Alive(n)
    BY <1>3, <1>12, <2>4
  <2> HIDE DEF start
  <2>6. CASE a = start
    BY <1>2, <1>5, <2>3, <2>4, <2>6, <1>3
  <2>7. CASE a # start
    <3>1. a \in Ancestors(n, start)
      BY <2>4, <2>7 DEF Ancestors, UpSet
    <3>2. a - start <= Width
      BY <1>3, <2>4, <2>5
    <3>3. (a - start) \in TableBits(n, start)
      BY <3>1, <3>2 DEF TableBits
    <3> QED
      BY <1>2, <1>3, <2>3, <2>4, <2>5, <3>3
  <2> QED
    BY <2>6, <2>7
<1> QED
  BY <1>11, <1>12

\* In a sound tree a depth is bounded by what is above its node.
LEMMA KinTyped == ASSUME Kin, Counts PROVE TypeOK
<1>1. /\ node \in [Ids -> NodeOf(AnySkips)] /\ line \in [Ids -> SUBSET Ids]
      /\ \A c \in Ids : Revised(node, c, node[c])
  BY DEF Kin, Sound, Trees, Lineage, Redone
<1>2. ASSUME NEW c \in Ids PROVE node[c] \in SnapshotT
  <2>1. node[c] \in NodeOf(AnySkips) /\ node[c].depth \in Nat /\ node[c].depth <= MaxId + 1 - c
    BY <1>1, Mapped DEF Revised
  <2>2. node[c].depth \in 0..MaxId
    BY <2>1, ConstantAssumption DEF Ids
  <2> QED
    BY <2>1, <2>2 DEF NodeOf, SnapshotT, AnySkips
<1>3. node \in [Ids -> SnapshotT]
  BY <1>1, <1>2
<1> QED
  BY <1>1, <1>3 DEF TypeOK, Kin, SnapInv, SvTypes, Counts

-----------------------------------------------------------------------------
\* Every entry of both btrees and every counter stays of its type, a depth and a skip
\* included (SnapshotT, BchSubvolume).
THEOREM Typed == Spec => []TypeOK
<1>1. Kin /\ Counts => TypeOK
  BY KinTyped
<1> QED
  BY <1>1, AlwaysKin, PTL

\* The table in memory never sees more ancestors than the btree, and sees the same where
\* no deleted snapshot is in between (SnapshotTable::is_ancestor).
THEOREM TableFollowsTree == Spec => []TableAgrees
<1>1. ASSUME Kin, Counts PROVE TableAgrees
  <2>1. ASSUME NEW a \in Alive(node), NEW d \in Alive(node)
        PROVE  /\ IsAncestorTable(node, d, a) => IsAncestorBtree(node, a, d)
               /\ Ancestors(node, d) \subseteq Alive(node)
                    => (IsAncestorTable(node, d, a) <=> IsAncestorBtree(node, a, d))
    <3>1. Sound(node, line, {}) /\ d \in Ids /\ a \in Ids /\ Stored(node, d)
      BY <1>1 DEF Kin, Alive
    <3>2. IsAncestorBtree(node, a, d) <=> a = d \/ a \in line[d]
      BY <3>1, BtreeFinds
    <3>3. /\ UpSet(node, d) \subseteq {d} \cup line[d]
          /\ Alive(node) \cap line[d] \subseteq UpSet(node, d)
          /\ UpSet(node, d) = {d} \cup Ancestors(node, d)
      BY <3>1, WayUp
    <3>4. IsAncestorBtree(node, a, d) <=> a \in UpSet(node, d)
      BY <3>2, <3>3
    <3> QED
      BY <3>1, <3>3, <3>4, TableFinds
  <2> QED
    BY <1>1, <2>1, KinTyped DEF TableAgrees
<1> QED
  BY <1>1, AlwaysKin, PTL
=============================================================================
