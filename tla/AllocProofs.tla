---------------------------- MODULE AllocProofs ----------------------------
(***************************************************************************)
(* The allocator, for any number of groups, of buckets and of open         *)
(* buckets, and whatever its callers do: its accounts are exact, an        *)
(* allocation that may succeed does, and until the first mount a bucket    *)
(* has one owner and the Alloc btree tells all that there is to know.      *)
(***************************************************************************)
EXTENDS Alloc, FiniteSetsExt, FiniteSetTheorems, WellFoundedInduction, TLAPS

-----------------------------------------------------------------------------
(* What FoldLeft computes.  The community modules define it by a function  *)
(* over the sets of indices, which is chosen; that there is such a         *)
(* function, and what it yields, is shown by a least counterexample.       *)

\* The least of a set of naturals.
LEMMA LeastNat ==
  ASSUME NEW S, S \subseteq Nat, S # {} PROVE \E x \in S : \A y \in S : x <= y
<1>1. PICK x \in S : \A y \in S : ~(<<y, x>> \in OpToRel(<, Nat))
  BY NatLessThanWellFounded, WFMin, Zenon
<1>2. ASSUME NEW y \in S PROVE x <= y
  <2>1. x \in Nat /\ y \in Nat
    OBVIOUS
  <2>2. ~(<<y, x>> \in {ss \in Nat \X Nat : ss[1] < ss[2]})
    BY <1>1 DEF OpToRel
  <2> QED
    BY <2>1, <2>2
<1> QED
  BY <1>2

\* The greatest of a set of naturals with a bound is the one that Max chooses.
LEMMA GreatestIsThere ==
  ASSUME NEW b \in Nat, NEW S, S \subseteq 0..b, S # {}
  PROVE  Max(S) \in S /\ \A j \in S : j <= Max(S)
<1> DEFINE T == {b - k : k \in S}
<1>1. \A k \in S : k \in Nat /\ k <= b /\ b - k \in Nat /\ b - k \in T
  OBVIOUS
<1>2. \A x \in T : \E k \in S : x = b - k
  OBVIOUS
<1> HIDE DEF T
<1>3. T \subseteq Nat /\ T # {}
  BY <1>1, <1>2
<1>4. PICK x \in T : \A y \in T : x <= y
  BY <1>3, LeastNat
<1>5. PICK k \in S : x = b - k
  BY <1>2
<1>6. \A j \in S : k >= j
  BY <1>1, <1>4, <1>5
<1>7. Max(S) \in S /\ \A j \in S : Max(S) >= j
  BY <1>6 DEF Max
<1> QED
  BY <1>1, <1>7

\* Recursion over D, a set of sets of indices: b for
\* none of them, else G of the greatest index and the value for those below it.
Below(n, k) == {s \in SUBSET (1..n) : Cardinality(s) <= k}
Prior(s) == s \ {Max(s)}
Folding(it, D, b, G) == it = [s \in D |-> IF s = {} THEN b ELSE G[<<Max(s), it[Prior(s)]>>]]

\* There are n indices up to n.
LEMMA UpToIsFinite == ASSUME NEW n \in Nat PROVE IsFiniteSet(1..n) /\ Cardinality(1..n) = n
<1>1. IF 1 > n THEN n = 0 ELSE n - 1 + 1 = n
  OBVIOUS
<1> QED
  BY <1>1, FS_Interval

\* A set of indices without its greatest has one index less.
LEMMA PriorIsLess ==
  ASSUME NEW n \in Nat, NEW s \in SUBSET (1..n)
  PROVE  /\ Cardinality(s) \in 0..n /\ (Cardinality(s) = 0 <=> s = {})
         /\ s # {} => /\ Max(s) \in 1..n /\ Prior(s) \in SUBSET (1..n)
                      /\ Max(s) \in s /\ s = Prior(s) \cup {Max(s)}
                      /\ Cardinality(Prior(s)) = Cardinality(s) - 1
<1>1. IsFiniteSet(1..n) /\ Cardinality(1..n) = n
  BY UpToIsFinite
<1>2. IsFiniteSet(s) /\ Cardinality(s) <= n
  BY <1>1, FS_Subset
<1>3. Cardinality(s) \in Nat /\ (Cardinality(s) = 0 <=> s = {})
  BY <1>2, FS_CardinalityType, FS_EmptySet
<1>4. ASSUME s # {} PROVE Max(s) \in s /\ Cardinality(Prior(s)) = Cardinality(s) - 1
  <2>0. s \subseteq 0..n
    OBVIOUS
  <2>1. Max(s) \in s
    BY <1>4, <2>0, GreatestIsThere
  <2> QED
    BY <1>2, <2>1, FS_RemoveElement DEF Prior
<1>5. Cardinality(s) \in 0..n
  BY <1>2, <1>3
<1>6. s # {} => Max(s) \in 1..n
  BY <1>4
<1>7. Prior(s) \in SUBSET (1..n)
  BY DEF Prior
<1>8. s # {} => s = Prior(s) \cup {Max(s)}
  BY <1>4 DEF Prior
<1> QED
  BY <1>3, <1>4, <1>5, <1>6, <1>7, <1>8

\* Such a function exists for all sets of indices up to n.
LEMMA FoldExists ==
  ASSUME NEW n \in Nat, NEW P, NEW b \in P, NEW G, \A i \in 1..n : \A v \in P : G[<<i, v>>] \in P
  PROVE  \E it \in [SUBSET (1..n) -> P] : Folding(it, SUBSET (1..n), b, G)
<1> DEFINE E(k) == \E it \in [Below(n, k) -> P] : Folding(it, Below(n, k), b, G)
           Bad == {k \in Nat : ~E(k)}
<1>1. E(0)
  <2>1. Below(n, 0) = {{}}
    BY PriorIsLess DEF Below
  <2> DEFINE it == [s \in {{}} |-> b]
  <2>2. it \in [Below(n, 0) -> P] /\ Folding(it, Below(n, 0), b, G)
    BY <2>1 DEF Folding
  <2> QED
    BY <2>2
<1>2. ASSUME NEW k \in Nat, E(k) PROVE E(k + 1)
  <2>1. PICK it \in [Below(n, k) -> P] : Folding(it, Below(n, k), b, G)
    BY <1>2
  <2> DEFINE ext == [s \in Below(n, k + 1) |->
                       IF s = {} THEN b ELSE G[<<Max(s), it[Prior(s)]>>]]
  <2>2. ASSUME NEW s \in Below(n, k + 1), s # {}
        PROVE  Prior(s) \in Below(n, k) /\ Max(s) \in 1..n
    BY <2>2, PriorIsLess DEF Below
  <2>3. ext \in [Below(n, k + 1) -> P]
    BY <2>2
  <2>4. ASSUME NEW s \in Below(n, k) PROVE ext[s] = it[s]
    <3>1. s \in Below(n, k + 1)
      BY PriorIsLess DEF Below
    <3>2. it[s] = IF s = {} THEN b ELSE G[<<Max(s), it[Prior(s)]>>]
      BY <2>1 DEF Folding
    <3> QED
      BY <3>1, <3>2
  <2>5. Folding(ext, Below(n, k + 1), b, G)
    <3>1. \A s \in Below(n, k + 1) : s # {} => ext[Prior(s)] = it[Prior(s)]
      BY <2>2, <2>4
    <3> QED
      BY <3>1 DEF Folding
  <2> QED
    BY <2>3, <2>5
<1> HIDE DEF E
<1>3. Bad = {}
  <2> SUFFICES ASSUME Bad # {} PROVE FALSE
    OBVIOUS
  <2>1. PICK k \in Bad : \A j \in Bad : k <= j
    BY LeastNat
  <2>2. k # 0 /\ k - 1 \in Nat
    BY <1>1
  <2>3. E(k - 1)
    BY <2>1, <2>2
  <2>4. E(k - 1 + 1)
    BY <1>2, <2>2, <2>3
  <2>5. k - 1 + 1 = k
    BY <2>2
  <2> QED
    BY <2>4, <2>5
<1>4. Below(n, n) = SUBSET (1..n)
  BY PriorIsLess DEF Below
<1>5. E(n)
  BY <1>3
<1> QED
  BY <1>4, <1>5 DEF E

\* If each step leads from P of the indices so far to P of the indices with the
\* next, then what a fold yields in the end is in P of all indices.
LEMMA FoldStays ==
  ASSUME NEW n \in Nat, NEW P, NEW it, it[{}] \in P[{}],
         \A s \in SUBSET (1..n) : s # {} /\ it[Prior(s)] \in P[Prior(s)] => it[s] \in P[s]
  PROVE  it[1..n] \in P[1..n]
<1> DEFINE Bad == {k \in Nat : \E s \in SUBSET (1..n) : Cardinality(s) = k /\ it[s] \notin P[s]}
<1> SUFFICES ASSUME it[1..n] \notin P[1..n] PROVE FALSE
  OBVIOUS
<1>1. Bad # {}
  <2>1. 1..n \in SUBSET (1..n)
    OBVIOUS
  <2>2. Cardinality(1..n) \in Nat
    BY <2>1, PriorIsLess
  <2>3. Cardinality(1..n) \in Bad
    BY <2>1, <2>2
  <2> QED
    BY <2>3
<1>2. PICK k \in Bad : \A j \in Bad : k <= j
  BY <1>1, LeastNat
<1>3. PICK s \in SUBSET (1..n) : Cardinality(s) = k /\ it[s] \notin P[s]
  OBVIOUS
<1>4. s # {}
  BY <1>3
<1>5. Cardinality(Prior(s)) = k - 1 /\ k - 1 \in Nat /\ Prior(s) \in SUBSET (1..n)
  BY <1>3, <1>4, PriorIsLess
<1>6. k - 1 \notin Bad
  BY <1>2, <1>5
<1> QED
  BY <1>3, <1>4, <1>5, <1>6

-----------------------------------------------------------------------------
States == {"free", "user", "discard"}

\* Whatever an allocator may look like; what is sound is said below.
AllocStates ==
  [state : [Buckets -> States], list : [Groups -> Seq(0..(GroupSize - 1))],
   free : [Groups -> Int], allocated : Int, hint : Groups,
   entry : [1..PoolSize -> Buckets \cup {NoBucket}], avail : Seq(1..PoolSize)]

FreeOf(st, g) == {b \in Buckets : b[1] = g /\ st[b] = "free"}
NotFree(st) == {b \in Buckets : st[b] # "free"}

ListsSound(a) ==
  \A g \in Groups : /\ IsInjective(a.list[g])
                    /\ \A i \in Range(a.list[g]) : a.state[<<g, i>>] = "free"
CountsSound(a) ==
  /\ \A g \in Groups : a.free[g] = Cardinality(FreeOf(a.state, g))
  /\ a.allocated = Cardinality(NotFree(a.state))
PoolSound(a) ==
  /\ IsInjective(a.avail)
  /\ Range(a.avail) = {i \in 1..PoolSize : a.entry[i] = NoBucket}
  /\ \A i \in 1..PoolSize : a.entry[i] # NoBucket => a.state[a.entry[i]] = "user"
  /\ \A i, j \in 1..PoolSize : a.entry[i] # NoBucket /\ a.entry[i] = a.entry[j] => i = j

Sound(a) == a \in AllocStates /\ ListsSound(a) /\ CountsSound(a) /\ PoolSound(a)

-----------------------------------------------------------------------------
(* Sequences without repetitions. *)

LEMMA HeadAndTail ==
  ASSUME NEW S, NEW s \in Seq(S), s # <<>>, IsInjective(s)
  PROVE  /\ Head(s) \in S /\ Head(s) \in Range(s) /\ Tail(s) \in Seq(S) /\ IsInjective(Tail(s))
         /\ Range(Tail(s)) = Range(s) \ {Head(s)}
<1>1. /\ Len(s) \in Nat /\ Len(s) > 0 /\ Head(s) = s[1] /\ DOMAIN s = 1..Len(s)
      /\ \A i \in 1..Len(s) : s[i] \in S
  OBVIOUS
<1>2. /\ Tail(s) \in Seq(S) /\ Len(Tail(s)) = Len(s) - 1 /\ DOMAIN Tail(s) = 1..(Len(s) - 1)
      /\ \A i \in 1..(Len(s) - 1) : Tail(s)[i] = s[i + 1]
  OBVIOUS
<1>3. IsInjective(Tail(s))
  BY <1>1, <1>2 DEF IsInjective
<1>4. Head(s) \in Range(s) /\ Head(s) \in S
  BY <1>1 DEF Range
<1>5. ASSUME NEW x \in Range(Tail(s)) PROVE x \in Range(s) \ {Head(s)}
  <2>1. PICK i \in 1..(Len(s) - 1) : x = s[i + 1]
    BY <1>2 DEF Range
  <2>2. i + 1 \in 1..Len(s) /\ i + 1 # 1 /\ 1 \in 1..Len(s)
    BY <1>1
  <2>3. s[i + 1] # s[1]
    BY <1>1, <2>2 DEF IsInjective
  <2> QED
    BY <1>1, <2>1, <2>2, <2>3 DEF Range
<1>6. ASSUME NEW x \in Range(s), x # Head(s) PROVE x \in Range(Tail(s))
  <2>1. PICK i \in 1..Len(s) : x = s[i]
    BY <1>1 DEF Range
  <2>2. i # 1
    BY <1>1, <1>6, <2>1
  <2>3. i - 1 \in 1..(Len(s) - 1) /\ (i - 1) + 1 = i
    BY <1>1, <2>2
  <2>4. Tail(s)[i - 1] = s[i]
    BY <1>2, <2>3
  <2> QED
    BY <1>2, <2>1, <2>3, <2>4 DEF Range
<1> QED
  BY <1>2, <1>3, <1>4, <1>5, <1>6

LEMMA Pushed ==
  ASSUME NEW S, NEW s \in Seq(S), NEW x \in S, IsInjective(s), x \notin Range(s)
  PROVE  /\ <<x>> \o s \in Seq(S) /\ IsInjective(<<x>> \o s)
         /\ Range(<<x>> \o s) = Range(s) \cup {x} /\ Len(<<x>> \o s) = Len(s) + 1
<1> DEFINE t == <<x>> \o s
<1>1. /\ Len(s) \in Nat /\ DOMAIN s = 1..Len(s)
      /\ t \in Seq(S) /\ Len(t) = Len(s) + 1 /\ DOMAIN t = 1..(Len(s) + 1)
      /\ t[1] = x /\ \A i \in 2..(Len(s) + 1) : t[i] = s[i - 1]
  OBVIOUS
<1> HIDE DEF t
<1>2. \A i \in 1..Len(s) : s[i] # x /\ i + 1 \in 2..(Len(s) + 1) /\ (i + 1) - 1 = i
  BY <1>1 DEF Range
<1>3. \A i \in 2..(Len(s) + 1) : i - 1 \in 1..Len(s) /\ t[i] # x
  BY <1>1, <1>2
<1>4. ASSUME NEW i \in 1..(Len(s) + 1), NEW j \in 1..(Len(s) + 1), t[i] = t[j] PROVE i = j
  <2>1. CASE i = 1 \/ j = 1
    BY <1>1, <1>3, <1>4, <2>1
  <2>2. CASE i # 1 /\ j # 1
    <3>1. i \in 2..(Len(s) + 1) /\ j \in 2..(Len(s) + 1)
      BY <1>1, <2>2
    <3>2. s[i - 1] = s[j - 1] /\ i - 1 \in 1..Len(s) /\ j - 1 \in 1..Len(s)
      BY <1>1, <1>3, <1>4, <3>1
    <3>3. i - 1 = j - 1
      BY <1>1, <3>2 DEF IsInjective
    <3> QED
      BY <3>1, <3>3
  <2> QED
    BY <2>1, <2>2
<1>5. IsInjective(t)
  BY <1>1, <1>4 DEF IsInjective
<1>6. \A y \in Range(t) : y \in Range(s) \cup {x}
  <2> TAKE y \in Range(t)
  <2>1. PICK i \in 1..(Len(s) + 1) : y = t[i]
    BY <1>1 DEF Range
  <2>2. CASE i = 1
    BY <1>1, <2>1, <2>2
  <2>3. CASE i # 1
    <3>1. i \in 2..(Len(s) + 1)
      BY <1>1, <2>3
    <3>2. y = s[i - 1] /\ i - 1 \in DOMAIN s
      BY <1>1, <1>3, <2>1, <3>1
    <3> QED
      BY <3>2 DEF Range
  <2> QED
    BY <2>2, <2>3
<1>7. \A i \in 1..Len(s) : t[i + 1] = s[i] /\ i + 1 \in DOMAIN t
  BY <1>1, <1>2
<1>8. \A y \in Range(s) \cup {x} : y \in Range(t)
  <2>1. x = t[1] /\ 1 \in DOMAIN t
    BY <1>1
  <2>2. \A i \in 1..Len(s) : s[i] \in Range(t)
    BY <1>7 DEF Range
  <2> QED
    BY <1>1, <2>1, <2>2 DEF Range
<1> QED
  BY <1>1, <1>5, <1>6, <1>8 DEF t

-----------------------------------------------------------------------------
(* Buckets are finitely many, so that their numbers go up and down by one. *)

LEMMA Finite == IsFiniteSet(Buckets)
<1>1. \A n \in Nat : IsFiniteSet(0..(n - 1))
  BY FS_Interval
<1>2. IsFiniteSet(Groups) /\ IsFiniteSet(0..(GroupSize - 1))
  BY <1>1, ConstantAssumption DEF Groups
<1> QED
  BY <1>2, FS_Product DEF Buckets

LEMMA FreeFinite ==
  ASSUME NEW st, NEW g
  PROVE  /\ IsFiniteSet(FreeOf(st, g)) /\ Cardinality(FreeOf(st, g)) \in Nat
         /\ IsFiniteSet(NotFree(st)) /\ Cardinality(NotFree(st)) \in Nat
<1>1. FreeOf(st, g) \subseteq Buckets /\ NotFree(st) \subseteq Buckets
  BY DEF FreeOf, NotFree
<1> QED
  BY <1>1, Finite, FS_Subset, FS_CardinalityType

LEMMA OneMore ==
  ASSUME NEW S, NEW x, NEW T, IsFiniteSet(S), x \notin S, T = S \cup {x}
  PROVE  Cardinality(T) = Cardinality(S) + 1
BY FS_AddElement

LEMMA OneLess ==
  ASSUME NEW S, NEW x, NEW T, IsFiniteSet(S), x \in S, T = S \ {x}
  PROVE  Cardinality(T) = Cardinality(S) - 1
BY FS_RemoveElement

\* What the numbers are after the state of b has gone from "free" to another, or back.
LEMMA StateCounts ==
  ASSUME NEW st \in [Buckets -> States], NEW b \in Buckets, NEW new \in States,
         (st[b] = "free") # (new = "free"), NEW up, up = [st EXCEPT ![b] = new],
         NEW d, d = IF new = "free" THEN 1 ELSE -1
  PROVE  /\ \A g \in Groups : Cardinality(FreeOf(up, g))
                             = Cardinality(FreeOf(st, g)) + (IF g = b[1] THEN d ELSE 0)
         /\ Cardinality(NotFree(up)) = Cardinality(NotFree(st)) - d
<1>f. /\ \A g : IsFiniteSet(FreeOf(st, g)) /\ Cardinality(FreeOf(st, g)) \in Nat
      /\ IsFiniteSet(NotFree(st)) /\ Cardinality(NotFree(st)) \in Nat
  BY FreeFinite
<1>0. up[b] = new /\ \A c \in Buckets \ {b} : up[c] = st[c]
  OBVIOUS
<1>1. ASSUME NEW g, g # b[1] PROVE FreeOf(up, g) = FreeOf(st, g)
  BY <1>0, <1>1 DEF FreeOf
<1>2. CASE new = "free"
  <2>0. st[b] # "free" /\ d = 1
    BY <1>2
  <2>1. FreeOf(up, b[1]) = FreeOf(st, b[1]) \cup {b} /\ b \notin FreeOf(st, b[1])
    BY <1>0, <1>2, <2>0 DEF FreeOf
  <2>2. NotFree(up) = NotFree(st) \ {b} /\ b \in NotFree(st)
    BY <1>0, <1>2, <2>0 DEF NotFree
  <2>3. Cardinality(FreeOf(up, b[1])) = Cardinality(FreeOf(st, b[1])) + 1
    BY <1>f, <2>1, OneMore
  <2>4. Cardinality(NotFree(up)) = Cardinality(NotFree(st)) - 1
    BY <1>f, <2>2, OneLess
  <2>5. ASSUME NEW g \in Groups
        PROVE  Cardinality(FreeOf(up, g)) = Cardinality(FreeOf(st, g)) + (IF g = b[1] THEN d ELSE 0)
    <3>1. CASE g = b[1]
      BY <2>0, <2>3, <3>1, <1>f
    <3>2. CASE g # b[1]
      <4>1. FreeOf(up, g) = FreeOf(st, g)
        BY <1>1, <3>2
      <4> QED
        BY <3>2, <4>1, <1>f
    <3> QED
      BY <3>1, <3>2
  <2>6. Cardinality(NotFree(up)) = Cardinality(NotFree(st)) - d
    BY <2>0, <2>4, <1>f
  <2> QED
    BY <2>5, <2>6
<1>3. CASE new # "free"
  <2>0. st[b] = "free" /\ d = -1
    BY <1>3
  <2>1. FreeOf(up, b[1]) = FreeOf(st, b[1]) \ {b} /\ b \in FreeOf(st, b[1])
    BY <1>0, <1>3, <2>0 DEF FreeOf
  <2>2. NotFree(up) = NotFree(st) \cup {b} /\ b \notin NotFree(st)
    BY <1>0, <1>3, <2>0 DEF NotFree
  <2>3. Cardinality(FreeOf(up, b[1])) = Cardinality(FreeOf(st, b[1])) - 1
    BY <1>f, <2>1, OneLess
  <2>4. Cardinality(NotFree(up)) = Cardinality(NotFree(st)) + 1
    BY <1>f, <2>2, OneMore
  <2>5. ASSUME NEW g \in Groups
        PROVE  Cardinality(FreeOf(up, g)) = Cardinality(FreeOf(st, g)) + (IF g = b[1] THEN d ELSE 0)
    <3>1. CASE g = b[1]
      BY <2>0, <2>3, <3>1, <1>f
    <3>2. CASE g # b[1]
      <4>1. FreeOf(up, g) = FreeOf(st, g)
        BY <1>1, <3>2
      <4> QED
        BY <3>2, <4>1, <1>f
    <3> QED
      BY <3>1, <3>2
  <2>6. Cardinality(NotFree(up)) = Cardinality(NotFree(st)) - d
    BY <2>0, <2>4, <1>f
  <2> QED
    BY <2>5, <2>6
<1> QED
  BY <1>2, <1>3

-----------------------------------------------------------------------------
LEMMA SeqIsFunction == \A S : \A s \in Seq(S) : Len(s) \in Nat /\ s \in [1..Len(s) -> S]
OBVIOUS

LEMMA RangeIn ==
  ASSUME NEW S, NEW s \in Seq(S), NEW x \in Range(s)
  PROVE  x \in S
<1>1. DOMAIN s = 1..Len(s) /\ \A i \in 1..Len(s) : s[i] \in S
  OBVIOUS
<1> QED
  BY <1>1 DEF Range

(* The steps an allocator makes. *)

LEMMA Constants ==
  /\ NGroups \in Nat /\ NGroups > 0 /\ GroupSize \in Nat /\ GroupSize > 0 /\ PoolSize \in Nat
  /\ JournalBuckets \in Nat /\ NoBucket \notin Buckets
  /\ \A g \in Groups, i \in 0..(GroupSize - 1) : <<g, i>> \in Buckets
  /\ \A b \in Buckets : b[1] \in Groups /\ b[2] \in 0..(GroupSize - 1) /\ b = <<b[1], b[2]>>
BY ConstantAssumption DEF Buckets, Groups

\* A bucket is taken off its list.
LEMMA PopSound ==
  ASSUME NEW a, Sound(a), NEW g \in Groups, a.list[g] # <<>>,
         NEW p, p = [a EXCEPT !.list[g] = Tail(@)]
  PROVE  /\ Sound(p) /\ <<g, Head(a.list[g])>> \in Buckets /\ a.state[<<g, Head(a.list[g])>>] = "free"
         /\ Head(a.list[g]) \notin Range(p.list[g])
<1>0. a \in AllocStates /\ a.list \in [Groups -> Seq(0..(GroupSize - 1))]
  BY DEF Sound, AllocStates
<1>1. a.list[g] \in Seq(0..(GroupSize - 1)) /\ IsInjective(a.list[g])
  BY <1>0 DEF Sound, ListsSound
<1>2. /\ Head(a.list[g]) \in 0..(GroupSize - 1) /\ Head(a.list[g]) \in Range(a.list[g])
      /\ Tail(a.list[g]) \in Seq(0..(GroupSize - 1)) /\ IsInjective(Tail(a.list[g]))
      /\ Range(Tail(a.list[g])) = Range(a.list[g]) \ {Head(a.list[g])}
  BY <1>1, HeadAndTail
<1>3. /\ p \in AllocStates /\ p.list = [a.list EXCEPT ![g] = Tail(a.list[g])] /\ p.state = a.state
      /\ p.free = a.free /\ p.allocated = a.allocated /\ p.entry = a.entry /\ p.avail = a.avail
  BY <1>0, <1>2 DEF AllocStates
<1>4. ListsSound(p)
  BY <1>0, <1>2, <1>3 DEF Sound, ListsSound
<1>5. CountsSound(p) /\ PoolSound(p)
  BY <1>3 DEF Sound, CountsSound, PoolSound
<1>6. p.list[g] = Tail(a.list[g])
  BY <1>0, <1>3
<1> QED
  BY <1>2, <1>3, <1>4, <1>5, <1>6, Constants DEF Sound, ListsSound

\* A free bucket that is on no list is given out.
LEMMA TakeSound ==
  ASSUME NEW a, Sound(a), NEW b \in Buckets, a.state[b] = "free", a.avail # <<>>,
         b[2] \notin Range(a.list[b[1]])
  PROVE  Sound(Take(a, b)) /\ Take(a, b).state = [a.state EXCEPT ![b] = "user"]
<1> DEFINE t == Take(a, b)
           h == Head(a.avail)
<1>0. /\ a \in AllocStates /\ a.state \in [Buckets -> States] /\ a.avail \in Seq(1..PoolSize)
      /\ a.entry \in [1..PoolSize -> Buckets \cup {NoBucket}] /\ a.free \in [Groups -> Int]
      /\ a.allocated \in Int
  BY DEF Sound, AllocStates
<1>1. /\ h \in 1..PoolSize /\ h \in Range(a.avail) /\ Tail(a.avail) \in Seq(1..PoolSize)
      /\ IsInjective(Tail(a.avail)) /\ Range(Tail(a.avail)) = Range(a.avail) \ {h}
  BY <1>0, HeadAndTail DEF Sound, PoolSound
<1> HIDE DEF h
<1>2. b[1] \in Groups /\ NoBucket # b
  BY Constants
<1>3. t = [a EXCEPT !.entry[h] = b, !.avail = Tail(@), !.state[b] = "user",
                    !.free[b[1]] = @ - 1, !.allocated = @ + 1]
  BY DEF Take, OpenAlloc, h
<1> HIDE DEF t
<1>4. /\ t.state = [a.state EXCEPT ![b] = "user"] /\ t.list = a.list
      /\ t.free = [a.free EXCEPT ![b[1]] = @ - 1] /\ t.allocated = a.allocated + 1
      /\ t.entry = [a.entry EXCEPT ![h] = b] /\ t.avail = Tail(a.avail)
  BY <1>0, <1>3 DEF AllocStates
<1>5. t \in AllocStates
  <2>1. t.state \in [Buckets -> States] /\ t.free \in [Groups -> Int] /\ t.allocated \in Int
    BY <1>0, <1>2, <1>4 DEF States
  <2>2. t.entry \in [1..PoolSize -> Buckets \cup {NoBucket}] /\ t.avail \in Seq(1..PoolSize)
    BY <1>0, <1>1, <1>4
  <2>3. t.list = a.list /\ t.hint = a.hint
    BY <1>0, <1>3 DEF AllocStates
  <2> QED
    BY <1>0, <1>3, <2>1, <2>2, <2>3 DEF AllocStates
<1>6. ListsSound(t)
  <2> SUFFICES ASSUME NEW g \in Groups, NEW i \in Range(a.list[g]) PROVE t.state[<<g, i>>] = "free"
    BY <1>4 DEF ListsSound, Sound
  <2>1. a.state[<<g, i>>] = "free"
    BY DEF Sound, ListsSound
  <2>2. <<g, i>> # b
    OBVIOUS
  <2> QED
    BY <1>0, <1>4, <2>1, <2>2
<1>7. CountsSound(t)
  <2>1. /\ \A g \in Groups : Cardinality(FreeOf(t.state, g))
                             = Cardinality(FreeOf(a.state, g)) + (IF g = b[1] THEN -1 ELSE 0)
        /\ Cardinality(NotFree(t.state)) = Cardinality(NotFree(a.state)) - (-1)
    <3>1. "user" \in States /\ (a.state[b] = "free") # ("user" = "free")
      BY DEF States
    <3> QED
      BY <1>0, <1>4, <3>1, StateCounts
  <2>2. Cardinality(NotFree(a.state)) \in Nat
    BY FreeFinite
  <2>3. /\ \A g \in Groups : a.free[g] = Cardinality(FreeOf(a.state, g))
        /\ a.allocated = Cardinality(NotFree(a.state))
    BY DEF Sound, CountsSound
  <2>4. \A g \in Groups : t.free[g] = a.free[g] + (IF g = b[1] THEN -1 ELSE 0)
    BY <1>0, <1>4
  <2>5. t.allocated = Cardinality(NotFree(t.state))
    <3>1. Cardinality(NotFree(t.state)) = Cardinality(NotFree(a.state)) + 1
      BY <2>1, <2>2
    <3> QED
      BY <1>4, <2>3, <3>1
  <2> QED
    BY <2>1, <2>3, <2>4, <2>5 DEF CountsSound
<1>8. PoolSound(t)
  <2>1. a.entry[h] = NoBucket /\ Range(a.avail) = {i \in 1..PoolSize : a.entry[i] = NoBucket}
    BY <1>1 DEF Sound, PoolSound
  <2>2. \A i \in 1..PoolSize : a.entry[i] # NoBucket => a.entry[i] # b /\ a.state[a.entry[i]] = "user"
    BY DEF Sound, PoolSound
  <2>3. \A i \in 1..PoolSize : t.entry[i] = IF i = h THEN b ELSE a.entry[i]
    BY <1>0, <1>4
  <2>4. Range(t.avail) = {i \in 1..PoolSize : t.entry[i] = NoBucket}
    BY <1>1, <1>2, <1>4, <2>1, <2>3
  <2>5. \A i \in 1..PoolSize : t.entry[i] # NoBucket => t.state[t.entry[i]] = "user"
    BY <1>0, <1>4, <2>2, <2>3
  <2>6. \A i, j \in 1..PoolSize : t.entry[i] # NoBucket /\ t.entry[i] = t.entry[j] => i = j
    BY <2>2, <2>3 DEF Sound, PoolSound
  <2> QED
    BY <1>1, <1>4, <2>4, <2>5, <2>6 DEF PoolSound
<1> QED
  BY <1>4, <1>5, <1>6, <1>7, <1>8 DEF Sound, t

\* The entry of a bucket is given back.
LEMMA PutSound ==
  ASSUME NEW a, Sound(a), NEW b \in Buckets
  PROVE  /\ Sound(OpenPut(a, b)) /\ OpenPut(a, b).state = a.state
         /\ \A i \in 1..PoolSize : OpenPut(a, b).entry[i] # b
<1>0. /\ a \in AllocStates /\ a.avail \in Seq(1..PoolSize)
      /\ a.entry \in [1..PoolSize -> Buckets \cup {NoBucket}] /\ DOMAIN a.entry = 1..PoolSize
  BY DEF Sound, AllocStates
<1>1. CASE ~IsOpen(a, b)
  BY <1>0, <1>1 DEF OpenPut, IsOpen
<1>2. CASE IsOpen(a, b)
  <2> DEFINE i == CHOOSE j \in DOMAIN a.entry : a.entry[j] = b
             t == OpenPut(a, b)
  <2>1. i \in 1..PoolSize /\ a.entry[i] = b
    BY <1>0, <1>2 DEF IsOpen
  <2>2. t = [a EXCEPT !.entry[i] = NoBucket, !.avail = <<i>> \o @]
    BY <1>2 DEF OpenPut
  <2> HIDE DEF i, t
  <2>3. NoBucket # b
    BY Constants
  <2>4. i \notin Range(a.avail) /\ IsInjective(a.avail)
    BY <2>1, <2>3 DEF Sound, PoolSound
  <2>5. /\ <<i>> \o a.avail \in Seq(1..PoolSize) /\ IsInjective(<<i>> \o a.avail)
        /\ Range(<<i>> \o a.avail) = Range(a.avail) \cup {i}
    <3> DEFINE S == 1..PoolSize
    <3>1. PICK q \in Seq(S) : q = a.avail
      BY <1>0
    <3>2. i \in S /\ i \notin Range(q) /\ IsInjective(q)
      BY <2>1, <2>4, <3>1
    <3> HIDE DEF S
    <3>3. <<i>> \o q \in Seq(S) /\ IsInjective(<<i>> \o q) /\ Range(<<i>> \o q) = Range(q) \cup {i}
      BY <3>2, Pushed
    <3> QED
      BY <3>1, <3>3 DEF S
  <2>6. /\ t \in AllocStates /\ t.entry = [a.entry EXCEPT ![i] = NoBucket] /\ t.avail = <<i>> \o a.avail
        /\ t.state = a.state /\ t.list = a.list /\ t.free = a.free /\ t.allocated = a.allocated
    BY <1>0, <2>1, <2>2, <2>5 DEF AllocStates
  <2>7. \A j \in 1..PoolSize : t.entry[j] = IF j = i THEN NoBucket ELSE a.entry[j]
    BY <1>0, <2>6
  <2>8. ListsSound(t) /\ CountsSound(t)
    BY <2>6 DEF Sound, ListsSound, CountsSound
  <2>9. PoolSound(t)
    BY <2>1, <2>5, <2>6, <2>7 DEF Sound, PoolSound
  <2>10. \A j \in 1..PoolSize : t.entry[j] # b
    BY <2>1, <2>3, <2>7 DEF Sound, PoolSound
  <2> QED
    BY <2>6, <2>8, <2>9, <2>10 DEF Sound, t
<1> QED
  BY <1>1, <1>2

\* A bucket that is in use and not open is put off until its discard.
LEMMA DiscardSound ==
  ASSUME NEW a, Sound(a), NEW b \in Buckets, a.state[b] # "free", \A i \in 1..PoolSize : a.entry[i] # b
  PROVE  Sound([a EXCEPT !.state[b] = "discard"])
<1> DEFINE t == [a EXCEPT !.state[b] = "discard"]
<1>0. a \in AllocStates /\ a.state \in [Buckets -> States] /\ a.entry \in [1..PoolSize -> Buckets \cup {NoBucket}]
  BY DEF Sound, AllocStates
<1>1. /\ t \in AllocStates /\ t.state = [a.state EXCEPT ![b] = "discard"] /\ t.list = a.list
      /\ t.free = a.free /\ t.allocated = a.allocated /\ t.entry = a.entry /\ t.avail = a.avail
  BY <1>0 DEF AllocStates, States
<1> HIDE DEF t
<1>2. \A c \in Buckets : (t.state[c] = "free" <=> a.state[c] = "free") /\ (c # b => t.state[c] = a.state[c])
  BY <1>0, <1>1
<1>3. \A g : FreeOf(t.state, g) = FreeOf(a.state, g)
  BY <1>2 DEF FreeOf
<1>4. NotFree(t.state) = NotFree(a.state)
  BY <1>2 DEF NotFree
<1>5. CountsSound(t)
  BY <1>1, <1>3, <1>4 DEF Sound, CountsSound
<1>6. ListsSound(t)
  <2> SUFFICES ASSUME NEW g \in Groups, NEW i \in Range(a.list[g]) PROVE t.state[<<g, i>>] = "free"
    BY <1>1 DEF ListsSound, Sound
  <2>1. a.state[<<g, i>>] = "free"
    BY DEF Sound, ListsSound
  <2>2. a.list[g] \in Seq(0..(GroupSize - 1))
    BY <1>0 DEF AllocStates
  <2>3. i \in 0..(GroupSize - 1)
    BY <2>2, RangeIn
  <2> QED
    BY <1>2, <2>1, <2>3, Constants
<1>7. PoolSound(t)
  <2>1. \A i \in 1..PoolSize : a.entry[i] # NoBucket => t.state[a.entry[i]] = a.state[a.entry[i]]
    BY <1>0, <1>2
  <2> QED
    BY <1>1, <2>1 DEF Sound, PoolSound
<1> QED
  BY <1>1, <1>5, <1>6, <1>7 DEF Sound, t

\* A discarded bucket is free again and on top of its list.
Trimmed(a, b) == [a EXCEPT !.state[b] = "free", !.free[b[1]] = @ + 1,
                           !.list[b[1]] = <<b[2]>> \o @, !.allocated = @ - 1]

LEMMA TrimSound ==
  ASSUME NEW a, Sound(a), NEW b \in Buckets, a.state[b] = "discard"
  PROVE  Sound(Trimmed(a, b)) /\ Trimmed(a, b).state = [a.state EXCEPT ![b] = "free"]
<1> DEFINE t == Trimmed(a, b)
           g == b[1]
<1>0. /\ a \in AllocStates /\ a.state \in [Buckets -> States] /\ a.free \in [Groups -> Int] /\ a.allocated \in Int
      /\ a.entry \in [1..PoolSize -> Buckets \cup {NoBucket}] /\ a.list \in [Groups -> Seq(0..(GroupSize - 1))]
  BY DEF Sound, AllocStates
<1>1. g \in Groups /\ b[2] \in 0..(GroupSize - 1) /\ b = <<g, b[2]>>
  BY Constants
<1>2. b[2] \notin Range(a.list[g]) /\ IsInjective(a.list[g]) /\ a.list[g] \in Seq(0..(GroupSize - 1))
  BY <1>0, <1>1 DEF Sound, ListsSound
<1> HIDE DEF g
<1>3. /\ <<b[2]>> \o a.list[g] \in Seq(0..(GroupSize - 1)) /\ IsInjective(<<b[2]>> \o a.list[g])
      /\ Range(<<b[2]>> \o a.list[g]) = Range(a.list[g]) \cup {b[2]}
  <2> DEFINE S == 0..(GroupSize - 1)
  <2>1. PICK i \in S : i = b[2]
    BY <1>1
  <2>2. PICK s \in Seq(S) : s = a.list[g]
    BY <1>2
  <2>3. i \notin Range(s) /\ IsInjective(s)
    BY <1>2, <2>1, <2>2
  <2> HIDE DEF S
  <2>4. <<i>> \o s \in Seq(S) /\ IsInjective(<<i>> \o s) /\ Range(<<i>> \o s) = Range(s) \cup {i}
    BY <2>3, Pushed
  <2> QED
    BY <2>1, <2>2, <2>4 DEF S
<1>4. t = [a EXCEPT !.state[b] = "free", !.free[g] = @ + 1, !.list[g] = <<b[2]>> \o @, !.allocated = @ - 1]
  BY DEF Trimmed, g
<1> HIDE DEF t
<1>5. /\ t.state = [a.state EXCEPT ![b] = "free"] /\ t.list = [a.list EXCEPT ![g] = <<b[2]>> \o @]
      /\ t.free = [a.free EXCEPT ![g] = @ + 1] /\ t.allocated = a.allocated - 1
      /\ t.entry = a.entry /\ t.avail = a.avail
  BY <1>0, <1>4 DEF AllocStates
<1>6. t \in AllocStates
  <2>1. t.state \in [Buckets -> States] /\ t.free \in [Groups -> Int] /\ t.allocated \in Int
    BY <1>0, <1>1, <1>5 DEF States
  <2>2. t.list \in [Groups -> Seq(0..(GroupSize - 1))]
    BY <1>0, <1>3, <1>5
  <2> QED
    BY <1>0, <1>4, <2>1, <2>2 DEF AllocStates
<1>7. ListsSound(t)
  <2>1. \A h \in Groups : h # g => t.list[h] = a.list[h]
    BY <1>0, <1>5
  <2>2. t.list[g] = <<b[2]>> \o a.list[g]
    BY <1>0, <1>1, <1>5
  <2>3. \A c \in Buckets : a.state[c] = "free" => t.state[c] = "free"
    BY <1>0, <1>5
  <2>4. t.state[b] = "free"
    BY <1>0, <1>5
  <2>5. ASSUME NEW h \in Groups, NEW i \in Range(a.list[h]) PROVE t.state[<<h, i>>] = "free"
    <3>1. a.list[h] \in Seq(0..(GroupSize - 1)) /\ a.state[<<h, i>>] = "free"
      BY <1>0 DEF Sound, ListsSound
    <3>2. i \in 0..(GroupSize - 1)
      BY <3>1, RangeIn
    <3> QED
      BY <2>3, <3>1, <3>2, Constants
  <2>6. \A h \in Groups : IsInjective(t.list[h])
    BY <1>3, <2>1, <2>2 DEF Sound, ListsSound
  <2>7. \A h \in Groups : \A i \in Range(t.list[h]) : i \in Range(a.list[h]) \/ (h = g /\ i = b[2])
    BY <1>3, <2>1, <2>2
  <2> QED
    BY <1>1, <2>4, <2>5, <2>6, <2>7 DEF ListsSound
<1>8. CountsSound(t)
  <2>1. /\ \A h \in Groups : Cardinality(FreeOf(t.state, h))
                             = Cardinality(FreeOf(a.state, h)) + (IF h = b[1] THEN 1 ELSE 0)
        /\ Cardinality(NotFree(t.state)) = Cardinality(NotFree(a.state)) - 1
    <3>1. (a.state[b] = "free") # ("free" = "free")
      OBVIOUS
    <3>2. "free" \in States /\ 1 = IF "free" = "free" THEN 1 ELSE -1
      BY DEF States
    <3>3. t.state = [a.state EXCEPT ![b] = "free"] /\ a.state \in [Buckets -> States]
      BY <1>0, <1>5
    <3> QED
      BY <3>1, <3>2, <3>3, StateCounts
  <2>3. /\ \A h \in Groups : a.free[h] = Cardinality(FreeOf(a.state, h))
        /\ a.allocated = Cardinality(NotFree(a.state))
    BY DEF Sound, CountsSound
  <2>4. \A h \in Groups : t.free[h] = a.free[h] + (IF h = b[1] THEN 1 ELSE 0)
    BY <1>0, <1>5 DEF g
  <2>5. t.allocated = Cardinality(NotFree(t.state))
    BY <1>0, <1>5, <2>1, <2>3
  <2> QED
    BY <2>1, <2>3, <2>4, <2>5 DEF CountsSound
<1>9. PoolSound(t)
  <2>1. \A i \in 1..PoolSize : a.entry[i] # NoBucket => a.state[a.entry[i]] = "user" /\ a.entry[i] # b
    BY DEF Sound, PoolSound
  <2>2. \A i \in 1..PoolSize : a.entry[i] # NoBucket => t.state[a.entry[i]] = a.state[a.entry[i]]
    BY <1>0, <1>5, <2>1
  <2> QED
    BY <1>5, <2>2 DEF Sound, PoolSound
<1> QED
  BY <1>5, <1>6, <1>7, <1>8, <1>9 DEF Sound, t

-----------------------------------------------------------------------------
(* An allocation. *)

\* Whatever the hint, the groups are all asked.
LEMMA OrderCovers ==
  ASSUME NEW s \in Nat
  PROVE  LET order == [i \in 1..NGroups |-> (s + i - 1) % NGroups]
         IN /\ order \in Seq(Groups) /\ Len(order) = NGroups
            /\ \A g \in Groups : \E i \in 1..NGroups : order[i] = g
<1> DEFINE n == NGroups
           order == [i \in 1..NGroups |-> (s + i - 1) % NGroups]
           q == s \div n
           r == s % n
<1>1. n \in Nat /\ n > 0
  BY Constants
<1>2. order \in Seq(Groups) /\ Len(order) = NGroups
  BY <1>1 DEF Groups
<1> HIDE DEF n
<1>3. r \in 0..(n - 1) /\ q \in Nat /\ s = n * q + r
  BY <1>1
<1> HIDE DEF q, r
<1>4. \A a \in Nat : \A b \in 0..(n - 1) : (n * a + b) % n = b
  BY <1>1
<1>5. ASSUME NEW g \in Groups PROVE \E i \in 1..NGroups : order[i] = g
  <2>1. g \in 0..(n - 1)
    BY DEF Groups, n
  <2>2. CASE g >= r
    <3>1. g - r + 1 \in 1..n /\ s + (g - r + 1) - 1 = n * q + g
      BY <1>1, <1>3, <2>1, <2>2
    <3>2. (s + (g - r + 1) - 1) % n = g
      BY <1>3, <1>4, <2>1, <3>1
    <3> QED
      BY <3>1, <3>2 DEF n
  <2>3. CASE g < r
    <3>1. g - r + n + 1 \in 1..n /\ s + (g - r + n + 1) - 1 = (n * q + n) + g
      BY <1>1, <1>3, <2>1, <2>3
    <3>2. q + 1 \in Nat /\ n * (q + 1) = n * q + n
      BY <1>1, <1>3
    <3>3. (n * (q + 1) + g) % n = g
      BY <1>4, <2>1, <3>2
    <3>4. (s + (g - r + n + 1) - 1) % n = g
      BY <3>1, <3>2, <3>3
    <3> QED
      BY <3>1, <3>4 DEF n
  <2> QED
    BY <1>1, <1>3, <2>1, <2>2, <2>3
<1> QED
  BY <1>2, <1>5

SoundStates == {a \in AllocStates : Sound(a)}
Results == [a : SoundStates, got : Buckets \cup {NoBucket}]

\* What an allocation does to the states: nothing, or the bucket was free.
Took(a, r) ==
  /\ r \in Results
  /\ r.got = NoBucket => r.a.state = a.state
  /\ r.got # NoBucket => a.state[r.got] = "free" /\ r.a.state = [a.state EXCEPT ![r.got] = "user"]

\* A pass over the list of each group, ...
LEMMA FromListSound ==
  ASSUME NEW r \in Results, NEW g \in Groups, NEW wm
  PROVE  LET t == FromList(r, g, wm)
         IN /\ t \in Results
            /\ r.got # NoBucket => t = r
            /\ r.got = NoBucket =>
                 /\ Took(r.a, t)
                 /\ t.got = NoBucket =>
                      /\ t.a.free = r.a.free /\ t.a.avail = r.a.avail
                      /\ \/ Short(r.a, g, wm) /\ t = r
                         \/ t.a.list[g] = <<>> /\ t = r
                         \/ t.a.avail = <<>>
<1> DEFINE t == FromList(r, g, wm)
           b == <<g, Head(r.a.list[g])>>
           p == [r.a EXCEPT !.list[g] = Tail(@)]
<1>0. r = [a |-> r.a, got |-> r.got] /\ Sound(r.a) /\ r.a \in AllocStates /\ r.got \in Buckets \cup {NoBucket}
  BY DEF Results, SoundStates
<1>1. CASE r.got # NoBucket \/ Short(r.a, g, wm) \/ r.a.list[g] = <<>>
  <2>1. t = r
    BY <1>1 DEF FromList
  <2> QED
    BY <1>0, <1>1, <2>1 DEF Took
<1>2. CASE ~(r.got # NoBucket \/ Short(r.a, g, wm) \/ r.a.list[g] = <<>>)
  <2>1. /\ Sound(p) /\ b \in Buckets /\ r.a.state[b] = "free" /\ Head(r.a.list[g]) \notin Range(p.list[g])
    BY <1>0, <1>2, PopSound
  <2>2. p.state = r.a.state /\ p.free = r.a.free /\ p.avail = r.a.avail /\ p \in AllocStates
    BY <1>0, <2>1 DEF AllocStates, Sound
  <2>3. b[1] = g /\ b[2] = Head(r.a.list[g])
    OBVIOUS
  <2>4. t = IF p.avail = <<>> THEN [r EXCEPT !.a = p] ELSE [a |-> Take(p, b), got |-> b]
    BY <1>2 DEF FromList
  <2> HIDE DEF t, p, b
  <2>5. CASE p.avail = <<>>
    <3>1. t = [a |-> p, got |-> NoBucket]
      BY <1>0, <1>2, <2>4, <2>5
    <3> QED
      BY <1>2, <2>1, <2>2, <2>5, <3>1 DEF Took, Results, SoundStates, t
  <2>6. CASE p.avail # <<>>
    <3>1. Sound(Take(p, b)) /\ Take(p, b).state = [p.state EXCEPT ![b] = "user"]
      BY <2>1, <2>2, <2>3, <2>6, TakeSound
    <3>2. t.a = Take(p, b) /\ t.got = b /\ t = [a |-> t.a, got |-> t.got] /\ b # NoBucket
      BY <2>1, <2>4, <2>6, Constants
    <3>3. t \in Results /\ Sound(t.a)
      BY <2>1, <3>1, <3>2 DEF Results, SoundStates, Sound
    <3> QED
      BY <1>2, <2>1, <2>2, <3>1, <3>2, <3>3 DEF Took, t
  <2> QED
    BY <2>5, <2>6
<1> QED
  BY <1>1, <1>2

\* ... after which each group was short, has no list, or there is no open bucket.
Listless(r, S, wm) ==
  r.got = NoBucket =>
    \A g \in S : Short(r.a, g, wm) \/ r.a.list[g] = <<>> \/ r.a.avail = <<>>

ListPass(r, order, wm) == FoldLeft(LAMBDA q, g : FromList(q, g, wm), r, order)

LEMMA FirstPass ==
  ASSUME NEW wm, NEW none \in Results, none.got = NoBucket,
         NEW order \in Seq(Groups), \A g \in Groups : \E i \in 1..Len(order) : order[i] = g
  PROVE  LET r == ListPass(none, order, wm)
         IN /\ Took(none.a, r) /\ Listless(r, Groups, wm)
            /\ r.got = NoBucket => r.a.free = none.a.free /\ r.a.avail = none.a.avail
<1> DEFINE n == Len(order)
           P == [s \in SUBSET (1..n) |->
                   {r \in Results : /\ Took(none.a, r) /\ Listless(r, {order[i] : i \in s}, wm)
                                    /\ r.got = NoBucket => r.a.free = none.a.free /\ r.a.avail = none.a.avail}]
           G == [p \in (1..n) \X Results |-> FromList(p[2], order[p[1]], wm)]
           Eq(it) == it = [s \in SUBSET (1..n) |->
                        IF s = {} THEN none ELSE FromList(it[s \ {Max(s)}], order[Max(s)], wm)]
           iter == CHOOSE it : Eq(it)
<1>1. n \in Nat /\ DOMAIN order = 1..n /\ \A i \in 1..n : order[i] \in Groups
  OBVIOUS
<1>2. ListPass(none, order, wm) = iter[1..n]
  BY <1>1 DEF ListPass, FoldLeft, MapThenFoldSet
<1> HIDE DEF iter
<1>3. \E it : Eq(it)
  <2>1. \A i \in 1..n : \A v \in Results : G[<<i, v>>] \in Results /\ G[<<i, v>>] = FromList(v, order[i], wm)
    BY <1>1, FromListSound
  <2> HIDE DEF G
  <2>2. PICK it \in [SUBSET (1..n) -> Results] : Folding(it, SUBSET (1..n), none, G)
    BY <1>1, <2>1, FoldExists
  <2>3. \A s \in SUBSET (1..n) : s # {} => Max(s) \in 1..n /\ it[s \ {Max(s)}] \in Results
    BY <1>1, <2>2, PriorIsLess DEF Prior
  <2>4. \A s \in SUBSET (1..n) : s # {} => G[<<Max(s), it[Prior(s)]>>] = FromList(it[s \ {Max(s)}], order[Max(s)], wm)
    BY <2>1, <2>3 DEF Prior
  <2>5. Eq(it)
    BY <2>2, <2>4 DEF Folding
  <2> QED
    BY <2>5
<1>4. Eq(iter)
  BY <1>3 DEF iter
<1>5. iter[{}] \in P[{}]
  <2>1. iter[{}] = none
    BY <1>4
  <2>2. Took(none.a, none) /\ Listless(none, {order[i] : i \in {}}, wm)
    BY DEF Took, Listless
  <2> QED
    BY <2>1, <2>2
<1>6. ASSUME NEW s \in SUBSET (1..n), s # {}, iter[Prior(s)] \in P[Prior(s)] PROVE iter[s] \in P[s]
  <2> DEFINE r == iter[Prior(s)]
             g == order[Max(s)]
             t == FromList(r, g, wm)
  <2>1. Max(s) \in 1..n /\ Max(s) \in s /\ Prior(s) \in SUBSET (1..n) /\ s = Prior(s) \cup {Max(s)}
    BY <1>1, <1>6, PriorIsLess
  <2>2. iter[s] = t
    BY <1>4, <1>6 DEF Prior
  <2>3. /\ r \in Results /\ Took(none.a, r) /\ Listless(r, {order[i] : i \in Prior(s)}, wm)
        /\ r.got = NoBucket => r.a.free = none.a.free /\ r.a.avail = none.a.avail
    BY <1>6, <2>1
  <2>4. g \in Groups
    BY <1>1, <2>1
  <2> HIDE DEF r, g
  <2>5. /\ t \in Results
        /\ r.got # NoBucket => t = r
        /\ r.got = NoBucket =>
             /\ Took(r.a, t)
             /\ t.got = NoBucket =>
                  /\ t.a.free = r.a.free /\ t.a.avail = r.a.avail
                  /\ \/ Short(r.a, g, wm) /\ t = r
                     \/ t.a.list[g] = <<>> /\ t = r
                     \/ t.a.avail = <<>>
    BY <2>3, <2>4, FromListSound
  <2> HIDE DEF t
  <2>6. Took(none.a, t) /\ (t.got = NoBucket => t.a.free = none.a.free /\ t.a.avail = none.a.avail)
    BY <2>3, <2>5 DEF Took
  <2>7. {order[i] : i \in s} = {order[i] : i \in Prior(s)} \cup {g}
    BY <2>1 DEF g
  <2>8. Listless(t, {order[i] : i \in s}, wm)
    BY <2>3, <2>5, <2>7 DEF Listless
  <2> QED
    BY <2>2, <2>5, <2>6, <2>8
<1>7. iter[1..n] \in P[1..n]
  BY <1>1, <1>5, <1>6, FoldStays
<1>8. Groups \subseteq {order[i] : i \in 1..n}
  OBVIOUS
<1>9. 1..n \in SUBSET (1..n)
  OBVIOUS
<1>10. /\ Took(none.a, iter[1..n]) /\ Listless(iter[1..n], {order[i] : i \in 1..n}, wm)
       /\ iter[1..n].got = NoBucket => iter[1..n].a.free = none.a.free /\ iter[1..n].a.avail = none.a.avail
  BY <1>7, <1>9
<1>11. Listless(iter[1..n], Groups, wm)
  BY <1>8, <1>10 DEF Listless
<1> QED
  BY <1>2, <1>10, <1>11

\* ... and a pass over the buckets of each group, if the first was in vain.
Freeless(r, S, wm) ==
  r.got = NoBucket =>
    \A g \in S : Short(r.a, g, wm) \/ FreeOf(r.a.state, g) = {} \/ r.a.avail = <<>>

LEMMA FromScanSound ==
  ASSUME NEW r \in Results, NEW g \in Groups, NEW wm
  PROVE  LET t == FromScan(r, g, wm)
         IN /\ r.got # NoBucket => t = r
            /\ r.got = NoBucket =>
                 /\ Listless(r, Groups, wm) => Took(r.a, t)
                 /\ t.got = NoBucket => t = r /\ Freeless(r, {g}, wm)
<1> DEFINE t == FromScan(r, g, wm)
           free == {b \in Buckets : b[1] = g /\ r.a.state[b] = "free"}
           b == CHOOSE b \in free : \A c \in free : b[2] <= c[2]
<1>0. Sound(r.a) /\ r.a \in AllocStates /\ r.got \in Buckets \cup {NoBucket} /\ free = FreeOf(r.a.state, g)
  BY DEF Results, SoundStates, FreeOf
<1>1. CASE r.got # NoBucket \/ Short(r.a, g, wm) \/ free = {} \/ r.a.avail = <<>>
  <2>1. t = r
    BY <1>1 DEF FromScan
  <2> QED
    BY <1>0, <1>1, <2>1 DEF Took, Freeless
<1>2. CASE ~(r.got # NoBucket \/ Short(r.a, g, wm) \/ free = {} \/ r.a.avail = <<>>)
  <2>1. t = [a |-> Take(r.a, b), got |-> b]
    BY <1>2 DEF FromScan
  <2>2. b \in free
    <3>1. {c[2] : c \in free} \subseteq Nat /\ {c[2] : c \in free} # {}
      BY <1>2, Constants
    <3>2. \E k \in {c[2] : c \in free} : \A j \in {c[2] : c \in free} : k <= j
      BY <3>1, LeastNat
    <3> QED
      BY <3>2
  <2> HIDE DEF b, t
  <2>3. b \in Buckets /\ b[1] = g /\ r.a.state[b] = "free" /\ b # NoBucket
    BY <2>2, Constants
  <2>4. ASSUME Listless(r, Groups, wm) PROVE Took(r.a, t)
    <3>1. r.a.list[g] = <<>>
      BY <1>2, <2>4 DEF Listless
    <3>2. b[2] \notin Range(r.a.list[b[1]])
      BY <2>3, <3>1 DEF Range
    <3>3. Sound(Take(r.a, b)) /\ Take(r.a, b).state = [r.a.state EXCEPT ![b] = "user"]
      BY <1>0, <1>2, <2>3, <3>2, TakeSound
    <3> QED
      BY <2>1, <2>3, <3>3 DEF Took, Results, SoundStates, Sound
  <2> QED
    BY <1>2, <2>1, <2>3, <2>4 DEF t
<1> QED
  BY <1>1, <1>2

ScanPass(r, order, wm) == FoldLeft(LAMBDA q, g : FromScan(q, g, wm), r, order)

LEMMA SecondPass ==
  ASSUME NEW wm, NEW first \in Results, Listless(first, Groups, wm),
         NEW order \in Seq(Groups), \A g \in Groups : \E i \in 1..Len(order) : order[i] = g
  PROVE  LET r == ScanPass(first, order, wm)
         IN /\ first.got # NoBucket => r = first
            /\ first.got = NoBucket => Took(first.a, r) /\ Freeless(r, Groups, wm)
            /\ r.got = NoBucket => r = first
<1> DEFINE n == Len(order)
           R == {r \in Results : /\ first.got # NoBucket => r = first
                                 /\ first.got = NoBucket => Took(first.a, r)
                                 /\ r.got = NoBucket => r = first}
           P == [s \in SUBSET (1..n) |->
                   {r \in R : first.got = NoBucket => Freeless(r, {order[i] : i \in s}, wm)}]
           G == [p \in (1..n) \X R |-> FromScan(p[2], order[p[1]], wm)]
           Eq(it) == it = [s \in SUBSET (1..n) |->
                        IF s = {} THEN first ELSE FromScan(it[s \ {Max(s)}], order[Max(s)], wm)]
           iter == CHOOSE it : Eq(it)
<1>1. n \in Nat /\ DOMAIN order = 1..n /\ \A i \in 1..n : order[i] \in Groups
  OBVIOUS
<1>2. ScanPass(first, order, wm) = iter[1..n]
  BY <1>1 DEF ScanPass, FoldLeft, MapThenFoldSet
<1> HIDE DEF iter
<1>a. first \in R
  BY DEF Took
<1>b. ASSUME NEW r \in R, NEW g \in Groups
      PROVE  /\ FromScan(r, g, wm) \in R
             /\ r.got # NoBucket => FromScan(r, g, wm) = r
             /\ FromScan(r, g, wm).got = NoBucket => FromScan(r, g, wm) = r /\ Freeless(r, {g}, wm)
  <2>1. CASE r.got # NoBucket
    BY <2>1, FromScanSound
  <2>2. CASE r.got = NoBucket
    <3>1. r = first
      BY <2>2
    <3> QED
      BY <2>2, <3>1, FromScanSound DEF Took
  <2> QED
    BY <2>1, <2>2
<1> HIDE DEF R
<1>3. \E it : Eq(it)
  <2>1. \A i \in 1..n : \A v \in R : G[<<i, v>>] \in R /\ G[<<i, v>>] = FromScan(v, order[i], wm)
    BY <1>1, <1>b
  <2> HIDE DEF G
  <2>2. PICK it \in [SUBSET (1..n) -> R] : Folding(it, SUBSET (1..n), first, G)
    BY <1>1, <1>a, <2>1, FoldExists
  <2>3. \A s \in SUBSET (1..n) : s # {} => Max(s) \in 1..n /\ it[s \ {Max(s)}] \in R
    BY <1>1, <2>2, PriorIsLess DEF Prior
  <2>4. \A s \in SUBSET (1..n) : s # {} => G[<<Max(s), it[Prior(s)]>>] = FromScan(it[s \ {Max(s)}], order[Max(s)], wm)
    BY <2>1, <2>3 DEF Prior
  <2>5. Eq(it)
    BY <2>2, <2>4 DEF Folding
  <2> QED
    BY <2>5
<1>4. Eq(iter)
  BY <1>3 DEF iter
<1>5. iter[{}] \in P[{}]
  <2>1. iter[{}] = first
    BY <1>4
  <2> QED
    BY <1>a, <2>1 DEF Freeless
<1>6. ASSUME NEW s \in SUBSET (1..n), s # {}, iter[Prior(s)] \in P[Prior(s)] PROVE iter[s] \in P[s]
  <2> DEFINE r == iter[Prior(s)]
             g == order[Max(s)]
             t == FromScan(r, g, wm)
  <2>1. Max(s) \in 1..n /\ Max(s) \in s /\ Prior(s) \in SUBSET (1..n) /\ s = Prior(s) \cup {Max(s)}
    BY <1>1, <1>6, PriorIsLess
  <2>2. iter[s] = t
    BY <1>4, <1>6 DEF Prior
  <2>3. r \in R /\ (first.got = NoBucket => Freeless(r, {order[i] : i \in Prior(s)}, wm))
    BY <1>6, <2>1
  <2>4. g \in Groups
    BY <1>1, <2>1
  <2> HIDE DEF r, g
  <2>5. /\ t \in R /\ (r.got # NoBucket => t = r)
        /\ t.got = NoBucket => t = r /\ Freeless(r, {g}, wm)
    BY <2>3, <2>4, <1>b
  <2> HIDE DEF t
  <2>7. {order[i] : i \in s} = {order[i] : i \in Prior(s)} \cup {g}
    BY <2>1 DEF g
  <2>8. first.got = NoBucket => Freeless(t, {order[i] : i \in s}, wm)
    BY <2>3, <2>5, <2>7 DEF Freeless
  <2> QED
    BY <2>2, <2>5, <2>8
<1>7. iter[1..n] \in P[1..n]
  BY <1>1, <1>5, <1>6, FoldStays
<1>8. Groups \subseteq {order[i] : i \in 1..n} /\ 1..n \in SUBSET (1..n)
  OBVIOUS
<1>9. iter[1..n] \in R /\ (first.got = NoBucket => Freeless(iter[1..n], {order[i] : i \in 1..n}, wm))
  BY <1>7, <1>8
<1>10. first.got = NoBucket => Freeless(iter[1..n], Groups, wm)
  BY <1>8, <1>9 DEF Freeless
<1> QED
  BY <1>2, <1>9, <1>10 DEF R

\* An allocation takes a free bucket.  If it takes none there is no open bucket to be
\* had or each group is short.
LEMMA AllocBucketSound ==
  ASSUME NEW a, Sound(a), NEW wm \in {"normal", "btree"}
  PROVE  /\ Took(a, AllocBucket(a, wm))
         /\ AllocBucket(a, wm).got = NoBucket => a.avail = <<>> \/ \A g \in Groups : Short(a, g, wm)
<1> DEFINE start == a.hint + Prio[wm]
           order == [i \in 1..NGroups |-> (start + i - 1) % NGroups]
           none == [a |-> [a EXCEPT !.hint = (@ + 1) % NGroups], got |-> NoBucket]
           first == ListPass(none, order, wm)
           second == ScanPass(first, order, wm)
<1>1. AllocBucket(a, wm) = second
  BY DEF AllocBucket, ListPass, ScanPass
<1>2. a \in AllocStates /\ a.hint \in Nat /\ Prio[wm] \in Nat /\ start \in Nat
  BY Constants DEF Sound, AllocStates, Groups, Prio
<1>3. order \in Seq(Groups) /\ Len(order) = NGroups /\ \A g \in Groups : \E i \in 1..NGroups : order[i] = g
  BY <1>2, OrderCovers
<1>4. none.a = [a EXCEPT !.hint = (@ + 1) % NGroups] /\ (a.hint + 1) % NGroups \in Groups
  BY <1>2, Constants DEF Groups
<1>5. /\ none.a \in AllocStates /\ none.a.state = a.state /\ none.a.list = a.list /\ none.a.free = a.free
      /\ none.a.allocated = a.allocated /\ none.a.entry = a.entry /\ none.a.avail = a.avail
  BY <1>2, <1>4 DEF AllocStates
<1>6. Sound(none.a)
  BY <1>5 DEF Sound, ListsSound, CountsSound, PoolSound
<1>7. none \in Results /\ none.got = NoBucket
  BY <1>6 DEF Results, SoundStates, Sound
<1>b. \A g \in Groups : \E i \in 1..Len(order) : order[i] = g
  BY <1>3
<1> HIDE DEF order, none
<1>8. /\ Took(none.a, first) /\ Listless(first, Groups, wm)
      /\ first.got = NoBucket => first.a.free = none.a.free /\ first.a.avail = none.a.avail
  BY <1>3, <1>b, <1>7, FirstPass
<1> HIDE DEF first
<1>9. /\ first.got # NoBucket => second = first
      /\ first.got = NoBucket => Took(first.a, second) /\ Freeless(second, Groups, wm)
      /\ second.got = NoBucket => second = first
  <2>1. first \in Results
    BY <1>8 DEF Took
  <2> QED
    BY <1>3, <1>b, <1>8, <2>1, SecondPass
<1> HIDE DEF second
<1>10. Took(a, second)
  BY <1>5, <1>8, <1>9 DEF Took
<1>11. ASSUME second.got = NoBucket, a.avail # <<>>, NEW g \in Groups PROVE Short(a, g, wm)
  <2>1. second = first /\ second.a.free = a.free /\ second.a.avail = a.avail /\ second.a.state = a.state
    BY <1>5, <1>8, <1>9, <1>10, <1>11 DEF Took
  <2>2. Short(second.a, g, wm) <=> Short(a, g, wm)
    BY <2>1 DEF Short, NrOpen
  <2>3. Short(second.a, g, wm) \/ FreeOf(a.state, g) = {}
    BY <1>9, <1>11, <2>1 DEF Freeless
  <2>4. ASSUME FreeOf(a.state, g) = {} PROVE Short(a, g, wm)
    <3>1. a.free[g] = 0
      BY <2>4, FS_EmptySet DEF Sound, CountsSound
    <3>2. Reserved(wm) \in Nat
      BY Constants, ConstantAssumption DEF Reserved
    <3>3. NrOpen(a) \in Nat
      <4>0. PICK q \in Seq(1..PoolSize) : q = a.avail
        BY <1>2 DEF AllocStates
      <4>1. Len(q) \in Nat /\ q \in [1..Len(q) -> 1..PoolSize]
        BY SeqIsFunction
      <4>2. q \in Injection(1..Len(q), 1..PoolSize)
        BY <4>0, <4>1 DEF Injection, Sound, PoolSound
      <4>3. \A k \in Nat : IsFiniteSet(1..k) /\ Cardinality(1..k) = k
        BY UpToIsFinite
      <4>4. Len(q) <= PoolSize
        BY <4>1, <4>2, <4>3, Constants, FS_Injection
      <4> QED
        BY <4>0, <4>1, <4>4, Constants DEF NrOpen
    <3>4. NrOpen(a) \div NGroups \in Nat
      BY <3>3, Constants
    <3> QED
      BY <3>1, <3>2, <3>4 DEF Short
  <2> QED
    BY <2>2, <2>3, <2>4
<1> QED
  BY <1>1, <1>10, <1>11

-----------------------------------------------------------------------------
(* Several allocations, and a new allocator. *)

\* Up to four attempts.
LEMMA AllocSectorsSound ==
  ASSUME NEW a, Sound(a), NEW wm \in {"normal", "btree"}
  PROVE  Took(a, AllocSectors(a, wm))
<1> DEFINE n == 3
           R == {r \in Results : Took(a, r)}
           first == AllocBucket(a, wm)
           Again(r) == IF r.got # NoBucket THEN r ELSE AllocBucket(r.a, wm)
           P == [s \in SUBSET (1..n) |-> R]
           G == [p \in (1..n) \X R |-> Again(p[2])]
           Eq(it) == it = [s \in SUBSET (1..n) |-> IF s = {} THEN first ELSE Again(it[s \ {Max(s)}])]
           iter == CHOOSE it : Eq(it)
<1>1. DOMAIN <<1, 2, 3>> = 1..3 /\ n \in Nat
  OBVIOUS
<1>2. AllocSectors(a, wm) = iter[1..n]
  BY <1>1 DEF AllocSectors, FoldLeft, MapThenFoldSet
<1> HIDE DEF iter, n
<1>a. first \in R
  BY AllocBucketSound DEF Took
<1> HIDE DEF first
<1>b. ASSUME NEW r \in R PROVE Again(r) \in R
  <2>1. CASE r.got # NoBucket
    BY <2>1
  <2>2. CASE r.got = NoBucket
    <3>1. Sound(r.a) /\ r.a.state = a.state
      BY <2>2 DEF Took, Results, SoundStates
    <3>2. Took(r.a, AllocBucket(r.a, wm))
      BY <3>1, AllocBucketSound
    <3> QED
      BY <2>2, <3>1, <3>2 DEF Took
  <2> QED
    BY <2>1, <2>2
<1> HIDE DEF R, Again
<1>3. \E it : Eq(it)
  <2>1. \A i \in 1..n : \A v \in R : G[<<i, v>>] \in R /\ G[<<i, v>>] = Again(v)
    BY <1>b
  <2> HIDE DEF G
  <2>2. PICK it \in [SUBSET (1..n) -> R] : Folding(it, SUBSET (1..n), first, G)
    BY <1>1, <1>a, <2>1, FoldExists
  <2>3. \A s \in SUBSET (1..n) : s # {} => Max(s) \in 1..n /\ it[s \ {Max(s)}] \in R
    BY <1>1, <2>2, PriorIsLess DEF Prior
  <2>4. \A s \in SUBSET (1..n) : s # {} => G[<<Max(s), it[Prior(s)]>>] = Again(it[s \ {Max(s)}])
    BY <2>1, <2>3 DEF Prior
  <2>5. Eq(it)
    BY <2>2, <2>4 DEF Folding
  <2> QED
    BY <2>5
<1>4. Eq(iter)
  BY <1>3 DEF iter
<1>5. iter[{}] \in P[{}]
  BY <1>4, <1>a
<1>6. ASSUME NEW s \in SUBSET (1..n), s # {}, iter[Prior(s)] \in P[Prior(s)] PROVE iter[s] \in P[s]
  <2>1. Prior(s) \in SUBSET (1..n)
    BY <1>1, <1>6, PriorIsLess
  <2>2. iter[s] = Again(iter[Prior(s)])
    BY <1>4, <1>6 DEF Prior
  <2> QED
    BY <1>6, <1>b, <2>1, <2>2
<1>7. iter[1..n] \in P[1..n]
  BY <1>1, <1>5, <1>6, FoldStays
<1>8. 1..n \in SUBSET (1..n)
  OBVIOUS
<1> QED
  BY <1>2, <1>7, <1>8 DEF R

\* What the allocations up to the first that fails have got is in use.
SeveralResults == [a : SoundStates, failed : BOOLEAN, got : SUBSET Buckets]

LEMMA AllocBucketsSound ==
  ASSUME NEW a, Sound(a), NEW n \in Nat, NEW wm \in {"normal", "btree"}
  PROVE  LET r == AllocBuckets(a, n, wm)
         IN /\ r \in SeveralResults
            /\ \A b \in Buckets : r.a.state[b] = IF b \in r.got THEN "user" ELSE a.state[b]
<1> DEFINE R == {r \in SeveralResults :
                   \A b \in Buckets : r.a.state[b] = IF b \in r.got THEN "user" ELSE a.state[b]}
           none == [a |-> a, failed |-> FALSE, got |-> {}]
           More(r) == IF r.failed THEN r
                      ELSE LET s == AllocBucket(r.a, wm)
                           IN [a |-> s.a, failed |-> s.got = NoBucket,
                               got |-> r.got \union ({s.got} \ {NoBucket})]
           P == [s \in SUBSET (1..n) |-> R]
           G == [p \in (1..n) \X R |-> More(p[2])]
           Eq(it) == it = [s \in SUBSET (1..n) |-> IF s = {} THEN none ELSE More(it[s \ {Max(s)}])]
           iter == CHOOSE it : Eq(it)
<1>1. DOMAIN [i \in 1..n |-> i] = 1..n
  OBVIOUS
<1>2. AllocBuckets(a, n, wm) = iter[1..n]
  BY <1>1 DEF AllocBuckets, FoldLeft, MapThenFoldSet
<1> HIDE DEF iter
<1>a. none \in R
  BY DEF SeveralResults, SoundStates, Sound
<1> HIDE DEF none
<1>b. ASSUME NEW r \in R PROVE More(r) \in R
  <2>1. CASE r.failed
    BY <2>1
  <2>2. CASE ~r.failed
    <3> DEFINE s == AllocBucket(r.a, wm)
    <3>1. Sound(r.a) /\ r.a.state \in [Buckets -> States] /\ r.got \in SUBSET Buckets
      BY DEF SeveralResults, SoundStates, AllocStates
    <3>2. Took(r.a, s)
      BY <3>1, AllocBucketSound
    <3>3. More(r) = [a |-> s.a, failed |-> s.got = NoBucket, got |-> r.got \union ({s.got} \ {NoBucket})]
      BY <2>2
    <3> HIDE DEF s, More
    <3>4. s.a \in SoundStates /\ s.got \in Buckets \cup {NoBucket}
      BY <3>2 DEF Took, Results
    <3>5. (s.got = NoBucket) \in BOOLEAN /\ (r.got \union ({s.got} \ {NoBucket})) \in SUBSET Buckets
      BY <3>1, <3>4
    <3>6. \A b \in Buckets : s.a.state[b] = IF b = s.got THEN "user" ELSE r.a.state[b]
      BY <3>1, <3>2, <3>4, Constants DEF Took
    <3>7. \A b \in Buckets : b \in r.got \union ({s.got} \ {NoBucket}) <=> b \in r.got \/ b = s.got
      BY Constants
    <3>8. \A b \in Buckets : s.a.state[b] =
             IF b \in r.got \union ({s.got} \ {NoBucket}) THEN "user" ELSE a.state[b]
      BY <3>6, <3>7
    <3> QED
      BY <3>3, <3>4, <3>5, <3>8 DEF SeveralResults
  <2> QED
    BY <2>1, <2>2
<1> HIDE DEF R, More
<1>3. \E it : Eq(it)
  <2>1. \A i \in 1..n : \A v \in R : G[<<i, v>>] \in R /\ G[<<i, v>>] = More(v)
    BY <1>b
  <2> HIDE DEF G
  <2>2. PICK it \in [SUBSET (1..n) -> R] : Folding(it, SUBSET (1..n), none, G)
    BY <1>1, <1>a, <2>1, FoldExists
  <2>3. \A s \in SUBSET (1..n) : s # {} => Max(s) \in 1..n /\ it[s \ {Max(s)}] \in R
    BY <1>1, <2>2, PriorIsLess DEF Prior
  <2>4. \A s \in SUBSET (1..n) : s # {} => G[<<Max(s), it[Prior(s)]>>] = More(it[s \ {Max(s)}])
    BY <2>1, <2>3 DEF Prior
  <2>5. Eq(it)
    BY <2>2, <2>4 DEF Folding
  <2> QED
    BY <2>5
<1>4. Eq(iter)
  BY <1>3 DEF iter
<1>5. iter[{}] \in P[{}]
  BY <1>4, <1>a
<1>6. ASSUME NEW s \in SUBSET (1..n), s # {}, iter[Prior(s)] \in P[Prior(s)] PROVE iter[s] \in P[s]
  <2>1. Prior(s) \in SUBSET (1..n)
    BY <1>1, <1>6, PriorIsLess
  <2>2. iter[s] = More(iter[Prior(s)])
    BY <1>4, <1>6 DEF Prior
  <2> QED
    BY <1>6, <1>b, <2>1, <2>2
<1>7. iter[1..n] \in P[1..n]
  BY <1>1, <1>5, <1>6, FoldStays
<1>8. 1..n \in SUBSET (1..n)
  OBVIOUS
<1> QED
  BY <1>2, <1>7, <1>8 DEF R

LEMMA NewSound == Sound(New)
<1>1. New \in AllocStates
  <2>1. [i \in 1..GroupSize |-> i - 1] \in Seq(0..(GroupSize - 1))
    BY Constants
  <2>2. [i \in 1..PoolSize |-> i] \in Seq(1..PoolSize)
    BY Constants
  <2>3. 0 \in Groups /\ GroupSize \in Int /\ "free" \in States
    BY Constants DEF Groups, States
  <2> QED
    BY <2>1, <2>2, <2>3 DEF New, AllocStates
<1>2. ListsSound(New)
  <2> SUFFICES ASSUME NEW g \in Groups
               PROVE  /\ IsInjective(New.list[g])
                      /\ \A i \in Range(New.list[g]) : New.state[<<g, i>>] = "free"
    BY DEF ListsSound
  <2>1. New.list[g] = [i \in 1..GroupSize |-> i - 1] /\ New.state = [b \in Buckets |-> "free"]
    BY DEF New
  <2>2. IsInjective(New.list[g]) /\ Range(New.list[g]) \subseteq 0..(GroupSize - 1)
    BY <2>1, Constants DEF IsInjective, Range
  <2> QED
    BY <2>1, <2>2, Constants
<1>3. CountsSound(New)
  <2>1. New.state = [b \in Buckets |-> "free"] /\ New.allocated = 0
    BY DEF New
  <2>2. NotFree(New.state) = {}
    BY <2>1 DEF NotFree
  <2>3. ASSUME NEW g \in Groups PROVE Cardinality(FreeOf(New.state, g)) = GroupSize
    <3> DEFINE f == [i \in 1..GroupSize |-> <<g, i - 1>>]
    <3>1. \A i \in 1..GroupSize : i - 1 \in 0..(GroupSize - 1)
      BY Constants
    <3>2. \A b \in FreeOf(New.state, g) : b[2] + 1 \in 1..GroupSize /\ b = <<g, (b[2] + 1) - 1>>
      BY Constants DEF FreeOf
    <3>3. f \in [1..GroupSize -> FreeOf(New.state, g)]
      BY <2>1, <3>1, Constants DEF FreeOf
    <3>a. IsInjective(f)
      BY DEF IsInjective
    <3>b. \A b \in FreeOf(New.state, g) : \E i \in 1..GroupSize : f[i] = b
      BY <3>2
    <3> HIDE DEF f
    <3>4. f \in Bijection(1..GroupSize, FreeOf(New.state, g))
      BY <3>3, <3>a, <3>b DEF Bijection, Injection, Surjection
    <3>5. IsFiniteSet(1..GroupSize) /\ Cardinality(1..GroupSize) = GroupSize
      BY Constants, UpToIsFinite
    <3> QED
      BY <3>4, <3>5, FS_Bijection DEF ExistsBijection
  <2>4. New.free = [g \in Groups |-> GroupSize]
    BY DEF New
  <2> QED
    BY <2>1, <2>2, <2>3, <2>4, FS_EmptySet DEF CountsSound
<1>4. PoolSound(New)
  <2>1. New.entry = [i \in 1..PoolSize |-> NoBucket] /\ New.avail = [i \in 1..PoolSize |-> i]
    BY DEF New
  <2> QED
    BY <2>1 DEF PoolSound, IsInjective, Range
<1> QED
  BY <1>1, <1>2, <1>3, <1>4 DEF Sound

-----------------------------------------------------------------------------
(* The allocator that a mount reads. *)

LEMMA FreeListSound ==
  ASSUME info \in [Buckets -> States], NEW g \in Groups
  PROVE  /\ FreeList(g) \in Seq(0..(GroupSize - 1)) /\ IsInjective(FreeList(g))
         /\ Range(FreeList(g)) = {i \in 0..(GroupSize - 1) : info[<<g, i>>] = "free"}
<1> DEFINE n == GroupSize
           down == [i \in 1..GroupSize |-> i - 1]
           R == Seq(0..(n - 1))
           Push(l, i) == IF info[<<g, i>>] = "free" THEN <<i>> \o l ELSE l
           FreeAt(s) == {i \in 0..(n - 1) : i + 1 \in s /\ info[<<g, i>>] = "free"}
           P == [s \in SUBSET (1..n) |-> {l \in R : IsInjective(l) /\ Range(l) = FreeAt(s)}]
           G == [p \in (1..n) \X R |-> Push(p[2], p[1] - 1)]
           Eq(it) == it = [s \in SUBSET (1..n) |->
                        IF s = {} THEN <<>> ELSE Push(it[s \ {Max(s)}], down[Max(s)])]
           iter == CHOOSE it : Eq(it)
<1>1. n \in Nat /\ DOMAIN down = 1..n /\ \A i \in 1..n : i - 1 \in 0..(n - 1) /\ down[i] = i - 1
  BY Constants
<1>2. FreeList(g) = iter[1..n]
  BY <1>1 DEF FreeList, FoldLeft, MapThenFoldSet
<1> HIDE DEF iter, n, down
<1>a. <<>> \in R /\ IsInjective(<<>>) /\ Range(<<>>) = {}
  BY DEF IsInjective, Range
<1>b. ASSUME NEW l \in R, NEW i \in 0..(n - 1) PROVE Push(l, i) \in R
  <2>1. <<i>> \in R
    OBVIOUS
  <2>2. <<i>> \o l \in R
    BY <2>1
  <2> QED
    BY <2>2
<1>3. \E it : Eq(it)
  <2>1. \A i \in 1..n : \A v \in R : G[<<i, v>>] \in R /\ G[<<i, v>>] = Push(v, down[i])
    BY <1>1, <1>b
  <2> HIDE DEF G, R, Push
  <2>2. PICK it \in [SUBSET (1..n) -> R] : Folding(it, SUBSET (1..n), <<>>, G)
    BY <1>1, <1>a, <2>1, FoldExists
  <2>3. \A s \in SUBSET (1..n) : s # {} => Max(s) \in 1..n /\ it[s \ {Max(s)}] \in R
    BY <1>1, <2>2, PriorIsLess DEF Prior
  <2>4. \A s \in SUBSET (1..n) : s # {} => G[<<Max(s), it[Prior(s)]>>] = Push(it[s \ {Max(s)}], down[Max(s)])
    BY <2>1, <2>3 DEF Prior
  <2>5. Eq(it)
    BY <2>2, <2>4 DEF Folding
  <2> QED
    BY <2>5
<1>4. Eq(iter)
  BY <1>3 DEF iter
<1>5. iter[{}] \in P[{}]
  BY <1>4, <1>a
<1>6. ASSUME NEW s \in SUBSET (1..n), s # {}, iter[Prior(s)] \in P[Prior(s)] PROVE iter[s] \in P[s]
  <2> DEFINE l == iter[Prior(s)]
             i == Max(s) - 1
  <2>1. Max(s) \in 1..n /\ Max(s) \in s /\ Prior(s) \in SUBSET (1..n) /\ s = Prior(s) \cup {Max(s)}
    BY <1>1, <1>6, PriorIsLess
  <2>2. iter[s] = Push(l, i)
    BY <1>1, <1>4, <1>6, <2>1 DEF Prior
  <2>3. l \in R /\ IsInjective(l) /\ Range(l) = FreeAt(Prior(s))
    BY <1>6, <2>1
  <2>4. i \in 0..(n - 1) /\ i + 1 = Max(s) /\ Max(s) \notin Prior(s)
    BY <1>1, <2>1 DEF Prior
  <2> HIDE DEF l, i
  <2>5. CASE info[<<g, i>>] = "free"
    <3>1. iter[s] = <<i>> \o l
      BY <2>2, <2>5
    <3>2. i \notin Range(l)
      BY <2>3, <2>4
    <3>3. <<i>> \o l \in R /\ IsInjective(<<i>> \o l) /\ Range(<<i>> \o l) = Range(l) \cup {i}
      <4>1. PICK q \in R : q = l
        BY <2>3
      <4>2. PICK j \in 0..(n - 1) : j = i
        BY <2>4
      <4>3. IsInjective(q) /\ j \notin Range(q)
        BY <2>3, <3>2, <4>1, <4>2
      <4>4. <<j>> \o q \in R /\ IsInjective(<<j>> \o q) /\ Range(<<j>> \o q) = Range(q) \cup {j}
        <5> DEFINE S == 0..(n - 1)
        <5>1. q \in Seq(S) /\ j \in S
          OBVIOUS
        <5> HIDE DEF P, G, R, FreeAt, Push, Eq, S
        <5>2. <<j>> \o q \in Seq(S) /\ IsInjective(<<j>> \o q) /\ Range(<<j>> \o q) = Range(q) \cup {j}
          BY <4>3, <5>1, Pushed
        <5> QED
          BY <5>2 DEF R, S
      <4> QED
        BY <4>1, <4>2, <4>4
    <3>4. FreeAt(s) = FreeAt(Prior(s)) \cup {i}
      BY <2>1, <2>4, <2>5
    <3> QED
      BY <2>3, <3>1, <3>3, <3>4
  <2>6. CASE info[<<g, i>>] # "free"
    <3>1. iter[s] = l
      BY <2>2, <2>6
    <3>2. \A j \in 0..(n - 1) : j + 1 = Max(s) => j = i
      BY <1>1, <2>1, <2>4
    <3>3. FreeAt(s) = FreeAt(Prior(s))
      BY <2>1, <2>6, <3>2
    <3> QED
      BY <2>3, <3>1, <3>3
  <2> QED
    BY <2>5, <2>6
<1>7. iter[1..n] \in P[1..n]
  BY <1>1, <1>5, <1>6, FoldStays
<1>8. 1..n \in SUBSET (1..n)
  OBVIOUS
<1>9. FreeAt(1..n) = {i \in 0..(n - 1) : info[<<g, i>>] = "free"}
  BY <1>1
<1> QED
  BY <1>2, <1>7, <1>8, <1>9 DEF n

LEMMA ReadSound ==
  ASSUME info \in [Buckets -> States]
  PROVE  Sound(AllocRead) /\ AllocRead.state = info /\ AllocRead.avail = New.avail
<1> DEFINE t == AllocRead
<1>0. New \in AllocStates /\ PoolSound(New)
  BY NewSound DEF Sound
<1>1. \A g \in Groups : FreeList(g) \in Seq(0..(GroupSize - 1)) /\ Len(FreeList(g)) \in Nat
  BY FreeListSound
<1>2. Cardinality(NotFree(info)) \in Nat /\ NotFree(info) = {b \in Buckets : info[b] # "free"}
  BY FreeFinite DEF NotFree
<1>a. t = [New EXCEPT !.state = info, !.list = [g \in Groups |-> FreeList(g)],
                      !.free = [g \in Groups |-> Len(FreeList(g))],
                      !.allocated = Cardinality(NotFree(info))]
  BY <1>2 DEF AllocRead
<1> HIDE DEF t
<1>b. /\ [g \in Groups |-> FreeList(g)] \in [Groups -> Seq(0..(GroupSize - 1))]
      /\ [g \in Groups |-> Len(FreeList(g))] \in [Groups -> Int]
      /\ Cardinality(NotFree(info)) \in Int
  BY <1>1, <1>2
<1>3. /\ t.state = info /\ t.list = [g \in Groups |-> FreeList(g)]
      /\ t.free = [g \in Groups |-> Len(FreeList(g))]
      /\ t.allocated = Cardinality(NotFree(info)) /\ t.entry = New.entry /\ t.avail = New.avail
      /\ t \in AllocStates
  BY <1>0, <1>a, <1>b DEF AllocStates
<1> HIDE DEF t
<1>4. ListsSound(t)
  BY <1>3, FreeListSound DEF ListsSound
<1>5. CountsSound(t)
  <2>1. ASSUME NEW g \in Groups PROVE Cardinality(FreeOf(info, g)) = Len(FreeList(g))
    <3>1. PICK l \in Seq(0..(GroupSize - 1)) : l = FreeList(g)
      BY FreeListSound
    <3>2. IsInjective(l) /\ Range(l) = {i \in 0..(GroupSize - 1) : info[<<g, i>>] = "free"}
      BY <3>1, FreeListSound
    <3>3. Len(l) \in Nat /\ l \in [1..Len(l) -> 0..(GroupSize - 1)]
      BY SeqIsFunction
    <3> DEFINE f == [k \in 1..Len(l) |-> <<g, l[k]>>]
    <3>4. \A k \in 1..Len(l) : l[k] \in 0..(GroupSize - 1) /\ info[<<g, l[k]>>] = "free"
      BY <3>2, <3>3 DEF Range
    <3>5. f \in [1..Len(l) -> FreeOf(info, g)]
      BY <3>4, Constants DEF FreeOf
    <3>6. IsInjective(f)
      BY <3>2, <3>3 DEF IsInjective
    <3>7. ASSUME NEW b \in FreeOf(info, g) PROVE \E k \in 1..Len(l) : f[k] = b
      <4>1. b[1] = g /\ b = <<g, b[2]>> /\ b[2] \in Range(l)
        BY <3>2, Constants DEF FreeOf
      <4>2. PICK k \in 1..Len(l) : l[k] = b[2]
        BY <3>3, <4>1 DEF Range
      <4> QED
        BY <4>1, <4>2
    <3> HIDE DEF f
    <3>8. f \in Bijection(1..Len(l), FreeOf(info, g))
      BY <3>5, <3>6, <3>7 DEF Bijection, Injection, Surjection
    <3>9. IsFiniteSet(1..Len(l)) /\ Cardinality(1..Len(l)) = Len(l)
      BY <3>3, UpToIsFinite
    <3> QED
      BY <3>1, <3>8, <3>9, FS_Bijection DEF ExistsBijection
  <2> QED
    BY <1>3, <2>1 DEF CountsSound
<1>6. PoolSound(t)
  BY <1>0, <1>3 DEF PoolSound, New
<1> QED
  BY <1>3, <1>4, <1>5, <1>6 DEF Sound, t

LEMMA ReadLists ==
  ASSUME info \in [Buckets -> States]
  PROVE  AllocRead.list = [g \in Groups |-> FreeList(g)]
BY DEF AllocRead, New

-----------------------------------------------------------------------------
(* The allocator and its callers. *)

HeldBy(b) == (\E v \in VAddrs : extents[v] = b) \/ b \in meta \/ b \in journal \/ b = op.bucket

\* What the Alloc btree may say of a bucket: marks appear with the first mount.
Records == States \cup {"sb", "journal"}

VolumeTypes ==
  /\ info \in [Buckets -> Records] /\ extents \in [VAddrs -> Buckets \cup {NoBucket}]
  /\ meta \in SUBSET Buckets /\ journal \in SUBSET Buckets /\ mounted \in BOOLEAN
  /\ op \in [pc : {"create", "failed", "idle", "write", "free"}, bucket : Buckets \cup {NoBucket},
             vaddr : VAddrs \cup {NoBucket}]

\* Where the task stands, and what that says of its bucket.
OpInv ==
  /\ op.pc \in {"create", "failed", "idle"} <=> op.bucket = NoBucket
  /\ op.pc = "write" => op.vaddr \in VAddrs
  /\ op.pc \in {"create", "failed"} => \A v \in VAddrs : extents[v] = NoBucket
  /\ op.pc = "create" => meta = {} /\ journal = {} /\ ~mounted

Dead == {"free", "discard"}

\* A bucket that somebody has is in use.
HeldInv == \A b \in Buckets : HeldBy(b) => al.state[b] \notin Dead

\* The Alloc btree and the allocator agree, but for the bucket that a deletion is
\* about to free.
AgreeInv ==
  \A b \in Buckets :
    \/ info[b] = al.state[b]
    \/ op.pc = "free" /\ b = op.bucket /\ info[b] = "free"

OwnInv ==
  /\ \A v, w \in VAddrs : v # w /\ extents[v] # NoBucket => extents[v] # extents[w]
  /\ \A v \in VAddrs : extents[v] # NoBucket => extents[v] # op.bucket
  /\ \A b \in meta \cup journal : b # op.bucket /\ \A v \in VAddrs : extents[v] # b
  /\ meta \cap journal = {}

\* What holds until the first mount; the rest holds always.
FirstLife == HeldInv /\ AgreeInv /\ OwnInv

AllocInv == Sound(al) /\ VolumeTypes /\ OpInv /\ (~mounted => FirstLife)

LEMMA InitInv == Init => AllocInv
<1> SUFFICES ASSUME Init PROVE AllocInv
  OBVIOUS
<1> USE DEF Init
<1>1. Sound(al)
  BY NewSound
<1>2. op = [pc |-> "create", bucket |-> NoBucket, vaddr |-> NoBucket]
  BY DEF Idle
<1>3. VolumeTypes
  <2>1. /\ info \in [Buckets -> Records] /\ extents \in [VAddrs -> Buckets \cup {NoBucket}]
        /\ meta \in SUBSET Buckets /\ journal \in SUBSET Buckets /\ mounted \in BOOLEAN
    BY DEF Records, States
  <2> HIDE DEF Init
  <2>2. op \in [pc : {"create", "failed", "idle", "write", "free"}, bucket : Buckets \cup {NoBucket},
                vaddr : VAddrs \cup {NoBucket}]
    BY <1>2
  <2> QED
    BY <2>1, <2>2 DEF VolumeTypes
<1>4. OpInv /\ HeldInv /\ OwnInv
  BY <1>2, Constants DEF OpInv, HeldInv, HeldBy, OwnInv
<1>5. AgreeInv
  BY DEF AgreeInv, New
<1> QED
  BY <1>1, <1>3, <1>4, <1>5 DEF AllocInv, FirstLife

\* An allocation gives out a bucket that was free and takes nothing from anybody.
LEMMA GivesOut ==
  ASSUME Sound(al), NEW r, Took(al, r)
  PROVE  /\ Sound(r.a) /\ r.got \in Buckets \cup {NoBucket}
         /\ r.got # NoBucket => al.state[r.got] = "free"
         /\ \A b \in Buckets : r.a.state[b] = IF b = r.got THEN "user" ELSE al.state[b]
         /\ Got(r) \in SUBSET Buckets /\ \A b \in Buckets : b \in Got(r) <=> b = r.got
<1>1. al.state \in [Buckets -> States]
  BY DEF Sound, AllocStates
<1>2. Sound(r.a) /\ r.got \in Buckets \cup {NoBucket}
  BY DEF Took, Results, SoundStates
<1> QED
  BY <1>1, <1>2, Constants DEF Took, Got

LEMMA Record ==
  ASSUME VolumeTypes, NEW S, NEW st \in States
  PROVE  /\ Recorded(S, st) \in [Buckets -> Records]
         /\ \A b \in Buckets : Recorded(S, st)[b] = IF b \in S THEN st ELSE info[b]
BY DEF Recorded, VolumeTypes, Records

LEMMA StepInv == AllocInv /\ [Next]_vars => AllocInv'
<1> SUFFICES ASSUME AllocInv, [Next]_vars PROVE AllocInv'
  OBVIOUS
<1>0. Sound(al) /\ VolumeTypes /\ OpInv /\ (~mounted => HeldInv /\ AgreeInv /\ OwnInv)
  BY DEF AllocInv, FirstLife
<1>s. "user" \in States /\ "free" \in States /\ "discard" \in States
  BY DEF States
<1>t. al.state \in [Buckets -> States]
  BY <1>0 DEF Sound, AllocStates
<1>i. op = Idle => op.pc = "idle" /\ op.bucket = NoBucket
  BY DEF Idle
<1>w. \A wm \in DOMAIN Reserve : wm \in {"normal", "btree"}
  BY ConstantAssumption
<1>1. CASE CreateJournal
  <2> DEFINE r == AllocBuckets(al, JournalBuckets, "normal")
  <2>1. /\ r \in SeveralResults
        /\ \A b \in Buckets : r.a.state[b] = IF b \in r.got THEN "user" ELSE al.state[b]
    BY <1>0, Constants, AllocBucketsSound
  <2>2. /\ op.pc = "create" /\ al' = r.a /\ info' = Recorded(r.got, "user") /\ journal' = r.got
        /\ op' = (IF r.failed THEN [op EXCEPT !.pc = "failed"] ELSE Idle)
        /\ extents' = extents /\ meta' = meta /\ mounted' = mounted
    BY <1>1 DEF CreateJournal
  <2> HIDE DEF r
  <2>3. /\ op.bucket = NoBucket /\ \A v \in VAddrs : extents[v] = NoBucket
        /\ meta = {} /\ journal = {} /\ ~mounted
    BY <1>0, <2>2 DEF OpInv
  <2>4. op'.bucket = NoBucket /\ op'.pc \in {"failed", "idle"}
    BY <1>0, <2>2, <2>3 DEF Idle, VolumeTypes
  <2>5. Sound(al') /\ r.got \in SUBSET Buckets
    BY <2>1, <2>2 DEF SeveralResults, SoundStates
  <2>6. VolumeTypes'
    BY <1>0, <1>s, <2>2, <2>5, Record DEF VolumeTypes, Idle
  <2>7. OpInv'
    BY <2>2, <2>3, <2>4 DEF OpInv
  <2>8. \A b \in Buckets : HeldBy(b)' => b \in r.got
    BY <2>2, <2>3, <2>4, Constants DEF HeldBy
  <2>9. HeldInv'
    BY <2>1, <2>2, <2>8 DEF HeldInv, Dead
  <2>10. AgreeInv'
    BY <1>0, <1>s, <2>1, <2>2, <2>3, Record DEF AgreeInv
  <2>11. OwnInv'
    BY <2>2, <2>3, <2>4, <2>5, Constants DEF OwnInv
  <2> QED
    BY <2>5, <2>6, <2>7, <2>9, <2>10, <2>11 DEF AllocInv, FirstLife
<1>2. ASSUME NEW v \in VAddrs, WriteAlloc(v) PROVE AllocInv'
  <2> DEFINE r == AllocBucket(al, "normal")
  <2>1. Took(al, r)
    BY <1>0, AllocBucketSound
  <2>2. /\ op = Idle /\ al' = r.a /\ info' = Recorded(Got(r), "user") /\ extents' = extents
        /\ op' = IF r.got = NoBucket THEN op ELSE [pc |-> "write", bucket |-> r.got, vaddr |-> v]
        /\ meta' = meta /\ journal' = journal /\ mounted' = mounted
    BY <1>2 DEF WriteAlloc
  <2> HIDE DEF r
  <2>3. /\ Sound(r.a) /\ r.got \in Buckets \cup {NoBucket}
        /\ r.got # NoBucket => al.state[r.got] = "free"
        /\ \A b \in Buckets : r.a.state[b] = IF b = r.got THEN "user" ELSE al.state[b]
        /\ Got(r) \in SUBSET Buckets /\ \A b \in Buckets : b \in Got(r) <=> b = r.got
    BY <1>0, <2>1, GivesOut
  <2>4. op.pc = "idle" /\ op.bucket = NoBucket /\ op'.bucket = r.got
    BY <1>i, <2>2
  <2>5. VolumeTypes'
    BY <1>0, <1>s, <2>2, <2>3, Record DEF VolumeTypes
  <2>6. OpInv'
    BY <1>0, <2>2, <2>4 DEF OpInv
  <2>7. ASSUME ~mounted PROVE FirstLife'
    <3>0. HeldInv /\ AgreeInv /\ OwnInv
      BY <1>0, <2>7
    <3>1. \A b \in Buckets : HeldBy(b)' <=> HeldBy(b) \/ b = r.got
      BY <2>2, <2>4, Constants DEF HeldBy
    <3>2. r.got # NoBucket => ~HeldBy(r.got)
      BY <2>3, <3>0 DEF HeldInv, Dead
    <3>3. HeldInv'
      BY <2>2, <2>3, <3>0, <3>1 DEF HeldInv, Dead
    <3>4. AgreeInv'
      BY <1>0, <1>s, <2>2, <2>3, <2>4, <3>0, Record DEF AgreeInv
    <3>5. OwnInv'
      BY <1>0, <2>2, <2>3, <2>4, <3>0, <3>2, Constants DEF OwnInv, HeldBy, VolumeTypes
    <3> QED
      BY <3>3, <3>4, <3>5 DEF FirstLife
  <2> QED
    BY <2>2, <2>3, <2>5, <2>6, <2>7 DEF AllocInv
<1>3. ASSUME NEW v \in VAddrs, DeleteCommit(v) PROVE AllocInv'
  <2>1. /\ op = Idle /\ extents[v] # NoBucket /\ info' = Recorded({extents[v]}, "free")
        /\ extents' = [extents EXCEPT ![v] = NoBucket] /\ al' = al
        /\ op' = [pc |-> "free", bucket |-> extents[v], vaddr |-> v]
        /\ meta' = meta /\ journal' = journal /\ mounted' = mounted
    BY <1>3 DEF DeleteCommit
  <2>2. extents[v] \in Buckets /\ \A w \in VAddrs : extents'[w] = IF w = v THEN NoBucket ELSE extents[w]
    BY <1>0, <2>1 DEF VolumeTypes
  <2>3. VolumeTypes'
    BY <1>0, <1>s, <2>1, <2>2, Record DEF VolumeTypes
  <2>4. OpInv'
    BY <2>1, <2>2, Constants DEF OpInv
  <2>5. op.pc = "idle" /\ op'.pc = "free" /\ op'.bucket = extents[v]
    BY <1>i, <2>1
  <2>6. ASSUME ~mounted PROVE FirstLife'
    <3>0. HeldInv /\ AgreeInv /\ OwnInv
      BY <1>0, <2>6
    <3>1. \A b \in Buckets : HeldBy(b)' => HeldBy(b)
      BY <2>1, <2>2, <2>5, Constants DEF HeldBy
    <3>2. HeldInv'
      BY <2>1, <3>0, <3>1 DEF HeldInv
    <3>3. AgreeInv'
      BY <1>0, <1>s, <2>1, <2>5, <3>0, Record DEF AgreeInv
    <3>4. \A w, x \in VAddrs : w # x /\ extents'[w] # NoBucket => extents'[w] # extents'[x]
      BY <2>2, <3>0 DEF OwnInv
    <3>5. \A w \in VAddrs : extents'[w] # NoBucket => extents'[w] # op'.bucket
      BY <2>2, <2>5, <3>0 DEF OwnInv
    <3>6. \A b \in meta \cup journal : b # op'.bucket /\ \A w \in VAddrs : extents'[w] # b
      BY <1>0, <2>2, <2>5, <3>0, Constants DEF OwnInv, VolumeTypes
    <3> QED
      BY <2>1, <3>0, <3>2, <3>3, <3>4, <3>5, <3>6 DEF OwnInv, FirstLife
  <2> QED
    BY <1>0, <2>1, <2>3, <2>4, <2>6 DEF AllocInv
<1>4. CASE WriteCommit
  <2>1. /\ op.pc = "write" /\ info' = Recorded({op.bucket}, "user")
        /\ extents' = [extents EXCEPT ![op.vaddr] = op.bucket] /\ op' = Idle /\ al' = al
        /\ meta' = meta /\ journal' = journal /\ mounted' = mounted
    BY <1>4 DEF WriteCommit
  <2>2. op.vaddr \in VAddrs /\ op.bucket \in Buckets /\ op'.bucket = NoBucket /\ op'.pc = "idle"
    BY <1>0, <2>1 DEF OpInv, VolumeTypes, Idle
  <2>3. \A w \in VAddrs : extents'[w] = IF w = op.vaddr THEN op.bucket ELSE extents[w]
    BY <1>0, <2>1, <2>2 DEF VolumeTypes
  <2>4. VolumeTypes'
    BY <1>0, <1>s, <2>1, <2>2, Record DEF VolumeTypes, Idle
  <2>5. OpInv'
    BY <2>2 DEF OpInv
  <2>6. ASSUME ~mounted PROVE FirstLife'
    <3>0. HeldInv /\ AgreeInv /\ OwnInv
      BY <1>0, <2>6
    <3>1. \A b \in Buckets : HeldBy(b)' => HeldBy(b)
      BY <2>1, <2>2, <2>3, Constants DEF HeldBy
    <3>2. HeldInv'
      BY <2>1, <3>0, <3>1 DEF HeldInv
    <3>3. al.state[op.bucket] = "user"
      BY <1>t, <2>1, <2>2, <3>0 DEF HeldInv, HeldBy, Dead, States
    <3>4. AgreeInv'
      BY <1>0, <1>s, <2>1, <2>2, <3>0, <3>3, Record DEF AgreeInv
    <3>5. OwnInv'
      BY <1>0, <2>1, <2>2, <2>3, <3>0, Constants DEF OwnInv, VolumeTypes
    <3> QED
      BY <3>2, <3>4, <3>5 DEF FirstLife
  <2> QED
    BY <1>0, <2>1, <2>4, <2>5, <2>6 DEF AllocInv
<1>5. CASE WriteError
  <2>1. /\ op.pc = "write" /\ op' = Idle /\ al' = al /\ info' = info /\ extents' = extents
        /\ meta' = meta /\ journal' = journal /\ mounted' = mounted
    BY <1>5 DEF WriteError
  <2>2. op'.bucket = NoBucket /\ op'.pc = "idle"
    BY <2>1 DEF Idle
  <2>3. VolumeTypes' /\ OpInv'
    BY <1>0, <2>1, <2>2 DEF VolumeTypes, OpInv, Idle
  <2>4. \A b \in Buckets : HeldBy(b)' => HeldBy(b)
    BY <2>1, <2>2, Constants DEF HeldBy
  <2>5. ~mounted => HeldInv' /\ AgreeInv' /\ OwnInv'
    BY <1>0, <2>1, <2>2, <2>4, Constants DEF HeldInv, AgreeInv, OwnInv, VolumeTypes
  <2> QED
    BY <1>0, <2>1, <2>3, <2>5 DEF AllocInv, FirstLife
<1>6. CASE BucketFree
  <2>1. /\ op.pc = "free" /\ op' = Idle /\ extents' = extents
        /\ meta' = meta /\ journal' = journal /\ mounted' = mounted
        /\ \/ al' = al /\ info' = info /\ al.state[op.bucket] = "free"
           \/ /\ al.state[op.bucket] # "free"
              /\ al' = [OpenPut(al, op.bucket) EXCEPT !.state[op.bucket] = "discard"]
              /\ info' = Recorded({op.bucket}, "discard")
    BY <1>6 DEF BucketFree
  <2>2. op.bucket \in Buckets /\ op'.bucket = NoBucket /\ op'.pc = "idle"
    BY <1>0, <2>1 DEF OpInv, VolumeTypes, Idle
  <2>3. CASE al' = al /\ info' = info /\ al.state[op.bucket] = "free"
    <3>1. VolumeTypes' /\ OpInv'
      BY <1>0, <2>1, <2>2, <2>3 DEF VolumeTypes, OpInv, Idle
    <3>2. mounted
      BY <1>0, <2>2, <2>3 DEF HeldInv, HeldBy, Dead
    <3> QED
      BY <1>0, <2>1, <2>3, <3>1, <3>2 DEF AllocInv
  <2>4. CASE /\ al.state[op.bucket] # "free"
             /\ al' = [OpenPut(al, op.bucket) EXCEPT !.state[op.bucket] = "discard"]
             /\ info' = Recorded({op.bucket}, "discard")
    <3>1. /\ Sound(OpenPut(al, op.bucket)) /\ OpenPut(al, op.bucket).state = al.state
          /\ \A i \in 1..PoolSize : OpenPut(al, op.bucket).entry[i] # op.bucket
      BY <1>0, <2>2, PutSound
    <3>2. Sound(al')
      BY <2>2, <2>4, <3>1, DiscardSound
    <3>3. \A b \in Buckets : al'.state[b] = IF b = op.bucket THEN "discard" ELSE al.state[b]
      BY <1>t, <2>4, <3>1 DEF Sound, AllocStates
    <3>4. VolumeTypes' /\ OpInv'
      BY <1>0, <1>s, <2>1, <2>2, <2>4, Record DEF VolumeTypes, OpInv, Idle
    <3>5. ASSUME ~mounted PROVE FirstLife'
      <4>0. HeldInv /\ AgreeInv /\ OwnInv
        BY <1>0, <3>5
      <4>1. \A b \in Buckets : HeldBy(b)' => HeldBy(b) /\ b # op.bucket
        BY <2>1, <2>2, <4>0, Constants DEF HeldBy, OwnInv
      <4>2. HeldInv'
        BY <3>3, <4>0, <4>1 DEF HeldInv
      <4>3. AgreeInv'
        BY <1>0, <1>s, <2>4, <3>3, <4>0, Record DEF AgreeInv
      <4>4. OwnInv'
        BY <1>0, <2>1, <2>2, <4>0, Constants DEF OwnInv, VolumeTypes
      <4> QED
        BY <4>2, <4>3, <4>4 DEF FirstLife
    <3> QED
      BY <2>1, <3>2, <3>4, <3>5 DEF AllocInv
  <2> QED
    BY <2>1, <2>3, <2>4
<1>7. ASSUME NEW b \in Buckets, DoTrim(b) PROVE AllocInv'
  <2>1. /\ op = Idle /\ al.state[b] = "discard" /\ al' = Trimmed(al, b) /\ info' = Recorded({b}, "free")
        /\ extents' = extents /\ meta' = meta /\ op' = op /\ journal' = journal /\ mounted' = mounted
    BY <1>7 DEF DoTrim, Trimmed
  <2>2. Sound(al') /\ al'.state = [al.state EXCEPT ![b] = "free"]
    BY <1>0, <2>1, TrimSound
  <2>3. VolumeTypes' /\ OpInv'
    BY <1>0, <1>s, <2>1, Record DEF VolumeTypes, OpInv
  <2>4. ASSUME ~mounted PROVE FirstLife'
    <3>0. HeldInv /\ AgreeInv /\ OwnInv
      BY <1>0, <2>4
    <3>1. ~HeldBy(b) /\ \A c \in Buckets : HeldBy(c)' <=> HeldBy(c)
      BY <2>1, <3>0 DEF HeldInv, Dead, HeldBy
    <3>2. HeldInv'
      BY <1>t, <2>2, <3>0, <3>1 DEF HeldInv
    <3>3. AgreeInv'
      BY <1>0, <1>s, <1>t, <2>1, <2>2, <3>0, Record DEF AgreeInv
    <3>4. OwnInv'
      BY <2>1, <3>0 DEF OwnInv
    <3> QED
      BY <3>2, <3>3, <3>4 DEF FirstLife
  <2> QED
    BY <2>1, <2>2, <2>3, <2>4 DEF AllocInv
<1>8. ASSUME NEW b \in Buckets, OpenBucketPut(b) PROVE AllocInv'
  <2>1. /\ b \in Buckets /\ al' = OpenPut(al, b) /\ info' = info /\ extents' = extents
        /\ meta' = meta /\ op' = op /\ journal' = journal /\ mounted' = mounted
    BY <1>8 DEF OpenBucketPut
  <2>2. Sound(al') /\ al'.state = al.state
    BY <1>0, <2>1, PutSound
  <2>3. VolumeTypes' /\ OpInv' /\ (~mounted => OwnInv' /\ HeldInv' /\ AgreeInv')
    BY <1>0, <2>1, <2>2 DEF VolumeTypes, OpInv, OwnInv, HeldInv, HeldBy, AgreeInv
  <2> QED
    BY <2>1, <2>2, <2>3 DEF AllocInv, FirstLife
<1>9. ASSUME NEW wm \in DOMAIN Reserve, MetaAlloc(wm) PROVE AllocInv'
  <2>0. PICK r : /\ r = IF wm = "btree" THEN AllocSectors(al, wm) ELSE AllocBucket(al, wm)
                 /\ op = Idle /\ al' = r.a /\ info' = Recorded(Got(r), "user")
                 /\ meta' = meta \cup Got(r) /\ extents' = extents /\ op' = op
                 /\ journal' = journal /\ mounted' = mounted
    BY <1>9 DEF MetaAlloc
  <2>1. Took(al, r)
    BY <1>0, <1>w, <2>0, AllocBucketSound, AllocSectorsSound
  <2>2. /\ op = Idle /\ al' = r.a /\ info' = Recorded(Got(r), "user") /\ meta' = meta \cup Got(r)
        /\ extents' = extents /\ op' = op /\ journal' = journal /\ mounted' = mounted
    BY <2>0
  <2>3. /\ Sound(r.a) /\ r.got \in Buckets \cup {NoBucket}
        /\ r.got # NoBucket => al.state[r.got] = "free"
        /\ \A b \in Buckets : r.a.state[b] = IF b = r.got THEN "user" ELSE al.state[b]
        /\ Got(r) \in SUBSET Buckets /\ \A b \in Buckets : b \in Got(r) <=> b = r.got
    BY <1>0, <2>1, GivesOut
  <2>4. op.pc = "idle" /\ op.bucket = NoBucket
    BY <1>i, <2>2
  <2>5. VolumeTypes' /\ OpInv'
    BY <1>0, <1>s, <2>2, <2>3, <2>4, Record DEF VolumeTypes, OpInv
  <2>6. ASSUME ~mounted PROVE FirstLife'
    <3>0. HeldInv /\ AgreeInv /\ OwnInv
      BY <1>0, <2>6
    <3>1. \A b \in Buckets : HeldBy(b)' <=> HeldBy(b) \/ b = r.got
      BY <2>2, <2>3 DEF HeldBy
    <3>2. \A b \in Got(r) : ~HeldBy(b)
      <4> SUFFICES ASSUME NEW b \in Got(r) PROVE ~HeldBy(b)
        OBVIOUS
      <4>1. b \in Buckets /\ b = r.got /\ r.got # NoBucket
        BY <2>3, Constants
      <4> QED
        BY <2>3, <3>0, <4>1 DEF HeldInv, Dead
    <3>3. HeldInv'
      BY <2>2, <2>3, <3>0, <3>1 DEF HeldInv, Dead
    <3>4. AgreeInv'
      BY <1>0, <1>s, <2>2, <2>3, <2>4, <3>0, Record DEF AgreeInv
    <3>5. OwnInv'
      BY <1>0, <2>2, <2>3, <2>4, <3>0, <3>2, Constants DEF OwnInv, HeldBy, VolumeTypes
    <3> QED
      BY <3>3, <3>4, <3>5 DEF FirstLife
  <2> QED
    BY <2>2, <2>3, <2>5, <2>6 DEF AllocInv
<1>10. CASE Mount
  <2>1. /\ op.pc \in {"idle", "write", "free"} /\ al' = New /\ info' \in {Created, Marked}
        /\ meta' = {} /\ journal' = journal /\ op' = Idle /\ mounted' = TRUE
    BY <1>10 DEF Mount
  <2>2. PICK kept \in SUBSET VAddrs :
          extents' = [v \in VAddrs |-> IF v \in kept THEN extents[v] ELSE NoBucket]
    BY <1>10 DEF Mount
  <2>3. info' \in [Buckets -> Records]
    BY <2>1 DEF Created, Marked, Records, States
  <2>4. extents' \in [VAddrs -> Buckets \cup {NoBucket}]
    BY <1>0, <2>2 DEF VolumeTypes
  <2>5. VolumeTypes'
    BY <1>0, <2>1, <2>3, <2>4 DEF VolumeTypes, Idle
  <2>6. OpInv'
    BY <2>1 DEF OpInv, Idle
  <2> QED
    BY <2>1, <2>5, <2>6, NewSound DEF AllocInv
<1>11. CASE UNCHANGED vars
  <2>1. VolumeTypes' /\ OpInv' /\ (~mounted => HeldInv' /\ AgreeInv' /\ OwnInv')
    BY <1>0, <1>11 DEF vars, VolumeTypes, OpInv, OwnInv, HeldInv, HeldBy, AgreeInv
  <2> QED
    BY <1>0, <1>11, <2>1 DEF vars, AllocInv, FirstLife
<1> QED
  BY <1>1, <1>2, <1>3, <1>4, <1>5, <1>6, <1>7, <1>8, <1>9, <1>10, <1>11 DEF Next

LEMMA Invariant == Spec => []AllocInv
BY InitInv, StepInv, PTL DEF Spec

\* From the creation of a volume to its first mount no bucket is given out while an
\* extent, the journal, a node, metadata or the write under way has it
\* (allocate_bucket_inner, bch2_trigger_extent, bch2_bucket_free, bch2_bucket_do_trim).
THEOREM BucketsHaveOneOwner == Spec => []OneOwner
<1>1. AllocInv => OneOwner
  BY DEF AllocInv, FirstLife, OwnInv, VolumeTypes, OneOwner, Range
<1> QED
  BY <1>1, Invariant, PTL

\* Until the first mount the Alloc btree tells what the allocator knows: bch2_alloc_read
\* would rebuild from it the states, the counters and lists that hold every free bucket.
THEOREM BtreeTellsAll == Spec => []ReadBack
<1>1. AllocInv => ReadBack
  <2> SUFFICES ASSUME AllocInv, ~mounted PROVE ReadBack
    BY DEF ReadBack
  <2>1. /\ Sound(al) /\ AgreeInv /\ al.state \in [Buckets -> States] /\ al.list \in [Groups -> Seq(0..(GroupSize - 1))]
        /\ al.free \in [Groups -> Int] /\ info \in [Buckets -> Records]
    BY DEF AllocInv, FirstLife, Sound, AllocStates, VolumeTypes
  <2>2. info \in [Buckets -> States]
    BY <2>1 DEF AgreeInv, States
  <2>3. Sound(AllocRead) /\ AllocRead.state = info
    BY <2>2, ReadSound
  <2>4. \A b \in Buckets \ {op.bucket} : AllocRead.state[b] = al.state[b]
    BY <2>1, <2>3 DEF AgreeInv
  <2>5. ASSUME op.pc # "free"
        PROVE  /\ AllocRead.free = al.free /\ AllocRead.allocated = al.allocated
               /\ \A g \in Groups : Range(al.list[g]) \subseteq Range(AllocRead.list[g])
    <3>1. info = al.state
      BY <2>1, <2>5 DEF AgreeInv
    <3>2. \A g \in Groups : al.free[g] = Cardinality(FreeOf(al.state, g))
      BY <2>1 DEF Sound, CountsSound
    <3>3. \A g \in Groups : AllocRead.free[g] = Cardinality(FreeOf(al.state, g))
      BY <2>3, <3>1 DEF Sound, CountsSound
    <3>4. AllocRead.free \in [Groups -> Int] /\ AllocRead.allocated = Cardinality(NotFree(al.state))
      BY <2>3, <3>1 DEF Sound, CountsSound, AllocStates
    <3>5. AllocRead.free = al.free
      BY <2>1, <3>2, <3>3, <3>4
    <3>6. AllocRead.allocated = al.allocated
      BY <2>1, <3>4 DEF Sound, CountsSound
    <3>7. ASSUME NEW g \in Groups PROVE Range(al.list[g]) \subseteq Range(AllocRead.list[g])
      <4>1. AllocRead.list = [h \in Groups |-> FreeList(h)]
        BY <2>2, ReadLists
      <4>2. Range(FreeList(g)) = {i \in 0..(GroupSize - 1) : info[<<g, i>>] = "free"}
        BY <2>2, FreeListSound
      <4>3. \A i \in Range(al.list[g]) : i \in 0..(GroupSize - 1) /\ al.state[<<g, i>>] = "free"
        BY <2>1, RangeIn DEF Sound, ListsSound
      <4> QED
        BY <3>1, <4>1, <4>2, <4>3
    <3> QED
      BY <3>5, <3>6, <3>7
  <2> QED
    BY <2>4, <2>5 DEF ReadBack
<1> QED
  BY <1>1, Invariant, PTL

\* The free lists, the counters, the states of the buckets and the pool of open
\* buckets tell one story, whatever allocates, frees, discards, puts and mounts, and
\* until the first mount the Alloc btree tells it too
\* (allocate_bucket_inner, bch2_bucket_free, bch2_bucket_do_trim, bch2_open_bucket_put).
THEOREM AccountsAgree == Spec => []Accounts
<1>1. AllocInv /\ ReadBack => Accounts
  <2> SUFFICES ASSUME AllocInv, ReadBack PROVE Accounts
    OBVIOUS
  <2>1. Sound(al) /\ al \in AllocStates /\ VolumeTypes /\ DOMAIN al.entry = 1..PoolSize
    BY DEF AllocInv, Sound, AllocStates
  <2>2. TypeOK
    BY <2>1 DEF TypeOK, AllocStates, VolumeTypes, States, Records
  <2>3. \A g \in Groups : FreeIn(g) = FreeOf(al.state, g)
    BY DEF FreeIn, FreeOf
  <2>4. ASSUME NEW g \in Groups
        PROVE  /\ IsInjective(al.list[g])
               /\ \A i \in Range(al.list[g]) : <<g, i>> \in FreeIn(g)
               /\ al.free[g] = Cardinality(FreeIn(g))
    <3>1. al.list[g] \in Seq(0..(GroupSize - 1))
      BY <2>1 DEF AllocStates
    <3>2. \A i \in Range(al.list[g]) : i \in 0..(GroupSize - 1)
      BY <3>1, RangeIn
    <3> QED
      BY <2>1, <2>3, <3>2, Constants DEF Sound, ListsSound, CountsSound, FreeIn
  <2>5. al.allocated = Cardinality({b \in Buckets : al.state[b] # "free"})
    BY <2>1 DEF Sound, CountsSound, NotFree
  <2>6. /\ IsInjective(al.avail)
        /\ Range(al.avail) = {i \in DOMAIN al.entry : al.entry[i] = NoBucket}
        /\ \A i \in DOMAIN al.entry : al.entry[i] # NoBucket =>
             /\ al.state[al.entry[i]] = "user"
             /\ \A j \in DOMAIN al.entry : al.entry[i] = al.entry[j] => i = j
    BY <2>1 DEF Sound, PoolSound
  <2> QED
    BY <2>2, <2>4, <2>5, <2>6 DEF Accounts
<1> QED
  BY <1>1, Invariant, BtreeTellsAll, PTL

\* Whenever there is an open bucket to be had and a group with a bucket to spare, an
\* allocation succeeds: the second pass finds what fell off the free lists while the
\* pool was full (allocate_bucket_inner).
THEOREM FreeIsAlwaysFound == Spec => []FreeIsFound
<1>1. AllocInv => FreeIsFound
  BY AllocBucketSound, ConstantAssumption DEF AllocInv, FreeIsFound
<1> QED
  BY <1>1, Invariant, PTL

=============================================================================
