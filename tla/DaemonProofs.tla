---------------------------- MODULE DaemonProofs ----------------------------
(***************************************************************************)
(* Daemon, for any number of names, requests and connections: what its     *)
(* RwLock lets in, type correctness, the discipline of the lock of the map, *)
(* that the map of open volumes follows the directories, and that an       *)
(* acknowledged change is in the open volume, and in the nodes that a stop *)
(* of it wrote.                                                            *)
(***************************************************************************)
EXTENDS Daemon, FunctionTheorems, FiniteSetTheorems, WellFoundedInduction,
        SequenceTheorems, TLAPS

Once(lock) ==
  /\ \A i, j \in DOMAIN lock.queue : lock.queue[i].who = lock.queue[j].who => i = j
  /\ \A r \in lock.held, i \in DOMAIN lock.queue : r.who # lock.queue[i].who
Exclusive(lock) == \A r \in lock.held : r.mode = "write" => lock.held = {r}
Entries(lock) == lock.held \cup Range(lock.queue)

\* The numbers of the names before the daemon starts are 1, 2, ...: one for each.
LEMMA IndexBijection ==
  /\ Cardinality(Names) \in Nat
  /\ Index \in [Names -> 1..Cardinality(Names)]
  /\ \A n, m \in Names : Index[n] = Index[m] => n = m
  /\ \A f \in 1..Cardinality(Names) : \E n \in Names : Index[n] = f
<1>1. Cardinality(Names) \in Nat /\ ExistsBijection(1..Cardinality(Names), Names)
  BY FS_CardinalityType, ConstantAssumption
<1>2. ExistsBijection(Names, 1..Cardinality(Names))
  BY <1>1, Fun_ExistsBijSymmetric
<1>3. Index \in Bijection(Names, 1..Cardinality(Names))
  BY <1>2 DEF ExistsBijection, Index
<1> QED
  BY <1>1, <1>3 DEF Bijection, Injection, Surjection, IsInjective

\* A set of naturals with a bound has a greatest, the one Max chooses.
LEMMA GreatestIsThere ==
  ASSUME NEW b \in Nat, NEW S, S \subseteq 0..b, S # {} PROVE Max(S) \in S
<1> DEFINE T == {b - k : k \in S}
<1>1. \A k \in S : k \in Nat /\ k <= b /\ b - k \in Nat /\ b - k \in T
  OBVIOUS
<1>2. \A x \in T : \E k \in S : x = b - k
  OBVIOUS
<1> HIDE DEF T
<1>3. T \subseteq Nat /\ T # {}
  BY <1>1, <1>2
<1>4. PICK x \in T : \A y \in T : ~(<<y, x>> \in OpToRel(<, Nat))
  BY <1>3, NatLessThanWellFounded, WFMin, Zenon
<1>5. ASSUME NEW y \in T PROVE x <= y
  <2>1. x \in Nat /\ y \in Nat
    BY <1>3
  <2>2. ~(<<y, x>> \in {ss \in Nat \X Nat : ss[1] < ss[2]})
    BY <1>4 DEF OpToRel
  <2>3. ~(y < x)
    BY <2>1, <2>2
  <2> QED
    BY <2>1, <2>3
<1>6. PICK k \in S : x = b - k
  BY <1>2
<1>7. \A j \in S : k >= j
  BY <1>1, <1>5, <1>6
<1> QED
  BY <1>7 DEF Max

\* Granted lets a prefix of the queue in, one that fits those who hold the lock.
LEMMA Granting ==
  ASSUME NEW lock \in RwLocks
  PROVE  \E n \in 0..Len(lock.queue) :
           /\ Fits(lock.held, SubSeq(lock.queue, 1, n))
           /\ Granted(lock) = [held |-> lock.held \cup Range(SubSeq(lock.queue, 1, n)),
                               queue |-> SubSeq(lock.queue, n + 1, Len(lock.queue))]
<1> DEFINE S == {k \in 0..Len(lock.queue) : Fits(lock.held, SubSeq(lock.queue, 1, k))}
<1>1. lock.queue \in Seq(Requests) /\ Len(lock.queue) \in Nat
  BY DEF RwLocks
<1>2. SubSeq(lock.queue, 1, 0) = <<>>
  BY <1>1
<1>3. 0 \in S
  BY <1>1, <1>2 DEF Fits
<1>4. Granted(lock) = [held |-> lock.held \cup Range(SubSeq(lock.queue, 1, Max(S))),
                       queue |-> SubSeq(lock.queue, Max(S) + 1, Len(lock.queue))]
  BY DEF Granted
<1>5. S \subseteq 0..Len(lock.queue)
  OBVIOUS
<1>6. \A k \in S : k \in 0..Len(lock.queue) /\ Fits(lock.held, SubSeq(lock.queue, 1, k))
  OBVIOUS
<1> HIDE DEF S
<1>7. Max(S) \in S
  BY <1>1, <1>3, <1>5, GreatestIsThere
<1> QED
  BY <1>4, <1>6, <1>7

\* The members of a sequence.
LEMMA RangeOf ==
  ASSUME NEW S, NEW q \in Seq(S)
  PROVE  \A r : r \in Range(q) <=> \E i \in 1..Len(q) : r = q[i]
<1>1. DOMAIN q = 1..Len(q)
  OBVIOUS
<1> QED
  BY <1>1 DEF Range

\* Granting changes nobody's request: the same entries, still once each, and whoever
\* held the lock holds it; a writer that holds it holds it alone.
LEMMA GrantedFacts ==
  ASSUME NEW lock \in RwLocks
  PROVE  LET g == Granted(lock)
         IN  /\ g \in RwLocks
             /\ lock.held \subseteq g.held
             /\ Entries(g) \subseteq Entries(lock)
             /\ Exclusive(lock) => Exclusive(g)
             /\ Once(lock) => Once(g)
<1> DEFINE q == lock.queue
           g == Granted(lock)
<1>1. q \in Seq(Requests) /\ Len(q) \in Nat /\ lock.held \in SUBSET Requests
  BY DEF RwLocks
<1>2. PICK n \in 0..Len(q) :
           /\ Fits(lock.held, SubSeq(q, 1, n))
           /\ g = [held |-> lock.held \cup Range(SubSeq(q, 1, n)),
                   queue |-> SubSeq(q, n + 1, Len(q))]
  BY Granting
<1> DEFINE a == SubSeq(q, 1, n)
           z == SubSeq(q, n + 1, Len(q))
<1>3. n \in Nat /\ n <= Len(q)
  BY <1>1
<1>4. /\ a \in Seq(Requests) /\ Len(a) = n /\ \A i \in 1..n : a[i] = q[i]
      /\ z \in Seq(Requests) /\ Len(z) = Len(q) - n /\ \A i \in 1..(Len(q) - n) : z[i] = q[n + i]
  BY <1>1, <1>3
<1>5. g.held = lock.held \cup Range(a) /\ g.queue = z /\ Fits(lock.held, a)
  BY <1>2
<1>6. g = [held |-> g.held, queue |-> g.queue]
  BY <1>2
<1> HIDE DEF a, z, g, q
<1>7. \A r : r \in Range(a) <=> \E i \in 1..n : r = q[i]
  BY <1>4, RangeOf
<1>8. \A r : r \in Range(z) => \E i \in 1..Len(q) : r = q[i]
  <2>1. \A r : r \in Range(z) => \E i \in 1..(Len(q) - n) : r = z[i]
    BY <1>4, RangeOf
  <2>2. \A i \in 1..(Len(q) - n) : n + i \in 1..Len(q)
    BY <1>1, <1>3
  <2> QED
    BY <1>4, <2>1, <2>2
<1>9. \A r : r \in Range(q) <=> \E i \in 1..Len(q) : r = q[i]
  BY <1>1, RangeOf
<1>10. \A i \in 1..Len(q) : q[i] \in Requests
  BY <1>1
<1>11. \A i \in 1..n : i \in 1..Len(q)
  BY <1>1, <1>3
<1>12. Range(a) \subseteq Requests /\ Range(a) \subseteq Range(q) /\ Range(z) \subseteq Range(q)
  BY <1>7, <1>8, <1>9, <1>10, <1>11
<1>13. g \in RwLocks
  BY <1>1, <1>4, <1>5, <1>6, <1>12 DEF RwLocks
<1>14. lock.held \subseteq g.held /\ Entries(g) \subseteq Entries(lock)
  BY <1>5, <1>12 DEF Entries, q
<1>15. ASSUME Exclusive(lock) PROVE Exclusive(g)
  <2>1. CASE a = <<>>
    <3>1. Range(a) = {}
      BY <2>1 DEF Range
    <3> QED
      BY <3>1, <1>5, <1>15 DEF Exclusive
  <2>2. CASE Len(a) = 1 /\ lock.held = {}
    <3>1. \A r, s \in g.held : r = s
      BY <2>2, <1>4, <1>5, <1>7
    <3> QED
      BY <3>1 DEF Exclusive
  <2>3. CASE \A r \in lock.held \cup Range(a) : r.mode = "read"
    BY <2>3, <1>5 DEF Exclusive
  <2> QED
    BY <2>1, <2>2, <2>3, <1>5 DEF Fits
<1>16. ASSUME Once(lock) PROVE Once(g)
  <2>1. DOMAIN g.queue = 1..(Len(q) - n) /\ DOMAIN q = 1..Len(q)
    BY <1>1, <1>4, <1>5
  <2>2. \A i \in DOMAIN g.queue : i \in Nat /\ g.queue[i] = q[n + i] /\ n + i \in DOMAIN q
    BY <2>1, <1>1, <1>3, <1>4, <1>5
  <2>3. /\ \A i, j \in DOMAIN q : q[i].who = q[j].who => i = j
        /\ \A r \in lock.held, i \in DOMAIN q : r.who # q[i].who
    BY <1>16 DEF Once, q
  <2>4. ASSUME NEW i \in DOMAIN g.queue, NEW j \in DOMAIN g.queue, g.queue[i].who = g.queue[j].who
        PROVE  i = j
    <3>1. n + i = n + j
      BY <2>2, <2>3, <2>4
    <3> QED
      BY <3>1, <2>2, <1>3
  <2>5. ASSUME NEW r \in g.held, NEW i \in DOMAIN g.queue PROVE r.who # g.queue[i].who
    <3>1. n + i \in DOMAIN q /\ g.queue[i] = q[n + i] /\ i \in Nat /\ i >= 1
      BY <2>1, <2>2, <1>1, <1>3
    <3>2. CASE r \in lock.held
      BY <3>1, <3>2, <2>3
    <3>3. CASE r \in Range(a)
      <4>1. PICK k \in 1..n : r = q[k]
        BY <3>3, <1>7
      <4>2. k \in DOMAIN q /\ k # n + i
        BY <4>1, <3>1, <1>3, <1>11, <2>1
      <4> QED
        BY <4>1, <4>2, <3>1, <2>3
    <3> QED
      BY <3>2, <3>3, <1>5
  <2> QED
    BY <2>4, <2>5 DEF Once
<1> QED
  BY <1>13, <1>14, <1>15, <1>16 DEF g

\* Ask adds one entry to a lock.
LEMMA AskFacts ==
  ASSUME NEW lock \in RwLocks, NEW who \in Guests, NEW mode \in {"read", "write"}
  PROVE  LET g == Ask(lock, who, mode)
         IN  /\ g \in RwLocks
             /\ lock.held \subseteq g.held
             /\ Entries(g) \subseteq Entries(lock) \cup {[who |-> who, mode |-> mode]}
             /\ Exclusive(lock) => Exclusive(g)
             /\ Once(lock) /\ (\A r \in Entries(lock) : r.who # who) => Once(g)
<1> DEFINE r == [who |-> who, mode |-> mode]
           q == Append(lock.queue, r)
           l == [held |-> lock.held, queue |-> q]
<1>1. r \in Requests /\ r.who = who
  BY DEF Requests
<1>2. /\ lock.queue \in Seq(Requests) /\ lock.held \in SUBSET Requests
      /\ lock = [held |-> lock.held, queue |-> lock.queue]
  BY DEF RwLocks
<1>3. Ask(lock, who, mode) = Granted(l)
  <2>1. [lock EXCEPT !.queue = q] = l
    BY <1>2
  <2> QED
    BY <2>1 DEF Ask
<1> HIDE DEF r
<1>4. /\ q \in Seq(Requests) /\ Len(lock.queue) \in Nat
      /\ DOMAIN q = 1..(Len(lock.queue) + 1) /\ DOMAIN lock.queue = 1..Len(lock.queue)
      /\ Len(q) = Len(lock.queue) + 1
      /\ \A i \in DOMAIN lock.queue : q[i] = lock.queue[i]
      /\ q[Len(lock.queue) + 1] = r
  <2> DEFINE p == lock.queue
  <2>1. p \in Seq(Requests) /\ r \in Requests
    BY <1>1, <1>2
  <2> HIDE DEF p
  <2>2. /\ Append(p, r) \in Seq(Requests) /\ Len(p) \in Nat
        /\ DOMAIN p = 1..Len(p) /\ Len(Append(p, r)) = Len(p) + 1
        /\ \A i \in 1..Len(p) : Append(p, r)[i] = p[i]
        /\ Append(p, r)[Len(p) + 1] = r
    BY <2>1
  <2>3. DOMAIN Append(p, r) = 1..(Len(p) + 1)
    BY <2>1, <2>2
  <2> QED
    BY <2>2, <2>3 DEF p
<1> HIDE DEF q
<1>5. l \in RwLocks /\ l.held = lock.held /\ l.queue = q
  BY <1>2, <1>4 DEF RwLocks
<1> HIDE DEF l
<1>6. \A i \in DOMAIN q : i \in DOMAIN lock.queue \/ i = Len(lock.queue) + 1
  BY <1>4
<1>7. Range(q) \subseteq Range(lock.queue) \cup {r}
  BY <1>4, <1>6, <1>2, RangeOf
<1>8. Entries(l) \subseteq Entries(lock) \cup {r}
  BY <1>5, <1>7 DEF Entries
<1>9. Exclusive(lock) => Exclusive(l)
  BY <1>5 DEF Exclusive
<1>10. ASSUME Once(lock), \A x \in Entries(lock) : x.who # who PROVE Once(l)
  <2>1. \A i \in DOMAIN lock.queue : lock.queue[i].who # who
    BY <1>10, <1>2, <1>4, RangeOf DEF Entries
  <2>2. \A x \in lock.held : x.who # who
    BY <1>10 DEF Entries
  <2>3. \A i, j \in DOMAIN q : q[i].who = q[j].who => i = j
    BY <2>1, <1>1, <1>4, <1>6, <1>10 DEF Once
  <2>4. \A x \in lock.held, i \in DOMAIN q : x.who # q[i].who
    BY <2>2, <1>1, <1>4, <1>6, <1>10 DEF Once
  <2> QED
    BY <2>3, <2>4, <1>5 DEF Once
<1>11. LET g == Granted(l) IN
        /\ g \in RwLocks /\ l.held \subseteq g.held /\ Entries(g) \subseteq Entries(l)
        /\ Exclusive(l) => Exclusive(g)
        /\ Once(l) => Once(g)
  BY <1>5, GrantedFacts
<1> QED
  BY <1>3, <1>5, <1>8, <1>9, <1>10, <1>11 DEF r

\* What Without takes out of the queue.
LEMMA WithoutFacts ==
  ASSUME NEW q \in Seq(Requests), NEW who
  PROVE  LET w == Without(q, who)
         IN  /\ w \in Seq(Requests)
             /\ Range(w) \subseteq Range(q)
             /\ (\A i, j \in DOMAIN q : q[i].who = q[j].who => i = j) =>
                  /\ \A i, j \in DOMAIN w : w[i].who = w[j].who => i = j
                  /\ \A i \in DOMAIN w : w[i].who # who
<1>1. CASE ~\E i \in DOMAIN q : q[i].who = who
  BY <1>1 DEF Without
<1>2. CASE \E i \in DOMAIN q : q[i].who = who
  <2> DEFINE k == CHOOSE i \in DOMAIN q : q[i].who = who
             w == Without(q, who)
  <2>1. k \in DOMAIN q /\ q[k].who = who
    BY <1>2
  <2>2. w = SubSeq(q, 1, k - 1) \o SubSeq(q, k + 1, Len(q))
    BY <1>2 DEF Without, RemoveAt
  <2> HIDE DEF k, w
  <2>3. DOMAIN q = 1..Len(q) /\ Len(q) \in Nat /\ k \in Nat /\ 1 <= k /\ k <= Len(q)
    BY <2>1
  <2> DEFINE a == SubSeq(q, 1, k - 1)
             z == SubSeq(q, k + 1, Len(q))
  <2>4. /\ a \in Seq(Requests) /\ Len(a) = k - 1 /\ \A i \in 1..(k - 1) : a[i] = q[i]
        /\ z \in Seq(Requests) /\ Len(z) = Len(q) - k /\ \A i \in 1..(Len(q) - k) : z[i] = q[k + i]
    <3>1. a \in Seq(Requests) /\ Len(a) = k - 1 /\ \A i \in 1..(k - 1) : a[i] = q[i]
      BY <2>3
    <3>2. /\ z \in Seq(Requests) /\ Len(z) = Len(q) - k
          /\ \A i \in 1..(Len(q) - k) : z[i] = q[k + i]
      <4> DEFINE m == k + 1
      <4>1. m \in Int /\ Len(q) \in Int /\ \A i \in m..Len(q) : q[i] \in Requests
        BY <2>3
      <4>2. m - 1 = k /\ Len(q) - m + 1 = Len(q) - k
        BY <2>3
      <4> HIDE DEF m
      <4>3. /\ SubSeq(q, m, Len(q)) \in Seq(Requests)
            /\ Len(SubSeq(q, m, Len(q))) = IF m <= Len(q) THEN Len(q) - m + 1 ELSE 0
            /\ \A i \in 1..(Len(q) - m + 1) : SubSeq(q, m, Len(q))[i] = q[m + i - 1]
        BY <4>1, SubSeqProperties
      <4>4. \A i \in 1..(Len(q) - k) : m + i - 1 = k + i
        BY <4>1, <4>2, <2>3
      <4>5. z = SubSeq(q, m, Len(q))
        BY DEF m
      <4> HIDE DEF z
      <4>6. Len(z) = Len(q) - k
        <5>1. Len(z) = IF m <= Len(q) THEN Len(q) - m + 1 ELSE 0
          BY <4>3, <4>5, Zenon
        <5>2. m \in Int /\ k = m - 1 /\ Len(q) \in Nat /\ k \in Nat /\ k <= Len(q)
          BY <4>1, <4>2, <2>3
        <5> QED
          BY <5>1, <5>2
      <4>7. \A i \in 1..(Len(q) - k) : z[i] = q[k + i]
        BY <4>2, <4>3, <4>4, <4>5
      <4> QED
        BY <4>3, <4>5, <4>6, <4>7
    <3> QED
      BY <3>1, <3>2
  <2> HIDE DEF a, z
  <2>5. w = a \o z
    BY <2>2 DEF a, z
  <2>6. /\ w \in Seq(Requests) /\ Len(w) = Len(q) - 1 /\ DOMAIN w = 1..(Len(q) - 1)
        /\ \A i \in 1..(Len(q) - 1) : w[i] = IF i <= k - 1 THEN a[i] ELSE z[i - (k - 1)]
    <3>1. Len(a) + Len(z) = Len(q) - 1 /\ Len(a) \in Nat
      BY <2>3, <2>4
    <3>2. /\ a \o z \in Seq(Requests) /\ Len(a \o z) = Len(a) + Len(z)
          /\ \A i \in 1..(Len(a) + Len(z)) : (a \o z)[i] = IF i <= Len(a) THEN a[i] ELSE z[i - Len(a)]
      BY <2>4, ConcatProperties
    <3>3. DOMAIN (a \o z) = 1..(Len(a) + Len(z))
      BY <3>2
    <3> QED
      BY <3>1, <3>2, <3>3, <2>4, <2>5
  <2>7. \A i \in DOMAIN w : i \in Nat /\ w[i] = q[IF i < k THEN i ELSE i + 1]
                              /\ (IF i < k THEN i ELSE i + 1) \in DOMAIN q \ {k}
    <3> SUFFICES ASSUME NEW i \in DOMAIN w
                 PROVE  i \in Nat /\ w[i] = q[IF i < k THEN i ELSE i + 1]
                         /\ (IF i < k THEN i ELSE i + 1) \in DOMAIN q \ {k}
      OBVIOUS
    <3>1. i \in Nat /\ 1 <= i /\ i <= Len(q) - 1
      BY <2>3, <2>6
    <3>2. CASE i < k
      BY <3>1, <3>2, <2>3, <2>4, <2>6
    <3>3. CASE ~(i < k)
      <4>1. i - (k - 1) \in 1..(Len(q) - k) /\ k + (i - (k - 1)) = i + 1
        BY <3>1, <3>3, <2>3
      <4>2. w[i] = z[i - (k - 1)]
        BY <3>1, <3>3, <2>3, <2>6
      <4> QED
        BY <4>1, <4>2, <3>1, <3>3, <2>3, <2>4
    <3> QED
      BY <3>2, <3>3
  <2>8. Range(w) \subseteq Range(q)
    BY <2>7 DEF Range
  <2>9. ASSUME \A i, j \in DOMAIN q : q[i].who = q[j].who => i = j
        PROVE  /\ \A i, j \in DOMAIN w : w[i].who = w[j].who => i = j
               /\ \A i \in DOMAIN w : w[i].who # who
    <3>1. ASSUME NEW i \in DOMAIN w, NEW j \in DOMAIN w, w[i].who = w[j].who PROVE i = j
      <4>1. (IF i < k THEN i ELSE i + 1) = (IF j < k THEN j ELSE j + 1)
        BY <3>1, <2>7, <2>9
      <4> QED
        BY <4>1, <2>3, <2>7
    <3>2. \A i \in DOMAIN w : w[i].who # who
      BY <2>1, <2>7, <2>9
    <3> QED
      BY <3>1, <3>2
  <2> QED
    BY <2>6, <2>8, <2>9 DEF w
<1> QED
  BY <1>1, <1>2

\* Drop removes the entries of one guest from a lock, and lets others in.
LEMMA DropFacts ==
  ASSUME NEW lock \in RwLocks, NEW who
  PROVE  LET g == Drop(lock, who)
         IN  /\ g \in RwLocks
             /\ \A r \in lock.held : r.who # who => r \in g.held
             /\ Entries(g) \subseteq Entries(lock)
             /\ Exclusive(lock) => Exclusive(g)
             /\ Once(lock) => Once(g) /\ \A r \in Entries(g) : r.who # who
<1> DEFINE w == Without(lock.queue, who)
           l == [held |-> {r \in lock.held : r.who # who}, queue |-> w]
<1>1. lock.queue \in Seq(Requests) /\ lock.held \in SUBSET Requests
  BY DEF RwLocks
<1>2. Drop(lock, who) = Granted(l)
  BY DEF Drop
<1>3. /\ w \in Seq(Requests) /\ Range(w) \subseteq Range(lock.queue)
      /\ (\A i, j \in DOMAIN lock.queue : lock.queue[i].who = lock.queue[j].who => i = j) =>
           /\ \A i, j \in DOMAIN w : w[i].who = w[j].who => i = j
           /\ \A i \in DOMAIN w : w[i].who # who
  BY <1>1, WithoutFacts
<1> HIDE DEF w
<1>4. l \in RwLocks /\ l.held = {r \in lock.held : r.who # who} /\ l.queue = w
  BY <1>1, <1>3 DEF RwLocks
<1> HIDE DEF l
<1>5. Entries(l) \subseteq Entries(lock)
  BY <1>3, <1>4 DEF Entries
<1>6. Exclusive(lock) => Exclusive(l)
  BY <1>4 DEF Exclusive
<1>7. ASSUME Once(lock) PROVE Once(l) /\ \A r \in Entries(l) : r.who # who
  <2>1. /\ \A i, j \in DOMAIN w : w[i].who = w[j].who => i = j
        /\ \A i \in DOMAIN w : w[i].who # who
    BY <1>3, <1>7 DEF Once
  <2>2. \A i \in DOMAIN w : \E j \in DOMAIN lock.queue : w[i] = lock.queue[j]
    <3>1. \A i \in DOMAIN w : w[i] \in Range(w)
      BY DEF Range
    <3>2. \A r \in Range(lock.queue) : \E j \in DOMAIN lock.queue : r = lock.queue[j]
      BY DEF Range
    <3> QED
      BY <3>1, <3>2, <1>3
  <2>3. \A r \in l.held, i \in DOMAIN w : r.who # w[i].who
    BY <2>2, <1>4, <1>7 DEF Once
  <2>4. Once(l)
    BY <2>1, <2>3, <1>4 DEF Once
  <2>5. \A r \in Entries(l) : r.who # who
    BY <2>1, <1>4 DEF Entries, Range
  <2> QED
    BY <2>4, <2>5
<1>8. LET g == Granted(l) IN
        /\ g \in RwLocks /\ l.held \subseteq g.held /\ Entries(g) \subseteq Entries(l)
        /\ Exclusive(l) => Exclusive(g)
        /\ Once(l) => Once(g)
  BY <1>4, GrantedFacts
<1> QED
  BY <1>2, <1>4, <1>5, <1>6, <1>7, <1>8

-----------------------------------------------------------------------------
-----------------------------------------------------------------------------
(* What the handlers and main know when they stand somewhere.                *)

LabelsOf(op) ==
  CASE op = "create" -> {"create", "create_open", "create_write", "insert"}
    [] op = "clone" -> {"clone", "clone_copy", "clone_write", "clone_open", "insert"}
    [] op = "delete" -> {"delete", "delete_open", "delete_stop", "delete_dir", "remove"}
    [] op = "change" -> {"get", "change"}
    [] op = "look" -> {"get", "look"}
    [] op = "mount" -> {"get", "mount", "register"}
    [] op = "umount" -> {"umount"}
    [] op = "exports" -> {"exports"}
    [] op = "info" -> {"info", "info_open", "info_read", "read"}
    [] op = "list" -> {"list", "read"}

TaskFits(t) ==
  LET k == task[t]
  IN  /\ k.pc \in {"none", "end"} \cup LabelsOf(Op(t))
      /\ k.pc = "create_write" => k.file # 0
      /\ k.pc \in {"insert", "delete_stop", "change", "look", "mount", "register"} => k.vol # 0
      /\ k.pc = "insert" => vols[k.vol].file = k.file
TaskInv == \A t \in Tasks : TaskFits(t)
MapGuards ==
  /\ Exclusive(locks["blocks"]) /\ Once(locks["blocks"])
  /\ \A r \in Entries(locks["blocks"]) :
       /\ r.who \in Tasks => task[r.who].pc \in IF r.mode = "write" THEN {"insert", "remove"}
                                                ELSE {"get", "list", "info_read", "read"}
       /\ r.who = Main => r.mode = "read" /\ main.pc \in {"ask", "stop"}
       /\ r.who \notin Conns
MainInv ==
  /\ main.stopping # 0 => main.pc = "stop"
  /\ main.pc = "stop" =>
    /\ Has("blocks", Main)
    /\ \A n \in main.todo : blocks[n] # 0
    /\ main.stopping # 0 => \E n \in Names : blocks[n] = main.stopping

Locks == [{"blocks", "exports"} -> RwLocks]

\* Asking and leaving keep the type of the locks.
LEMMA LocksType ==
  ASSUME NEW ls \in Locks, NEW l \in {"blocks", "exports"}, NEW who \in Guests, NEW mode \in {"read", "write"}
  PROVE  /\ [ls EXCEPT ![l] = Ask(@, who, mode)] \in Locks
         /\ [ls EXCEPT ![l] = Drop(@, who)] \in Locks
  BY AskFacts, DropFacts DEF Locks

\* There are finitely many files and volumes.
LEMMA Sizes ==
  ASSUME TypeOK
  PROVE  Len(files) \in Nat /\ Len(vols) \in Nat
  BY DEF TypeOK

\* The request of a task.
LEMMA UseType ==
  ASSUME TypeOK, NEW t \in Tasks
  PROVE  /\ Name(t) \in Names /\ Op(t) \in Ops /\ use.job[t].from \in Names
         /\ t \in Guests
<1>1. use.job \in [Tasks -> Jobs]
  BY ConstantAssumption DEF TypeOK
<1> QED
  BY <1>1 DEF Name, Op, Jobs, Guests

\* What a variable may become.
Grown ==
  /\ files' \in Seq(FileRecords) /\ Len(files') \in Nat /\ Len(files) <= Len(files')
  /\ vols' \in Seq(VolRecords(Len(files'))) /\ Len(vols') \in Nat /\ Len(vols) <= Len(vols')

\* A variable that stays keeps its type when files or volumes are added.
LEMMA SameDirs == ASSUME TypeOK, Grown PROVE dirs \in [Names -> 0..Len(files')]
  BY Sizes DEF TypeOK, Grown

LEMMA SameExports == ASSUME TypeOK, Grown PROVE exports \in [Names -> 0..Len(files')]
  BY Sizes DEF TypeOK, Grown

LEMMA SameBlocks == ASSUME TypeOK, Grown PROVE blocks \in [Names -> 0..Len(vols')]
  BY Sizes DEF TypeOK, Grown

LEMMA SameTask == ASSUME TypeOK, Grown PROVE task \in [Tasks -> TaskRecords(Len(files'), Len(vols'))]
<1>1. /\ Len(files) \in Nat /\ Len(vols) \in Nat /\ Len(files') \in Nat /\ Len(vols') \in Nat
      /\ Len(files) <= Len(files') /\ Len(vols) <= Len(vols')
  BY Sizes DEF Grown
<1>2. TaskRecords(Len(files), Len(vols)) \subseteq TaskRecords(Len(files'), Len(vols'))
  BY <1>1 DEF TaskRecords
<1> QED
  BY <1>2 DEF TypeOK

LEMMA SameMain == ASSUME TypeOK, Grown PROVE main \in MainRecords(Len(vols'))
<1>1. /\ Len(vols) \in Nat /\ Len(vols') \in Nat /\ Len(vols) <= Len(vols')
  BY Sizes DEF Grown
<1> QED
  BY <1>1 DEF MainRecords, TypeOK

LEMMA SameStopped == ASSUME TypeOK, Grown PROVE stopped \subseteq 1..Len(vols')
  BY Sizes DEF TypeOK, Grown

\* A step that adds files and volumes and sets each variable to something of its type.
LEMMA TypeFrame ==
  ASSUME TypeOK, Grown, use' = use,
         dirs' = dirs \/ dirs' \in [Names -> 0..Len(files')],
         exports' = exports \/ exports' \in [Names -> 0..Len(files')],
         blocks' = blocks \/ blocks' \in [Names -> 0..Len(vols')],
         locks' = locks \/ locks' \in Locks,
         task' = task \/ task' \in [Tasks -> TaskRecords(Len(files'), Len(vols'))],
         conn' = conn \/ conn' \in [Conns -> {"none", "ask", "handshake", "serve", "end"}],
         main' = main \/ main' \in MainRecords(Len(vols')),
         open' \subseteq open, 
         stopped' = stopped \/ stopped' \subseteq 1..Len(vols'),
         acked' = acked \/ acked' \subseteq Tasks,
         late' = late \/ late' \subseteq Tasks,
         met' = met \/ met' \in [Names -> SUBSET {"delete", "makers", "clash"}]
  PROVE  TypeOK'
<1>1. dirs' \in [Names -> 0..Len(files')] /\ exports' \in [Names -> 0..Len(files')]
  BY SameDirs, SameExports
<1>2. blocks' \in [Names -> 0..Len(vols')] /\ stopped' \subseteq 1..Len(vols')
  BY SameBlocks, SameStopped
<1>3. task' \in [Tasks -> TaskRecords(Len(files'), Len(vols'))] /\ main' \in MainRecords(Len(vols'))
  BY SameTask, SameMain
<1>4. /\ use \in Uses /\ locks' \in Locks
      /\ conn' \in [Conns -> {"none", "ask", "handshake", "serve", "end"}]
      /\ open' \subseteq {"http", "nbd"} /\ acked' \subseteq Tasks /\ late' \subseteq Tasks
      /\ met' \in [Names -> SUBSET {"delete", "makers", "clash"}]
  BY DEF TypeOK, Locks
<1> QED
  BY <1>1, <1>2, <1>3, <1>4 DEF TypeOK, Grown, Locks

\* A step that adds neither.
LEMMA NothingGrown ==
  ASSUME TypeOK, UNCHANGED <<files, vols>>
  PROVE  Grown
  BY DEF TypeOK, Grown

TaskTypes == [Tasks -> TaskRecords(Len(files'), Len(vols'))]

\* A step of a handler that changes only some of the variables.
LEMMA TurnType ==
  ASSUME TypeOK, Grown, NEW t \in Tasks, NEW label \in Labels,
         NEW v \in 0..Len(vols'), NEW f \in 0..Len(files'), NEW names \in SUBSET Names,
         \/ Goto(t, label)
         \/ With(t, label, v, f)
         \/ task' = [task EXCEPT ![t].pc = label, ![t].names = names]
  PROVE  task' \in TaskTypes
<1> DEFINE R == TaskRecords(Len(files'), Len(vols'))
<1>1. task \in [Tasks -> R]
  BY SameTask
<1>2. /\ task[t] \in R
      /\ \A r \in R : [task EXCEPT ![t] = r] \in [Tasks -> R]
  BY <1>1
<1>3. CASE Goto(t, label)
  <2> DEFINE r == [task[t] EXCEPT !.pc = label]
  <2>1. \A k \in R : [k EXCEPT !.pc = label] \in R
    BY DEF TaskRecords
  <2> HIDE DEF R
  <2>2. r \in R
    BY <1>2, <2>1
  <2>3. task' = [task EXCEPT ![t] = r]
    BY <1>3 DEF Goto
  <2> HIDE DEF r
  <2> QED
    BY <2>2, <2>3, <1>2 DEF TaskTypes, R
<1>4. CASE With(t, label, v, f)
  <2> DEFINE r == [task[t] EXCEPT !.pc = label, !.vol = v, !.file = f]
  <2>1. \A k \in R : [k EXCEPT !.pc = label, !.vol = v, !.file = f] \in R
    BY DEF TaskRecords
  <2> HIDE DEF R
  <2>2. r \in R
    BY <1>2, <2>1
  <2>3. task' = [task EXCEPT ![t] = r]
    BY <1>1, <1>4 DEF With
  <2> HIDE DEF r
  <2> QED
    BY <2>2, <2>3, <1>2 DEF TaskTypes, R
<1>5. CASE task' = [task EXCEPT ![t].pc = label, ![t].names = names]
  <2> DEFINE r == [task[t] EXCEPT !.pc = label, !.names = names]
  <2>1. \A k \in R : [k EXCEPT !.pc = label, !.names = names] \in R
    BY DEF TaskRecords
  <2> HIDE DEF R
  <2>2. r \in R
    BY <1>2, <2>1
  <2>3. task' = [task EXCEPT ![t] = r]
    BY <1>1, <1>5
  <2> HIDE DEF r
  <2> QED
    BY <2>2, <2>3, <1>2 DEF TaskTypes, R
<1> QED
  BY <1>3, <1>4, <1>5

\* The types of what Goto, With and the lists of names set.
LEMMA GotoType ==
  ASSUME TypeOK, Grown, NEW t \in Tasks, NEW label \in Labels, Goto(t, label)
  PROVE  task' \in TaskTypes
<1>1. 0 \in 0..Len(vols') /\ 0 \in 0..Len(files') /\ {} \in SUBSET Names
  BY DEF Grown
<1> QED
  BY <1>1, TurnType

\* The type of what With sets.
LEMMA WithType ==
  ASSUME TypeOK, Grown, NEW t \in Tasks, NEW label \in Labels,
         NEW v \in 0..Len(vols'), NEW f \in 0..Len(files'), With(t, label, v, f)
  PROVE  task' \in TaskTypes
<1>1. {} \in SUBSET Names
  OBVIOUS
<1> QED
  BY <1>1, TurnType

\* The type of what a list of names sets.
LEMMA NamesType ==
  ASSUME TypeOK, Grown, NEW t \in Tasks, NEW label \in Labels, NEW names \in SUBSET Names,
         task' = [task EXCEPT ![t].pc = label, ![t].names = names]
  PROVE  task' \in TaskTypes
<1>1. 0 \in 0..Len(vols') /\ 0 \in 0..Len(files')
  BY DEF Grown
<1> QED
  BY <1>1, TurnType

\* The type of what Meet sets.
LEMMA MeetType ==
  ASSUME TypeOK, NEW n \in Names, NEW what \in SUBSET {"delete", "makers", "clash"}, Meet(n, what)
  PROVE  met' \in [Names -> SUBSET {"delete", "makers", "clash"}]
  BY DEF TypeOK, Meet

\* The file create_backend opens is there.
LEMMA OpenedFacts ==
  ASSUME TypeOK, NEW n \in Names
  PROVE  /\ WithOpened(n) \in Seq(FileRecords) /\ Len(WithOpened(n)) \in Nat
         /\ Len(files) <= Len(WithOpened(n))
         /\ Opened(n) \in 1..Len(WithOpened(n))
         /\ \A f \in 1..Len(files) : WithOpened(n)[f] = files[f]
         /\ [dirs EXCEPT ![n] = Opened(n)] \in [Names -> 0..Len(WithOpened(n))]
<1>1. Hollow \in FileRecords /\ files \in Seq(FileRecords) /\ Len(files) \in Nat /\ dirs[n] \in 0..Len(files)
  BY Sizes DEF TypeOK, Hollow, FileRecords
<1>2. CASE dirs[n] # 0
  BY <1>1, <1>2 DEF TypeOK, Opened, WithOpened
<1>3. CASE dirs[n] = 0
  <2>1. /\ Append(files, Hollow) \in Seq(FileRecords) /\ Len(Append(files, Hollow)) = Len(files) + 1
        /\ \A f \in 1..Len(files) : Append(files, Hollow)[f] = files[f]
    BY <1>1
  <2>2. WithOpened(n) = Append(files, Hollow) /\ Opened(n) = Len(files) + 1
    BY <1>3 DEF WithOpened, Opened
  <2>3. dirs \in [Names -> 0..(Len(files) + 1)]
    BY <1>1 DEF TypeOK
  <2> QED
    BY <2>1, <2>2, <2>3, <1>1
<1> QED
  BY <1>2, <1>3

\* Files are only added or changed in place.
LEMMA FilesGrow ==
  ASSUME TypeOK, vols' = vols, files' \in Seq(FileRecords), Len(files) <= Len(files')
  PROVE  Grown
<1>1. Len(files) \in Nat /\ Len(vols) \in Nat /\ Len(files') \in Nat
  BY Sizes
<1>2. vols \in Seq(VolRecords(Len(files')))
  <2>1. VolRecords(Len(files)) \subseteq VolRecords(Len(files'))
    BY <1>1 DEF VolRecords
  <2>2. vols \in Seq(VolRecords(Len(files)))
    BY DEF TypeOK
  <2> QED
    BY <2>1, <2>2
<1> QED
  BY <1>1, <1>2 DEF Grown

\* Volumes are only added.
LEMMA VolsGrow ==
  ASSUME TypeOK, files' \in Seq(FileRecords), Len(files) <= Len(files'),
         NEW f \in 1..Len(files'), NEW mem \in SUBSET Tasks,
         vols' = Append(vols, [file |-> f, mem |-> mem])
  PROVE  /\ Grown
         /\ Len(vols') = Len(vols) + 1 /\ vols'[Len(vols) + 1] = [file |-> f, mem |-> mem]
         /\ \A v \in 1..Len(vols) : vols'[v] = vols[v]
<1>1. Len(files) \in Nat /\ Len(vols) \in Nat /\ Len(files') \in Nat
  BY Sizes
<1>2. vols \in Seq(VolRecords(Len(files')))
  <2>1. VolRecords(Len(files)) \subseteq VolRecords(Len(files'))
    BY <1>1 DEF VolRecords
  <2>2. vols \in Seq(VolRecords(Len(files)))
    BY DEF TypeOK
  <2> QED
    BY <2>1, <2>2
<1>3. [file |-> f, mem |-> mem] \in VolRecords(Len(files'))
  BY DEF VolRecords
<1> HIDE DEF Grown
<1>4. /\ vols' \in Seq(VolRecords(Len(files'))) /\ Len(vols') = Len(vols) + 1
      /\ vols'[Len(vols) + 1] = [file |-> f, mem |-> mem]
      /\ \A v \in 1..Len(vols) : vols'[v] = vols[v]
  BY <1>2, <1>3, <1>1
<1> QED
  BY <1>1, <1>4 DEF Grown

-----------------------------------------------------------------------------
(* Types.                                                                    *)

\* The steps of the locks keep their type.
LEMMA LockSteps ==
  ASSUME TypeOK, NEW l \in {"blocks", "exports"}, NEW who \in Guests, NEW mode \in {"read", "write"},
         Await(l, who, mode) \/ Leave(l, who)
  PROVE  locks' \in Locks
  BY LocksType DEF TypeOK, Locks, Await, Leave

\* A Volume that is opened has its file.
LEMMA OpenVolumeType ==
  ASSUME TypeOK, NEW t \in Tasks, files' \in Seq(FileRecords), Len(files) <= Len(files'),
         NEW f \in 1..Len(files'), OpenVolume(t, f)
  PROVE  Grown /\ task' \in TaskTypes /\ locks' \in Locks
<1>1. t \in Guests
  BY UseType
<1>2. Grown /\ Len(vols') = Len(vols) + 1
  BY VolsGrow DEF OpenVolume
<1>3. Len(vols) + 1 \in 0..Len(vols') /\ f \in 0..Len(files')
  BY <1>2, Sizes
<1>4. With(t, "insert", Len(vols) + 1, f) /\ "insert" \in Labels
  BY DEF OpenVolume, Labels
<1>5. task' \in TaskTypes
  BY <1>2, <1>3, <1>4, WithType
<1> QED
  BY <1>1, <1>2, <1>5, LockSteps DEF OpenVolume

\* What create writes into a file.
LEMMA WriteType ==
  ASSUME TypeOK, vols' = vols, NEW f \in 1..Len(files), NEW r \in FileRecords,
         files' = [files EXCEPT ![f] = r]
  PROVE  Grown /\ Len(files') = Len(files)
<1>1. files' \in Seq(FileRecords) /\ Len(files') = Len(files) /\ Len(files) \in Nat
  BY DEF TypeOK
<1> QED
  BY <1>1, FilesGrow

\* Type correctness, the requests that come or go.
LEMMA TypeArrive ==
  ASSUME TypeOK, NEW t \in Tasks, Arrive(t) PROVE TypeOK'
<1>1. Grown
  BY NothingGrown DEF Arrive, httpVars
<1>2. First(Op(t)) \in Labels
  BY UseType DEF First, Ops, Makers, Labels
<1>3. task' \in TaskTypes
  BY <1>1, <1>2, GotoType DEF Arrive
<1>4. locks' = locks \/ locks' \in Locks
  <2>1. FirstLock(Op(t)) \in {<<>>, <<"blocks", "read">>, <<"exports", "write">>, <<"exports", "read">>}
    BY UseType DEF FirstLock, Ops, Makers
  <2>2. t \in Guests
    BY UseType
  <2> QED
    BY <2>1, <2>2, LockSteps DEF Arrive
<1>5. met' \in [Names -> SUBSET {"delete", "makers", "clash"}]
  BY UseType, MeetType DEF Arrive, Meets
<1> QED
  BY <1>1, <1>3, <1>4, <1>5, TypeFrame DEF Arrive, httpVars, TaskTypes

\* Type correctness, create_volume.
LEMMA TypeCreate ==
  ASSUME TypeOK, TaskInv, NEW t \in Tasks,
         CreateCheck(t) \/ CreateOpen(t) \/ CreateWrite(t) \/ Insert(t)
  PROVE  TypeOK'
<1>1. t \in Guests /\ Name(t) \in Names
  BY UseType
<1>2. CASE CreateCheck(t)
  <2>1. Grown
    BY <1>2, NothingGrown DEF CreateCheck, Turns, httpVars
  <2>2. task' \in TaskTypes
    BY <1>2, <2>1, GotoType DEF CreateCheck, Labels
  <2> QED
    BY <1>2, <2>1, <2>2, TypeFrame DEF CreateCheck, Turns, httpVars, seen, TaskTypes
<1>3. CASE CreateOpen(t)
  <2>1. /\ files' = WithOpened(Name(t)) /\ vols' = vols
        /\ dirs' = [dirs EXCEPT ![Name(t)] = Opened(Name(t))]
        /\ With(t, "create_write", 0, Opened(Name(t)))
    BY <1>3 DEF CreateOpen, CreateBackend, Works
  <2>2. Grown /\ dirs' \in [Names -> 0..Len(files')]
    BY <1>1, <2>1, OpenedFacts, FilesGrow
  <2>3. 0 \in 0..Len(vols') /\ Opened(Name(t)) \in 0..Len(files') /\ "create_write" \in Labels
    BY <1>1, <2>1, <2>2, OpenedFacts DEF Grown, Labels
  <2>4. task' \in TaskTypes
    BY <2>1, <2>2, <2>3, WithType
  <2> QED
    BY <1>3, <2>2, <2>4, TypeFrame DEF CreateOpen, Works, seen, TaskTypes
<1>4. CASE CreateWrite(t)
  <2>1. task[t].file \in 1..Len(files)
    BY <1>4 DEF CreateWrite, TaskInv, TaskFits, TypeOK, TaskRecords, At
  <2>2. CASE /\ files' = [files EXCEPT ![task[t].file] = [sb |-> TRUE, nodes |-> {}]]
             /\ OpenVolume(t, task[t].file)
    <3>1. files' \in Seq(FileRecords) /\ Len(files') = Len(files) /\ Len(files) \in Nat
      BY <2>1, <2>2 DEF TypeOK, FileRecords
    <3>2. Grown /\ task' \in TaskTypes /\ locks' \in Locks
      BY <2>1, <2>2, <3>1, OpenVolumeType
    <3> QED
      BY <1>4, <3>2, TypeFrame DEF CreateWrite, seen, TaskTypes
  <2>3. CASE End(t) /\ UNCHANGED <<files, vols, locks>>
    <3>1. Grown
      BY <2>3, NothingGrown
    <3>2. task' \in TaskTypes
      BY <2>3, <3>1, GotoType DEF End, Labels
    <3> QED
      BY <1>4, <2>3, <3>1, <3>2, TypeFrame DEF CreateWrite, seen, TaskTypes
  <2> QED
    BY <1>4, <2>2, <2>3 DEF CreateWrite
<1>5. CASE Insert(t)
  <2>1. Grown
    BY <1>5, NothingGrown DEF Insert
  <2>2. task' \in TaskTypes
    BY <1>5, <2>1, GotoType DEF Insert, End, Labels
  <2>3. locks' \in Locks
    BY <1>1, <1>5, LockSteps DEF Insert
  <2>4. blocks' \in [Names -> 0..Len(vols')]
    BY <1>5, <2>1 DEF Insert, TypeOK, TaskRecords
  <2> QED
    BY <1>5, <2>1, <2>2, <2>3, <2>4, TypeFrame DEF Insert, seen, TaskTypes
<1> QED
  BY <1>2, <1>3, <1>4, <1>5

\* A file is a file.
LEMMA FileAt ==
  ASSUME TypeOK, NEW f \in 1..Len(files)
  PROVE  /\ files[f] \in FileRecords /\ files[f].nodes \in SUBSET Tasks
         /\ files[f] = [sb |-> files[f].sb, nodes |-> files[f].nodes] /\ files[f].sb \in BOOLEAN
<1>1. files[f] \in FileRecords
  BY DEF TypeOK
<1> QED
  BY <1>1 DEF FileRecords

\* A Volume has a file that is there.
LEMMA VolAt ==
  ASSUME TypeOK, NEW v \in 1..Len(vols)
  PROVE  vols[v].file \in 1..Len(files) /\ vols[v].mem \in SUBSET Tasks
<1>1. vols[v] \in VolRecords(Len(files))
  BY DEF TypeOK
<1> QED
  BY <1>1 DEF VolRecords

\* What stop_volume writes.
LEMMA StoppedType ==
  ASSUME TypeOK, vols' = vols, NEW v \in 1..Len(vols), NEW nodes \in SUBSET Tasks, Stopped(v, nodes)
  PROVE  Grown /\ Len(files') = Len(files)
<1>1. vols[v].file \in 1..Len(files)
  BY VolAt
<1>2. [files[vols[v].file] EXCEPT !.nodes = nodes] \in FileRecords
  <2>1. files[vols[v].file] \in FileRecords
    BY <1>1, FileAt
  <2> QED
    BY <2>1 DEF FileRecords
<1>3. files' = [files EXCEPT ![vols[v].file] = [files[vols[v].file] EXCEPT !.nodes = nodes]]
  BY DEF Stopped
<1> QED
  BY <1>1, <1>2, <1>3, WriteType

\* A file that is added.
LEMMA NewFile ==
  ASSUME TypeOK, NEW n \in Names, vols' = vols, files' = Append(files, Hollow),
         dirs' = [dirs EXCEPT ![n] = Len(files) + 1]
  PROVE  Grown /\ dirs' \in [Names -> 0..Len(files')]
<1>1. Hollow \in FileRecords /\ files \in Seq(FileRecords) /\ Len(files) \in Nat
  BY Sizes DEF TypeOK, Hollow, FileRecords
<1>2. files' \in Seq(FileRecords) /\ Len(files') = Len(files) + 1
  BY <1>1
<1>3. Grown
  BY <1>1, <1>2, FilesGrow
<1> QED
  BY <1>1, <1>2, <1>3 DEF TypeOK

\* Type correctness, delete_volume.
LEMMA TypeDelete ==
  ASSUME TypeOK, TaskInv, NEW t \in Tasks,
         \/ DeleteCheck(t) \/ DeleteOpen(t) \/ DeleteStop(t) \/ DeleteDir(t)
         \/ DeleteDirFails(t) \/ RemoveVolume(t)
  PROVE  TypeOK'
<1>1. t \in Guests /\ Name(t) \in Names
  BY UseType
<1>2. CASE DeleteCheck(t)
  <2>1. Grown
    BY <1>2, NothingGrown DEF DeleteCheck, Turns, httpVars
  <2>2. task' \in TaskTypes
    BY <1>2, <2>1, GotoType DEF DeleteCheck, Labels
  <2> QED
    BY <1>2, <2>1, <2>2, TypeFrame DEF DeleteCheck, Turns, httpVars, seen, TaskTypes
<1>3. CASE DeleteOpen(t)
  <2> DEFINE f == Opened(Name(t))
  <2>1. files' = WithOpened(Name(t)) /\ dirs' = [dirs EXCEPT ![Name(t)] = Opened(Name(t))]
    BY <1>3 DEF DeleteOpen, CreateBackend
  <2>2. /\ files' \in Seq(FileRecords) /\ Len(files) <= Len(files') /\ f \in 1..Len(files')
        /\ dirs' \in [Names -> 0..Len(files')] /\ Len(files') \in Nat
    BY <1>1, <2>1, OpenedFacts
  <2>3. CASE /\ WithOpened(Name(t))[f].sb
             /\ vols' = Append(vols, [file |-> f, mem |-> {}])
             /\ With(t, "delete_stop", Len(vols) + 1, f)
    <3>1. {} \in SUBSET Tasks
      OBVIOUS
    <3>2. Grown /\ Len(vols') = Len(vols) + 1
      BY <2>2, <2>3, <3>1, VolsGrow
    <3>3. Len(vols) + 1 \in 0..Len(vols') /\ f \in 0..Len(files') /\ "delete_stop" \in Labels
      BY <2>2, <3>2, Sizes DEF Labels
    <3>4. task' \in TaskTypes
      BY <2>3, <3>2, <3>3, WithType
    <3> QED
      BY <1>3, <2>2, <3>2, <3>4, TypeFrame DEF DeleteOpen, seen, TaskTypes
  <2>4. CASE End(t) /\ UNCHANGED vols
    <3>1. Grown
      BY <2>2, <2>4, FilesGrow
    <3>2. task' \in TaskTypes
      BY <2>4, <3>1, GotoType DEF End, Labels
    <3> QED
      BY <1>3, <2>2, <2>4, <3>1, <3>2, TypeFrame DEF DeleteOpen, seen, TaskTypes
  <2> QED
    BY <1>3, <2>3, <2>4 DEF DeleteOpen
<1>4. CASE DeleteStop(t)
  <2>1. task[t].vol \in 1..Len(vols)
    BY <1>4 DEF DeleteStop, TaskInv, TaskFits, TypeOK, TaskRecords, At
  <2>2. vols[task[t].vol].mem \in SUBSET Tasks
    BY <2>1, VolAt
  <2>3. Grown
    BY <1>4, <2>1, <2>2, StoppedType, NothingGrown DEF DeleteStop
  <2>4. task' \in TaskTypes
    BY <1>4, <2>3, GotoType DEF DeleteStop, Labels
  <2> QED
    BY <1>4, <2>3, <2>4, TypeFrame DEF DeleteStop, seen, TaskTypes
<1>5. CASE DeleteDir(t)
  <2>1. Grown
    BY <1>5, NothingGrown DEF DeleteDir
  <2>2. task' \in TaskTypes
    BY <1>5, <2>1, GotoType DEF DeleteDir, Labels
  <2>3. locks' \in Locks
    BY <1>1, <1>5, LockSteps DEF DeleteDir
  <2>4. dirs' \in [Names -> 0..Len(files')]
    <3>1. dirs \in [Names -> 0..Len(files')] /\ 0 \in 0..Len(files')
      BY <2>1, SameDirs DEF Grown
    <3> QED
      BY <1>5, <3>1 DEF DeleteDir
  <2> QED
    BY <1>5, <2>1, <2>2, <2>3, <2>4, TypeFrame DEF DeleteDir, seen, TaskTypes
<1>6. CASE DeleteDirFails(t)
  <2>1. Grown /\ (dirs' = dirs \/ dirs' \in [Names -> 0..Len(files')])
    BY <1>1, <1>6, NothingGrown, NewFile DEF DeleteDirFails
  <2>2. task' \in TaskTypes
    BY <1>6, <2>1, GotoType DEF DeleteDirFails, End, Labels
  <2>3. met' \in [Names -> SUBSET {"delete", "makers", "clash"}]
    BY <1>1, <1>6, MeetType DEF DeleteDirFails
  <2> QED
    BY <1>6, <2>1, <2>2, <2>3, TypeFrame DEF DeleteDirFails, TaskTypes
<1>7. CASE RemoveVolume(t)
  <2>1. Grown
    BY <1>7, NothingGrown DEF RemoveVolume
  <2>2. task' \in TaskTypes
    BY <1>7, <2>1, GotoType DEF RemoveVolume, End, Labels
  <2>3. locks' \in Locks
    BY <1>1, <1>7, LockSteps DEF RemoveVolume
  <2>4. blocks' \in [Names -> 0..Len(vols')]
    <3>1. blocks \in [Names -> 0..Len(vols')] /\ 0 \in 0..Len(vols')
      BY <2>1, SameBlocks DEF Grown
    <3> QED
      BY <1>7, <3>1 DEF RemoveVolume
  <2> QED
    BY <1>7, <2>1, <2>2, <2>3, <2>4, TypeFrame DEF RemoveVolume, seen, TaskTypes
<1> QED
  BY <1>2, <1>3, <1>4, <1>5, <1>6, <1>7

\* Type correctness, clone_volume.
LEMMA TypeClone ==
  ASSUME TypeOK, TaskInv, NEW t \in Tasks,
         CloneCheck(t) \/ CloneCopy(t) \/ CloneWrite(t) \/ CloneOpen(t)
  PROVE  TypeOK'
<1>1. t \in Guests /\ Name(t) \in Names /\ use.job[t].from \in Names
  BY UseType
<1>2. CASE CloneCheck(t)
  <2>1. Grown
    BY <1>2, NothingGrown DEF CloneCheck, Turns, httpVars
  <2>2. task' \in TaskTypes
    BY <1>2, <2>1, GotoType DEF CloneCheck, Labels
  <2> QED
    BY <1>2, <2>1, <2>2, TypeFrame DEF CloneCheck, Turns, httpVars, seen, TaskTypes
<1>3. CASE CloneWrite(t)
  <2>1. Grown
    BY <1>3, NothingGrown DEF CloneWrite, Turns, httpVars
  <2>2. task' \in TaskTypes
    BY <1>3, <2>1, GotoType DEF CloneWrite, Labels
  <2> QED
    BY <1>3, <2>1, <2>2, TypeFrame DEF CloneWrite, Turns, httpVars, seen, TaskTypes
<1>4. CASE CloneCopy(t)
  <2> DEFINE w == WithOpened(Name(t))
             to == Opened(Name(t))
             from == dirs[use.job[t].from]
  <2>1. /\ w \in Seq(FileRecords) /\ Len(files) <= Len(w) /\ to \in 1..Len(w) /\ Len(w) \in Nat
        /\ [dirs EXCEPT ![Name(t)] = to] \in [Names -> 0..Len(w)]
    BY <1>1, OpenedFacts
  <2>2. files' = w \/ (from # 0 /\ files' = [w EXCEPT ![to] = files[from]])
    BY <1>4 DEF CloneCopy
  <2>3. from # 0 => files[from] \in FileRecords
    BY <1>1 DEF TypeOK
  <2>4. dirs' = [dirs EXCEPT ![Name(t)] = to] /\ vols' = vols
    BY <1>4 DEF CloneCopy, Works
  <2> HIDE DEF w, to, from
  <2>5. files' \in Seq(FileRecords) /\ Len(files') = Len(w)
    BY <2>1, <2>2, <2>3
  <2>6. Grown
    BY <2>1, <2>4, <2>5, FilesGrow
  <2>7. task' \in TaskTypes
    BY <1>4, <2>6, GotoType DEF CloneCopy, End, Labels
  <2> QED
    BY <1>4, <2>1, <2>4, <2>5, <2>6, <2>7, TypeFrame DEF CloneCopy, Works, seen, TaskTypes
<1>5. CASE CloneOpen(t)
  <2> DEFINE f == dirs[Name(t)]
  <2>1. CASE f # 0 /\ OpenVolume(t, f) /\ UNCHANGED files
    <3>1. f \in 1..Len(files) /\ Len(files) \in Nat
      BY <1>1, <2>1 DEF TypeOK
    <3>2. files' \in Seq(FileRecords)
      BY <2>1 DEF TypeOK
    <3> HIDE DEF f
    <3>3. Grown /\ task' \in TaskTypes /\ locks' \in Locks
      BY <2>1, <3>1, <3>2, OpenVolumeType
    <3> QED
      BY <1>5, <3>3, TypeFrame DEF CloneOpen, seen, TaskTypes
  <2>2. CASE End(t) /\ UNCHANGED <<vols, locks>>
    <3>1. Grown
      BY <1>5, <2>2, NothingGrown DEF CloneOpen
    <3>2. task' \in TaskTypes
      BY <2>2, <3>1, GotoType DEF End, Labels
    <3> QED
      BY <1>5, <2>2, <3>1, <3>2, TypeFrame DEF CloneOpen, seen, TaskTypes
  <2> QED
    BY <1>5, <2>1, <2>2 DEF CloneOpen
<1> QED
  BY <1>2, <1>3, <1>4, <1>5

\* Type correctness, the handlers that take a Volume out of the map.
LEMMA TypeGet ==
  ASSUME TypeOK, TaskInv, NEW t \in Tasks,
         GetVolume(t) \/ Change(t) \/ Look(t) \/ MountLook(t) \/ Register(t)
  PROVE  TypeOK'
<1>1. t \in Guests /\ Name(t) \in Names /\ Op(t) \in Ops
  BY UseType
<1>2. CASE GetVolume(t)
  <2>1. Grown
    BY <1>2, NothingGrown DEF GetVolume, httpVars
  <2>2. task' \in TaskTypes
    <3> DEFINE v == blocks[Name(t)]
               next == IF v = 0 THEN "end" ELSE Op(t)
    <3>1. v \in 0..Len(vols') /\ 0 \in 0..Len(files')
      BY <1>1, <2>1, SameBlocks DEF Grown
    <3>2. next \in Labels
      <4>1. Op(t) \in {"change", "look", "mount"}
        BY <1>1, <1>2 DEF GetVolume, At, TaskInv, TaskFits, LabelsOf, Ops, Makers
      <4> QED
        BY <4>1 DEF Labels
    <3>3. With(t, next, v, 0)
      BY <1>2 DEF GetVolume
    <3> HIDE DEF v, next
    <3> QED
      BY <2>1, <3>1, <3>2, <3>3, WithType
  <2>3. locks' \in Locks
    <3>1. Drop(locks["blocks"], t) \in RwLocks
      BY <1>1, DropFacts DEF TypeOK
    <3>2. Ask(locks["exports"], t, "read") \in RwLocks
      BY <1>1, AskFacts DEF TypeOK
    <3> QED
      BY <1>2, <3>1, <3>2 DEF GetVolume, TypeOK, Locks
  <2> QED
    BY <1>2, <2>1, <2>2, <2>3, TypeFrame DEF GetVolume, httpVars, seen, TaskTypes
<1>3. CASE Change(t)
  <2> DEFINE v == task[t].vol
  <2>1. v \in 1..Len(vols) /\ Len(vols) \in Nat
    BY <1>3, Sizes DEF Change, TaskInv, TaskFits, TypeOK, TaskRecords, At
  <2>2. vols[v] \in VolRecords(Len(files))
    BY <2>1 DEF TypeOK
  <2>3. [vols[v] EXCEPT !.mem = @ \cup {t}] \in VolRecords(Len(files))
    BY <2>2 DEF VolRecords
  <2>4. vols' = [vols EXCEPT ![v] = [vols[v] EXCEPT !.mem = @ \cup {t}]] /\ files' = files
    BY <1>3 DEF Change
  <2>5. vols' \in Seq(VolRecords(Len(files'))) /\ Len(vols') = Len(vols)
    BY <2>1, <2>3, <2>4 DEF TypeOK
  <2>6. Grown
    BY <2>1, <2>4, <2>5, Sizes DEF Grown, TypeOK
  <2>7. task' \in TaskTypes
    BY <1>3, <2>6, GotoType DEF Change, End, Labels
  <2>8. acked' \subseteq Tasks /\ (late' = late \/ late' \subseteq Tasks)
    BY <1>3 DEF Change, TypeOK
  <2> QED
    BY <1>3, <2>6, <2>7, <2>8, TypeFrame DEF Change, TaskTypes
<1>4. CASE Look(t)
  <2>1. Grown
    BY <1>4, NothingGrown DEF Look, Turns, httpVars
  <2>2. task' \in TaskTypes
    BY <1>4, <2>1, GotoType DEF Look, End, Labels
  <2> QED
    BY <1>4, <2>1, <2>2, TypeFrame DEF Look, Turns, httpVars, seen, TaskTypes
<1>5. CASE MountLook(t)
  <2>1. Grown
    BY <1>5, NothingGrown DEF MountLook, httpVars
  <2>2. task' \in TaskTypes
    BY <1>5, <2>1, GotoType DEF MountLook, End, Labels
  <2>3. locks' \in Locks
    <3>1. Drop(locks["exports"], t) \in RwLocks
      BY <1>1, DropFacts DEF TypeOK
    <3>2. Ask(Drop(locks["exports"], t), t, "write") \in RwLocks
      BY <1>1, <3>1, AskFacts
    <3> QED
      BY <1>1, <1>5, <3>1, <3>2 DEF MountLook, Leave, TypeOK, Locks
  <2> QED
    BY <1>5, <2>1, <2>2, <2>3, TypeFrame DEF MountLook, httpVars, seen, TaskTypes
<1>6. CASE Register(t)
  <2>1. Grown
    BY <1>6, NothingGrown DEF Register
  <2>2. task' \in TaskTypes
    BY <1>6, <2>1, GotoType DEF Register, End, Labels
  <2>3. locks' \in Locks
    BY <1>1, <1>6, LockSteps DEF Register
  <2>4. exports' \in [Names -> 0..Len(files')]
    <3>1. task[t].vol \in 1..Len(vols)
      BY <1>6 DEF Register, TaskInv, TaskFits, TypeOK, TaskRecords, At
    <3>2. vols[task[t].vol].file \in 0..Len(files')
      BY <1>6, <3>1, VolAt, Sizes DEF Register
    <3> QED
      BY <1>6, <2>1, <3>2, SameExports DEF Register
  <2> QED
    BY <1>6, <2>1, <2>2, <2>3, <2>4, TypeFrame DEF Register, seen, TaskTypes
<1> QED
  BY <1>2, <1>3, <1>4, <1>5, <1>6

\* A closed volume is read for a list.
LEMMA ReadClosedTurn ==
  ASSUME TypeOK, NEW t \in Tasks, ReadClosed(t)
  PROVE  \E n \in task[t].names :
           /\ CreateBackend(n)
           /\ task' = [task EXCEPT ![t].pc = "read", ![t].names = task[t].names \ {n}]
<1>1. PICK n \in task[t].names : CreateBackend(n) /\ task' = [task EXCEPT ![t].names = @ \ {n}]
  BY DEF ReadClosed
<1>2. task[t].pc = "read" /\ task \in [Tasks -> TaskRecords(Len(files), Len(vols))]
  BY DEF ReadClosed, At, TypeOK
<1>3. task' = [task EXCEPT ![t].pc = "read", ![t].names = task[t].names \ {n}]
  BY <1>1, <1>2 DEF TaskRecords
<1> QED
  BY <1>1, <1>3

\* Type correctness, the handlers that read superblocks by name.
LEMMA TypeRead ==
  ASSUME TypeOK, TaskInv, NEW t \in Tasks,
         \/ Unregister(t) \/ ListExports(t) \/ InfoCheck(t) \/ InfoOpen(t) \/ InfoRead(t)
         \/ List(t) \/ ReadClosed(t) \/ ReadDone(t) \/ Disconnect(t)
  PROVE  TypeOK'
<1>1. t \in Guests /\ Name(t) \in Names
  BY UseType
<1>2. CASE Unregister(t)
  <2>1. Grown
    BY <1>2, NothingGrown DEF Unregister
  <2>2. task' \in TaskTypes
    BY <1>2, <2>1, GotoType DEF Unregister, End, Labels
  <2>3. locks' \in Locks
    BY <1>1, <1>2, LockSteps DEF Unregister
  <2>4. exports' \in [Names -> 0..Len(files')]
    <3>1. exports \in [Names -> 0..Len(files')] /\ 0 \in 0..Len(files')
      BY <2>1, SameExports DEF Grown
    <3> QED
      BY <1>2, <3>1 DEF Unregister
  <2> QED
    BY <1>2, <2>1, <2>2, <2>3, <2>4, TypeFrame DEF Unregister, seen, TaskTypes
<1>3. CASE ListExports(t) \/ ReadDone(t)
  <2>1. Grown
    BY <1>3, NothingGrown DEF ListExports, ReadDone, httpVars
  <2>2. task' \in TaskTypes
    BY <1>3, <2>1, GotoType DEF ListExports, ReadDone, End, Labels
  <2>3. locks' \in Locks
    BY <1>1, <1>3, LockSteps DEF ListExports, ReadDone
  <2> QED
    BY <1>3, <2>1, <2>2, <2>3, TypeFrame DEF ListExports, ReadDone, httpVars, seen, TaskTypes
<1>4. CASE InfoCheck(t)
  <2>1. Grown
    BY <1>4, NothingGrown DEF InfoCheck, Turns, httpVars
  <2>2. task' \in TaskTypes
    BY <1>4, <2>1, GotoType DEF InfoCheck, Labels
  <2> QED
    BY <1>4, <2>1, <2>2, TypeFrame DEF InfoCheck, Turns, httpVars, seen, TaskTypes
<1>5. CASE InfoOpen(t)
  <2>1. /\ files' = WithOpened(Name(t)) /\ vols' = vols
        /\ dirs' = [dirs EXCEPT ![Name(t)] = Opened(Name(t))]
    BY <1>5 DEF InfoOpen, CreateBackend
  <2>2. Grown /\ dirs' \in [Names -> 0..Len(files')]
    BY <1>1, <2>1, OpenedFacts, FilesGrow
  <2>3. task' \in TaskTypes
    BY <1>5, <2>2, GotoType DEF InfoOpen, End, Labels
  <2>4. locks' = locks \/ locks' \in Locks
    BY <1>1, <1>5, LockSteps DEF InfoOpen
  <2> QED
    BY <1>5, <2>2, <2>3, <2>4, TypeFrame DEF InfoOpen, seen, TaskTypes
<1>6. CASE InfoRead(t)
  <2>1. Grown
    BY <1>6, NothingGrown DEF InfoRead, httpVars
  <2>2. task' \in TaskTypes
    <3>1. CASE task' = [task EXCEPT ![t].pc = "read", ![t].names = {Name(t)} \cap Listed]
      <4>1. {Name(t)} \cap Listed \in SUBSET Names /\ "read" \in Labels
        BY DEF Listed, Labels
      <4> QED
        BY <2>1, <3>1, <4>1, NamesType
    <3>2. CASE End(t)
      BY <2>1, <3>2, GotoType DEF End, Labels
    <3> QED
      BY <1>6, <3>1, <3>2 DEF InfoRead
  <2>3. locks' = locks \/ locks' \in Locks
    BY <1>1, <1>6, LockSteps DEF InfoRead
  <2> QED
    BY <1>6, <2>1, <2>2, <2>3, TypeFrame DEF InfoRead, httpVars, seen, TaskTypes
<1>7. CASE List(t)
  <2>1. Grown
    BY <1>7, NothingGrown DEF List, Turns, httpVars
  <2>2. task' \in TaskTypes
    <3>1. {n \in Listed : blocks[n] = 0} \in SUBSET Names /\ "read" \in Labels
      BY DEF Listed, Labels
    <3>2. task' = [task EXCEPT ![t].pc = "read", ![t].names = {n \in Listed : blocks[n] = 0}]
      BY <1>7 DEF List
    <3> QED
      BY <2>1, <3>1, <3>2, NamesType
  <2> QED
    BY <1>7, <2>1, <2>2, TypeFrame DEF List, Turns, httpVars, seen, TaskTypes
<1>8. CASE ReadClosed(t)
  <2>1. PICK n \in task[t].names :
          /\ CreateBackend(n)
          /\ task' = [task EXCEPT ![t].pc = "read", ![t].names = task[t].names \ {n}]
    BY <1>8, ReadClosedTurn
  <2>2. n \in Names /\ task[t].names \in SUBSET Names
    BY <2>1 DEF TypeOK, TaskRecords
  <2>3. files' = WithOpened(n) /\ vols' = vols /\ dirs' = [dirs EXCEPT ![n] = Opened(n)]
    BY <1>8, <2>1 DEF ReadClosed, CreateBackend, Works
  <2>4. Grown /\ dirs' \in [Names -> 0..Len(files')]
    BY <2>2, <2>3, OpenedFacts, FilesGrow
  <2>5. task' \in TaskTypes
    <3>1. task[t].names \ {n} \in SUBSET Names /\ "read" \in Labels
      BY <2>2 DEF Labels
    <3> QED
      BY <2>1, <2>4, <3>1, NamesType
  <2> QED
    BY <1>8, <2>4, <2>5, TypeFrame DEF ReadClosed, Works, seen, TaskTypes
<1>9. CASE Disconnect(t)
  <2>1. Grown
    BY <1>9, NothingGrown DEF Disconnect, httpVars
  <2>2. task' \in TaskTypes
    BY <1>9, <2>1, GotoType DEF Disconnect, End, Labels
  <2>3. locks' \in Locks
    BY <1>1, <1>9, DropFacts DEF Disconnect, TypeOK, Locks
  <2>4. met' \in [Names -> SUBSET {"delete", "makers", "clash"}]
    BY <1>1, <1>9, MeetType DEF Disconnect
  <2> QED
    BY <1>9, <2>1, <2>2, <2>3, <2>4, TypeFrame DEF Disconnect, httpVars, TaskTypes
<1> QED
  BY <1>2, <1>3, <1>4, <1>5, <1>6, <1>7, <1>8, <1>9

\* Type correctness, the NBD connections.
LEMMA TypeConn ==
  ASSUME TypeOK, NEW c \in Conns,
         Accept(c) \/ Greet(c) \/ Choose(c) \/ GiveUp(c) \/ Disc(c)
  PROVE  TypeOK'
<1>1. c \in Guests
  BY DEF Guests
<1>2. PICK from, to \in {"none", "ask", "handshake", "serve", "end"} : Connection(c, from, to)
  <2>1. CASE Choose(c)
    BY <2>1 DEF Choose
  <2> QED
    BY <2>1 DEF Accept, Greet, GiveUp, Disc
<1>3. Grown
  BY <1>2, NothingGrown DEF Connection, httpVars
<1>4. locks' = locks \/ locks' \in Locks
  BY <1>1, LockSteps DEF Accept, Greet, Choose, GiveUp, Disc
<1>5. conn' \in [Conns -> {"none", "ask", "handshake", "serve", "end"}]
  BY <1>2 DEF Connection, TypeOK
<1> QED
  BY <1>2, <1>3, <1>4, <1>5, TypeFrame DEF Connection, httpVars, seen

\* Type correctness, main.
LEMMA TypeMain ==
  ASSUME TypeOK, MainInv, Signal \/ Stop \/ \E listener \in open : Close(listener)
  PROVE  TypeOK'
<1>1. Main \in Guests /\ main \in MainRecords(Len(vols))
  BY DEF Guests, TypeOK
<1>2. CASE Signal
  <2>1. Grown
    BY <1>2, NothingGrown DEF Signal, MainTurns
  <2>2. locks' \in Locks
    BY <1>1, <1>2, LockSteps DEF Signal
  <2>3. main' \in MainRecords(Len(vols'))
    BY <1>1, <1>2 DEF Signal, MainTurns, MainRecords
  <2> QED
    BY <1>2, <2>1, <2>2, <2>3, TypeFrame DEF Signal, MainTurns
<1>3. CASE \E listener \in open : Close(listener)
  <2>1. Grown
    BY <1>3, NothingGrown DEF Close, MainTurns
  <2> QED
    BY <1>3, <2>1, TypeFrame DEF Close, MainTurns
<1>4. CASE StopAll
  <2>1. Grown
    BY <1>4, NothingGrown DEF StopAll, MainTurns
  <2>2. main' \in MainRecords(Len(vols'))
    BY <1>1, <1>4 DEF StopAll, MainTurns, MainRecords
  <2> QED
    BY <1>4, <2>1, <2>2, TypeFrame DEF StopAll, MainTurns
<1>5. CASE StopBegin
  <2>1. Grown
    BY <1>5, NothingGrown DEF StopBegin, MainTurns
  <2>2. PICK n \in main.todo : main' = [main EXCEPT !.todo = @ \ {n}, !.stopping = blocks[n],
                                                    !.nodes = vols[blocks[n]].mem]
    BY <1>5 DEF StopBegin
  <2>3. n \in Names /\ blocks[n] \in 1..Len(vols)
    BY <1>1, <1>5, <2>2 DEF StopBegin, MainInv, MainRecords, TypeOK
  <2>4. vols[blocks[n]].mem \in SUBSET Tasks /\ blocks[n] \in 0..Len(vols)
    BY <2>3, VolAt, Sizes
  <2>5. main' \in MainRecords(Len(vols'))
    BY <1>1, <1>5, <2>2, <2>4 DEF StopBegin, MainTurns, MainRecords
  <2> QED
    BY <1>5, <2>1, <2>5, TypeFrame DEF StopBegin, MainTurns
<1>6. CASE StopEnd
  <2>1. main.stopping \in 1..Len(vols) /\ main.nodes \in SUBSET Tasks
    BY <1>1, <1>6, Sizes DEF StopEnd, MainRecords
  <2>2. Grown
    BY <1>6, <2>1, StoppedType, NothingGrown DEF StopEnd, MainTurns
  <2>3. main' \in MainRecords(Len(vols'))
    <3>1. main' = [main EXCEPT !.stopping = 0, !.nodes = {}] /\ vols' = vols /\ 0 \in 0..Len(vols)
      BY <1>6, Sizes DEF StopEnd, MainTurns
    <3> QED
      BY <1>1, <3>1 DEF MainRecords
  <2>4. stopped' = stopped \/ stopped' \subseteq 1..Len(vols')
    BY <1>6, <2>1 DEF StopEnd, MainTurns, TypeOK
  <2> QED
    BY <1>6, <2>2, <2>3, <2>4, TypeFrame DEF StopEnd, MainTurns
<1>7. CASE StopsDone
  <2>1. Grown
    BY <1>7, NothingGrown DEF StopsDone, MainTurns
  <2>2. locks' \in Locks
    BY <1>1, <1>7, LockSteps DEF StopsDone
  <2>3. main' \in MainRecords(Len(vols'))
    BY <1>1, <1>7 DEF StopsDone, MainTurns, MainRecords
  <2> QED
    BY <1>7, <2>1, <2>2, <2>3, TypeFrame DEF StopsDone, MainTurns
<1>8. CASE Exit
  <2>1. Grown
    BY <1>8, NothingGrown DEF Exit, MainTurns
  <2>2. main' \in MainRecords(Len(vols'))
    BY <1>1, <1>8 DEF Exit, MainTurns, MainRecords
  <2> QED
    BY <1>8, <2>1, <2>2, TypeFrame DEF Exit, MainTurns
<1> QED
  BY <1>2, <1>3, <1>4, <1>5, <1>6, <1>7, <1>8 DEF Stop

-----------------------------------------------------------------------------
(* Where the handlers stand, and who holds the lock of the map.              *)

\* Where Goto leaves the tasks.
LEMMA GotoFacts ==
  ASSUME TypeOK, NEW t \in Tasks, NEW label, Goto(t, label)
  PROVE  /\ task'[t].pc = label /\ task'[t].vol = task[t].vol /\ task'[t].file = task[t].file
         /\ \A u \in Tasks \ {t} : task'[u] = task[u]
<1>1. task \in [Tasks -> TaskRecords(Len(files), Len(vols))]
  BY DEF TypeOK
<1> QED
  BY <1>1 DEF Goto, TaskRecords

\* Where With leaves the tasks.
LEMMA WithFacts ==
  ASSUME TypeOK, NEW t \in Tasks, NEW label, NEW v, NEW f, With(t, label, v, f)
  PROVE  /\ task'[t].pc = label /\ task'[t].vol = v /\ task'[t].file = f
         /\ \A u \in Tasks \ {t} : task'[u] = task[u]
<1>1. task \in [Tasks -> TaskRecords(Len(files), Len(vols))]
  BY DEF TypeOK
<1> QED
  BY <1>1 DEF With, TaskRecords

\* Where a list leaves the tasks.
LEMMA NamesFacts ==
  ASSUME TypeOK, NEW t \in Tasks, NEW label, NEW names,
         task' = [task EXCEPT ![t].pc = label, ![t].names = names]
  PROVE  /\ task'[t].pc = label /\ task'[t].vol = task[t].vol /\ task'[t].file = task[t].file
         /\ \A u \in Tasks \ {t} : task'[u] = task[u]
<1>1. task \in [Tasks -> TaskRecords(Len(files), Len(vols))]
  BY DEF TypeOK
<1> QED
  BY <1>1 DEF TaskRecords

\* A step of one handler leaves the others where they are.
LEMMA TaskFrame ==
  ASSUME TypeOK, TaskInv, use' = use, NEW t \in Tasks,
         \A u \in Tasks \ {t} : task'[u] = task[u],
         \A v \in 1..Len(vols) : vols'[v].file = vols[v].file,
         TaskFits(t)'
  PROVE  TaskInv'
<1>1. ASSUME NEW u \in Tasks \ {t} PROVE TaskFits(u)'
  <2>1. TaskFits(u) /\ task'[u] = task[u] /\ Op(u)' = Op(u)
    BY DEF TaskInv, Op
  <2>2. task[u].vol \in 0..Len(vols) /\ Len(vols) \in Nat
    BY Sizes DEF TypeOK, TaskRecords
  <2>3. task[u].vol # 0 => vols'[task[u].vol].file = vols[task[u].vol].file
    BY <2>2
  <2> QED
    BY <2>1, <2>3 DEF TaskFits
<1> QED
  BY <1>1 DEF TaskInv

\* A handler that goes on with the Volume it had, or with none.
LEMMA TaskGoes ==
  ASSUME TypeOK, TaskInv, NEW t \in Tasks, NEW label, UNCHANGED <<use, vols>>,
         Goto(t, label) \/ \E names : task' = [task EXCEPT ![t].pc = label, ![t].names = names],
         label \in {"none", "end"} \cup LabelsOf(Op(t)),
         label # "create_write",
         label \in {"insert", "delete_stop", "change", "look", "mount", "register"} =>
           task[t].pc \in {"delete_stop", "change", "look", "mount", "register"} /\ label # "insert"
  PROVE  TaskInv'
<1>1. /\ task'[t].pc = label /\ task'[t].vol = task[t].vol /\ task'[t].file = task[t].file
      /\ \A u \in Tasks \ {t} : task'[u] = task[u]
  BY GotoFacts, NamesFacts
<1>2. TaskFits(t) /\ Op(t)' = Op(t)
  BY DEF TaskInv, Op
<1>3. TaskFits(t)'
  BY <1>1, <1>2 DEF TaskFits
<1> QED
  BY <1>1, <1>3, TaskFrame

\* A handler that has made a Volume.
LEMMA TaskOpens ==
  ASSUME TypeOK, TaskInv, NEW t \in Tasks, NEW f, OpenVolume(t, f), use' = use,
         Op(t) \in {"create", "clone"}
  PROVE  TaskInv'
<1>1. /\ Len(vols) \in Nat /\ vols'[Len(vols) + 1] = [file |-> f, mem |-> {}]
      /\ \A v \in 1..Len(vols) : vols'[v] = vols[v]
  BY DEF OpenVolume, TypeOK
<1>2. /\ task'[t].pc = "insert" /\ task'[t].vol = Len(vols) + 1 /\ task'[t].file = f
      /\ \A u \in Tasks \ {t} : task'[u] = task[u]
  BY WithFacts DEF OpenVolume
<1>3. Op(t)' = Op(t)
  BY DEF Op
<1>4. TaskFits(t)'
  BY <1>1, <1>2, <1>3 DEF TaskFits, LabelsOf
<1> QED
  BY <1>1, <1>2, <1>4, TaskFrame

\* What a handler does, by where it stands.
LEMMA WhoStands ==
  ASSUME TypeOK, TaskInv, NEW t \in Tasks
  PROVE  /\ task[t].pc \in {"create", "create_open", "create_write"} => Op(t) = "create"
         /\ task[t].pc \in {"clone", "clone_copy", "clone_write", "clone_open"} => Op(t) = "clone"
         /\ task[t].pc = "insert" => Op(t) \in Makers
         /\ task[t].pc \in {"delete", "delete_open", "delete_stop", "delete_dir", "remove"} => Op(t) = "delete"
         /\ task[t].pc = "get" => Op(t) \in {"change", "look", "mount"}
         /\ task[t].pc = "change" => Op(t) = "change"
         /\ task[t].pc = "look" => Op(t) = "look"
         /\ task[t].pc \in {"mount", "register"} => Op(t) = "mount"
         /\ task[t].pc \in {"info", "info_open", "info_read"} => Op(t) = "info"
         /\ task[t].pc = "list" => Op(t) = "list"
         /\ task[t].pc = "read" => Op(t) \in {"info", "list"}
<1>1. Op(t) \in Ops /\ TaskFits(t)
  BY UseType DEF TaskInv
<1> QED
  BY <1>1 DEF TaskFits, LabelsOf, Ops, Makers

\* Every step of a handler keeps TaskInv.
LEMMA TaskStep ==
  ASSUME TypeOK, TaskInv, NEW t \in Tasks, Arrive(t) \/ Handle(t) \/ Disconnect(t)
  PROVE  TaskInv'
<1>1. TaskFits(t) /\ Op(t) \in Ops
  BY UseType DEF TaskInv
<1>2. CASE Arrive(t)
  <2>1. First(Op(t)) \in LabelsOf(Op(t))
    BY <1>1 DEF First, LabelsOf, Ops, Makers
  <2>2. First(Op(t)) \notin {"create_write", "insert", "delete_stop", "change", "look", "mount", "register"}
    BY <1>1 DEF First, Ops, Makers
  <2> QED
    BY <1>2, <2>1, <2>2, TaskGoes DEF Arrive, httpVars
<1>3. CASE CreateCheck(t)
  <2>1. Op(t) = "create"
    BY <1>3, WhoStands DEF CreateCheck, At
  <2> QED
    BY <1>3, <2>1, TaskGoes DEF CreateCheck, Turns, httpVars, LabelsOf
<1>4. CASE CreateOpen(t)
  <2>1. Op(t) = "create" /\ Op(t)' = Op(t) /\ vols' = vols /\ use' = use
    BY <1>4, WhoStands DEF CreateOpen, At, Works, Op
  <2>2. /\ task'[t].pc = "create_write" /\ task'[t].vol = 0 /\ task'[t].file = Opened(Name(t))
        /\ \A u \in Tasks \ {t} : task'[u] = task[u]
    BY <1>4, WithFacts DEF CreateOpen
  <2>3. Opened(Name(t)) # 0
    BY UseType, OpenedFacts
  <2>4. TaskFits(t)'
    BY <2>1, <2>2, <2>3 DEF TaskFits, LabelsOf
  <2> QED
    BY <2>1, <2>2, <2>4, TaskFrame
<1>5. CASE CreateWrite(t)
  <2>1. Op(t) = "create"
    BY <1>5, WhoStands DEF CreateWrite, At
  <2>2. CASE OpenVolume(t, task[t].file)
    BY <1>5, <2>1, <2>2, TaskOpens DEF CreateWrite
  <2>3. CASE End(t) /\ UNCHANGED <<files, vols, locks>>
    BY <1>5, <2>3, TaskGoes DEF CreateWrite, End
  <2> QED
    BY <1>5, <2>2, <2>3 DEF CreateWrite
<1>6. CASE Insert(t) \/ RemoveVolume(t) \/ DeleteDirFails(t) \/ Look(t) \/ Register(t)
           \/ Unregister(t) \/ ListExports(t) \/ ReadDone(t) \/ Disconnect(t)
  <2>1. Goto(t, "end") /\ UNCHANGED <<use, vols>>
    BY <1>6 DEF Insert, RemoveVolume, DeleteDirFails, Look, Register, Unregister, ListExports,
                ReadDone, Disconnect, End, Turns, httpVars
  <2> QED
    BY <2>1, TaskGoes
<1>7. CASE DeleteCheck(t)
  <2>1. Op(t) = "delete"
    BY <1>7, WhoStands DEF DeleteCheck, At
  <2> QED
    BY <1>7, <2>1, TaskGoes DEF DeleteCheck, Turns, httpVars, LabelsOf
<1>8. CASE DeleteOpen(t)
  <2> DEFINE f == Opened(Name(t))
  <2>1. Op(t) = "delete" /\ Op(t)' = Op(t) /\ use' = use
    BY <1>8, WhoStands DEF DeleteOpen, At, Op
  <2>2. CASE /\ vols' = Append(vols, [file |-> f, mem |-> {}])
             /\ With(t, "delete_stop", Len(vols) + 1, f)
    <3>1. Len(vols) \in Nat /\ \A v \in 1..Len(vols) : vols'[v] = vols[v]
      BY <2>2 DEF TypeOK
    <3>2. /\ task'[t].pc = "delete_stop" /\ task'[t].vol = Len(vols) + 1
          /\ \A u \in Tasks \ {t} : task'[u] = task[u]
      BY <2>2, WithFacts
    <3>3. TaskFits(t)'
      BY <2>1, <3>1, <3>2 DEF TaskFits, LabelsOf
    <3> QED
      BY <2>1, <3>1, <3>2, <3>3, TaskFrame
  <2>3. CASE End(t) /\ UNCHANGED vols
    BY <2>1, <2>3, TaskGoes DEF End
  <2> QED
    BY <1>8, <2>2, <2>3 DEF DeleteOpen
<1>9. CASE DeleteStop(t) \/ DeleteDir(t)
  <2>1. Op(t) = "delete"
    BY <1>9, WhoStands DEF DeleteStop, DeleteDir, At
  <2> QED
    BY <1>9, <2>1, TaskGoes DEF DeleteStop, DeleteDir, LabelsOf
<1>10. CASE CloneCheck(t) \/ CloneCopy(t) \/ CloneWrite(t)
  <2>1. Op(t) = "clone" /\ UNCHANGED <<use, vols>>
    BY <1>10, WhoStands DEF CloneCheck, CloneCopy, CloneWrite, At, Turns, Works, httpVars
  <2>2. \E label \in {"clone_copy", "clone_write", "clone_open", "end"} : Goto(t, label)
    BY <1>10 DEF CloneCheck, CloneCopy, CloneWrite, End
  <2> QED
    BY <2>1, <2>2, TaskGoes DEF LabelsOf
<1>11. CASE CloneOpen(t)
  <2>1. Op(t) = "clone"
    BY <1>11, WhoStands DEF CloneOpen, At
  <2>2. CASE OpenVolume(t, dirs[Name(t)])
    BY <1>11, <2>1, <2>2, TaskOpens DEF CloneOpen
  <2>3. CASE End(t) /\ UNCHANGED <<vols, locks>>
    BY <1>11, <2>3, TaskGoes DEF CloneOpen, End
  <2> QED
    BY <1>11, <2>2, <2>3 DEF CloneOpen
<1>12. CASE GetVolume(t)
  <2>1. Op(t) \in {"change", "look", "mount"} /\ Op(t)' = Op(t) /\ UNCHANGED <<use, vols>>
    BY <1>12, WhoStands DEF GetVolume, At, Op, httpVars
  <2>2. /\ task'[t].pc = IF blocks[Name(t)] = 0 THEN "end" ELSE Op(t)
        /\ task'[t].vol = blocks[Name(t)]
        /\ \A u \in Tasks \ {t} : task'[u] = task[u]
    BY <1>12, WithFacts DEF GetVolume
  <2>3. TaskFits(t)'
    BY <2>1, <2>2 DEF TaskFits, LabelsOf
  <2> QED
    BY <2>1, <2>2, <2>3, TaskFrame
<1>13. CASE Change(t)
  <2>1. use' = use /\ Goto(t, "end") /\ Op(t)' = Op(t)
    BY <1>13 DEF Change, End, Op
  <2>2. \A v \in 1..Len(vols) : vols'[v].file = vols[v].file
    <3>1. vols \in Seq(VolRecords(Len(files)))
      BY DEF TypeOK
    <3> QED
      BY <1>13, <3>1 DEF Change, VolRecords
  <2>3. task'[t].pc = "end" /\ \A u \in Tasks \ {t} : task'[u] = task[u]
    BY <2>1, GotoFacts
  <2>4. TaskFits(t)'
    BY <2>3 DEF TaskFits
  <2> QED
    BY <2>1, <2>2, <2>3, <2>4, TaskFrame
<1>14. CASE MountLook(t)
  <2>1. Op(t) = "mount" /\ task[t].pc = "mount" /\ UNCHANGED <<use, vols>>
    BY <1>14, WhoStands DEF MountLook, At, httpVars
  <2>2. Goto(t, "end") \/ Goto(t, "register")
    BY <1>14 DEF MountLook, End
  <2> QED
    BY <2>1, <2>2, TaskGoes DEF LabelsOf
<1>15. CASE InfoCheck(t) \/ InfoOpen(t) \/ InfoRead(t)
  <2>1. Op(t) = "info" /\ UNCHANGED <<use, vols>>
    BY <1>15, WhoStands DEF InfoCheck, InfoOpen, InfoRead, At, Turns, httpVars
  <2>2. \/ \E label \in {"info_open", "info_read", "end"} : Goto(t, label)
        \/ \E names : task' = [task EXCEPT ![t].pc = "read", ![t].names = names]
    BY <1>15 DEF InfoCheck, InfoOpen, InfoRead, End
  <2> QED
    BY <2>1, <2>2, TaskGoes DEF LabelsOf
<1>16. CASE List(t)
  <2>1. Op(t) = "list" /\ UNCHANGED <<use, vols>>
    BY <1>16, WhoStands DEF List, At, Turns, httpVars
  <2>2. \E names : task' = [task EXCEPT ![t].pc = "read", ![t].names = names]
    BY <1>16 DEF List
  <2> QED
    BY <2>1, <2>2, TaskGoes DEF LabelsOf
<1>17. CASE ReadClosed(t)
  <2>1. Op(t) \in {"info", "list"} /\ UNCHANGED <<use, vols>> /\ task[t].pc = "read"
    BY <1>17, WhoStands DEF ReadClosed, At, Works
  <2>2. \E names : task' = [task EXCEPT ![t].pc = "read", ![t].names = names]
    BY <1>17, ReadClosedTurn
  <2> QED
    BY <2>1, <2>2, TaskGoes DEF LabelsOf
<1> QED
  BY <1>2, <1>3, <1>4, <1>5, <1>6, <1>7, <1>8, <1>9, <1>10, <1>11, <1>12, <1>13, <1>14, <1>15,
     <1>16, <1>17 DEF Handle

\* The labels at which a handler has asked for the map of volumes.
ReadLabels == {"get", "list", "info_read", "read"}
WriteLabels == {"insert", "remove"}

\* A guest without an entry does not hold the lock.
LEMMA NoEntry ==
  ASSUME MapGuards, NEW t \in Tasks, task[t].pc \notin ReadLabels \cup WriteLabels
  PROVE  \A r \in Entries(locks["blocks"]) : r.who # t
  BY DEF MapGuards, ReadLabels, WriteLabels

\* A handler that is about to change the map is alone with it.
LEMMA WriterAlone ==
  ASSUME MapGuards, NEW t \in Tasks, task[t].pc \in WriteLabels, Has("blocks", t)
  PROVE  ~Has("blocks", Main)
<1>1. PICK r \in locks["blocks"].held : r.who = t
  BY DEF Has
<1>2. r.mode = "write"
  BY <1>1 DEF MapGuards, Entries, WriteLabels
<1>3. locks["blocks"].held = {r}
  BY <1>2 DEF MapGuards, Exclusive
<1> QED
  BY <1>1, <1>3, ConstantAssumption DEF Has

\* What becomes of the map's lock, and of the map, when a handler goes on.
Keeps(t) ==
  /\ locks'["blocks"] = locks["blocks"]
  /\ \/ task[t].pc \notin ReadLabels \cup WriteLabels
     \/ task[t].pc \in ReadLabels /\ task'[t].pc \in ReadLabels
  /\ blocks' = blocks
Asks(t, mode) ==
  /\ locks'["blocks"] = Ask(locks["blocks"], t, mode)
  /\ task[t].pc \notin ReadLabels \cup WriteLabels
  /\ task'[t].pc \in IF mode = "write" THEN WriteLabels ELSE ReadLabels
  /\ blocks' = blocks
Drops(t) ==
  /\ locks'["blocks"] = Drop(locks["blocks"], t)
  /\ blocks' = blocks \/ (task[t].pc \in WriteLabels /\ Has("blocks", t))

\* A step that leaves the lock of the map alone.
LEMMA GuardFrame ==
  ASSUME TypeOK, MapGuards, MainInv, NEW t \in Tasks, main' = main,
         \A u \in Tasks \ {t} : task'[u] = task[u],
         Keeps(t) \/ Asks(t, "read") \/ Asks(t, "write") \/ Drops(t)
  PROVE  MapGuards' /\ MainInv'
<1> DEFINE L == locks["blocks"]
           M == locks'["blocks"]
<1>1. L \in RwLocks /\ Exclusive(L) /\ Once(L) /\ t \in Guests
  BY DEF TypeOK, MapGuards, Guests
<1>2. /\ Exclusive(M) /\ Once(M)
      /\ \A r \in Entries(M) :
           \/ r \in Entries(L) /\ r.who # t
           \/ r \in Entries(L) /\ r.who = t /\ Keeps(t)
           \/ \E mode \in {"read", "write"} : Asks(t, mode) /\ r = [who |-> t, mode |-> mode]
      /\ \A r \in L.held : r.who # t => r \in M.held
  <2>1. CASE Keeps(t)
    BY <1>1, <2>1 DEF Keeps
  <2>2. ASSUME NEW mode \in {"read", "write"}, Asks(t, mode)
        PROVE  /\ Exclusive(M) /\ Once(M)
               /\ \A r \in Entries(M) :
                     (r \in Entries(L) /\ r.who # t) \/ (Asks(t, mode) /\ r = [who |-> t, mode |-> mode])
               /\ \A r \in L.held : r.who # t => r \in M.held
    <3>1. M = Ask(L, t, mode) /\ \A r \in Entries(L) : r.who # t
      BY <2>2, NoEntry DEF Asks
    <3> HIDE DEF L, M
    <3> QED
      BY <1>1, <2>2, <3>1, AskFacts
  <2>3. CASE Drops(t)
    <3>1. M = Drop(L, t)
      BY <2>3 DEF Drops
    <3> HIDE DEF L, M
    <3> QED
      BY <1>1, <3>1, DropFacts
  <2> HIDE DEF L, M
  <2>4. CASE Asks(t, "read")
    BY <2>2, <2>4
  <2>5. CASE Asks(t, "write")
    BY <2>2, <2>5
  <2> QED
    BY <2>1, <2>3, <2>4, <2>5
<1>3. ASSUME NEW r \in Entries(M)
      PROVE  /\ r.who \in Tasks => task'[r.who].pc \in IF r.mode = "write" THEN WriteLabels ELSE ReadLabels
             /\ r.who = Main => r.mode = "read" /\ main'.pc \in {"ask", "stop"}
             /\ r.who \notin Conns
  <2>1. CASE r \in Entries(L) /\ r.who # t
    BY <2>1 DEF MapGuards, ReadLabels, WriteLabels
  <2>2. CASE r \in Entries(L) /\ r.who = t /\ Keeps(t)
    BY <2>2, ConstantAssumption DEF MapGuards, Keeps, ReadLabels, WriteLabels
  <2>3. CASE \E mode \in {"read", "write"} : Asks(t, mode) /\ r = [who |-> t, mode |-> mode]
    BY <2>3, ConstantAssumption DEF Asks
  <2> HIDE DEF L, M
  <2> QED
    BY <1>2, <2>1, <2>2, <2>3
<1>4. MapGuards'
  BY <1>2, <1>3 DEF MapGuards, ReadLabels, WriteLabels
<1>5. Has("blocks", Main) => Has("blocks", Main)'
  BY <1>2, ConstantAssumption DEF Has
<1>6. Has("blocks", Main) => blocks' = blocks
  BY WriterAlone DEF Keeps, Asks, Drops
<1>7. MainInv'
  BY <1>5, <1>6 DEF MainInv
<1> QED
  BY <1>4, <1>7

\* A handler asks for the map, or leaves it, as its request demands; nobody changes the
\* map while main stops its volumes.
LEMMA GuardStep ==
  ASSUME TypeOK, MapGuards, MainInv, NEW t \in Tasks, Arrive(t) \/ Handle(t) \/ Disconnect(t)
  PROVE  MapGuards' /\ MainInv'
<1>1. locks \in [{"blocks", "exports"} -> RwLocks] /\ Op(t) \in Ops
  BY UseType DEF TypeOK
<1> DEFINE Others == \A u \in Tasks \ {t} : task'[u] = task[u]
           Fine == Keeps(t) \/ Asks(t, "read") \/ Asks(t, "write") \/ Drops(t)
<1>2. ASSUME NEW label, Goto(t, label)
      PROVE  task'[t].pc = label /\ Others
  BY <1>2, GotoFacts
<1>3. ASSUME NEW label, NEW v, NEW f, With(t, label, v, f)
      PROVE  task'[t].pc = label /\ Others
  BY <1>3, WithFacts
<1>4. ASSUME NEW label, NEW names, task' = [task EXCEPT ![t].pc = label, ![t].names = names]
      PROVE  task'[t].pc = label /\ Others
  BY <1>4, NamesFacts
<1> HIDE DEF Others
<1>5. \A l, mode : Await(l, t, mode) /\ l \in {"blocks", "exports"} =>
         locks'["blocks"] = IF l = "blocks" THEN Ask(locks["blocks"], t, mode) ELSE locks["blocks"]
  BY <1>1 DEF Await
<1>6. \A l : Leave(l, t) /\ l \in {"blocks", "exports"} =>
         locks'["blocks"] = IF l = "blocks" THEN Drop(locks["blocks"], t) ELSE locks["blocks"]
  BY <1>1 DEF Leave
<1> USE DEF ReadLabels, WriteLabels
<1>7. CASE Arrive(t)
  <2>1. blocks' = blocks /\ main' = main /\ Goto(t, First(Op(t))) /\ task[t].pc = "none"
    BY <1>7 DEF Arrive, httpVars, At
  <2>2. CASE Op(t) \in {"change", "look", "mount", "list"}
    <3>1. First(Op(t)) \in ReadLabels /\ Await("blocks", t, "read")
      BY <1>7, <2>2 DEF Arrive, First, FirstLock
    <3>2. Asks(t, "read") /\ Others
      BY <1>2, <1>5, <2>1, <3>1 DEF Asks
    <3> QED
      BY <2>1, <3>2, GuardFrame DEF Others
  <2>3. CASE Op(t) \notin {"change", "look", "mount", "list"}
    <3>1. UNCHANGED locks \/ Await("exports", t, "write") \/ Await("exports", t, "read")
      BY <1>1, <1>7, <2>3 DEF Arrive, FirstLock, Ops, Makers
    <3>2. Keeps(t) /\ Others
      BY <1>2, <1>5, <2>1, <3>1 DEF Keeps
    <3> QED
      BY <2>1, <3>2, GuardFrame DEF Others
  <2> QED
    BY <2>2, <2>3
<1>8. CASE \/ CreateCheck(t) \/ DeleteCheck(t) \/ DeleteStop(t) \/ CloneCheck(t) \/ CloneCopy(t)
           \/ CloneWrite(t) \/ InfoCheck(t) \/ Look(t) \/ Change(t) \/ DeleteDirFails(t)
  <2>1. blocks' = blocks /\ main' = main /\ locks' = locks /\ \E label : Goto(t, label)
    BY <1>8 DEF CreateCheck, DeleteCheck, DeleteStop, CloneCheck, CloneCopy, CloneWrite, InfoCheck,
                Look, Change, DeleteDirFails, End, Turns, Works, httpVars
  <2>2. task[t].pc \notin ReadLabels \cup WriteLabels
    BY <1>8 DEF CreateCheck, DeleteCheck, DeleteStop, CloneCheck, CloneCopy, CloneWrite, InfoCheck,
                Look, Change, DeleteDirFails, At
  <2>3. Keeps(t) /\ Others
    BY <1>2, <2>1, <2>2 DEF Keeps
  <2> QED
    BY <2>1, <2>3, GuardFrame DEF Others
<1>9. CASE MountLook(t) \/ Register(t) \/ Unregister(t) \/ ListExports(t)
  <2>1. blocks' = blocks /\ main' = main /\ \E label : Goto(t, label)
    BY <1>9 DEF MountLook, Register, Unregister, ListExports, End, httpVars
  <2>2. task[t].pc \notin ReadLabels \cup WriteLabels
    BY <1>9 DEF MountLook, Register, Unregister, ListExports, At
  <2>3. locks'["blocks"] = locks["blocks"]
    BY <1>1, <1>9 DEF MountLook, Register, Unregister, ListExports, Leave
  <2>4. Keeps(t) /\ Others
    BY <1>2, <2>1, <2>2, <2>3 DEF Keeps
  <2> QED
    BY <2>1, <2>4, GuardFrame DEF Others
<1>10. CASE CreateOpen(t) \/ DeleteOpen(t)
  <2>1. /\ blocks' = blocks /\ main' = main /\ locks' = locks
        /\ (\E label : Goto(t, label)) \/ \E label, v, f : With(t, label, v, f)
    BY <1>10 DEF CreateOpen, DeleteOpen, End, Works
  <2>2. task[t].pc \notin ReadLabels \cup WriteLabels
    BY <1>10 DEF CreateOpen, DeleteOpen, At
  <2>3. Keeps(t) /\ Others
    BY <1>2, <1>3, <2>1, <2>2 DEF Keeps
  <2> QED
    BY <2>1, <2>3, GuardFrame DEF Others
<1>11. CASE CreateWrite(t) \/ CloneOpen(t)
  <2>1. /\ blocks' = blocks /\ main' = main /\ task[t].pc \notin ReadLabels \cup WriteLabels
        /\ (\E f : OpenVolume(t, f)) \/ (End(t) /\ UNCHANGED locks)
    BY <1>11 DEF CreateWrite, CloneOpen, At
  <2>2. CASE \E f : OpenVolume(t, f)
    <3>1. Await("blocks", t, "write") /\ \E v, f : With(t, "insert", v, f)
      BY <2>2 DEF OpenVolume
    <3>2. Asks(t, "write") /\ Others
      BY <1>3, <1>5, <2>1, <3>1 DEF Asks
    <3> QED
      BY <2>1, <3>2, GuardFrame DEF Others
  <2>3. CASE End(t) /\ UNCHANGED locks
    <3>1. Keeps(t) /\ Others
      BY <1>2, <2>1, <2>3 DEF Keeps, End
    <3> QED
      BY <2>1, <3>1, GuardFrame DEF Others
  <2> QED
    BY <2>1, <2>2, <2>3
<1>12. CASE DeleteDir(t)
  <2>1. /\ blocks' = blocks /\ main' = main /\ task[t].pc \notin ReadLabels \cup WriteLabels
        /\ Await("blocks", t, "write") /\ Goto(t, "remove")
    BY <1>12 DEF DeleteDir, At
  <2>2. Asks(t, "write") /\ Others
    BY <1>2, <1>5, <2>1 DEF Asks
  <2> QED
    BY <2>1, <2>2, GuardFrame DEF Others
<1>13. CASE InfoOpen(t)
  <2>1. /\ blocks' = blocks /\ main' = main /\ task[t].pc \notin ReadLabels \cup WriteLabels
        /\ (Await("blocks", t, "read") /\ Goto(t, "info_read")) \/ (End(t) /\ UNCHANGED locks)
    BY <1>13 DEF InfoOpen, At
  <2>2. Others /\ (Asks(t, "read") \/ Keeps(t))
    BY <1>2, <1>5, <2>1 DEF Asks, Keeps, End
  <2> QED
    BY <2>1, <2>2, GuardFrame DEF Others
<1>14. CASE Insert(t) \/ RemoveVolume(t)
  <2>1. /\ main' = main /\ task[t].pc \in WriteLabels /\ Has("blocks", t)
        /\ Leave("blocks", t) /\ Goto(t, "end")
    BY <1>14 DEF Insert, RemoveVolume, At, End
  <2>2. Others /\ Drops(t)
    BY <1>2, <1>6, <2>1 DEF Drops
  <2> QED
    BY <2>1, <2>2, GuardFrame DEF Others
<1>15. CASE GetVolume(t)
  <2>1. /\ main' = main /\ blocks' = blocks /\ \E label, v, f : With(t, label, v, f)
        /\ locks'["blocks"] = Drop(locks["blocks"], t)
    BY <1>1, <1>15 DEF GetVolume, httpVars
  <2>2. Others /\ Drops(t)
    BY <1>3, <2>1 DEF Drops
  <2> QED
    BY <2>1, <2>2, GuardFrame DEF Others
<1>16. CASE Disconnect(t) \/ ReadDone(t)
  <2>1. /\ main' = main /\ blocks' = blocks /\ Goto(t, "end")
        /\ locks'["blocks"] = Drop(locks["blocks"], t)
    BY <1>1, <1>6, <1>16 DEF Disconnect, ReadDone, httpVars, End
  <2>2. Others /\ Drops(t)
    BY <1>2, <2>1 DEF Drops
  <2> QED
    BY <2>1, <2>2, GuardFrame DEF Others
<1>17. CASE InfoRead(t) \/ List(t)
  <2>1. main' = main /\ blocks' = blocks /\ task[t].pc \in ReadLabels
    BY <1>17 DEF InfoRead, List, Turns, At, httpVars
  <2>2. \/ /\ locks' = locks
           /\ \E names : task' = [task EXCEPT ![t].pc = "read", ![t].names = names]
        \/ Leave("blocks", t) /\ End(t)
    BY <1>17 DEF InfoRead, List, Turns
  <2>3. Others /\ (Keeps(t) \/ Drops(t))
    BY <1>2, <1>4, <1>6, <2>1, <2>2 DEF Keeps, Drops, End
  <2> QED
    BY <2>1, <2>3, GuardFrame DEF Others
<1>18. CASE ReadClosed(t)
  <2>1. main' = main /\ blocks' = blocks /\ locks' = locks /\ task[t].pc = "read"
    BY <1>18 DEF ReadClosed, Works, At
  <2>2. \E names : task' = [task EXCEPT ![t].pc = "read", ![t].names = names]
    BY <1>18, ReadClosedTurn
  <2>3. Others /\ Keeps(t)
    BY <1>4, <2>1, <2>2 DEF Keeps
  <2> QED
    BY <2>1, <2>3, GuardFrame DEF Others
<1> QED
  BY <1>7, <1>8, <1>9, <1>10, <1>11, <1>12, <1>13, <1>14, <1>15, <1>16, <1>17, <1>18 DEF Handle

\* An NBD connection does not touch the lock of the map.
LEMMA GuardStepConn ==
  ASSUME TypeOK, MapGuards, MainInv, NEW c \in Conns,
         Accept(c) \/ Greet(c) \/ Choose(c) \/ GiveUp(c) \/ Disc(c)
  PROVE  MapGuards' /\ MainInv'
<1>1. UNCHANGED <<task, main, blocks>>
  BY DEF Accept, Greet, Choose, GiveUp, Disc, Connection, httpVars
<1>2. locks'["blocks"] = locks["blocks"]
  BY DEF TypeOK, Accept, Greet, Choose, GiveUp, Disc, Await, Leave
<1> QED
  BY <1>1, <1>2 DEF MapGuards, MainInv, Has

\* main asks for the map, reads it and leaves it.
LEMMA GuardStepMain ==
  ASSUME TypeOK, MapGuards, MainInv, Signal \/ Stop \/ \E listener \in open : Close(listener)
  PROVE  MapGuards' /\ MainInv'
<1>1. /\ main \in MainRecords(Len(vols)) /\ locks["blocks"] \in RwLocks /\ Main \in Guests
      /\ locks \in [{"blocks", "exports"} -> RwLocks]
  BY DEF TypeOK, Guests
<1>2. task' = task /\ blocks' = blocks
  BY DEF Signal, Stop, StopAll, StopBegin, StopEnd, StopsDone, Exit, Close, MainTurns
<1>3. CASE Signal
  <2>1. main' = [main EXCEPT !.pc = "ask"] /\ main.pc = "run"
    BY <1>3 DEF Signal
  <2>2. main'.pc = "ask" /\ main'.stopping = main.stopping
    BY <1>1, <2>1 DEF MainRecords
  <2>3. locks'["blocks"] = Ask(locks["blocks"], Main, "read")
    BY <1>1, <1>3 DEF Signal, Await
  <2>4. \A r \in Entries(locks["blocks"]) : r.who # Main
    BY <2>1 DEF MapGuards
  <2> DEFINE M == locks'["blocks"]
  <2>5. Exclusive(M) /\ Once(M) /\ Entries(M) \subseteq Entries(locks["blocks"]) \cup {[who |-> Main, mode |-> "read"]}
    BY <1>1, <2>3, <2>4, AskFacts DEF MapGuards
  <2> HIDE DEF M
  <2>6. \A r \in Entries(M) :
           /\ r.who \in Tasks => task'[r.who].pc \in IF r.mode = "write" THEN {"insert", "remove"}
                                                    ELSE {"get", "list", "info_read", "read"}
           /\ r.who = Main => r.mode = "read" /\ main'.pc \in {"ask", "stop"}
           /\ r.who \notin Conns
    BY <1>2, <2>2, <2>4, <2>5, ConstantAssumption DEF MapGuards
  <2>7. MapGuards'
    BY <2>5, <2>6 DEF MapGuards, M
  <2> QED
    BY <2>1, <2>2, <2>7 DEF MainInv
<1>4. CASE StopsDone
  <2>1. main' = [main EXCEPT !.pc = "join"] /\ main.stopping = 0
    BY <1>4 DEF StopsDone
  <2>2. main'.pc = "join" /\ main'.stopping = 0
    BY <1>1, <2>1 DEF MainRecords
  <2>3. locks'["blocks"] = Drop(locks["blocks"], Main)
    BY <1>1, <1>4 DEF StopsDone, Leave
  <2> DEFINE M == locks'["blocks"]
  <2>4. Exclusive(M) /\ Once(M) /\ Entries(M) \subseteq Entries(locks["blocks"]) /\ \A r \in Entries(M) : r.who # Main
    BY <1>1, <2>3, DropFacts DEF MapGuards
  <2> HIDE DEF M
  <2>5. MapGuards'
    BY <1>2, <2>4 DEF MapGuards, M
  <2> QED
    BY <2>2, <2>5 DEF MainInv
<1>5. CASE StopAll
  <2>1. locks' = locks /\ main.pc = "ask" /\ Has("blocks", Main)
    BY <1>5 DEF StopAll
  <2>2. main'.pc = "stop" /\ main'.todo = {n \in Names : blocks[n] # 0} /\ main'.stopping = main.stopping
    BY <1>1, <1>5 DEF StopAll, MainRecords
  <2>3. main.stopping = 0
    BY <2>1 DEF MainInv
  <2>4. MainInv'
    BY <1>2, <2>1, <2>2, <2>3 DEF MainInv, Has
  <2>5. MapGuards'
    BY <1>2, <2>1, <2>2 DEF MapGuards
  <2> QED
    BY <2>4, <2>5
<1>6. CASE StopBegin
  <2>1. locks' = locks /\ main.pc = "stop"
    BY <1>6 DEF StopBegin
  <2>2. PICK n \in main.todo :
          main'.pc = "stop" /\ main'.todo = main.todo \ {n} /\ main'.stopping = blocks[n]
    BY <1>1, <1>6 DEF StopBegin, MainRecords
  <2>3. n \in Names
    BY <1>1, <2>2 DEF MainRecords
  <2>4. MainInv'
    BY <1>2, <2>1, <2>2, <2>3 DEF MainInv, Has
  <2>5. MapGuards'
    BY <1>2, <2>1, <2>2 DEF MapGuards
  <2> QED
    BY <2>4, <2>5
<1>7. CASE StopEnd
  <2>1. locks' = locks /\ main.pc = "stop"
    BY <1>7 DEF StopEnd
  <2>2. main'.pc = "stop" /\ main'.todo = main.todo /\ main'.stopping = 0
    BY <1>1, <1>7 DEF StopEnd, MainRecords
  <2>3. MainInv'
    BY <1>2, <2>1, <2>2 DEF MainInv, Has
  <2>4. MapGuards'
    BY <1>2, <2>1, <2>2 DEF MapGuards
  <2> QED
    BY <2>3, <2>4
<1>8. CASE Exit
  <2>1. locks' = locks /\ main.pc = "join" /\ main'.pc = "done" /\ main'.stopping = main.stopping
    BY <1>1, <1>8 DEF Exit, MainRecords
  <2>2. \A r \in Entries(locks["blocks"]) : r.who # Main
    BY <2>1 DEF MapGuards
  <2> QED
    BY <1>2, <2>1, <2>2 DEF MapGuards, MainInv
<1>9. CASE \E listener \in open : Close(listener)
  <2>1. UNCHANGED <<locks, main>>
    BY <1>9 DEF Close
  <2> QED
    BY <1>2, <2>1 DEF MapGuards, MainInv, Has
<1> QED
  BY <1>3, <1>4, <1>5, <1>6, <1>7, <1>8, <1>9 DEF Stop

BaseInv == TypeOK /\ TaskInv /\ MapGuards /\ MainInv

\* The number of a name is one of them.
LEMMA NumberType ==
  ASSUME NEW names, NEW n \in Names
  PROVE  /\ Number(names, n) \in 0..Cardinality(Names) /\ Cardinality(Names) \in Nat
         /\ Number(names, n) # 0 <=> n \in names
  BY IndexBijection DEF Number

\* The daemon starts well typed.
LEMMA BaseInit == Init => BaseInv
<1> SUFFICES ASSUME Init PROVE BaseInv
  OBVIOUS
<1> DEFINE c == Cardinality(Names)
<1>1. c \in Nat
  BY IndexBijection
<1>2. files \in Seq(FileRecords) /\ Len(files) = c
  <2>1. [sb |-> TRUE, nodes |-> {}] \in FileRecords
    BY DEF FileRecords
  <2>2. files = [f \in 1..c |-> [sb |-> TRUE, nodes |-> {}]]
    BY DEF Init
  <2> HIDE DEF c
  <2> QED
    BY <1>1, <2>1, <2>2
<1>3. vols \in Seq(VolRecords(Len(files))) /\ Len(vols) = c
  <2>1. \A f \in 1..c : [file |-> f, mem |-> {}] \in VolRecords(c)
    BY DEF VolRecords
  <2>2. vols = [f \in 1..c |-> [file |-> f, mem |-> {}]]
    BY DEF Init
  <2> HIDE DEF c
  <2> QED
    BY <1>1, <1>2, <2>1, <2>2
<1>4. dirs \in [Names -> 0..c] /\ blocks \in [Names -> 0..c] /\ exports \in [Names -> 0..c]
  BY NumberType DEF Init
<1>5. locks \in [{"blocks", "exports"} -> RwLocks] /\ Entries(locks["blocks"]) = {}
      /\ locks["blocks"] = [held |-> {}, queue |-> <<>>]
  BY DEF Init, RwLocks, Entries, Range
<1>6. task \in [Tasks -> TaskRecords(Len(files), Len(vols))]
  BY <1>1, <1>2, <1>3 DEF Init, TaskRecords, Labels
<1>7. main \in MainRecords(Len(vols)) /\ main.pc = "run" /\ main.stopping = 0
  BY <1>1, <1>3 DEF Init, MainRecords
<1>8. met \in [Names -> SUBSET {"delete", "makers", "clash"}]
      /\ stopped = {} /\ acked = {} /\ late = {} /\ open = {"http", "nbd"} /\ use \in Uses
      /\ conn \in [Conns -> {"none", "ask", "handshake", "serve", "end"}]
  BY DEF Init
<1> HIDE DEF c
<1>9. TypeOK
  BY <1>2, <1>3, <1>4, <1>5, <1>6, <1>7, <1>8 DEF TypeOK
<1>10. TaskInv
  BY DEF Init, TaskInv, TaskFits
<1>11. MapGuards
  BY <1>5 DEF MapGuards, Exclusive, Once
<1>12. MainInv
  BY <1>7 DEF MainInv
<1> QED
  BY <1>9, <1>10, <1>11, <1>12 DEF BaseInv

\* The base invariant is inductive.
LEMMA BaseStep == BaseInv /\ [Next]_vars => BaseInv'
<1> SUFFICES ASSUME BaseInv, [Next]_vars PROVE BaseInv'
  OBVIOUS
<1>1. TypeOK /\ TaskInv /\ MapGuards /\ MainInv
  BY DEF BaseInv
<1>2. ASSUME NEW t \in Tasks, Arrive(t) \/ Handle(t) \/ Disconnect(t) PROVE BaseInv'
  <2>1. TypeOK'
    BY <1>1, <1>2, TypeArrive, TypeCreate, TypeDelete, TypeClone, TypeGet, TypeRead DEF Handle
  <2> QED
    BY <1>1, <1>2, <2>1, TaskStep, GuardStep DEF BaseInv
<1>3. ASSUME NEW c \in Conns, Accept(c) \/ Greet(c) \/ Choose(c) \/ GiveUp(c) \/ Disc(c) PROVE BaseInv'
  <2>1. UNCHANGED <<use, vols, task>>
    BY <1>3 DEF Accept, Greet, Choose, GiveUp, Disc, Connection, httpVars
  <2>2. TaskInv'
    BY <1>1, <2>1 DEF TaskInv, TaskFits, Op
  <2> QED
    BY <1>1, <1>3, <2>2, TypeConn, GuardStepConn DEF BaseInv
<1>4. ASSUME Signal \/ Stop \/ \E listener \in open : Close(listener) PROVE BaseInv'
  <2>1. UNCHANGED <<use, vols, task>>
    BY <1>4 DEF Signal, Stop, StopAll, StopBegin, StopEnd, StopsDone, Exit, Close, MainTurns
  <2>2. TaskInv'
    BY <1>1, <2>1 DEF TaskInv, TaskFits, Op
  <2> QED
    BY <1>1, <1>4, <2>2, TypeMain, GuardStepMain DEF BaseInv
<1>5. CASE UNCHANGED vars
  <2>1. UNCHANGED <<use, dirs, files, vols, blocks, exports, locks, task, conn, main, open,
                    stopped, acked, late, met>>
    BY <1>5 DEF vars, httpVars, seen
  <2>2. TypeOK' /\ TaskInv'
    BY <1>1, <2>1 DEF TypeOK, TaskInv, TaskFits, Op
  <2>3. MapGuards' /\ MainInv'
    BY <1>1, <2>1 DEF MapGuards, MainInv, Has
  <2> QED
    BY <2>2, <2>3 DEF BaseInv
<1> QED
  BY <1>2, <1>3, <1>4, <1>5 DEF Next

\* Everything that is said to be open, waited for or behind a volume exists, and a handler
\* stands only where its request leads it (TypeOK of Daemon).
THEOREM Typing == Spec => []TypeOK
<1>1. Spec => []BaseInv
  BY BaseInit, BaseStep, PTL DEF Spec
<1>2. BaseInv => TypeOK
  BY DEF BaseInv
<1> QED
  BY <1>1, <1>2, PTL

-----------------------------------------------------------------------------
(* The map of open volumes and the directories.                              *)

(* The directory and the open volume of a name that no delete met a maker for. *)
OpenFits(n) ==
  \/ blocks[n] = 0
  \/ \E t \in On(n, {"delete"}) : task[t].pc = "remove"
  \/ dirs[n] = vols[blocks[n]].file
MadeFits(t, n) == task[t].pc \in {"create_write", "insert"} => task[t].file = dirs[n]
NameFits(n) == "clash" \notin met[n] =>
  /\ On(n, Makers) = {} \/ On(n, {"delete"}) = {}
  /\ \A t \in On(n, Makers) : MadeFits(t, n)
  /\ OpenFits(n)
DiskInv == \A n \in Names : NameFits(n)

\* Who has made a file knows which.
LEMMA MadeFile ==
  ASSUME BaseInv, NEW t \in Tasks, task[t].pc \in {"create_write", "insert"}
  PROVE  task[t].file # 0
<1>1. CASE task[t].pc = "create_write"
  BY <1>1 DEF BaseInv, TaskInv, TaskFits
<1>2. CASE task[t].pc = "insert"
  <2>1. task[t].vol \in 1..Len(vols) /\ vols[task[t].vol].file = task[t].file
    BY <1>2 DEF BaseInv, TaskInv, TaskFits, TypeOK, TaskRecords
  <2> QED
    BY <2>1, VolAt DEF BaseInv
<1> QED
  BY <1>1, <1>2

\* What is on the way for a name.
LEMMA OnFacts ==
  ASSUME NEW n, NEW ops
  PROVE  /\ \A u : u \in On(n, ops) <=> u \in Tasks /\ task[u].pc \notin {"none", "end"}
                                          /\ Name(u) = n /\ Op(u) \in ops
         /\ \A u : u \in On(n, ops)' <=> u \in Tasks /\ task'[u].pc \notin {"none", "end"}
                                          /\ Name(u)' = n /\ Op(u)' \in ops
  BY DEF On, Active

\* A step of one handler that removes no directory and leaves the map alone, for one name.
LEMMA NameFrame ==
  ASSUME BaseInv, NEW n \in Names, NameFits(n), use' = use, NEW t \in Tasks,
         \A u \in Tasks \ {t} : task'[u] = task[u],
         \A v \in 1..Len(vols) : vols'[v].file = vols[v].file,
         met[n] \subseteq met'[n],
         dirs[n] # 0 => dirs'[n] = dirs[n],
         blocks'[n] = blocks[n],
         \/ Name(t) # n
         \/ /\ task[t].pc \notin {"none", "end"}
            /\ task[t].pc = "remove" => task'[t].pc = "remove"
            /\ "clash" \notin met[n] /\ task'[t].pc \in {"create_write", "insert"} =>
                 task'[t].file = dirs'[n]
  PROVE  NameFits(n)'
<1> SUFFICES ASSUME "clash" \notin met'[n]
             PROVE  /\ On(n, Makers)' = {} \/ On(n, {"delete"})' = {}
                    /\ \A u \in On(n, Makers)' : MadeFits(u, n)'
                    /\ OpenFits(n)'
  BY DEF NameFits
<1>1. /\ On(n, Makers) = {} \/ On(n, {"delete"}) = {}
      /\ \A u \in On(n, Makers) : MadeFits(u, n)
      /\ OpenFits(n)
  BY DEF NameFits
<1>2. \A u \in Tasks : Name(u)' = Name(u) /\ Op(u)' = Op(u)
  BY DEF Name, Op
<1>3. \A ops : On(n, ops)' \subseteq On(n, ops)
  BY <1>2, OnFacts
<1>4. ASSUME NEW u \in On(n, Makers)' PROVE MadeFits(u, n)'
  <2>1. u \in On(n, Makers) /\ MadeFits(u, n) /\ u \in Tasks /\ Name(u) = n
    BY <1>1, <1>3, OnFacts
  <2>2. CASE u = t
    BY <2>1, <2>2 DEF MadeFits
  <2>3. CASE u # t
    BY <2>1, <2>3, MadeFile DEF MadeFits
  <2> QED
    BY <2>2, <2>3
<1>5. OpenFits(n)'
  <2>1. CASE blocks[n] = 0
    BY <2>1 DEF OpenFits
  <2>2. ASSUME NEW u \in On(n, {"delete"}), task[u].pc = "remove" PROVE OpenFits(n)'
    <3>1. u \in Tasks /\ Name(u) = n /\ Op(u) = "delete" /\ task'[u].pc = "remove"
      BY <2>2, OnFacts
    <3>2. u \in On(n, {"delete"})'
      BY <1>2, <3>1, OnFacts
    <3> QED
      BY <3>1, <3>2 DEF OpenFits
  <2>3. CASE blocks[n] # 0 /\ dirs[n] = vols[blocks[n]].file
    <3>1. blocks[n] \in 1..Len(vols)
      BY <2>3, Sizes DEF BaseInv, TypeOK
    <3>2. dirs[n] # 0 /\ vols'[blocks[n]].file = vols[blocks[n]].file
      BY <2>3, <3>1, VolAt DEF BaseInv
    <3> QED
      BY <2>3, <3>2 DEF OpenFits
  <2> QED
    BY <1>1, <2>1, <2>2, <2>3 DEF OpenFits
<1> QED
  BY <1>1, <1>3, <1>4, <1>5

\* A handler that goes on brings nobody new to a name.
LEMMA OnShrinks ==
  ASSUME use' = use, NEW t \in Tasks, task[t].pc \notin {"none", "end"},
         \A u \in Tasks \ {t} : task'[u] = task[u]
  PROVE  \A n, ops : On(n, ops)' \subseteq On(n, ops)
<1>1. \A u \in Tasks : Name(u)' = Name(u) /\ Op(u)' = Op(u)
  BY DEF Name, Op
<1> QED
  BY <1>1, OnFacts

\* create_backend opens what is there, and takes no directory from another name.
LEMMA OpenedKeeps ==
  ASSUME BaseInv, NEW n \in Names, CreateBackend(n)
  PROVE  /\ dirs'[n] = Opened(n)
         /\ \A m \in Names : dirs[m] # 0 => dirs'[m] = dirs[m]
  BY DEF CreateBackend, Opened, BaseInv, TypeOK

\* A step of a handler that leaves the map alone and removes no directory.
LEMMA DiskFrame ==
  ASSUME BaseInv, DiskInv, NEW t \in Tasks, UNCHANGED <<use, blocks, met>>,
         \A u \in Tasks \ {t} : task'[u] = task[u],
         \A v \in 1..Len(vols) : vols'[v].file = vols[v].file,
         \A n \in Names : dirs[n] # 0 => dirs'[n] = dirs[n],
         task[t].pc \notin {"none", "end", "remove"},
         "clash" \notin met[Name(t)] /\ task'[t].pc \in {"create_write", "insert"} =>
           task'[t].file = dirs'[Name(t)]
  PROVE  DiskInv'
<1> SUFFICES ASSUME NEW n \in Names PROVE NameFits(n)'
  BY DEF DiskInv
<1>1. NameFits(n)
  BY DEF DiskInv
<1> QED
  BY <1>1, NameFrame

\* The map and the directories, a request that comes: it may be the one that clashes.
LEMMA DiskArrive ==
  ASSUME BaseInv, DiskInv, NEW t \in Tasks, Arrive(t) PROVE DiskInv'
<1> SUFFICES ASSUME NEW n \in Names PROVE NameFits(n)'
  BY DEF DiskInv
<1>1. /\ UNCHANGED <<use, dirs, vols, blocks>> /\ Goto(t, First(Op(t))) /\ task[t].pc = "none"
      /\ Meet(Name(t), Meets(Op(t), Name(t)))
  BY DEF Arrive, httpVars, At
<1>2. /\ task'[t].pc = First(Op(t)) /\ task'[t].file = task[t].file
      /\ \A u \in Tasks \ {t} : task'[u] = task[u]
  BY <1>1, GotoFacts DEF BaseInv
<1>3. NameFits(n) /\ Name(t) \in Names /\ Op(t) \in Ops
  BY UseType DEF DiskInv, BaseInv
<1>4. /\ met[n] \subseteq met'[n]
      /\ n = Name(t) => Meets(Op(t), n) \subseteq met'[n]
  BY <1>1, <1>3 DEF Meet, BaseInv, TypeOK
<1>5. CASE n # Name(t)
  BY <1>1, <1>2, <1>3, <1>4, <1>5, NameFrame
<1>6. CASE n = Name(t)
  <2> SUFFICES ASSUME "clash" \notin met'[n]
               PROVE  /\ On(n, Makers)' = {} \/ On(n, {"delete"})' = {}
                      /\ \A u \in On(n, Makers)' : MadeFits(u, n)'
                      /\ OpenFits(n)'
    BY DEF NameFits
  <2>1. /\ On(n, Makers) = {} \/ On(n, {"delete"}) = {}
        /\ \A u \in On(n, Makers) : MadeFits(u, n)
        /\ OpenFits(n)
    BY <1>3, <1>4 DEF NameFits
  <2>2. \A u \in Tasks : Name(u)' = Name(u) /\ Op(u)' = Op(u)
    BY <1>1 DEF Name, Op
  <2>3. /\ Op(t) \in Makers => On(n, {"delete"}) = {}
        /\ Op(t) = "delete" => On(n, Makers) = {}
    BY <1>4, <1>6 DEF Meets
  <2>4. \A ops : On(n, ops)' \subseteq On(n, ops) \cup (IF Op(t) \in ops THEN {t} ELSE {})
    BY <1>2, <2>2, OnFacts
  <2>5. On(n, Makers)' = {} \/ On(n, {"delete"})' = {}
    <3>1. CASE Op(t) \in Makers
      BY <2>3, <2>4, <3>1 DEF Makers
    <3>2. CASE Op(t) = "delete"
      BY <2>3, <2>4, <3>2 DEF Makers
    <3>3. CASE Op(t) \notin Makers \cup {"delete"}
      BY <2>1, <2>4, <3>3
    <3> QED
      BY <3>1, <3>2, <3>3
  <2>6. ASSUME NEW u \in On(n, Makers)' PROVE MadeFits(u, n)'
    <3>1. CASE u = t
      <4>1. First(Op(t)) \notin {"create_write", "insert"}
        BY <1>3 DEF First, Ops, Makers
      <4> QED
        BY <1>2, <3>1, <4>1 DEF MadeFits
    <3>2. CASE u # t
      <4>1. u \in On(n, Makers) /\ MadeFits(u, n) /\ u \in Tasks
        BY <2>1, <2>4, <3>2, OnFacts
      <4> QED
        BY <1>1, <1>2, <3>2, <4>1 DEF MadeFits
    <3> QED
      BY <3>1, <3>2
  <2>7. OpenFits(n)'
    <3>1. ASSUME NEW u \in On(n, {"delete"}), task[u].pc = "remove" PROVE OpenFits(n)'
      <4>1. u \in Tasks /\ Name(u) = n /\ Op(u) = "delete" /\ task'[u].pc = "remove"
        BY <1>1, <1>2, <3>1, OnFacts
      <4>2. u \in On(n, {"delete"})'
        BY <2>2, <4>1, OnFacts
      <4> QED
        BY <4>1, <4>2 DEF OpenFits
    <3>2. CASE blocks[n] = 0 \/ dirs[n] = vols[blocks[n]].file
      BY <1>1, <3>2 DEF OpenFits
    <3> QED
      BY <2>1, <3>1, <3>2 DEF OpenFits
  <2> QED
    BY <2>5, <2>6, <2>7
<1> QED
  BY <1>5, <1>6

\* The map and the directories, the volume of a create or clone enters the map.
LEMMA DiskInsert ==
  ASSUME BaseInv, DiskInv, NEW t \in Tasks, Insert(t) PROVE DiskInv'
<1> SUFFICES ASSUME NEW n \in Names PROVE NameFits(n)'
  BY DEF DiskInv
<1>1. /\ UNCHANGED <<use, dirs, vols, met>> /\ Goto(t, "end") /\ task[t].pc = "insert"
      /\ blocks' = [blocks EXCEPT ![Name(t)] = task[t].vol]
  BY DEF Insert, At, seen, End
<1>2. task'[t].pc = "end" /\ \A u \in Tasks \ {t} : task'[u] = task[u]
  BY <1>1, GotoFacts DEF BaseInv
<1>3. NameFits(n) /\ Name(t) \in Names /\ Op(t) \in Makers
  BY <1>1, UseType, WhoStands DEF DiskInv, BaseInv
<1>4. CASE n # Name(t)
  <2>1. blocks'[n] = blocks[n]
    BY <1>1, <1>4 DEF BaseInv, TypeOK
  <2> QED
    BY <1>1, <1>2, <1>3, <1>4, <2>1, NameFrame
<1>5. CASE n = Name(t)
  <2> SUFFICES ASSUME "clash" \notin met'[n]
               PROVE  /\ On(n, Makers)' = {} \/ On(n, {"delete"})' = {}
                      /\ \A u \in On(n, Makers)' : MadeFits(u, n)'
                      /\ OpenFits(n)'
    BY DEF NameFits
  <2>1. /\ On(n, Makers) = {} \/ On(n, {"delete"}) = {}
        /\ \A u \in On(n, Makers) : MadeFits(u, n)
    BY <1>1, <1>3 DEF NameFits
  <2>2. \A ops : On(n, ops)' \subseteq On(n, ops)
    BY <1>1, <1>2, OnShrinks
  <2>3. ASSUME NEW u \in On(n, Makers)' PROVE MadeFits(u, n)'
    <3>1. u \in On(n, Makers) /\ MadeFits(u, n) /\ u \in Tasks /\ task'[u].pc # "end"
      BY <2>1, <2>2, OnFacts
    <3> QED
      BY <1>1, <1>2, <3>1 DEF MadeFits
  <2>4. t \in On(n, Makers)
    BY <1>1, <1>3, <1>5, OnFacts
  <2>5. task[t].file = dirs[n] /\ vols[task[t].vol].file = task[t].file
    BY <1>1, <2>1, <2>4 DEF MadeFits, BaseInv, TaskInv, TaskFits
  <2>6. blocks'[n] = task[t].vol
    BY <1>1, <1>5 DEF BaseInv, TypeOK
  <2>7. OpenFits(n)'
    BY <1>1, <2>5, <2>6 DEF OpenFits
  <2> QED
    BY <2>1, <2>2, <2>3, <2>7
<1> QED
  BY <1>4, <1>5

\* The map and the directories, a delete removes the directory, then the volume.
LEMMA DiskDelete ==
  ASSUME BaseInv, DiskInv, NEW t \in Tasks, DeleteDir(t) \/ RemoveVolume(t) PROVE DiskInv'
<1> SUFFICES ASSUME NEW n \in Names PROVE NameFits(n)'
  BY DEF DiskInv
<1>1. /\ UNCHANGED <<use, vols, met>> /\ task[t].pc \in {"delete_dir", "remove"}
      /\ Goto(t, "remove") \/ Goto(t, "end")
      /\ \/ Goto(t, "remove") /\ UNCHANGED blocks /\ dirs' = [dirs EXCEPT ![Name(t)] = 0]
            /\ task[t].pc = "delete_dir"
         \/ Goto(t, "end") /\ UNCHANGED dirs /\ blocks' = [blocks EXCEPT ![Name(t)] = 0]
  BY DEF DeleteDir, RemoveVolume, At, seen, End
<1>2. task'[t].pc \in {"remove", "end"} /\ \A u \in Tasks \ {t} : task'[u] = task[u]
  BY <1>1, GotoFacts DEF BaseInv
<1>3. NameFits(n) /\ Name(t) \in Names /\ Op(t) = "delete"
  BY <1>1, UseType, WhoStands DEF DiskInv, BaseInv
<1>4. CASE n # Name(t)
  <2>1. blocks'[n] = blocks[n] /\ dirs'[n] = dirs[n]
    BY <1>1, <1>4 DEF BaseInv, TypeOK
  <2> QED
    BY <1>1, <1>2, <1>3, <1>4, <2>1, NameFrame
<1>5. CASE n = Name(t)
  <2> SUFFICES ASSUME "clash" \notin met'[n]
               PROVE  /\ On(n, Makers)' = {} \/ On(n, {"delete"})' = {}
                      /\ \A u \in On(n, Makers)' : MadeFits(u, n)'
                      /\ OpenFits(n)'
    BY DEF NameFits
  <2>1. t \in On(n, {"delete"})
    BY <1>1, <1>3, <1>5, OnFacts
  <2>2. On(n, Makers) = {}
    BY <1>1, <1>3, <2>1 DEF NameFits
  <2>3. On(n, Makers)' = {}
    BY <1>1, <1>2, <2>2, OnShrinks
  <2>4. OpenFits(n)'
    <3>1. CASE Goto(t, "remove")
      <4>1. task'[t].pc = "remove" /\ Name(t)' = n /\ Op(t)' = "delete"
        BY <1>1, <1>3, <1>5, <3>1, GotoFacts DEF Name, Op, BaseInv
      <4>2. t \in On(n, {"delete"})'
        BY <4>1, OnFacts
      <4> QED
        BY <4>1, <4>2 DEF OpenFits
    <3>2. CASE blocks' = [blocks EXCEPT ![Name(t)] = 0]
      BY <1>5, <3>2 DEF OpenFits, BaseInv, TypeOK
    <3> QED
      BY <1>1, <3>1, <3>2
  <2> QED
    BY <2>3, <2>4
<1> QED
  BY <1>4, <1>5

\* The map and the directories, a delete that fails.
LEMMA DiskFails ==
  ASSUME BaseInv, DiskInv, NEW t \in Tasks, DeleteDirFails(t) \/ Disconnect(t) PROVE DiskInv'
<1> SUFFICES ASSUME NEW n \in Names PROVE NameFits(n)'
  BY DEF DiskInv
<1>1. /\ UNCHANGED <<use, vols, blocks>> /\ Goto(t, "end") /\ task[t].pc \notin {"none", "end"}
      /\ UNCHANGED dirs \/ dirs' = [dirs EXCEPT ![Name(t)] = Len(files) + 1]
      /\ \E what : Meet(Name(t), what) /\ (dirs' # dirs \/ task[t].pc = "remove" => "clash" \in what)
  <2>1. CASE DeleteDirFails(t)
    BY <2>1 DEF DeleteDirFails, At, End
  <2>2. CASE Disconnect(t)
    BY <2>2 DEF Disconnect, Active, End, httpVars
  <2> QED
    BY <2>1, <2>2
<1>2. PICK what : Meet(Name(t), what) /\ (dirs' # dirs \/ task[t].pc = "remove" => "clash" \in what)
  BY <1>1
<1>3. task'[t].pc = "end" /\ \A u \in Tasks \ {t} : task'[u] = task[u]
  BY <1>1, GotoFacts DEF BaseInv
<1>4. NameFits(n) /\ Name(t) \in Names
  BY UseType DEF DiskInv, BaseInv
<1>5. met'[n] = IF n = Name(t) THEN met[n] \cup what ELSE met[n]
  BY <1>2, <1>4 DEF Meet, BaseInv, TypeOK
<1>6. CASE n # Name(t)
  <2>1. dirs'[n] = dirs[n]
    BY <1>1, <1>6 DEF BaseInv, TypeOK
  <2> QED
    BY <1>1, <1>3, <1>4, <1>5, <1>6, <2>1, NameFrame
<1>7. CASE n = Name(t) /\ "clash" \in what
  BY <1>5, <1>7 DEF NameFits
<1>8. CASE n = Name(t) /\ "clash" \notin what
  BY <1>1, <1>2, <1>3, <1>4, <1>5, <1>8, NameFrame
<1> QED
  BY <1>6, <1>7, <1>8

\* The map and the directories, all other steps of a handler.
LEMMA DiskGoes ==
  ASSUME BaseInv, DiskInv, NEW t \in Tasks,
         \/ CreateCheck(t) \/ CreateOpen(t) \/ CreateWrite(t)
         \/ DeleteCheck(t) \/ DeleteOpen(t) \/ DeleteStop(t)
         \/ CloneCheck(t) \/ CloneCopy(t) \/ CloneWrite(t) \/ CloneOpen(t)
         \/ GetVolume(t) \/ Change(t) \/ Look(t)
         \/ MountLook(t) \/ Register(t) \/ Unregister(t) \/ ListExports(t)
         \/ InfoCheck(t) \/ InfoOpen(t) \/ InfoRead(t)
         \/ List(t) \/ ReadClosed(t) \/ ReadDone(t)
  PROVE  DiskInv'
<1> DEFINE Others == \A u \in Tasks \ {t} : task'[u] = task[u]
           VolsStay == \A v \in 1..Len(vols) : vols'[v].file = vols[v].file
           DirsStay == \A n \in Names : dirs[n] # 0 => dirs'[n] = dirs[n]
           n == Name(t)
<1>1. TypeOK /\ TaskInv /\ n \in Names /\ NameFits(n)
  BY UseType DEF BaseInv, DiskInv
<1>2. /\ UNCHANGED <<use, blocks, met>>
      /\ task[t].pc \notin {"none", "end", "remove"}
  BY DEF CreateCheck, CreateOpen, CreateWrite, DeleteCheck, DeleteOpen, DeleteStop, CloneCheck,
         CloneCopy, CloneWrite, CloneOpen, GetVolume, Change, Look, MountLook, Register, Unregister,
         ListExports, InfoCheck, InfoOpen, InfoRead, List, ReadClosed, ReadDone, At, Turns, Works,
         httpVars, seen
<1>3. Len(vols) \in Nat
  BY <1>1, Sizes
<1>4. VolsStay
  <2>1. CASE vols' = vols
    BY <2>1
  <2>2. CASE \E r : vols' = Append(vols, r)
    BY <2>2 DEF BaseInv, TypeOK
  <2>3. CASE Change(t)
    <3>1. vols \in Seq(VolRecords(Len(files)))
      BY <1>1 DEF TypeOK
    <3> QED
      BY <2>3, <3>1 DEF Change, VolRecords
  <2>4. vols' = vols \/ (\E r : vols' = Append(vols, r)) \/ Change(t)
    BY DEF CreateCheck, CreateOpen, CreateWrite, DeleteCheck, DeleteOpen, DeleteStop, CloneCheck,
           CloneCopy, CloneWrite, CloneOpen, GetVolume, Look, MountLook, Register, Unregister,
           ListExports, InfoCheck, InfoOpen, InfoRead, List, ReadClosed, ReadDone, Turns, Works,
           OpenVolume, httpVars
  <2> QED
    BY <2>1, <2>2, <2>3, <2>4
<1>5. DirsStay
  <2>1. CASE UNCHANGED dirs
    BY <2>1
  <2>2. CASE \E m \in Names : dirs' = [dirs EXCEPT ![m] = Opened(m)]
    BY <1>1, <2>2 DEF Opened, TypeOK
  <2>3. task[t].names \subseteq Names
    BY <1>1 DEF TypeOK, TaskRecords
  <2>4. UNCHANGED dirs \/ \E m \in Names : dirs' = [dirs EXCEPT ![m] = Opened(m)]
    BY <1>1, <2>3 DEF CreateCheck, CreateOpen, CreateWrite, DeleteCheck, DeleteOpen, DeleteStop, CloneCheck,
           CloneCopy, CloneWrite, CloneOpen, GetVolume, Change, Look, MountLook, Register, Unregister,
           ListExports, InfoCheck, InfoOpen, InfoRead, List, ReadClosed, ReadDone, Turns, Works,
           httpVars, CreateBackend
  <2> QED
    BY <2>1, <2>2, <2>4
<1>6. ASSUME NEW label, Goto(t, label) PROVE task'[t].pc = label /\ Others
  BY <1>1, <1>6, GotoFacts
<1>7. ASSUME NEW label, NEW v, NEW f, With(t, label, v, f)
      PROVE  task'[t].pc = label /\ task'[t].file = f /\ Others
  BY <1>1, <1>7, WithFacts
<1>8. ASSUME NEW label, NEW names, task' = [task EXCEPT ![t].pc = label, ![t].names = names]
      PROVE  task'[t].pc = label /\ Others
  BY <1>1, <1>8, NamesFacts
<1> DEFINE Fine == "clash" \notin met[n] /\ task'[t].pc \in {"create_write", "insert"} =>
                     task'[t].file = dirs'[n]
<1>9. Others /\ Fine
  <2>1. CASE CreateOpen(t)
    <3>1. With(t, "create_write", 0, Opened(n)) /\ dirs'[n] = Opened(n)
      BY <1>1, <2>1, OpenedKeeps DEF CreateOpen
    <3> QED
      BY <1>7, <3>1
  <2>2. CASE CreateWrite(t)
    <3>1. dirs' = dirs /\ task[t].pc = "create_write" /\ Op(t) \in Makers
      BY <1>1, <2>2, WhoStands DEF CreateWrite, At, Makers
    <3>2. t \in On(n, Makers)
      BY <3>1, OnFacts
    <3>3. "clash" \notin met[n] => task[t].file = dirs[n]
      BY <1>1, <3>1, <3>2 DEF NameFits, MadeFits
    <3>4. (\E v : With(t, "insert", v, task[t].file)) \/ Goto(t, "end")
      BY <2>2 DEF CreateWrite, OpenVolume, End
    <3> QED
      BY <1>6, <1>7, <3>1, <3>3, <3>4
  <2>3. CASE CloneOpen(t)
    <3>1. dirs' = dirs /\ ((\E v : With(t, "insert", v, dirs[n])) \/ Goto(t, "end"))
      BY <2>3 DEF CloneOpen, OpenVolume, End
    <3> QED
      BY <1>6, <1>7, <3>1
  <2>4. CASE DeleteOpen(t)
    <3>1. (\E v, f : With(t, "delete_stop", v, f)) \/ Goto(t, "end")
      BY <2>4 DEF DeleteOpen, End
    <3> QED
      BY <1>6, <1>7, <3>1
  <2>5. CASE GetVolume(t)
    <3>1. Op(t) \in {"change", "look", "mount"}
      BY <1>1, <2>5, WhoStands DEF GetVolume, At
    <3>2. \E v, f : With(t, "end", v, f) \/ With(t, Op(t), v, f)
      BY <2>5 DEF GetVolume
    <3> QED
      BY <1>7, <3>1, <3>2
  <2>6. CASE ReadClosed(t)
    <3>1. PICK names : task' = [task EXCEPT ![t].pc = "read", ![t].names = names]
      BY <1>1, <2>6, ReadClosedTurn
    <3>2. task'[t].pc = "read" /\ Others
      BY <1>8, <3>1
    <3> QED
      BY <3>2
  <2>7. CASE InfoRead(t) \/ List(t)
    <3>1. (\E names : task' = [task EXCEPT ![t].pc = "read", ![t].names = names]) \/ Goto(t, "end")
      BY <2>7 DEF InfoRead, List, End
    <3> QED
      BY <1>6, <1>8, <3>1
  <2>8. CASE \/ CreateCheck(t) \/ DeleteCheck(t) \/ DeleteStop(t) \/ CloneCheck(t) \/ CloneCopy(t)
             \/ CloneWrite(t) \/ Change(t) \/ Look(t) \/ MountLook(t) \/ Register(t) \/ Unregister(t)
             \/ ListExports(t) \/ InfoCheck(t) \/ InfoOpen(t) \/ ReadDone(t)
    <3>1. \E label \in Labels \ {"create_write", "insert"} : Goto(t, label)
      BY <2>8 DEF CreateCheck, DeleteCheck, DeleteStop, CloneCheck, CloneCopy, CloneWrite, Change, Look,
                  MountLook, Register, Unregister, ListExports, InfoCheck, InfoOpen, ReadDone, End, Labels
    <3> QED
      BY <1>6, <3>1
  <2> QED
    BY <2>1, <2>2, <2>3, <2>4, <2>5, <2>6, <2>7, <2>8
<1> QED
  BY <1>2, <1>4, <1>5, <1>9, DiskFrame

\* The map follows the directories in every step.
LEMMA DiskStep == BaseInv /\ DiskInv /\ [Next]_vars => DiskInv'
<1> SUFFICES ASSUME BaseInv, DiskInv, [Next]_vars PROVE DiskInv'
  OBVIOUS
<1>1. ASSUME NEW t \in Tasks, Arrive(t) \/ Handle(t) \/ Disconnect(t) PROVE DiskInv'
  BY <1>1, DiskArrive, DiskInsert, DiskDelete, DiskFails, DiskGoes DEF Handle
<1>2. ASSUME UNCHANGED <<use, dirs, vols, blocks, task, met>> PROVE DiskInv'
  <2>1. \A n, ops : On(n, ops)' = On(n, ops)
    BY <1>2 DEF On, Active, Name, Op
  <2> QED
    BY <1>2, <2>1 DEF DiskInv, NameFits, OpenFits, MadeFits
<1>3. ASSUME NEW c \in Conns, Accept(c) \/ Greet(c) \/ Choose(c) \/ GiveUp(c) \/ Disc(c)
      PROVE  UNCHANGED <<use, dirs, vols, blocks, task, met>>
  BY <1>3 DEF Accept, Greet, Choose, GiveUp, Disc, Connection, httpVars, seen
<1>4. ASSUME Signal \/ Stop \/ \E listener \in open : Close(listener)
      PROVE  UNCHANGED <<use, dirs, vols, blocks, task, met>>
  BY <1>4 DEF Signal, Stop, StopAll, StopBegin, StopEnd, StopsDone, Exit, Close, MainTurns
<1>5. ASSUME UNCHANGED vars PROVE UNCHANGED <<use, dirs, vols, blocks, task, met>>
  BY <1>5 DEF vars, httpVars, seen
<1> QED
  BY <1>1, <1>2, <1>3, <1>4, <1>5 DEF Next

\* The volumes of auto_exports are those of their directories.
LEMMA DiskInit == Init => DiskInv
<1> SUFFICES ASSUME Init, NEW n \in Names PROVE NameFits(n)
  BY DEF DiskInv
<1>1. \A ops : On(n, ops) = {}
  BY DEF Init, On, Active
<1>2. CASE n \in use.auto
  <2>1. n \in use.known
    BY <1>2, ConstantAssumption DEF Init
  <2>2. dirs[n] = Index[n] /\ blocks[n] = Index[n]
    BY <1>2, <2>1 DEF Init, Number
  <2>3. vols[Index[n]].file = Index[n]
    BY IndexBijection DEF Init
  <2> QED
    BY <1>1, <2>2, <2>3 DEF NameFits, OpenFits
<1>3. CASE n \notin use.auto
  <2>1. blocks[n] = 0
    BY <1>3 DEF Init, Number
  <2> QED
    BY <1>1, <2>1 DEF NameFits, OpenFits
<1> QED
  BY <1>2, <1>3

\* The volume in the map is the one in the directory of its name, but between the two halves
\* of a delete (handle_delete_volume), for any number of names and of requests at a time,
\* and wherever their clients go away.
THEOREM MapAndDirectory == Spec => []OpenIsOnDisk
<1>1. Init => BaseInv /\ DiskInv
  BY BaseInit, DiskInit
<1>2. (BaseInv /\ DiskInv) /\ [Next]_vars => (BaseInv /\ DiskInv)'
  BY BaseStep, DiskStep
<1>3. BaseInv /\ DiskInv => OpenIsOnDisk
  BY DEF BaseInv, DiskInv, NameFits, OpenFits, OpenIsOnDisk
<1> QED
  BY <1>1, <1>2, <1>3, PTL DEF Spec

-----------------------------------------------------------------------------
(* Files and names.                                                          *)

(* Every file belongs to one name: nothing of another name, and no handler for  *)
(* another, is behind it.                                                       *)
Owned(own) ==
  /\ own \in [1..Len(files) -> Names]
  /\ \A n \in Names : dirs[n] # 0 => own[dirs[n]] = n
  /\ \A n \in Names : blocks[n] # 0 => own[vols[blocks[n]].file] = n
  /\ \A t \in Tasks : task[t].file # 0 => own[task[t].file] = Name(t)
  /\ \A t \in Tasks : task[t].vol # 0 => own[vols[task[t].vol].file] = Name(t)
OwnInv == \E own : Owned(own)

\* Before the start each file is the one of its number.
LEMMA OwnInit == Init => OwnInv
<1> SUFFICES ASSUME Init PROVE OwnInv
  OBVIOUS
<1> DEFINE c == Cardinality(Names)
           own == [f \in 1..c |-> CHOOSE n \in Names : Index[n] = f]
<1>1. c \in Nat /\ Len(files) = c
  BY IndexBijection DEF Init
<1>2. \A f \in 1..c : \E n \in Names : Index[n] = f
  BY IndexBijection
<1>3. own \in [1..c -> Names]
  BY <1>2
<1>4. \A n \in Names : Index[n] \in 1..c /\ own[Index[n]] = n
  BY IndexBijection
<1>5. \A n \in Names : dirs[n] \in {0, Index[n]} /\ blocks[n] \in {0, Index[n]}
  BY DEF Init, Number
<1>6. \A n \in Names : vols[Index[n]].file = Index[n]
  BY IndexBijection DEF Init
<1>7. \A t \in Tasks : task[t].file = 0 /\ task[t].vol = 0
  BY DEF Init
<1> HIDE DEF own, c
<1>8. Owned(own)
  BY <1>1, <1>3, <1>4, <1>5, <1>6, <1>7 DEF Owned
<1> QED
  BY <1>8 DEF OwnInv

\* A step of one handler that opens only files of its name.
LEMMA OwnFrame ==
  ASSUME BaseInv, BaseInv', OwnInv, NEW t \in Tasks, use' = use,
         \A u \in Tasks \ {t} : task'[u] = task[u],
         \A v \in 1..Len(vols) : vols'[v].file = vols[v].file,
         \/ Len(files') = Len(files) /\ \A n \in Names : dirs'[n] \in {0, dirs[n]}
         \/ /\ Len(files') = Len(files) + 1
            /\ \E n \in Names : dirs' = [dirs EXCEPT ![n] = Len(files) + 1],
         task'[t].file \in {0, task[t].file, dirs'[Name(t)]},
         \/ task'[t].vol \in {0, task[t].vol, blocks[Name(t)]}
         \/ vols'[task'[t].vol].file = task'[t].file,
         \A n \in Names : \/ blocks'[n] \in {0, blocks[n]}
                          \/ n = Name(t) /\ blocks'[n] = task[t].vol
  PROVE  OwnInv'
<1>1. PICK own : Owned(own)
  BY DEF OwnInv
<1>2. /\ Len(files) \in Nat /\ Len(vols) \in Nat
      /\ dirs \in [Names -> 0..Len(files)] /\ blocks \in [Names -> 0..Len(vols)]
      /\ \A u \in Tasks : task[u].vol \in 0..Len(vols) /\ task[u].file \in 0..Len(files)
      /\ \A v \in 1..Len(vols) : vols[v].file \in 1..Len(files)
      /\ Name(t) \in Names
  BY Sizes, VolAt, UseType DEF BaseInv, TypeOK, TaskRecords
<1>3. \A u \in Tasks : Name(u)' = Name(u)
  BY DEF Name
<1>4. \A v \in 1..Len(vols') : vols'[v].file \in 1..Len(files') /\ vols'[v].file # 0
  <2>1. TypeOK' => \A v \in 1..Len(vols') : vols'[v] \in VolRecords(Len(files'))
    BY DEF TypeOK
  <2> QED
    BY <2>1 DEF BaseInv, VolRecords
<1>5. \A u \in Tasks : task'[u].vol \in 0..Len(vols')
  <2>1. TypeOK' => \A u \in Tasks : task'[u] \in TaskRecords(Len(files'), Len(vols'))
    BY DEF TypeOK
  <2> QED
    BY <2>1 DEF BaseInv, TaskRecords
<1>6. PICK o : /\ o \in [1..Len(files') -> Names]
               /\ \A f \in 1..Len(files) : o[f] = own[f]
               /\ \A n \in Names : dirs'[n] # 0 => o[dirs'[n]] = n
  <2>1. CASE Len(files') = Len(files) /\ \A n \in Names : dirs'[n] \in {0, dirs[n]}
    <3>1. own \in [1..Len(files') -> Names]
      BY <1>1, <2>1 DEF Owned
    <3>2. \A n \in Names : dirs'[n] # 0 => own[dirs'[n]] = n
      BY <1>1, <2>1 DEF Owned
    <3> QED
      BY <3>1, <3>2
  <2>2. ASSUME Len(files') = Len(files) + 1, NEW n \in Names, dirs' = [dirs EXCEPT ![n] = Len(files) + 1]
        PROVE  \E o : /\ o \in [1..Len(files') -> Names]
                      /\ \A f \in 1..Len(files) : o[f] = own[f]
                      /\ \A m \in Names : dirs'[m] # 0 => o[dirs'[m]] = m
    <3> DEFINE o == [f \in 1..(Len(files) + 1) |-> IF f = Len(files) + 1 THEN n ELSE own[f]]
    <3>1. own \in [1..Len(files) -> Names] /\ \A m \in Names : dirs[m] # 0 => own[dirs[m]] = m
      BY <1>1 DEF Owned
    <3>2. o \in [1..(Len(files) + 1) -> Names]
      BY <1>2, <3>1
    <3>3. \A f \in 1..Len(files) : o[f] = own[f]
      BY <1>2
    <3>4. o[Len(files) + 1] = n
      BY <1>2
    <3> HIDE DEF o
    <3>5. \A m \in Names : dirs'[m] # 0 => o[dirs'[m]] = m
      <4> SUFFICES ASSUME NEW m \in Names, dirs'[m] # 0 PROVE o[dirs'[m]] = m
        OBVIOUS
      <4>1. CASE m = n
        BY <1>2, <2>2, <3>4, <4>1
      <4>2. CASE m # n
        BY <1>2, <2>2, <3>1, <3>3, <4>2
      <4> QED
        BY <4>1, <4>2
    <3> QED
      BY <2>2, <3>2, <3>3, <3>5
  <2> QED
    BY <2>1, <2>2
<1>7. \A v \in 1..Len(vols) : o[vols'[v].file] = own[vols[v].file]
  BY <1>2, <1>6
<1>8. ASSUME NEW n \in Names, blocks'[n] # 0 PROVE o[vols'[blocks'[n]].file] = n
  <2>1. CASE blocks'[n] = blocks[n]
    BY <1>1, <1>2, <1>7, <1>8, <2>1 DEF Owned
  <2>2. CASE n = Name(t) /\ blocks'[n] = task[t].vol
    BY <1>1, <1>2, <1>7, <1>8, <2>2 DEF Owned
  <2> QED
    BY <1>8, <2>1, <2>2
<1>9. ASSUME NEW u \in Tasks, task'[u].file # 0 PROVE o[task'[u].file] = Name(u)
  <2>1. CASE task'[u].file = task[u].file
    BY <1>1, <1>2, <1>6, <1>9, <2>1 DEF Owned
  <2>2. CASE u = t /\ task'[u].file = dirs'[Name(t)]
    BY <1>2, <1>6, <1>9, <2>2
  <2> QED
    BY <1>9, <2>1, <2>2
<1>10. ASSUME NEW u \in Tasks, task'[u].vol # 0 PROVE o[vols'[task'[u].vol].file] = Name(u)
  <2>1. CASE task'[u].vol = task[u].vol
    <3>1. task[u].vol \in 1..Len(vols) /\ own[vols[task[u].vol].file] = Name(u)
      BY <1>1, <1>2, <1>10, <2>1 DEF Owned
    <3> QED
      BY <1>7, <2>1, <3>1
  <2>2. CASE u = t /\ task'[u].vol = blocks[Name(t)]
    BY <1>1, <1>2, <1>7, <1>10, <2>2 DEF Owned
  <2>3. CASE u = t /\ vols'[task'[t].vol].file = task'[t].file
    <3>1. task'[t].vol \in 1..Len(vols')
      BY <1>5, <1>10, <2>3
    <3> QED
      BY <1>4, <1>9, <2>3, <3>1
  <2> QED
    BY <1>10, <2>1, <2>2, <2>3
<1>11. Owned(o)'
  BY <1>3, <1>6, <1>8, <1>9, <1>10 DEF Owned
<1> QED
  BY <1>11 DEF OwnInv

\* A step of a handler moves no other.
LEMMA OthersSame ==
  ASSUME BaseInv, NEW t \in Tasks, Arrive(t) \/ Handle(t) \/ Disconnect(t)
  PROVE  \A u \in Tasks \ {t} : task'[u] = task[u]
<1>1. TypeOK
  BY DEF BaseInv
<1>2. \/ \E label : Goto(t, label)
      \/ \E label, v, f : With(t, label, v, f)
      \/ \E label, names : task' = [task EXCEPT ![t].pc = label, ![t].names = names]
  <2>1. CASE ReadClosed(t)
    BY <1>1, <2>1, ReadClosedTurn
  <2>2. CASE InfoRead(t) \/ List(t)
    BY <2>2 DEF InfoRead, List, End
  <2>3. CASE CreateOpen(t) \/ CreateWrite(t) \/ DeleteOpen(t) \/ CloneOpen(t) \/ GetVolume(t)
    BY <2>3 DEF CreateOpen, CreateWrite, DeleteOpen, CloneOpen, GetVolume, OpenVolume, End
  <2> QED
    BY <2>1, <2>2, <2>3 DEF Handle, Arrive, Disconnect, CreateCheck, Insert, DeleteCheck, DeleteStop,
       DeleteDir, DeleteDirFails, RemoveVolume, CloneCheck, CloneCopy, CloneWrite, Change, Look,
       MountLook, Register, Unregister, ListExports, InfoCheck, InfoOpen, ReadDone, End
<1>3. ASSUME NEW label, Goto(t, label) PROVE \A u \in Tasks \ {t} : task'[u] = task[u]
  BY <1>1, <1>3, GotoFacts
<1>4. ASSUME NEW label, NEW v, NEW f, With(t, label, v, f) PROVE \A u \in Tasks \ {t} : task'[u] = task[u]
  BY <1>1, <1>4, WithFacts
<1>5. ASSUME NEW label, NEW names, task' = [task EXCEPT ![t].pc = label, ![t].names = names]
      PROVE  \A u \in Tasks \ {t} : task'[u] = task[u]
  BY <1>1, <1>5, NamesFacts
<1> QED
  BY <1>2, <1>3, <1>4, <1>5

\* A Volume keeps its file and the changes in it.
LEMMA VolsKeep ==
  ASSUME BaseInv, NEW t \in Tasks, Arrive(t) \/ Handle(t) \/ Disconnect(t)
  PROVE  \A v \in 1..Len(vols) : vols'[v].file = vols[v].file /\ vols[v].mem \subseteq vols'[v].mem
<1>1. vols \in Seq(VolRecords(Len(files)))
  BY DEF BaseInv, TypeOK
<1>2. vols' = vols \/ (\E r : vols' = Append(vols, r)) \/ Change(t)
  BY DEF Arrive, Handle, Disconnect, CreateCheck, CreateOpen, CreateWrite, Insert, DeleteCheck,
         DeleteOpen, DeleteStop, DeleteDir, DeleteDirFails, RemoveVolume, CloneCheck,
         CloneCopy, CloneWrite, CloneOpen, GetVolume, Look, MountLook, Register, Unregister,
         ListExports, InfoCheck, InfoOpen, InfoRead, List, ReadClosed, ReadDone, Turns, Works,
         OpenVolume, httpVars
<1>3. CASE vols' = vols
  BY <1>3
<1>4. CASE \E r : vols' = Append(vols, r)
  BY <1>1, <1>4
<1>5. CASE Change(t)
  BY <1>1, <1>5 DEF Change, VolRecords
<1> QED
  BY <1>2, <1>3, <1>4, <1>5

\* How the directories and files change.
FilesSame == Len(files') = Len(files) /\ \A n \in Names : dirs'[n] \in {0, dirs[n]}
FilesAdd ==
  /\ Len(files') = Len(files) + 1
  /\ \E n \in Names : dirs' = [dirs EXCEPT ![n] = Len(files) + 1]

\* create_backend adds at most one file.
LEMMA OpenedChange ==
  ASSUME BaseInv, NEW n \in Names, dirs' = [dirs EXCEPT ![n] = Opened(n)],
         Len(files') = Len(WithOpened(n))
  PROVE  FilesSame \/ FilesAdd
<1>1. files \in Seq(FileRecords) /\ dirs \in [Names -> 0..Len(files)]
  BY DEF BaseInv, TypeOK
<1>2. CASE dirs[n] # 0
  BY <1>1, <1>2 DEF Opened, WithOpened, FilesSame
<1>3. CASE dirs[n] = 0
  <2>1. Len(Append(files, Hollow)) = Len(files) + 1
    BY <1>1
  <2> QED
    BY <1>1, <1>3, <2>1 DEF Opened, WithOpened, FilesAdd
<1> QED
  BY <1>2, <1>3

\* A step of a handler adds at most one file, and it goes to one name.
LEMMA FilesChange ==
  ASSUME BaseInv, NEW t \in Tasks, Arrive(t) \/ Handle(t) \/ Disconnect(t)
  PROVE  FilesSame \/ FilesAdd
<1>1. TypeOK /\ Name(t) \in Names /\ files \in Seq(FileRecords)
  BY UseType DEF BaseInv, TypeOK
<1>2. CASE CreateOpen(t) \/ DeleteOpen(t) \/ InfoOpen(t)
  BY <1>1, <1>2, OpenedChange DEF CreateOpen, DeleteOpen, InfoOpen, CreateBackend
<1>3. CASE CloneCopy(t)
  <2> DEFINE w == WithOpened(Name(t))
  <2>1. w \in Seq(FileRecords)
    BY <1>1, OpenedFacts
  <2>2. files' = w \/ \E f, r : files' = [w EXCEPT ![f] = r]
    BY <1>3 DEF CloneCopy
  <2>3. Len(files') = Len(w)
    BY <2>1, <2>2
  <2>4. dirs' = [dirs EXCEPT ![Name(t)] = Opened(Name(t))]
    BY <1>3 DEF CloneCopy
  <2> QED
    BY <1>1, <2>3, <2>4, OpenedChange
<1>4. CASE ReadClosed(t)
  <2>1. task[t].names \subseteq Names
    BY <1>1 DEF TypeOK, TaskRecords
  <2> QED
    BY <1>1, <1>4, <2>1, OpenedChange DEF ReadClosed, CreateBackend
<1>5. CASE DeleteDirFails(t)
  <2>1. CASE UNCHANGED <<dirs, files>>
    BY <2>1 DEF FilesSame
  <2>2. CASE dirs' = [dirs EXCEPT ![Name(t)] = Len(files) + 1] /\ files' = Append(files, Hollow)
    <3>1. Len(Append(files, Hollow)) = Len(files) + 1
      BY <1>1
    <3> QED
      BY <1>1, <2>2, <3>1 DEF FilesAdd
  <2> QED
    BY <1>5, <2>1, <2>2 DEF DeleteDirFails
<1>6. CASE DeleteDir(t)
  BY <1>1, <1>6 DEF DeleteDir, FilesSame, TypeOK
<1>7. CASE CreateWrite(t) \/ DeleteStop(t)
  <2>1. dirs' = dirs /\ (files' = files \/ \E f, r : files' = [files EXCEPT ![f] = r])
    BY <1>7 DEF CreateWrite, DeleteStop, Stopped
  <2>2. Len(files') = Len(files)
    BY <1>1, <2>1
  <2> QED
    BY <2>1, <2>2 DEF FilesSame
<1>8. CASE \/ Arrive(t) \/ Disconnect(t) \/ CreateCheck(t) \/ Insert(t) \/ DeleteCheck(t) \/ RemoveVolume(t)
           \/ CloneCheck(t) \/ CloneWrite(t) \/ CloneOpen(t) \/ GetVolume(t) \/ Change(t) \/ Look(t)
           \/ MountLook(t) \/ Register(t) \/ Unregister(t) \/ ListExports(t) \/ InfoCheck(t)
           \/ InfoRead(t) \/ List(t) \/ ReadDone(t)
  <2>1. UNCHANGED <<dirs, files>>
    BY <1>8 DEF Arrive, Disconnect, CreateCheck, Insert, DeleteCheck, RemoveVolume, CloneCheck,
       CloneWrite, CloneOpen, GetVolume, Change, Look, MountLook, Register, Unregister, ListExports,
       InfoCheck, InfoRead, List, ReadDone, Turns, httpVars
  <2> QED
    BY <2>1 DEF FilesSame
<1> QED
  BY <1>2, <1>3, <1>4, <1>5, <1>6, <1>7, <1>8 DEF Handle

\* A handler opens only files of its name.
LEMMA OwnStepTask ==
  ASSUME BaseInv, BaseInv', OwnInv, NEW t \in Tasks, Arrive(t) \/ Handle(t) \/ Disconnect(t)
  PROVE  OwnInv'
<1>1. TypeOK /\ Name(t) \in Names
  BY UseType DEF BaseInv
<1>2. use' = use
  BY DEF Arrive, Handle, Disconnect, CreateCheck, CreateOpen, CreateWrite, Insert, DeleteCheck,
         DeleteOpen, DeleteStop, DeleteDir, DeleteDirFails, RemoveVolume, CloneCheck,
         CloneCopy, CloneWrite, CloneOpen, GetVolume, Change, Look, MountLook, Register, Unregister,
         ListExports, InfoCheck, InfoOpen, InfoRead, List, ReadClosed, ReadDone, Turns, Works
<1>3. \A n \in Names : \/ blocks'[n] \in {0, blocks[n]}
                       \/ n = Name(t) /\ blocks'[n] = task[t].vol
  <2>1. \/ blocks' = blocks
        \/ blocks' = [blocks EXCEPT ![Name(t)] = task[t].vol]
        \/ blocks' = [blocks EXCEPT ![Name(t)] = 0]
    BY DEF Arrive, Handle, Disconnect, CreateCheck, CreateOpen, CreateWrite, Insert, DeleteCheck,
         DeleteOpen, DeleteStop, DeleteDir, DeleteDirFails, RemoveVolume, CloneCheck,
         CloneCopy, CloneWrite, CloneOpen, GetVolume, Change, Look, MountLook, Register, Unregister,
         ListExports, InfoCheck, InfoOpen, InfoRead, List, ReadClosed, ReadDone, Turns, Works, httpVars
  <2> QED
    BY <1>1, <2>1 DEF TypeOK
<1> DEFINE Ours == /\ task'[t].file \in {0, task[t].file, dirs'[Name(t)]}
                   /\ \/ task'[t].vol \in {0, task[t].vol, blocks[Name(t)]}
                      \/ vols'[task'[t].vol].file = task'[t].file
<1>4. ASSUME NEW label, Goto(t, label) PROVE Ours
  BY <1>1, <1>4, GotoFacts
<1>5. ASSUME NEW label, NEW names, task' = [task EXCEPT ![t].pc = label, ![t].names = names] PROVE Ours
  BY <1>1, <1>5, NamesFacts
<1>6. ASSUME NEW f \in {task[t].file, dirs'[Name(t)]}, NEW mem, NEW label,
             With(t, label, Len(vols) + 1, f), vols' = Append(vols, [file |-> f, mem |-> mem])
      PROVE  Ours
  <2>1. vols'[Len(vols) + 1] = [file |-> f, mem |-> mem]
    BY <1>1, <1>6 DEF TypeOK
  <2> QED
    BY <1>1, <1>6, <2>1, WithFacts
<1>7. Ours
  <2>1. CASE ReadClosed(t)
    BY <1>1, <1>5, <2>1, ReadClosedTurn
  <2>2. CASE InfoRead(t) \/ List(t)
    BY <1>4, <1>5, <2>2 DEF InfoRead, List, End
  <2>3. CASE CreateOpen(t)
    <3>1. With(t, "create_write", 0, Opened(Name(t))) /\ dirs'[Name(t)] = Opened(Name(t))
      BY <1>1, <2>3, OpenedKeeps DEF CreateOpen
    <3> QED
      BY <1>1, <3>1, WithFacts
  <2>4. CASE CreateWrite(t)
    BY <1>4, <1>6, <2>4 DEF CreateWrite, OpenVolume, End
  <2>5. CASE CloneOpen(t)
    BY <1>4, <1>6, <2>5 DEF CloneOpen, OpenVolume, End
  <2>6. CASE DeleteOpen(t)
    <3>1. dirs'[Name(t)] = Opened(Name(t))
      BY <1>1, <2>6, OpenedKeeps DEF DeleteOpen
    <3> QED
      BY <1>4, <1>6, <2>6, <3>1 DEF DeleteOpen, End
  <2>7. CASE GetVolume(t)
    <3>1. PICK label : With(t, label, blocks[Name(t)], 0)
      BY <2>7 DEF GetVolume
    <3> QED
      BY <1>1, <3>1, WithFacts
  <2> QED
    BY <1>4, <2>1, <2>2, <2>3, <2>4, <2>5, <2>6, <2>7 DEF Handle, Arrive, Disconnect, CreateCheck, Insert,
       DeleteCheck, DeleteStop, DeleteDir, DeleteDirFails, RemoveVolume, CloneCheck, CloneCopy,
       CloneWrite, Change, Look, MountLook, Register, Unregister, ListExports, InfoCheck, InfoOpen,
       ReadDone, End
<1> QED
  BY <1>2, <1>3, <1>7, OthersSame, VolsKeep, FilesChange, OwnFrame DEF FilesSame, FilesAdd

\* No step mixes the files of two names.
LEMMA OwnStep == BaseInv /\ BaseInv' /\ OwnInv /\ [Next]_vars => OwnInv'
<1> SUFFICES ASSUME BaseInv, BaseInv', OwnInv, [Next]_vars PROVE OwnInv'
  OBVIOUS
<1>1. ASSUME NEW t \in Tasks, Arrive(t) \/ Handle(t) \/ Disconnect(t) PROVE OwnInv'
  BY <1>1, OwnStepTask
<1>2. ASSUME UNCHANGED <<use, dirs, vols, blocks, task>>, Len(files') = Len(files) PROVE OwnInv'
  BY <1>2 DEF OwnInv, Owned, Name
<1>3. ASSUME NEW c \in Conns, Accept(c) \/ Greet(c) \/ Choose(c) \/ GiveUp(c) \/ Disc(c)
      PROVE  UNCHANGED <<use, dirs, vols, blocks, task, files>>
  BY <1>3 DEF Accept, Greet, Choose, GiveUp, Disc, Connection, httpVars
<1>4. ASSUME Signal \/ Stop \/ \E listener \in open : Close(listener)
      PROVE  UNCHANGED <<use, dirs, vols, blocks, task>> /\ Len(files') = Len(files)
  <2>1. UNCHANGED <<use, dirs, vols, blocks, task>>
    BY <1>4 DEF Signal, Stop, StopAll, StopBegin, StopEnd, StopsDone, Exit, Close, MainTurns
  <2>2. files' = files \/ \E f, r : files' = [files EXCEPT ![f] = r]
    BY <1>4 DEF Signal, Stop, StopAll, StopBegin, StopEnd, StopsDone, Exit, Close, Stopped
  <2>3. Len(files') = Len(files)
    BY <2>2 DEF BaseInv, TypeOK
  <2> QED
    BY <2>1, <2>3
<1>5. ASSUME UNCHANGED vars PROVE UNCHANGED <<use, dirs, vols, blocks, task, files>>
  BY <1>5 DEF vars, httpVars
<1> QED
  BY <1>1, <1>2, <1>3, <1>4, <1>5 DEF Next

-----------------------------------------------------------------------------
(* Changes.                                                                  *)

\* A name that no delete came for, nor two makers at a time.
Quiet(n) == met[n] \cap {"delete", "makers"} = {}
\* From the look at the directory to the map.
Busy == {"create_open", "create_write", "clone_copy", "clone_write", "clone_open", "insert"}
\* Such a name has no open volume while one is made for it, and never gets another.
Calm(n) ==
  /\ "clash" \notin met[n]
  /\ \A t \in Tasks : Name(t) = n /\ Op(t) = "delete" => task[t].pc = "none"
  /\ \A t, u \in On(n, Makers) : t = u
  /\ \A t \in On(n, Makers) : task[t].pc \in Busy => blocks[n] = 0
  /\ \A t \in Tasks : Name(t) = n /\ Op(t) = "change" /\ (task[t].pc = "change" \/ t \in acked) =>
                        task[t].vol = blocks[n]
CalmInv == \A n \in Names : Quiet(n) => Calm(n)

\* A change that was answered is in the volume it was made to.
AckedInv ==
  \A t \in acked : /\ Op(t) = "change" /\ task[t].pc = "end" /\ task[t].vol # 0
                   /\ t \in vols[task[t].vol].mem

\* Which step a handler may take from where it stands.
LEMMA ActsFrom ==
  ASSUME NEW t \in Tasks, Arrive(t) \/ Handle(t) \/ Disconnect(t)
  PROVE  /\ task[t].pc # "end" /\ (task[t].pc = "none" <=> Arrive(t)) /\ use' = use
         /\ task[t].pc = "create" => CreateCheck(t) \/ Disconnect(t)
         /\ task[t].pc = "clone" => CloneCheck(t) \/ Disconnect(t)
         /\ task[t].pc = "get" => GetVolume(t) \/ Disconnect(t)
         /\ task[t].pc = "change" => Change(t) \/ Disconnect(t)
  BY DEF Arrive, Handle, Disconnect, Active, At, CreateCheck, CreateOpen, CreateWrite, Insert, DeleteCheck,
         DeleteOpen, DeleteStop, DeleteDir, DeleteDirFails, RemoveVolume, CloneCheck,
         CloneCopy, CloneWrite, CloneOpen, GetVolume, Change, Look, MountLook, Register, Unregister,
         ListExports, InfoCheck, InfoOpen, InfoRead, List, ReadClosed, ReadDone, Turns, Works

\* A handler leaves main and what it has stopped alone; only Change answers a change.
LEMMA SeenChange ==
  ASSUME NEW t \in Tasks, Arrive(t) \/ Handle(t) \/ Disconnect(t)
  PROVE  /\ stopped' = stopped /\ main' = main /\ late \subseteq late'
         /\ UNCHANGED <<acked, late>> \/ Change(t)
  BY DEF Arrive, Handle, Disconnect, CreateCheck, CreateOpen, CreateWrite, Insert, DeleteCheck,
         DeleteOpen, DeleteStop, DeleteDir, DeleteDirFails, RemoveVolume, CloneCheck,
         CloneCopy, CloneWrite, CloneOpen, GetVolume, Change, Look, MountLook, Register, Unregister,
         ListExports, InfoCheck, InfoOpen, InfoRead, List, ReadClosed, ReadDone, Turns, Works, seen

\* What a change does.
LEMMA Changed ==
  ASSUME BaseInv, NEW t \in Tasks, Change(t)
  PROVE  /\ Op(t) = "change" /\ task[t].vol \in 1..Len(vols) /\ task[t].pc = "change"
         /\ task'[t].pc = "end" /\ task'[t].vol = task[t].vol
         /\ acked' = acked \cup {t} /\ t \in vols'[task[t].vol].mem
         /\ \A v \in 1..Len(vols) \ {task[t].vol} : vols'[v] = vols[v]
         /\ task[t].vol \notin stopped \/ t \in late'
         /\ main.stopping # task[t].vol
<1>1. TypeOK /\ TaskFits(t) /\ Op(t) \in Ops /\ task[t].pc = "change" /\ Goto(t, "end")
  BY UseType DEF BaseInv, TaskInv, Change, At, End
<1>2. Op(t) = "change" /\ task[t].vol # 0
  BY <1>1, WhoStands DEF TaskFits, BaseInv
<1>3. task[t].vol \in 1..Len(vols)
  BY <1>1, <1>2, Sizes DEF TypeOK, TaskRecords
<1>4. vols \in Seq(VolRecords(Len(files)))
  BY <1>1 DEF TypeOK
<1>5. vols' = [vols EXCEPT ![task[t].vol] = [vols[task[t].vol] EXCEPT !.mem = @ \cup {t}]]
  BY DEF Change
<1>6. vols[task[t].vol] \in VolRecords(Len(files))
  BY <1>3, <1>4
<1>7. [vols[task[t].vol] EXCEPT !.mem = @ \cup {t}].mem = vols[task[t].vol].mem \cup {t}
  BY <1>6 DEF VolRecords
<1>8. t \in vols'[task[t].vol].mem /\ \A v \in 1..Len(vols) \ {task[t].vol} : vols'[v] = vols[v]
  BY <1>3, <1>4, <1>5, <1>7
<1> QED
  BY <1>1, <1>2, <1>3, <1>8, GotoFacts DEF Change

\* A change that was answered stays in its volume.
LEMMA AckedStep == BaseInv /\ AckedInv /\ [Next]_vars => AckedInv'
<1> SUFFICES ASSUME BaseInv, AckedInv, [Next]_vars PROVE AckedInv'
  OBVIOUS
<1>1. TypeOK /\ acked \subseteq Tasks
  BY DEF BaseInv, TypeOK
<1>2. ASSUME NEW t \in Tasks, Arrive(t) \/ Handle(t) \/ Disconnect(t) PROVE AckedInv'
  <2>1. use' = use /\ task[t].pc # "end"
    BY <1>2, ActsFrom
  <2>2. ASSUME NEW u \in acked
        PROVE  Op(u)' = "change" /\ task'[u].pc = "end" /\ task'[u].vol # 0 /\ u \in vols'[task'[u].vol].mem
    <3>1. Op(u) = "change" /\ task[u].pc = "end" /\ task[u].vol # 0 /\ u \in vols[task[u].vol].mem
      BY <2>2 DEF AckedInv
    <3>2. u \in Tasks \ {t} /\ task'[u] = task[u]
      BY <1>1, <1>2, <2>1, <2>2, <3>1, OthersSame
    <3>3. task[u].vol \in 1..Len(vols)
      BY <1>1, <3>1, <3>2, Sizes DEF TypeOK, TaskRecords
    <3>4. u \in vols'[task[u].vol].mem
      BY <1>2, <3>1, <3>3, VolsKeep
    <3> QED
      BY <2>1, <3>1, <3>2, <3>4 DEF Op
  <2>3. CASE acked' = acked
    BY <2>2, <2>3 DEF AckedInv
  <2>4. CASE Change(t)
    <3>1. Op(t)' = "change" /\ task'[t].pc = "end" /\ task'[t].vol # 0 /\ t \in vols'[task'[t].vol].mem
          /\ acked' = acked \cup {t}
      BY <2>1, <2>4, Changed DEF Op
    <3> QED
      BY <2>2, <3>1 DEF AckedInv
  <2> QED
    BY <1>2, <2>3, <2>4, SeenChange
<1>3. ASSUME UNCHANGED <<use, vols, task, acked>> PROVE AckedInv'
  BY <1>3 DEF AckedInv, Op
<1>4. ASSUME NEW c \in Conns, Accept(c) \/ Greet(c) \/ Choose(c) \/ GiveUp(c) \/ Disc(c)
      PROVE  UNCHANGED <<use, vols, task, acked>>
  BY <1>4 DEF Accept, Greet, Choose, GiveUp, Disc, Connection, httpVars, seen
<1>5. ASSUME Signal \/ Stop \/ \E listener \in open : Close(listener)
      PROVE  UNCHANGED <<use, vols, task, acked>>
  BY <1>5 DEF Signal, Stop, StopAll, StopBegin, StopEnd, StopsDone, Exit, Close, MainTurns
<1>6. ASSUME UNCHANGED vars PROVE UNCHANGED <<use, vols, task, acked>>
  BY <1>6 DEF vars, httpVars, seen
<1> QED
  BY <1>2, <1>3, <1>4, <1>5, <1>6 DEF Next

\* A request that comes leaves a name calm, or is the one that stirs it.
LEMMA CalmArrive ==
  ASSUME BaseInv, AckedInv, CalmInv, NEW t \in Tasks, Arrive(t) PROVE CalmInv'
<1> SUFFICES ASSUME NEW n \in Names, Quiet(n)' PROVE Calm(n)'
  BY DEF CalmInv
<1>1. /\ UNCHANGED <<use, dirs, vols, blocks, acked>> /\ Goto(t, First(Op(t))) /\ task[t].pc = "none"
      /\ Meet(Name(t), Meets(Op(t), Name(t)))
  BY DEF Arrive, httpVars, At
<1>2. /\ task'[t].pc = First(Op(t)) /\ \A u \in Tasks \ {t} : task'[u] = task[u]
  BY <1>1, GotoFacts DEF BaseInv
<1>3. Name(t) \in Names /\ Op(t) \in Ops /\ \A u \in Tasks : Name(u)' = Name(u) /\ Op(u)' = Op(u)
  BY <1>1, UseType DEF BaseInv, Name, Op
<1>4. met'[n] = IF n = Name(t) THEN met[n] \cup Meets(Op(t), n) ELSE met[n]
  BY <1>1, <1>3 DEF Meet, BaseInv, TypeOK
<1>5. Calm(n)
  BY <1>4 DEF CalmInv, Quiet
<1>6. Name(t) = n => Op(t) # "delete" /\ (Op(t) \in Makers => On(n, Makers) = {})
  BY <1>4 DEF Quiet, Meets
<1>7. "clash" \notin met'[n]
  <2>1. On(n, {"delete"}) = {}
    BY <1>5, OnFacts DEF Calm
  <2> QED
    BY <1>3, <1>4, <1>5, <1>6, <2>1 DEF Calm, Meets, Ops, Makers
<1>8. ASSUME NEW u \in Tasks, Name(u)' = n, Op(u)' = "delete" PROVE task'[u].pc = "none"
  BY <1>2, <1>3, <1>5, <1>6, <1>8 DEF Calm
<1>9. On(n, Makers)' \subseteq IF Name(t) = n /\ Op(t) \in Makers THEN {t} ELSE On(n, Makers)
  <2>1. \A u \in On(n, Makers)' : u = t \/ u \in On(n, Makers)
    BY <1>2, <1>3, OnFacts
  <2>2. t \in On(n, Makers)' => Name(t) = n /\ Op(t) \in Makers
    BY <1>3, OnFacts
  <2>3. t \notin On(n, Makers)
    BY <1>1, OnFacts
  <2> QED
    BY <1>6, <2>1, <2>2
<1>10. \A u, w \in On(n, Makers)' : u = w
  BY <1>5, <1>9 DEF Calm
<1>11. ASSUME NEW u \in On(n, Makers)', task'[u].pc \in Busy PROVE blocks'[n] = 0
  <2>1. CASE u = t
    <3>1. First(Op(t)) \notin Busy
      BY <1>3 DEF First, Busy, Ops, Makers
    <3> QED
      BY <1>2, <1>11, <2>1, <3>1
  <2>2. CASE u # t
    <3>1. u \in Tasks /\ u \in On(n, Makers)
      BY <1>9, <2>2, OnFacts
    <3> QED
      BY <1>1, <1>2, <1>5, <1>11, <2>2, <3>1 DEF Calm
  <2> QED
    BY <2>1, <2>2
<1>12. ASSUME NEW u \in Tasks, Name(u)' = n, Op(u)' = "change", task'[u].pc = "change" \/ u \in acked'
       PROVE  task'[u].vol = blocks'[n]
  <2>1. CASE u = t
    <3>1. t \notin acked
      BY <1>1 DEF AckedInv
    <3>2. task'[t].pc = "get"
      BY <1>2, <1>3, <1>12, <2>1 DEF First
    <3> QED
      BY <1>1, <1>12, <2>1, <3>1, <3>2
  <2>2. CASE u # t
    BY <1>1, <1>2, <1>3, <1>5, <1>12, <2>2 DEF Calm
  <2> QED
    BY <2>1, <2>2
<1> QED
  BY <1>7, <1>8, <1>10, <1>11, <1>12 DEF Calm

\* A step of one handler, for one calm name.
LEMMA CalmFrame ==
  ASSUME BaseInv, AckedInv, NEW n \in Names, Calm(n), NEW t \in Tasks, use' = use,
         \A u \in Tasks \ {t} : task'[u] = task[u],
         task[t].pc \notin {"none", "end"}, met'[n] = met[n], acked' \subseteq acked \cup {t},
         \/ Name(t) # n /\ blocks'[n] = blocks[n]
         \/ /\ blocks'[n] = blocks[n]
            /\ Op(t) \in Makers /\ task'[t].pc \in Busy => task[t].pc \in Busy \/ blocks[n] = 0
            /\ Op(t) = "change" /\ (task'[t].pc = "change" \/ t \in acked') => task'[t].vol = blocks[n]
         \/ Name(t) = n /\ Op(t) \in Makers /\ task[t].pc \in Busy /\ task'[t].pc = "end" /\ acked' = acked
  PROVE  Calm(n)'
<1>1. /\ \A u \in Tasks : Name(u)' = Name(u) /\ Op(u)' = Op(u)
      /\ On(n, Makers)' \subseteq On(n, Makers)
  <2>1. \A u \in Tasks : Name(u)' = Name(u) /\ Op(u)' = Op(u)
    BY DEF Name, Op
  <2> QED
    BY <2>1, OnShrinks
<1>2. Name(t) = n => Op(t) # "delete"
  BY DEF Calm
<1>3. \A u \in Tasks : Name(u)' = n /\ Op(u)' = "delete" => task'[u].pc = "none"
  BY <1>1, <1>2 DEF Calm
<1>4. \A u, w \in On(n, Makers)' : u = w
  BY <1>1 DEF Calm
<1>5. ASSUME NEW u \in On(n, Makers)', task'[u].pc \in Busy PROVE blocks'[n] = 0
  <2>1. u \in On(n, Makers) /\ u \in Tasks /\ Name(u) = n /\ Op(u) \in Makers
    BY <1>1, OnFacts
  <2>2. CASE u = t
    <3>1. task'[t].pc # "end"
      BY <1>5, <2>2 DEF Busy
    <3> QED
      BY <1>5, <2>1, <2>2, <3>1 DEF Calm
  <2>3. CASE u # t
    <3>1. blocks[n] = 0
      BY <1>5, <2>1, <2>3 DEF Calm
    <3>2. ~(Name(t) = n /\ Op(t) \in Makers)
      BY <2>1, <2>3, OnFacts DEF Calm
    <3> QED
      BY <3>1, <3>2
  <2> QED
    BY <2>2, <2>3
<1>6. ASSUME NEW u \in Tasks, Name(u)' = n, Op(u)' = "change", task'[u].pc = "change" \/ u \in acked'
      PROVE  task'[u].vol = blocks'[n]
  <2>1. Name(u) = n /\ Op(u) = "change"
    BY <1>1, <1>6
  <2>2. CASE u = t
    BY <1>6, <2>1, <2>2 DEF Makers
  <2>3. CASE u # t
    <3>1. task'[u] = task[u] /\ (task[u].pc = "change" \/ u \in acked)
      BY <1>6, <2>3
    <3>2. task[u].vol = blocks[n]
      BY <2>1, <3>1 DEF Calm
    <3>3. CASE blocks'[n] = blocks[n]
      BY <3>1, <3>2, <3>3
    <3>4. CASE Name(t) = n /\ Op(t) \in Makers /\ task[t].pc \in Busy
      <4>1. t \in On(n, Makers)
        BY <3>4, OnFacts
      <4>2. blocks[n] = 0
        BY <3>4, <4>1 DEF Calm
      <4>3. task[u].vol # 0
        BY <3>1 DEF AckedInv, BaseInv, TaskInv, TaskFits
      <4> QED
        BY <3>2, <4>2, <4>3
    <3> QED
      BY <3>3, <3>4
  <2> QED
    BY <2>2, <2>3
<1> QED
  BY <1>3, <1>4, <1>5, <1>6 DEF Calm

\* Who looks at the directory of a calm name and finds none finds no open volume either.
LEMMA NoneOpen ==
  ASSUME BaseInv, DiskInv, NEW n \in Names, Calm(n), dirs[n] = 0
  PROVE  blocks[n] = 0
<1>1. OpenFits(n)
  BY DEF DiskInv, NameFits, Calm
<1>2. ASSUME NEW t \in On(n, {"delete"}) PROVE FALSE
  BY <1>2, OnFacts DEF Calm
<1>3. CASE dirs[n] = vols[blocks[n]].file
  <2>1. blocks[n] \in 0..Len(vols)
    BY DEF BaseInv, TypeOK
  <2>2. blocks[n] # 0 => vols[blocks[n]].file # 0
    BY <2>1, VolAt, Sizes DEF BaseInv
  <2> QED
    BY <1>3, <2>2
<1> QED
  BY <1>1, <1>2, <1>3 DEF OpenFits

\* Where a create or clone, or a change, stands after its step.
LEMMA CalmTurn ==
  ASSUME BaseInv, AckedInv, DiskInv, NEW t \in Tasks, Calm(Name(t)), Handle(t) \/ Disconnect(t), task[t].pc # "none"
  PROVE  LET n == Name(t)
         IN  \/ /\ blocks' = blocks
                /\ Op(t) \in Makers /\ task'[t].pc \in Busy => task[t].pc \in Busy \/ blocks[n] = 0
                /\ Op(t) = "change" /\ (task'[t].pc = "change" \/ t \in acked') => task'[t].vol = blocks[n]
             \/ Op(t) \in Makers /\ task[t].pc \in Busy /\ task'[t].pc = "end" /\ acked' = acked
<1> DEFINE n == Name(t)
<1>1. TypeOK /\ TaskInv /\ n \in Names /\ Op(t) \in Ops /\ TaskFits(t)
  BY UseType DEF BaseInv, TaskInv
<1>2. task[t].pc \notin {"none", "end"} /\ t \notin acked /\ Op(t) # "delete"
  BY <1>1, ActsFrom DEF AckedInv, Calm
<1>3. CASE Insert(t)
  <2>1. task[t].pc = "insert" /\ Goto(t, "end") /\ acked' = acked
    BY <1>3 DEF Insert, At, End, seen
  <2> QED
    BY <1>1, <2>1, GotoFacts, WhoStands DEF Busy
<1>4. CASE ~Insert(t)
  <2>1. blocks' = blocks
    <3>1. CASE RemoveVolume(t)
      BY <1>1, <1>2, <3>1, WhoStands DEF RemoveVolume, At
    <3>2. CASE ~RemoveVolume(t)
      BY <1>4, <3>2 DEF Handle, Disconnect, CreateCheck, CreateOpen, CreateWrite, DeleteCheck,
         DeleteOpen, DeleteStop, DeleteDir, DeleteDirFails, CloneCheck,
         CloneCopy, CloneWrite, CloneOpen, GetVolume, Change, Look, MountLook, Register, Unregister,
         ListExports, InfoCheck, InfoOpen, InfoRead, List, ReadClosed, ReadDone, Turns, Works, httpVars
    <3> QED
      BY <3>1, <3>2
  <2>2. ASSUME Op(t) \in Makers, task'[t].pc \in Busy PROVE task[t].pc \in Busy \/ blocks[n] = 0
    <3>1. task[t].pc \in Busy \/ task[t].pc \in {"create", "clone"}
      BY <1>1, <1>2, <2>2 DEF TaskFits, LabelsOf, Makers, Busy
    <3>2. CASE Disconnect(t)
      <4>1. task'[t].pc = "end"
        BY <1>1, <3>2, GotoFacts DEF Disconnect, End
      <4> QED
        BY <2>2, <4>1 DEF Busy
    <3>3. CASE CreateCheck(t)
      <4>1. task'[t].pc = IF dirs[n] = 0 THEN "create_open" ELSE "end"
        BY <1>1, <3>3, GotoFacts DEF CreateCheck
      <4> QED
        BY <1>1, <2>2, <4>1, NoneOpen DEF Busy
    <3>4. CASE CloneCheck(t)
      <4>1. task'[t].pc = IF dirs[use.job[t].from] # 0 /\ dirs[n] = 0 THEN "clone_copy" ELSE "end"
        BY <1>1, <3>4, GotoFacts DEF CloneCheck
      <4> QED
        BY <1>1, <2>2, <4>1, NoneOpen DEF Busy
    <3> QED
      BY <3>1, <3>2, <3>3, <3>4, ActsFrom
  <2>3. ASSUME Op(t) = "change", task'[t].pc = "change" \/ t \in acked' PROVE task'[t].vol = blocks[n]
    <3>1. task[t].pc \in {"get", "change"}
      BY <1>1, <1>2, <2>3 DEF TaskFits, LabelsOf
    <3>2. CASE Disconnect(t)
      <4>1. task'[t].pc = "end" /\ acked' = acked
        BY <1>1, <3>2, GotoFacts DEF Disconnect, End
      <4> QED
        BY <1>2, <2>3, <4>1
    <3>3. CASE GetVolume(t)
      <4>1. task'[t].vol = blocks[n]
        BY <1>1, <3>3, WithFacts DEF GetVolume
      <4> QED
        BY <4>1
    <3>4. CASE Change(t)
      <4>1. task[t].pc = "change" /\ task'[t].vol = task[t].vol
        BY <3>4, Changed
      <4> QED
        BY <1>1, <2>3, <4>1 DEF Calm
    <3> QED
      BY <3>1, <3>2, <3>3, <3>4, ActsFrom
  <2> QED
    BY <2>1, <2>2, <2>3
<1> QED
  BY <1>3, <1>4

\* What came to a name is not forgotten.
LEMMA MetGrows ==
  ASSUME BaseInv, NEW t \in Tasks, Arrive(t) \/ Handle(t) \/ Disconnect(t), NEW n \in Names
  PROVE  met[n] \subseteq met'[n]
<1>1. met' = met \/ \E what : Meet(Name(t), what)
  BY DEF Arrive, Handle, Disconnect, CreateCheck, CreateOpen, CreateWrite, Insert, DeleteCheck,
         DeleteOpen, DeleteStop, DeleteDir, DeleteDirFails, RemoveVolume, CloneCheck,
         CloneCopy, CloneWrite, CloneOpen, GetVolume, Change, Look, MountLook, Register, Unregister,
         ListExports, InfoCheck, InfoOpen, InfoRead, List, ReadClosed, ReadDone, Turns, Works, seen
<1>2. DOMAIN met = Names
  BY DEF BaseInv, TypeOK
<1> QED
  BY <1>1, <1>2 DEF Meet

\* A handler that goes on leaves calm names calm.
LEMMA CalmGoes ==
  ASSUME BaseInv, AckedInv, DiskInv, CalmInv, NEW t \in Tasks, Handle(t) \/ Disconnect(t), task[t].pc # "none"
  PROVE  CalmInv'
<1> SUFFICES ASSUME NEW n \in Names, Quiet(n)' PROVE Calm(n)'
  BY DEF CalmInv
<1>1. TypeOK /\ TaskInv /\ Name(t) \in Names /\ use' = use /\ task[t].pc \notin {"none", "end"}
      /\ \A u \in Tasks \ {t} : task'[u] = task[u]
  BY UseType, ActsFrom, OthersSame DEF BaseInv
<1>2. \/ met' = met
      \/ task[t].pc \in {"remove", "delete_dir"} /\ \E what : Meet(Name(t), what)
  <2>1. CASE DeleteDirFails(t)
    BY <2>1 DEF DeleteDirFails, At
  <2>2. CASE Disconnect(t)
    <3>1. CASE task[t].pc # "remove"
      <4>1. met' = [met EXCEPT ![Name(t)] = @ \cup {}]
        BY <2>2, <3>1 DEF Disconnect, Meet
      <4> QED
        BY <1>1, <4>1 DEF TypeOK
    <3>2. CASE task[t].pc = "remove"
      BY <2>2, <3>2 DEF Disconnect
    <3> QED
      BY <3>1, <3>2
  <2> QED
    BY <2>1, <2>2 DEF Handle, CreateCheck, CreateOpen, CreateWrite, Insert, DeleteCheck,
         DeleteOpen, DeleteStop, DeleteDir, RemoveVolume, CloneCheck,
         CloneCopy, CloneWrite, CloneOpen, GetVolume, Change, Look, MountLook, Register, Unregister,
         ListExports, InfoCheck, InfoOpen, InfoRead, List, ReadClosed, ReadDone, Turns, Works, seen
<1>3. met'[n] = met[n] \/ (Name(t) = n /\ Op(t) = "delete")
  <2>1. CASE met' = met
    BY <2>1
  <2>2. ASSUME task[t].pc \in {"remove", "delete_dir"}, NEW what, Meet(Name(t), what), Name(t) # n
        PROVE  met'[n] = met[n]
    BY <1>1, <2>2 DEF Meet, TypeOK
  <2>3. task[t].pc \in {"remove", "delete_dir"} => Op(t) = "delete"
    BY <1>1, WhoStands
  <2> QED
    BY <1>2, <2>1, <2>2, <2>3
<1>4. Calm(n)
  <2>1. met[n] \subseteq met'[n]
    BY MetGrows
  <2> QED
    BY <2>1 DEF CalmInv, Quiet
<1>5. met'[n] = met[n]
  BY <1>1, <1>3, <1>4 DEF Calm
<1>6. acked' \subseteq acked \cup {t}
  BY SeenChange, Changed
<1>7. CASE Name(t) # n
  <2>1. \/ blocks' = blocks
        \/ blocks' = [blocks EXCEPT ![Name(t)] = task[t].vol]
        \/ blocks' = [blocks EXCEPT ![Name(t)] = 0]
    BY DEF Handle, Disconnect, CreateCheck, CreateOpen, CreateWrite, Insert, DeleteCheck,
         DeleteOpen, DeleteStop, DeleteDir, DeleteDirFails, RemoveVolume, CloneCheck,
         CloneCopy, CloneWrite, CloneOpen, GetVolume, Change, Look, MountLook, Register, Unregister,
         ListExports, InfoCheck, InfoOpen, InfoRead, List, ReadClosed, ReadDone, Turns, Works, httpVars
  <2>2. blocks'[n] = blocks[n]
    BY <1>1, <1>7, <2>1 DEF TypeOK
  <2> QED
    BY <1>1, <1>4, <1>5, <1>6, <1>7, <2>2, CalmFrame
<1>8. CASE Name(t) = n
  BY <1>1, <1>4, <1>5, <1>6, <1>8, CalmTurn, CalmFrame
<1> QED
  BY <1>7, <1>8

\* A name stays calm until a delete comes for it or a second maker.
LEMMA CalmStep == BaseInv /\ AckedInv /\ DiskInv /\ CalmInv /\ [Next]_vars => CalmInv'
<1> SUFFICES ASSUME BaseInv, AckedInv, DiskInv, CalmInv, [Next]_vars PROVE CalmInv'
  OBVIOUS
<1>1. ASSUME NEW t \in Tasks, Arrive(t) \/ Handle(t) \/ Disconnect(t) PROVE CalmInv'
  BY <1>1, ActsFrom, CalmArrive, CalmGoes
<1>2. ASSUME UNCHANGED <<use, blocks, task, acked, met>> PROVE CalmInv'
  <2>1. \A n, ops : On(n, ops)' = On(n, ops)
    BY <1>2 DEF On, Active, Name, Op
  <2> QED
    BY <1>2, <2>1 DEF CalmInv, Calm, Quiet, Name, Op
<1>3. ASSUME NEW c \in Conns, Accept(c) \/ Greet(c) \/ Choose(c) \/ GiveUp(c) \/ Disc(c)
      PROVE  UNCHANGED <<use, blocks, task, acked, met>>
  BY <1>3 DEF Accept, Greet, Choose, GiveUp, Disc, Connection, httpVars, seen
<1>4. ASSUME Signal \/ Stop \/ \E listener \in open : Close(listener)
      PROVE  UNCHANGED <<use, blocks, task, acked, met>>
  BY <1>4 DEF Signal, Stop, StopAll, StopBegin, StopEnd, StopsDone, Exit, Close, MainTurns
<1>5. ASSUME UNCHANGED vars PROVE UNCHANGED <<use, blocks, task, acked, met>>
  BY <1>5 DEF vars, httpVars, seen
<1> QED
  BY <1>1, <1>2, <1>3, <1>4, <1>5 DEF Next

\* What main is stopping is what is in the volume it stops, and what it has stopped
\* without an error is in the nodes that were written.
KeptInv ==
  /\ main.stopping # 0 => main.nodes = vols[main.stopping].mem
  /\ \A t \in acked \ late :
       Quiet(Name(t)) /\ task[t].vol \in stopped => t \in files[vols[task[t].vol].file].nodes

\* The file of an acknowledged change belongs to its name.
LEMMA FileOfChange ==
  ASSUME BaseInv, AckedInv, NEW own, Owned(own), NEW u \in acked
  PROVE  /\ u \in Tasks /\ Name(u) \in Names /\ task[u].vol \in 1..Len(vols)
         /\ vols[task[u].vol].file \in 1..Len(files)
         /\ own[vols[task[u].vol].file] = Name(u)
<1>1. TypeOK /\ u \in Tasks /\ task[u].vol # 0
  BY DEF BaseInv, TypeOK, AckedInv
<1>2. task[u].vol \in 1..Len(vols)
  BY <1>1, Sizes DEF TypeOK, TaskRecords
<1> QED
  BY <1>1, <1>2, UseType, VolAt DEF Owned

\* No handler writes a file in which there is a change of a quiet name.
LEMMA FileSpared ==
  ASSUME BaseInv, AckedInv, OwnInv, CalmInv, NEW u \in acked, Quiet(Name(u)),
         NEW t \in Tasks, Arrive(t) \/ Handle(t) \/ Disconnect(t)
  PROVE  files'[vols[task[u].vol].file] = files[vols[task[u].vol].file]
<1>1. PICK own : Owned(own)
  BY DEF OwnInv
<1> DEFINE f == vols[task[u].vol].file
           n == Name(u)
<1>2. /\ u \in Tasks /\ n \in Names /\ task[u].vol \in 1..Len(vols)
      /\ f \in 1..Len(files) /\ own[f] = n
  BY <1>1, FileOfChange
<1>3. TypeOK /\ TaskInv /\ files \in Seq(FileRecords) /\ Len(files) \in Nat /\ Name(t) \in Names
  BY UseType, Sizes DEF BaseInv, TypeOK
<1>4. Calm(n)
  BY <1>2 DEF CalmInv
<1>5. task[u].vol = blocks[n] /\ blocks[n] # 0
  BY <1>2, <1>4 DEF AckedInv, Calm
<1>6. ASSUME Op(t) \in Makers, task[t].pc \in Busy PROVE Name(t) # n
  <2>1. task[t].pc \notin {"none", "end"}
    BY <1>6 DEF Busy
  <2>2. ASSUME Name(t) = n PROVE FALSE
    <3>1. t \in On(n, Makers)
      BY <1>6, <2>1, <2>2, OnFacts
    <3> QED
      BY <1>4, <1>5, <1>6, <3>1 DEF Calm
  <2> QED
    BY <2>2
<1>7. CASE CreateWrite(t)
  <2>1. task[t].pc = "create_write" /\ Op(t) \in Makers
    BY <1>3, <1>7, WhoStands DEF CreateWrite, At, Makers
  <2>2. Name(t) # n
    BY <1>6, <2>1 DEF Busy
  <2>3. task[t].file # 0
    BY <1>3, <2>1 DEF TaskInv, TaskFits
  <2>4. task[t].file # f
    BY <1>1, <1>2, <2>2, <2>3 DEF Owned
  <2>5. files' = files \/ files' = [files EXCEPT ![task[t].file] = [sb |-> TRUE, nodes |-> {}]]
    BY <1>7 DEF CreateWrite
  <2> QED
    BY <1>2, <1>3, <2>4, <2>5
<1>8. CASE CloneCopy(t)
  <2> DEFINE w == WithOpened(Name(t))
             to == Opened(Name(t))
  <2>1. task[t].pc = "clone_copy" /\ Op(t) \in Makers
    BY <1>3, <1>8, WhoStands DEF CloneCopy, At, Makers
  <2>2. Name(t) # n
    BY <1>6, <2>1 DEF Busy
  <2>3. to # f
    <3>1. CASE dirs[Name(t)] = 0
      BY <1>2, <1>3, <3>1 DEF Opened
    <3>2. CASE dirs[Name(t)] # 0
      BY <1>1, <1>2, <1>3, <2>2, <3>2 DEF Opened, Owned
    <3> QED
      BY <3>1, <3>2
  <2>4. w[f] = files[f] /\ w \in Seq(FileRecords) /\ f \in DOMAIN w
    <3>1. w \in Seq(FileRecords)
      BY <1>3, OpenedFacts
    <3>2. w = files \/ w = Append(files, Hollow)
      BY DEF WithOpened
    <3> QED
      BY <1>2, <1>3, <3>1, <3>2
  <2>5. files' = w \/ \E r : files' = [w EXCEPT ![to] = r]
    BY <1>8 DEF CloneCopy
  <2> HIDE DEF w, to
  <2> QED
    BY <2>3, <2>4, <2>5
<1>9. CASE DeleteStop(t)
  <2>1. task[t].pc = "delete_stop" /\ Op(t) = "delete" /\ task[t].vol # 0
    BY <1>3, <1>9, WhoStands DEF DeleteStop, At, TaskInv, TaskFits
  <2>2. Name(t) # n
    BY <1>4, <2>1 DEF Calm
  <2>3. vols[task[t].vol].file # f
    BY <1>1, <1>2, <2>1, <2>2 DEF Owned
  <2>4. files' = files \/ \E r : files' = [files EXCEPT ![vols[task[t].vol].file] = r]
    BY <1>9 DEF DeleteStop, Stopped
  <2> QED
    BY <1>2, <1>3, <2>3, <2>4
<1>10. CASE ~(CreateWrite(t) \/ CloneCopy(t) \/ DeleteStop(t))
  <2>1. files' = files \/ \E r : files' = Append(files, r)
    BY <1>10 DEF Arrive, Handle, Disconnect, CreateCheck, CreateOpen, Insert, DeleteCheck,
         DeleteOpen, DeleteDir, DeleteDirFails, RemoveVolume, CloneCheck,
         CloneWrite, CloneOpen, GetVolume, Change, Look, MountLook, Register, Unregister,
         ListExports, InfoCheck, InfoOpen, InfoRead, List, ReadClosed, ReadDone, Turns, Works, httpVars,
         CreateBackend, WithOpened
  <2> QED
    BY <1>2, <1>3, <2>1
<1> QED
  BY <1>7, <1>8, <1>9, <1>10

\* A handler takes no change of a quiet name out of the nodes that were written.
LEMMA KeptTask ==
  ASSUME BaseInv, AckedInv, OwnInv, CalmInv, KeptInv, NEW t \in Tasks, Arrive(t) \/ Handle(t) \/ Disconnect(t)
  PROVE  KeptInv'
<1>1. TypeOK /\ main' = main /\ stopped' = stopped /\ late \subseteq late' /\ use' = use
      /\ main.stopping \in 0..Len(vols) /\ vols \in Seq(VolRecords(Len(files))) /\ Len(vols) \in Nat
  BY SeenChange, ActsFrom, Sizes DEF BaseInv, TypeOK, MainRecords
<1>2. ASSUME main.stopping # 0 PROVE vols'[main.stopping].mem = vols[main.stopping].mem
  <2>1. CASE Change(t)
    BY <1>1, <1>2, <2>1, Changed
  <2>2. CASE ~Change(t)
    <3>1. vols' = vols \/ \E r : vols' = Append(vols, r)
      BY <2>2 DEF Arrive, Handle, Disconnect, CreateCheck, CreateOpen, CreateWrite, Insert, DeleteCheck,
         DeleteOpen, DeleteStop, DeleteDir, DeleteDirFails, RemoveVolume, CloneCheck,
         CloneCopy, CloneWrite, CloneOpen, GetVolume, Look, MountLook, Register, Unregister,
         ListExports, InfoCheck, InfoOpen, InfoRead, List, ReadClosed, ReadDone, Turns, Works,
         OpenVolume, httpVars
    <3> QED
      BY <1>1, <1>2, <3>1
  <2> QED
    BY <2>1, <2>2
<1>3. ASSUME NEW u \in acked', u \notin late', Quiet(Name(u))', task'[u].vol \in stopped'
      PROVE  u \in files'[vols'[task'[u].vol].file].nodes
  <2>1. CASE u = t
    <3>1. task[t].pc # "end"
      BY ActsFrom
    <3>2. Change(t)
      BY <1>3, <2>1, <3>1, SeenChange DEF AckedInv
    <3> QED
      BY <1>1, <1>3, <2>1, <3>2, Changed
  <2>2. CASE u # t
    <3>1. u \in acked \ late /\ u \in Tasks
      BY <1>1, <1>3, <2>2, SeenChange, Changed DEF TypeOK
    <3>2. task'[u] = task[u] /\ Name(u)' = Name(u) /\ Name(u) \in Names
      BY <1>1, <2>2, <3>1, OthersSame, UseType DEF Name
    <3>3. Quiet(Name(u))
      <4>1. met[Name(u)] \subseteq met'[Name(u)]
        BY <1>1, <3>2, MetGrows
      <4> QED
        BY <1>3, <3>2, <4>1 DEF Quiet
    <3>4. u \in files[vols[task[u].vol].file].nodes
      BY <1>1, <1>3, <3>1, <3>2, <3>3 DEF KeptInv
    <3>5. PICK own : Owned(own)
      BY DEF OwnInv
    <3>6. task[u].vol \in 1..Len(vols)
      BY <3>1, <3>5, FileOfChange
    <3>7. vols'[task[u].vol].file = vols[task[u].vol].file
      BY <3>6, VolsKeep
    <3> QED
      BY <3>1, <3>2, <3>3, <3>4, <3>7, FileSpared
  <2> QED
    BY <2>1, <2>2
<1> QED
  BY <1>1, <1>2, <1>3 DEF KeptInv

\* main writes the nodes of the volume it stops as they are.
LEMMA KeptMain ==
  ASSUME BaseInv, AckedInv, OwnInv, CalmInv, KeptInv, NEW v, StopEnd, v = main.stopping
  PROVE  KeptInv'
<1>1. /\ TypeOK /\ vols' = vols /\ task' = task /\ use' = use /\ met' = met /\ acked' = acked
      /\ late' = late /\ main.pc = "stop" /\ v # 0 /\ main'.stopping = 0
  <2>1. main' = [main EXCEPT !.stopping = 0, !.nodes = {}] /\ main \in MainRecords(Len(vols))
    BY DEF StopEnd, BaseInv, TypeOK
  <2>2. main'.stopping = 0
    BY <2>1 DEF MainRecords
  <2> QED
    BY <2>2 DEF StopEnd, MainTurns, BaseInv
<1>2. v \in 1..Len(vols) /\ main.nodes = vols[v].mem /\ files \in Seq(FileRecords)
      /\ Len(files) \in Nat /\ main.nodes \in SUBSET Tasks
  BY <1>1, Sizes DEF TypeOK, MainRecords, KeptInv
<1>3. vols[v].file \in 1..Len(files)
  BY <1>1, <1>2, VolAt
<1>4. PICK m \in Names : blocks[m] = v
  BY <1>1 DEF BaseInv, MainInv
<1>5. PICK own : Owned(own)
  BY DEF OwnInv
<1>6. own[vols[v].file] = m
  BY <1>1, <1>4, <1>5 DEF Owned
<1>7. CASE UNCHANGED <<files, stopped>>
  BY <1>1, <1>7 DEF KeptInv, Quiet, Name
<1>8. CASE Stopped(v, main.nodes) /\ stopped' = stopped \cup {v}
  <2> DEFINE g == vols[v].file
  <2>1. files' = [files EXCEPT ![g] = [files[g] EXCEPT !.nodes = main.nodes]]
    BY <1>8 DEF Stopped
  <2>2. files'[g].nodes = main.nodes /\ \A f \in 1..Len(files) \ {g} : files'[f] = files[f]
    <3>1. [files[g] EXCEPT !.nodes = main.nodes].nodes = main.nodes
      BY <1>1, <1>3, FileAt DEF FileRecords
    <3> QED
      BY <1>2, <1>3, <2>1, <3>1
  <2> HIDE DEF g
  <2>3. ASSUME NEW u \in acked, u \notin late, Quiet(Name(u)), task[u].vol \in stopped \cup {v}
        PROVE  u \in files'[vols[task[u].vol].file].nodes
    <3> DEFINE f == vols[task[u].vol].file
    <3>1. /\ u \in Tasks /\ Name(u) \in Names /\ task[u].vol \in 1..Len(vols)
          /\ f \in 1..Len(files) /\ own[f] = Name(u)
      BY <1>5, <2>3, FileOfChange
    <3>2. task[u].vol = blocks[Name(u)] /\ u \in vols[task[u].vol].mem
      BY <2>3, <3>1 DEF CalmInv, Calm, AckedInv
    <3>3. CASE f = g
      <4>1. Name(u) = m
        BY <1>6, <3>1, <3>3 DEF g
      <4>2. task[u].vol = v
        BY <1>4, <3>2, <4>1
      <4> QED
        BY <1>2, <2>2, <3>2, <3>3, <4>2
    <3>4. CASE f # g
      <4>1. task[u].vol \in stopped
        BY <2>3, <3>4 DEF g
      <4>2. u \in files[f].nodes
        BY <2>3, <4>1 DEF KeptInv
      <4> QED
        BY <2>2, <3>1, <3>4, <4>2
    <3> QED
      BY <3>3, <3>4
  <2> QED
    BY <1>1, <1>8, <2>3 DEF KeptInv, Quiet, Name
<1> QED
  BY <1>1, <1>7, <1>8 DEF StopEnd

\* No step takes a change of a quiet name out of the nodes that were written.
LEMMA KeptStep == BaseInv /\ AckedInv /\ OwnInv /\ CalmInv /\ KeptInv /\ [Next]_vars => KeptInv'
<1> SUFFICES ASSUME BaseInv, AckedInv, OwnInv, CalmInv, KeptInv, [Next]_vars PROVE KeptInv'
  OBVIOUS
<1>1. ASSUME NEW t \in Tasks, Arrive(t) \/ Handle(t) \/ Disconnect(t) PROVE KeptInv'
  BY <1>1, KeptTask
<1>2. ASSUME UNCHANGED <<use, files, vols, task, stopped, acked, late, met>>,
             \/ main'.stopping \in {0, main.stopping} /\ main'.nodes = main.nodes
             \/ main'.stopping # 0 /\ main'.nodes = vols[main'.stopping].mem
      PROVE  KeptInv'
  BY <1>2 DEF KeptInv, Quiet, Name
<1>3. ASSUME NEW c \in Conns, Accept(c) \/ Greet(c) \/ Choose(c) \/ GiveUp(c) \/ Disc(c)
      PROVE  UNCHANGED <<use, files, vols, task, stopped, acked, late, met, main>>
  BY <1>3 DEF Accept, Greet, Choose, GiveUp, Disc, Connection, httpVars, seen
<1>4. ASSUME Signal \/ StopAll \/ StopsDone \/ Exit \/ \E listener \in open : Close(listener)
      PROVE  /\ UNCHANGED <<use, files, vols, task, stopped, acked, late, met>>
             /\ main'.stopping = main.stopping /\ main'.nodes = main.nodes
  <2>1. main \in MainRecords(Len(vols))
    BY DEF BaseInv, TypeOK
  <2>2. \/ main' = main
        \/ \E label : main' = [main EXCEPT !.pc = label]
        \/ \E label, todo : main' = [main EXCEPT !.pc = label, !.todo = todo]
    BY <1>4 DEF Signal, StopAll, StopsDone, Exit, Close
  <2>3. main'.stopping = main.stopping /\ main'.nodes = main.nodes
    BY <2>1, <2>2 DEF MainRecords
  <2> QED
    BY <1>4, <2>3 DEF Signal, StopAll, StopsDone, Exit, Close, MainTurns
<1>5. CASE StopBegin
  <2>1. main \in MainRecords(Len(vols)) /\ main.pc = "stop"
    BY <1>5 DEF BaseInv, TypeOK, StopBegin
  <2>2. PICK n \in main.todo : main' = [main EXCEPT !.todo = @ \ {n}, !.stopping = blocks[n],
                                                    !.nodes = vols[blocks[n]].mem]
    BY <1>5 DEF StopBegin
  <2>3. main'.stopping = blocks[n] /\ main'.nodes = vols[blocks[n]].mem
    BY <2>1, <2>2 DEF MainRecords
  <2>4. blocks[n] # 0
    BY <2>1 DEF BaseInv, MainInv
  <2> QED
    BY <1>2, <1>5, <2>3, <2>4 DEF StopBegin, MainTurns
<1>6. CASE StopEnd
  BY <1>6, KeptMain
<1>7. CASE UNCHANGED vars
  <2>1. UNCHANGED <<use, files, vols, task, stopped, acked, late, met, main>>
    BY <1>7 DEF vars, httpVars, seen
  <2> QED
    BY <1>2, <2>1
<1> QED
  BY <1>1, <1>2, <1>3, <1>4, <1>5, <1>6, <1>7 DEF Next, Stop

\* A change that was answered with success stays in the open volume of its name, and one made
\* before main stopped that volume is in the nodes that stop_volume wrote, unless a delete
\* came for the name or two requests made it at a time: for any number of names, requests and
\* connections, and wherever clients go away (handle_create_snapshot and its like,
\* stop_volume).  It says nothing of a later mount: no root leads to these nodes.
THEOREM ChangesKept == Spec => []AckedKept
<1> DEFINE Inv == BaseInv /\ DiskInv /\ OwnInv /\ AckedInv /\ CalmInv /\ KeptInv
<1>1. Init => Inv
  <2> SUFFICES ASSUME Init PROVE AckedInv /\ CalmInv /\ KeptInv
    BY BaseInit, DiskInit, OwnInit
  <2>1. \A n, ops : On(n, ops) = {}
    BY DEF Init, On, Active
  <2>2. CalmInv
    BY <2>1 DEF Init, CalmInv, Calm
  <2> QED
    BY <2>2 DEF Init, AckedInv, KeptInv
<1>2. Inv /\ [Next]_vars => Inv'
  <2> SUFFICES ASSUME Inv, [Next]_vars PROVE Inv'
    OBVIOUS
  <2>1. BaseInv'
    BY BaseStep
  <2>2. DiskInv' /\ OwnInv'
    BY <2>1, DiskStep, OwnStep
  <2> QED
    BY <2>1, <2>2, AckedStep, CalmStep, KeptStep
<1>3. Inv => AckedKept
  <2> SUFFICES ASSUME Inv, NEW t \in acked, Quiet(Name(t))
               PROVE  /\ blocks[Name(t)] = task[t].vol /\ t \in vols[task[t].vol].mem
                      /\ task[t].vol \in stopped /\ t \notin late =>
                           t \in files[vols[task[t].vol].file].nodes
    BY DEF AckedKept, Quiet
  <2>1. t \in Tasks /\ Name(t) \in Names
    BY UseType DEF BaseInv, TypeOK
  <2>2. Calm(Name(t))
    BY <2>1 DEF CalmInv
  <2> QED
    BY <2>1, <2>2 DEF Calm, AckedInv, KeptInv
<1> HIDE DEF Inv
<1> QED
  BY <1>1, <1>2, <1>3, PTL DEF Spec
=============================================================================
