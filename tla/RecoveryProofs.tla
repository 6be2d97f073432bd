--------------------------- MODULE RecoveryProofs ---------------------------
(***************************************************************************)
(* The scheduler of recovery passes, for any number of keys, writes,       *)
(* mounts and crashes and for passes that fail as they like: a volume is   *)
(* opened for writing only when every pass it needs has succeeded, a mount *)
(* gives up only on a pass that was tried again, once the journal is       *)
(* replayed every write is what is read next, and a replay shows what was  *)
(* acknowledged.                                                           *)
(***************************************************************************)
EXTENDS Recovery, FiniteSetsExt, FiniteSetTheorems, WellFoundedInduction, TLAPS

-----------------------------------------------------------------------------
(* What FoldLeft computes.  The community modules define it by a function  *)
(* over the sets of indices, which is chosen; that there is such a         *)
(* function, and what it yields, is shown by a least counterexample.       *)

\* The least of a set of naturals.
LEMMA LeastNat ==
  ASSUME NEW S, S \subseteq Nat, S # {} PROVE \E x \in S : \A y \in S : x <= y
<1>1. PICK x \in S : \A y \in S : ~(<<y, x>> \in OpToRel(<, Nat))
  BY NatLessThanWellFounded, WFMin, Zenon
<1>2. ASSUME NEW y \in S PROVE x <= y
  <2>1. x \in Nat /\ y \in Nat
    OBVIOUS
  <2>2. ~(<<y, x>> \in {ss \in Nat \X Nat : ss[1] < ss[2]})
    BY <1>1 DEF OpToRel
  <2> QED
    BY <2>1, <2>2
<1> QED
  BY <1>2

\* The greatest of a set of naturals with a bound is the one that Max chooses.
LEMMA GreatestIsThere ==
  ASSUME NEW b \in Nat, NEW S, S \subseteq 0..b, S # {}
  PROVE  Max(S) \in S /\ \A j \in S : j <= Max(S)
<1> DEFINE T == {b - k : k \in S}
<1>1. \A k \in S : k \in Nat /\ k <= b /\ b - k \in Nat /\ b - k \in T
  OBVIOUS
<1>2. \A x \in T : \E k \in S : x = b - k
  OBVIOUS
<1> HIDE DEF T
<1>3. T \subseteq Nat /\ T # {}
  BY <1>1, <1>2
<1>4. PICK x \in T : \A y \in T : x <= y
  BY <1>3, LeastNat
<1>5. PICK k \in S : x = b - k
  BY <1>2
<1>6. \A j \in S : k >= j
  BY <1>1, <1>4, <1>5
<1>7. Max(S) \in S /\ \A j \in S : Max(S) >= j
  BY <1>6 DEF Max
<1> QED
  BY <1>1, <1>7

\* Recursion over D, a set of sets of indices: b for
\* none of them, else G of the greatest index and the value for those below it.
Below(n, k) == {s \in SUBSET (1..n) : Cardinality(s) <= k}
Prior(s) == s \ {Max(s)}
Folding(it, D, b, G) == it = [s \in D |-> IF s = {} THEN b ELSE G[<<Max(s), it[Prior(s)]>>]]

\* There are n indices up to n.
LEMMA UpToIsFinite == ASSUME NEW n \in Nat PROVE IsFiniteSet(1..n) /\ Cardinality(1..n) = n
<1>1. IF 1 > n THEN n = 0 ELSE n - 1 + 1 = n
  OBVIOUS
<1> QED
  BY <1>1, FS_Interval

\* A set of indices without its greatest has one index less.
LEMMA PriorIsLess ==
  ASSUME NEW n \in Nat, NEW s \in SUBSET (1..n)
  PROVE  /\ Cardinality(s) \in 0..n /\ (Cardinality(s) = 0 <=> s = {})
         /\ s # {} => /\ Max(s) \in 1..n /\ Prior(s) \in SUBSET (1..n)
                      /\ Max(s) \in s /\ s = Prior(s) \cup {Max(s)}
                      /\ Cardinality(Prior(s)) = Cardinality(s) - 1
<1>1. IsFiniteSet(1..n) /\ Cardinality(1..n) = n
  BY UpToIsFinite
<1>2. IsFiniteSet(s) /\ Cardinality(s) <= n
  BY <1>1, FS_Subset
<1>3. Cardinality(s) \in Nat /\ (Cardinality(s) = 0 <=> s = {})
  BY <1>2, FS_CardinalityType, FS_EmptySet
<1>4. ASSUME s # {} PROVE Max(s) \in s /\ Cardinality(Prior(s)) = Cardinality(s) - 1
  <2>0. s \subseteq 0..n
    OBVIOUS
  <2>1. Max(s) \in s
    BY <1>4, <2>0, GreatestIsThere
  <2> QED
    BY <1>2, <2>1, FS_RemoveElement DEF Prior
<1>5. Cardinality(s) \in 0..n
  BY <1>2, <1>3
<1>6. s # {} => Max(s) \in 1..n
  BY <1>4
<1>7. Prior(s) \in SUBSET (1..n)
  BY DEF Prior
<1>8. s # {} => s = Prior(s) \cup {Max(s)}
  BY <1>4 DEF Prior
<1> QED
  BY <1>3, <1>4, <1>5, <1>6, <1>7, <1>8

\* Such a function exists for all sets of indices up to n.
LEMMA FoldExists ==
  ASSUME NEW n \in Nat, NEW P, NEW b \in P, NEW G, \A i \in 1..n : \A v \in P : G[<<i, v>>] \in P
  PROVE  \E it \in [SUBSET (1..n) -> P] : Folding(it, SUBSET (1..n), b, G)
<1> DEFINE E(k) == \E it \in [Below(n, k) -> P] : Folding(it, Below(n, k), b, G)
           Bad == {k \in Nat : ~E(k)}
<1>1. E(0)
  <2>1. Below(n, 0) = {{}}
    BY PriorIsLess DEF Below
  <2> DEFINE it == [s \in {{}} |-> b]
  <2>2. it \in [Below(n, 0) -> P] /\ Folding(it, Below(n, 0), b, G)
    BY <2>1 DEF Folding
  <2> QED
    BY <2>2
<1>2. ASSUME NEW k \in Nat, E(k) PROVE E(k + 1)
  <2>1. PICK it \in [Below(n, k) -> P] : Folding(it, Below(n, k), b, G)
    BY <1>2
  <2> DEFINE ext == [s \in Below(n, k + 1) |->
                       IF s = {} THEN b ELSE G[<<Max(s), it[Prior(s)]>>]]
  <2>2. ASSUME NEW s \in Below(n, k + 1), s # {}
        PROVE  Prior(s) \in Below(n, k) /\ Max(s) \in 1..n
    BY <2>2, PriorIsLess DEF Below
  <2>3. ext \in [Below(n, k + 1) -> P]
    BY <2>2
  <2>4. ASSUME NEW s \in Below(n, k) PROVE ext[s] = it[s]
    <3>1. s \in Below(n, k + 1)
      BY PriorIsLess DEF Below
    <3>2. it[s] = IF s = {} THEN b ELSE G[<<Max(s), it[Prior(s)]>>]
      BY <2>1 DEF Folding
    <3> QED
      BY <3>1, <3>2
  <2>5. Folding(ext, Below(n, k + 1), b, G)
    <3>1. \A s \in Below(n, k + 1) : s # {} => ext[Prior(s)] = it[Prior(s)]
      BY <2>2, <2>4
    <3> QED
      BY <3>1 DEF Folding
  <2> QED
    BY <2>3, <2>5
<1> HIDE DEF E
<1>3. Bad = {}
  <2> SUFFICES ASSUME Bad # {} PROVE FALSE
    OBVIOUS
  <2>1. PICK k \in Bad : \A j \in Bad : k <= j
    BY LeastNat
  <2>2. k # 0 /\ k - 1 \in Nat
    BY <1>1
  <2>3. E(k - 1)
    BY <2>1, <2>2
  <2>4. E(k - 1 + 1)
    BY <1>2, <2>2, <2>3
  <2>5. k - 1 + 1 = k
    BY <2>2
  <2> QED
    BY <2>4, <2>5
<1>4. Below(n, n) = SUBSET (1..n)
  BY PriorIsLess DEF Below
<1>5. E(n)
  BY <1>3
<1> QED
  BY <1>4, <1>5 DEF E

\* The indices up to k are those up to k - 1 and k, the greatest of them.
LEMMA UpToNext ==
  ASSUME NEW n \in Nat, NEW k \in 1..n
  PROVE  /\ 1..k \in SUBSET (1..n) /\ 1..k # {}
         /\ Max(1..k) = k /\ (1..k) \ {k} = 1..(k - 1)
<1>1. 1..k \in SUBSET (1..n) /\ k \in 1..k /\ (1..k) \ {k} = 1..(k - 1)
  OBVIOUS
<1>2. \E x \in 1..k : \A y \in 1..k : x >= y
  BY <1>1
<1>3. Max(1..k) \in 1..k /\ \A y \in 1..k : Max(1..k) >= y
  BY <1>2 DEF Max
<1> QED
  BY <1>1, <1>3

\* What is true of 0, and of each number up to n when it is of the one before, is
\* true of n.
LEMMA StepByStep ==
  ASSUME NEW n \in Nat, NEW Q, 0 \in Q, \A k \in 1..n : k - 1 \in Q => k \in Q
  PROVE  n \in Q
<1> SUFFICES ASSUME n \notin Q PROVE FALSE
  OBVIOUS
<1> DEFINE Bad == {k \in 0..n : k \notin Q}
<1>1. Bad \subseteq Nat /\ Bad # {}
  OBVIOUS
<1>2. PICK k \in Bad : \A j \in Bad : k <= j
  BY <1>1, LeastNat
<1>3. k \in 1..n /\ k - 1 \in 0..n /\ k - 1 \notin Bad
  BY <1>2
<1> QED
  BY <1>3

-----------------------------------------------------------------------------
\* A mount always needs the pass that opens the overlay, and knows when it has run.
OverlayInv ==
  /\ mode = "recovering" => SetMayGoRw \in current
  /\ mode = "recovering" /\ SetMayGoRw \in complete => mayGoRw

\* The end of the loop is reached with all passes complete, and a volume is opened
\* only from there.
DoneInv ==
  /\ pc = "done" => mayGoRw /\ current \subseteq complete
  /\ mode = "rw" /\ mounts > 0 => pc = "done"

\* Every pass that is left was tried in this mount, those that failed since the
\* failures were last forgotten more than once.
TriedAgain ==
  /\ \A p \in current \ complete : failures[p] >= 1
  /\ \A p \in failing : failures[p] = 2

\* What retry_count says: it is counted once when a round had no success, where all
\* that is left is failing, and once when the failures are forgotten.
RetryInv ==
  mode = "recovering" =>
    /\ retry <= MaxFailures
    /\ \A p \in failing : failures[p] >= 1
    /\ pc = "inner" =>
         /\ toRun \subseteq (current \ failing) \ complete
         /\ ~any => current \ complete \subseteq toRun \union failing
         /\ retry >= 1 => TriedAgain
    /\ pc = "head" =>
         /\ retry >= 2 => TriedAgain
         /\ retry = 1 => TriedAgain \/ current \ complete \subseteq failing

\* One skipped retry would end a mount on a pass that has failed once.
RetryAssumption == MaxFailures >= 2

SchedulerInv ==
  /\ TypeOK /\ mounts \in Nat
  /\ OverlayInv /\ DoneInv /\ RetryInv
  /\ GivesUpOnFailure

-----------------------------------------------------------------------------
\* The least of the passes that are left is one of them.
LEMMA LeastIsThere ==
  ASSUME NEW S, S \subseteq Passes, S # {}
  PROVE  Least(S) \in S /\ \A q \in S : Least(S) <= q
<1>1. \E p \in S : \A q \in S : p <= q
  <2>1. SUFFICES ASSUME \A p \in S : \E q \in S : q < p PROVE FALSE
    BY DEF Passes
  <2>2. \A n \in 0..14 : n \notin S
    <3>1. \A p \in 0..4 : p \notin S
      BY <2>1 DEF Passes
    <3>2. \A p \in 5..9 : p \notin S
      BY <2>1, <3>1 DEF Passes
    <3> QED
      BY <2>1, <3>1, <3>2 DEF Passes
  <2> QED
    BY <2>2 DEF Passes
<1> QED
  BY <1>1 DEF Least

\* So is the greatest of those that are complete, and the greater of two numbers.
LEMMA GreatestOf ==
  ASSUME NEW S, S \subseteq Passes, S # {} PROVE \E p \in S : \A q \in S : p >= q
<1>1. SUFFICES ASSUME \A p \in S : \E q \in S : q > p PROVE FALSE
  BY DEF Passes
<1>2. \A p \in 10..14 : p \notin S
  BY <1>1 DEF Passes
<1>3. \A p \in 5..9 : p \notin S
  BY <1>1, <1>2 DEF Passes
<1>4. \A p \in 0..14 : p \notin S
  BY <1>1, <1>2, <1>3 DEF Passes
<1> QED
  BY <1>4 DEF Passes

LEMMA GreatestPassIsThere ==
  ASSUME NEW S, S \subseteq Passes, S # {} PROVE Max(S) \in S
BY GreatestOf DEF Max

LEMMA GreaterOf ==
  ASSUME NEW a \in Int, NEW b \in Int
  PROVE  Max({a, b}) \in {a, b} /\ Max({a, b}) >= a /\ Max({a, b}) >= b
<1>1. \E x \in {a, b} : \A y \in {a, b} : x >= y
  OBVIOUS
<1> QED
  BY <1>1 DEF Max

LEMMA GreaterIsThere ==
  ASSUME NEW a \in Int, NEW b \in Int PROVE Max({a, b}) \in {a, b}
BY GreaterOf

LEMMA StableNumber == \A p \in Passes : Stable[p] \in 0..48
BY DEF Stable, Passes

-----------------------------------------------------------------------------
LEMMA InitInv == Init => SchedulerInv
<1> SUFFICES ASSUME Init PROVE SchedulerInv
  OBVIOUS
<1>1. 0 \in Passes
  BY DEF Passes
<1>2. TypeOK /\ mounts \in Nat
  BY <1>1, ConstantAssumption DEF Init, TypeOK
<1> QED
  BY <1>2 DEF Init, SchedulerInv, OverlayInv, DoneInv, RetryInv, GivesUpOnFailure

\* The steps of a volume that is in use leave the scheduler alone.
LEMMA UseStep ==
  ASSUME SchedulerInv,
         \/ \E k \in Keys : Write(k) \/ PutGuarded(k)
         \/ JournalFlush \/ StopFlush \/ StopWrite \/ Crash
         \/ UNCHANGED vars
  PROVE  SchedulerInv'
<1> USE DEF SchedulerInv, TypeOK, OverlayInv, DoneInv, RetryInv, TriedAgain,
            GivesUpOnFailure, schedVars, diskVars, memVars, obsVars
<1>1. ASSUME NEW k \in Keys, Write(k) PROVE SchedulerInv'
  BY <1>1 DEF Write
<1>2. ASSUME NEW k \in Keys, PutGuarded(k) PROVE SchedulerInv'
  BY <1>2 DEF PutGuarded
<1>3. CASE JournalFlush
  BY <1>3 DEF JournalFlush, Flushed
<1>4. CASE StopFlush
  BY <1>4 DEF StopFlush, Flushed
<1>5. CASE StopWrite
  <2>1. disk'.pass \in 0..48 /\ disk'.clean \in BOOLEAN /\ disk'.noAlloc \in BOOLEAN
    <3> DEFINE d == Redirected(disk, RootCacheAddr, NewBlock, tree)
    <3>1. d.pass = disk.pass /\ d.noAlloc = disk.noAlloc
      BY DEF Redirected
    <3>2. disk' = [d EXCEPT !.lastSeq = cur, !.clean = TRUE]
      BY <1>5 DEF StopWrite
    <3> QED
      BY <1>5, <3>1, <3>2 DEF StopWrite
  <2> QED
    BY <1>5, <2>1 DEF StopWrite
<1>6. CASE Crash
  BY <1>6 DEF Crash
<1>7. CASE UNCHANGED vars
  BY <1>7 DEF vars
<1> QED
  BY <1>1, <1>2, <1>3, <1>4, <1>5, <1>6, <1>7

\* A mount starts the scheduler anew.
LEMMA MountStep ==
  ASSUME SchedulerInv, Mount PROVE SchedulerInv'
<1>1. CompleteAt(disk.pass) \subseteq Passes
  BY DEF CompleteAt
<1>2. Max({0} \union CompleteAt(disk.pass)) \in Passes
  BY <1>1, GreatestPassIsThere DEF Passes
<1>3. ToCompute(disk.clean, disk.noAlloc) \subseteq Passes
  BY DEF ToCompute, Always, Unclean, Passes, CheckTopology
<1>4. SetMayGoRw \in ToCompute(disk.clean, disk.noAlloc)
  BY DEF ToCompute, Always, AllocInfo, SetMayGoRw
<1>5. TypeOK' /\ mounts' \in Nat
  <2>1. /\ use' = use /\ disk' = disk /\ mounts' = mounts + 1
        /\ mode' = "recovering" /\ pc' = "head" /\ sbPass' = disk.pass /\ retry' = 0
        /\ current' \subseteq Passes /\ complete' \subseteq Passes
        /\ failing' = {} /\ toRun' = {} /\ passDone' \in Passes
        /\ ovlActive' \in BOOLEAN /\ mayGoRw' \in BOOLEAN
        /\ any' = FALSE /\ quiet' = quiet /\ replayed' = FALSE
        /\ failures' = [p \in Passes |-> 0]
    BY <1>1, <1>2, <1>3 DEF Mount, diskVars
  <2>2. use' \in Uses /\ disk'.pass \in 0..48 /\ disk'.clean \in BOOLEAN /\ disk'.noAlloc \in BOOLEAN
    BY <2>1 DEF SchedulerInv, TypeOK
  <2>3. sbPass' \in 0..48 /\ retry' \in 0..(MaxFailures + 1) /\ mounts' \in Nat
    BY <2>1, ConstantAssumption DEF SchedulerInv, TypeOK
  <2>4. failures' \in [Passes -> 0..2] /\ quiet' \in BOOLEAN
    BY <2>1 DEF SchedulerInv, TypeOK
  <2> QED
    BY <2>1, <2>2, <2>3, <2>4 DEF TypeOK
<1>6. /\ mode' = "recovering" /\ pc' = "head" /\ retry' = 0 /\ failing' = {}
      /\ current' = ToCompute(disk.clean, disk.noAlloc)
      /\ SetMayGoRw \in complete' => mayGoRw'
  BY DEF Mount
<1>7. OverlayInv' /\ DoneInv' /\ RetryInv' /\ GivesUpOnFailure'
  BY <1>4, <1>6, ConstantAssumption
  DEF OverlayInv, DoneInv, RetryInv, GivesUpOnFailure
<1> QED
  BY <1>5, <1>7 DEF SchedulerInv

-----------------------------------------------------------------------------
\* What the scheduler's own control steps leave as it is.
Frame ==
  /\ mode = "recovering"
  /\ UNCHANGED <<use, disk, current, complete, passDone, mayGoRw, sbPass, mounts>>
  /\ UNCHANGED <<ovlActive, quiet, replayed, failures>>

LEMMA FrameTypes ==
  ASSUME SchedulerInv, Frame,
         mode' \in {"recovering", "failed", "rw"}, pc' \in {"head", "inner", "done"},
         failing' \subseteq Passes, toRun' \subseteq Passes, any' \in BOOLEAN,
         retry' \in 0..(MaxFailures + 1)
  PROVE  TypeOK' /\ mounts' \in Nat
<1>1. /\ use' \in Uses /\ disk'.pass \in 0..48 /\ disk'.clean \in BOOLEAN
      /\ disk'.noAlloc \in BOOLEAN /\ mounts' \in Nat
  BY DEF SchedulerInv, TypeOK, Frame
<1>2. /\ current' \subseteq Passes /\ complete' \subseteq Passes
      /\ passDone' \in Passes /\ sbPass' \in 0..48
  BY DEF SchedulerInv, TypeOK, Frame
<1>3. /\ ovlActive' \in BOOLEAN /\ mayGoRw' \in BOOLEAN
      /\ quiet' \in BOOLEAN /\ replayed' \in BOOLEAN /\ failures' \in [Passes -> 0..2]
  BY DEF SchedulerInv, TypeOK, Frame
<1> QED
  BY <1>1, <1>2, <1>3 DEF TypeOK

\* The loop ends with success when all passes are complete.
LEMMA EndStep ==
  ASSUME SchedulerInv, Frame, AllDone, End, UNCHANGED <<failing, retry>>,
         toRun' \subseteq Passes, any' \in BOOLEAN
  PROVE  SchedulerInv'
<1>1. mayGoRw
  BY DEF SchedulerInv, OverlayInv, AllDone, Frame
<1>2. pc' = "done" /\ mode' = "recovering"
  BY <1>1 DEF End, Frame
<1>3. TypeOK' /\ mounts' \in Nat
  BY <1>2, FrameTypes DEF SchedulerInv, TypeOK
<1>4. OverlayInv' /\ DoneInv'
  BY <1>1, <1>2 DEF SchedulerInv, OverlayInv, DoneInv, AllDone, Frame
<1>5. RetryInv' /\ GivesUpOnFailure'
  BY <1>2 DEF SchedulerInv, RetryInv, GivesUpOnFailure, Frame
<1> QED
  BY <1>3, <1>4, <1>5 DEF SchedulerInv

\* All that is left is failing: one more retry, or the end.
LEMMA RetryStep ==
  ASSUME SchedulerInv, RetryAssumption, Frame, ~AllDone, Retry,
         pc \in {"head", "inner"}, current \ complete \subseteq failing,
         UNCHANGED <<toRun, any>>
  PROVE  SchedulerInv'
<1>1. /\ retry \in Nat /\ retry' = retry + 1 /\ retry <= MaxFailures /\ MaxFailures \in Nat
  BY ConstantAssumption DEF SchedulerInv, TypeOK, RetryInv, Frame, Retry
<1>2. \A p \in failing : failures[p] >= 1
  BY DEF SchedulerInv, RetryInv, Frame
<1>3. mode' \in {"recovering", "failed"} /\ pc' \in {"head", "inner"} /\ failing' \subseteq failing
  BY DEF Retry, Frame
<1>4. TypeOK' /\ mounts' \in Nat
  <2>1. failing' \subseteq Passes /\ toRun' \subseteq Passes /\ any' \in BOOLEAN
    BY <1>3 DEF SchedulerInv, TypeOK
  <2> QED
    BY <1>1, <1>3, <2>1, FrameTypes
<1>5. OverlayInv' /\ DoneInv'
  BY <1>3 DEF SchedulerInv, OverlayInv, DoneInv, Frame
<1>6. CASE retry + 1 > MaxFailures
  <2>1. mode' = "failed" /\ TriedAgain
    BY <1>1, <1>6 DEF SchedulerInv, RetryAssumption, RetryInv, Retry, Frame
  <2>2. PICK p \in current \ complete : TRUE
    BY DEF AllDone
  <2>3. p \in Passes /\ failures'[p] = 2
    BY <2>1, <2>2 DEF TriedAgain, Frame, SchedulerInv, TypeOK
  <2>4. GivesUpOnFailure' /\ RetryInv'
    BY <2>1, <2>3 DEF GivesUpOnFailure, RetryInv
  <2> QED
    BY <1>4, <1>5, <2>4 DEF SchedulerInv
<1>7. CASE retry + 1 <= MaxFailures
  <2>1. mode' = "recovering" /\ pc' = "head" /\ failing' = (IF pc = "head" THEN {} ELSE failing)
    BY <1>1, <1>7 DEF Retry, Frame
  <2>2. GivesUpOnFailure'
    BY <2>1 DEF GivesUpOnFailure
  <2>3. CASE pc = "head"
    <3>1. TriedAgain'
      BY <1>2, <2>1, <2>3 DEF TriedAgain, Frame
    <3> QED
      BY <1>1, <1>2, <1>4, <1>5, <1>7, <2>1, <2>2, <2>3, <3>1 DEF SchedulerInv, RetryInv, Frame
  <2>4. CASE pc = "inner"
    <3>1. failing' = failing /\ current' \ complete' \subseteq failing'
      BY <2>1, <2>4 DEF Frame
    <3>2. retry >= 1 => TriedAgain'
      BY <2>4, <3>1 DEF SchedulerInv, RetryInv, TriedAgain, Frame
    <3>3. RetryInv'
      BY <1>1, <1>2, <1>7, <2>1, <3>1, <3>2 DEF RetryInv, Frame
    <3> QED
      BY <1>4, <1>5, <2>2, <3>3 DEF SchedulerInv
  <2> QED
    BY <2>3, <2>4
<1> QED
  BY <1>1, <1>6, <1>7

\* A round of passes begins, or the failures are forgotten for one more retry.
LEMMA HeadStep ==
  ASSUME SchedulerInv, RetryAssumption, LoopHead PROVE SchedulerInv'
<1> DEFINE runnable == (current \ failing) \ complete
<1>1. Frame
  BY DEF LoopHead, Frame, diskVars, memVars, obsVars
<1>2. CASE runnable # {}
  <2>1. /\ toRun' = runnable /\ any' = FALSE /\ pc' = "inner" /\ mode' = "recovering"
        /\ failing' = failing /\ retry' = retry
    BY <1>2 DEF LoopHead
  <2>2. TypeOK' /\ mounts' \in Nat
    BY <1>1, <2>1, FrameTypes DEF SchedulerInv, TypeOK
  <2>3. OverlayInv' /\ DoneInv' /\ GivesUpOnFailure'
    BY <1>1, <2>1 DEF SchedulerInv, OverlayInv, DoneInv, GivesUpOnFailure, Frame
  <2>4. retry >= 1 => TriedAgain
    BY <1>2 DEF LoopHead, SchedulerInv, TypeOK, RetryInv
  <2>5. RetryInv'
    BY <1>1, <2>1, <2>4 DEF SchedulerInv, RetryInv, TriedAgain, Frame
  <2> QED
    BY <2>2, <2>3, <2>5 DEF SchedulerInv
<1>3. CASE runnable = {} /\ AllDone
  <2>1. End /\ UNCHANGED <<failing, retry, toRun, any>>
    BY <1>3 DEF LoopHead
  <2> QED
    BY <1>1, <1>3, <2>1, EndStep DEF SchedulerInv, TypeOK
<1>4. CASE runnable = {} /\ ~AllDone
  <2>1. Retry /\ UNCHANGED <<toRun, any>> /\ pc = "head"
    BY <1>4 DEF LoopHead
  <2>2. current \ complete \subseteq failing
    BY <1>4
  <2> QED
    BY <1>1, <1>4, <2>1, <2>2, RetryStep
<1> QED
  BY <1>2, <1>3, <1>4

\* The end of a round.
LEMMA RoundStep ==
  ASSUME SchedulerInv, RetryAssumption, EndRound PROVE SchedulerInv'
<1>1. Frame /\ UNCHANGED <<toRun, any>> /\ pc = "inner" /\ toRun = {}
  BY DEF EndRound, Frame, diskVars, memVars, obsVars
<1>2. CASE AllDone
  <2>1. End /\ UNCHANGED <<failing, retry>>
    BY <1>2 DEF EndRound
  <2> QED
    BY <1>1, <1>2, <2>1, EndStep DEF SchedulerInv, TypeOK
<1>3. CASE ~AllDone /\ any
  <2>1. pc' = "head" /\ mode' = "recovering" /\ failing' = failing /\ retry' = retry
    BY <1>1, <1>3 DEF EndRound, Frame
  <2>2. TypeOK' /\ mounts' \in Nat
    BY <1>1, <2>1, FrameTypes DEF SchedulerInv, TypeOK
  <2>3. OverlayInv' /\ DoneInv' /\ GivesUpOnFailure'
    BY <1>1, <2>1 DEF SchedulerInv, OverlayInv, DoneInv, GivesUpOnFailure, Frame
  <2>4. RetryInv'
    BY <1>1, <2>1, ConstantAssumption DEF SchedulerInv, TypeOK, RetryInv, TriedAgain, Frame
  <2> QED
    BY <2>2, <2>3, <2>4 DEF SchedulerInv
<1>4. CASE ~AllDone /\ ~any
  <2>1. Retry
    BY <1>4 DEF EndRound
  <2>2. current \ complete \subseteq failing
    BY <1>1, <1>4 DEF SchedulerInv, RetryInv, Frame
  <2> QED
    BY <1>1, <1>4, <2>1, <2>2, RetryStep
<1> QED
  BY <1>2, <1>3, <1>4

\* One pass succeeds or fails.
LEMMA PassStep ==
  ASSUME SchedulerInv, RunPass PROVE SchedulerInv'
<1> DEFINE p == Least(toRun)
<1>1. /\ mode = "recovering" /\ pc = "inner" /\ mode' = mode /\ pc' = pc
      /\ use' = use /\ current' = current /\ retry' = retry /\ mounts' = mounts
      /\ quiet' = quiet /\ toRun' = toRun \ {p} /\ (PassOk(p) \/ PassFails(p))
  BY DEF RunPass
<1>2. toRun \subseteq Passes /\ p \in toRun /\ p \in Passes
  BY LeastIsThere DEF RunPass, SchedulerInv, TypeOK
<1> HIDE DEF p
<1>3. CASE PassOk(p)
  <2> DEFINE done == Max({passDone, p})
  <2>1. done \in Passes
    BY <1>2, GreaterIsThere DEF SchedulerInv, TypeOK, Passes
  <2>2. Max({done, Stable[done]}) \in 0..48
    <3> HIDE DEF done
    <3>1. done \in 0..14 /\ Stable[done] \in 0..48
      BY <2>1, StableNumber DEF Passes
    <3>2. Max({done, Stable[done]}) \in {done, Stable[done]}
      BY <3>1, GreaterIsThere
    <3> QED
      BY <3>1, <3>2
  <2>3. /\ complete' = complete \union {p} /\ passDone' = done
        /\ failing' = {} /\ any' = TRUE /\ failures' = failures
        /\ sbPass' = Max({done, Stable[done]})
        /\ disk' = [disk EXCEPT !.pass = sbPass'] \/ disk' = disk
    BY <1>3 DEF PassOk
  <2> HIDE DEF done
  <2>4. /\ mayGoRw => mayGoRw'
        /\ p = SetMayGoRw => mayGoRw'
        /\ mayGoRw' \in BOOLEAN /\ ovlActive' \in BOOLEAN /\ replayed' \in BOOLEAN
    BY <1>3 DEF PassOk, PassEffect, SchedulerInv, TypeOK
  <2>5. sbPass' \in 0..48 /\ passDone' \in Passes
    BY <2>1, <2>2, <2>3
  <2>6. use' \in Uses /\ disk'.pass \in 0..48 /\ disk'.clean \in BOOLEAN /\ disk'.noAlloc \in BOOLEAN
    <3>1. use \in Uses /\ disk.pass \in 0..48 /\ disk.clean \in BOOLEAN /\ disk.noAlloc \in BOOLEAN
      BY DEF SchedulerInv, TypeOK
    <3>2. CASE disk' = disk
      BY <1>1, <3>1, <3>2
    <3>3. CASE disk' = [disk EXCEPT !.pass = sbPass']
      BY <1>1, <2>5, <3>1, <3>3
    <3> QED
      BY <2>3, <3>2, <3>3
  <2>7. /\ current' \subseteq Passes /\ complete' \subseteq Passes
        /\ failing' \subseteq Passes /\ toRun' \subseteq Passes
    BY <1>1, <1>2, <2>3 DEF SchedulerInv, TypeOK
  <2>8. /\ mode' = "recovering" /\ pc' = "inner" /\ retry' \in 0..(MaxFailures + 1)
        /\ any' \in BOOLEAN /\ quiet' \in BOOLEAN /\ failures' \in [Passes -> 0..2]
    BY <1>1, <2>3 DEF SchedulerInv, TypeOK
  <2>9. TypeOK' /\ mounts' \in Nat
    BY <1>1, <2>4, <2>5, <2>6, <2>7, <2>8 DEF TypeOK, SchedulerInv
  <2>10. OverlayInv' /\ DoneInv' /\ GivesUpOnFailure'
    BY <1>1, <2>3, <2>4 DEF SchedulerInv, OverlayInv, DoneInv, GivesUpOnFailure
  <2>11. RetryInv'
    BY <1>1, <1>2, <2>3 DEF SchedulerInv, RetryInv, TriedAgain
  <2> QED
    BY <2>9, <2>10, <2>11 DEF SchedulerInv
<1>4. CASE PassFails(p)
  <2>1. /\ failing' = failing \union {p}
        /\ failures' = [failures EXCEPT ![p] = IF @ < 2 THEN @ + 1 ELSE 2]
        /\ UNCHANGED <<disk, complete, passDone, any, sbPass, ovlActive, mayGoRw, replayed>>
    BY <1>4 DEF PassFails
  <2>2. failures \in [Passes -> 0..2]
    BY DEF SchedulerInv, TypeOK
  <2>3. /\ failures' \in [Passes -> 0..2] /\ failures'[p] >= 1
        /\ failures[p] >= 1 => failures'[p] = 2
        /\ \A q \in Passes \ {p} : failures'[q] = failures[q]
    BY <1>2, <2>1, <2>2
  <2>4. use' \in Uses /\ disk'.pass \in 0..48 /\ disk'.clean \in BOOLEAN /\ disk'.noAlloc \in BOOLEAN
    BY <1>1, <2>1 DEF SchedulerInv, TypeOK
  <2>5. /\ current' \subseteq Passes /\ complete' \subseteq Passes
        /\ failing' \subseteq Passes /\ toRun' \subseteq Passes
    BY <1>1, <1>2, <2>1 DEF SchedulerInv, TypeOK
  <2>6. /\ mode' = "recovering" /\ pc' = "inner" /\ retry' \in 0..(MaxFailures + 1)
        /\ passDone' \in Passes /\ sbPass' \in 0..48
    BY <1>1, <2>1 DEF SchedulerInv, TypeOK
  <2>7. /\ ovlActive' \in BOOLEAN /\ mayGoRw' \in BOOLEAN /\ any' \in BOOLEAN
        /\ quiet' \in BOOLEAN /\ replayed' \in BOOLEAN
    BY <1>1, <2>1 DEF SchedulerInv, TypeOK
  <2>8. TypeOK' /\ mounts' \in Nat
    BY <1>1, <2>3, <2>4, <2>5, <2>6, <2>7 DEF TypeOK, SchedulerInv
  <2>9. OverlayInv' /\ DoneInv' /\ GivesUpOnFailure'
    BY <1>1, <2>1 DEF SchedulerInv, OverlayInv, DoneInv, GivesUpOnFailure
  <2>10. p \in current \ complete
    BY <1>1, <1>2 DEF SchedulerInv, RetryInv
  <2>11. TriedAgain => TriedAgain'
    BY <1>1, <2>1, <2>3, <2>10 DEF TriedAgain, SchedulerInv, TypeOK
  <2>12. RetryInv'
    BY <1>1, <1>2, <2>1, <2>3, <2>11 DEF SchedulerInv, TypeOK, RetryInv
  <2> QED
    BY <2>8, <2>9, <2>12 DEF SchedulerInv
<1> QED
  BY <1>1, <1>3, <1>4

\* init_volume's own write of the superblock.
LEMMA FinishStep ==
  ASSUME SchedulerInv, Finish PROVE SchedulerInv'
<1>1. /\ mode = "recovering" /\ pc = "done" /\ mode' = "rw"
      /\ disk' = [disk EXCEPT !.pass = passDone, !.lastSeq = cur + 1]
      /\ UNCHANGED <<use, pc, current, complete, failing, toRun, passDone, sbPass, retry, any>>
      /\ UNCHANGED <<mayGoRw, ovlActive, quiet, replayed, failures, mounts>>
  BY DEF Finish, memVars, schedVars, obsVars
<1>2. use' \in Uses /\ disk'.pass \in 0..48 /\ disk'.clean \in BOOLEAN /\ disk'.noAlloc \in BOOLEAN
  BY <1>1 DEF SchedulerInv, TypeOK, Passes
<1>3. TypeOK' /\ mounts' \in Nat
  BY <1>1, <1>2 DEF SchedulerInv, TypeOK
<1>4. OverlayInv' /\ DoneInv' /\ RetryInv' /\ GivesUpOnFailure'
  BY <1>1 DEF SchedulerInv, OverlayInv, DoneInv, RetryInv, GivesUpOnFailure
<1> QED
  BY <1>3, <1>4 DEF SchedulerInv

-----------------------------------------------------------------------------
LEMMA SchedulerInvariant ==
  ASSUME RetryAssumption PROVE Spec => []SchedulerInv
<1>1. Init => SchedulerInv
  BY InitInv
<1>2. SchedulerInv /\ [Next]_vars => SchedulerInv'
  BY RetryAssumption, UseStep, MountStep, HeadStep, PassStep, RoundStep, FinishStep DEF Next
<1> QED
  BY <1>1, <1>2, PTL DEF Spec

\* A volume is opened for writing only when every pass this mount needs has succeeded
\* (bch2_run_recovery_passes, init_volume).
THEOREM OpenedComplete ==
  ASSUME RetryAssumption PROVE Spec => []RwIsComplete
<1>1. SchedulerInv => RwIsComplete
  BY DEF SchedulerInv, DoneInv, RwIsComplete
<1> QED
  BY <1>1, SchedulerInvariant, PTL

\* A mount is given up only on a pass that failed, was tried again and failed again,
\* though rounds and forgotten failures share one counter.
THEOREM GivenUpOnFailure ==
  ASSUME RetryAssumption PROVE Spec => []GivesUpOnFailure
<1>1. SchedulerInv => GivesUpOnFailure
  BY DEF SchedulerInv
<1> QED
  BY <1>1, SchedulerInvariant, PTL

-----------------------------------------------------------------------------
(* What a write is read as.                                                *)

\* set_may_go_rw has nothing that could fail.
MayGoRwSucceeds == SetMayGoRw \notin use.bad

\* The overlay is opened before the journal is replayed, never again in the same
\* mount, and the replay ends it.
ReplayInv ==
  mode = "recovering" =>
    /\ mounts > 0 /\ toRun \subseteq Passes /\ current \subseteq Passes
    /\ SetMayGoRw \in current /\ SetMayGoRw \notin failing
    /\ toRun \intersect complete = {}
    /\ pc = "inner" => SetMayGoRw \in toRun \union complete
    /\ replayed => {SetMayGoRw, JournalReplay} \subseteq complete

ShownInv ==
  /\ MayGoRwSucceeds
  /\ mounts \in Nat
  /\ ReplayInv
  /\ mounts = 0 \/ replayed => ~ovlActive /\ tree = [k \in Keys |-> tree[k]]

LEMMA ShownByUse ==
  ASSUME ShownInv,
         \/ \E k \in Keys : Write(k) \/ PutGuarded(k)
         \/ JournalFlush \/ StopFlush \/ StopWrite \/ Crash
         \/ UNCHANGED vars
  PROVE  ShownInv'
<1>1. /\ UNCHANGED <<use, mounts, replayed, ovlActive>>
      /\ mode' # "recovering" \/ UNCHANGED <<mode, toRun, current, failing, complete, pc>>
  BY DEF Write, PutGuarded, JournalFlush, StopFlush, StopWrite, Crash, vars, diskVars, memVars,
     schedVars, obsVars
<1>2. tree = [k \in Keys |-> tree[k]] => tree' = [k \in Keys |-> tree'[k]]
  BY DEF Write, PutGuarded, JournalFlush, StopFlush, StopWrite, Crash, vars, memVars
<1> QED
  BY <1>1, <1>2 DEF ShownInv, MayGoRwSucceeds, ReplayInv

LEMMA ShownByMount ==
  ASSUME ShownInv, Mount PROVE ShownInv'
<1>1. /\ use' = use /\ mounts' = mounts + 1 /\ replayed' = FALSE
      /\ toRun' = {} /\ failing' = {} /\ pc' = "head"
      /\ current' = ToCompute(disk.clean, disk.noAlloc)
  BY DEF Mount, diskVars
<1>2. SetMayGoRw \in current' /\ current' \subseteq Passes
  BY <1>1 DEF ToCompute, Always, Unclean, AllocInfo, SetMayGoRw, CheckTopology, Passes
<1> QED
  BY <1>1, <1>2 DEF ShownInv, MayGoRwSucceeds, ReplayInv

\* The control of the loop moves between the rounds.
LEMMA ShownByControl ==
  ASSUME ShownInv, LoopHead \/ EndRound \/ Finish PROVE ShownInv'
<1>1. UNCHANGED <<use, mounts, replayed, ovlActive, tree, complete, current>>
  BY DEF LoopHead, EndRound, Finish, diskVars, memVars, obsVars, schedVars
<1>2. CASE LoopHead
  <2> DEFINE runnable == (current \ failing) \ complete
  <2>1. /\ mode = "recovering" /\ failing' \subseteq failing
        /\ \/ toRun' = runnable /\ pc' = "inner"
           \/ toRun' = toRun /\ (mode' = "recovering" => pc' # "inner")
    BY <1>2 DEF LoopHead, Retry, End
  <2>2. mode' = "recovering" \/ UNCHANGED toRun
    BY <1>2 DEF LoopHead
  <2>3. ReplayInv'
    BY <1>1, <2>1, <2>2 DEF ShownInv, ReplayInv
  <2> QED
    BY <1>1, <2>3 DEF ShownInv, MayGoRwSucceeds
<1>3. CASE EndRound
  <2>1. /\ mode = "recovering" /\ failing' \subseteq failing /\ toRun' = toRun
        /\ mode' = "recovering" => pc' # "inner"
    BY <1>3 DEF EndRound, Retry, End
  <2> QED
    BY <1>1, <2>1 DEF ShownInv, MayGoRwSucceeds, ReplayInv
<1>4. CASE Finish
  BY <1>1, <1>4 DEF Finish, ShownInv, MayGoRwSucceeds, ReplayInv
<1> QED
  BY <1>2, <1>3, <1>4

\* A pass that runs: when it is the replay, set_may_go_rw has run before it.
LEMMA ShownByPass ==
  ASSUME ShownInv, RunPass PROVE ShownInv'
<1> DEFINE p == Least(toRun)
<1>1. /\ mode = "recovering" /\ pc = "inner" /\ toRun # {} /\ toRun \subseteq Passes
      /\ UNCHANGED <<mode, pc, use, current, mounts>> /\ toRun' = toRun \ {p}
      /\ PassOk(p) \/ PassFails(p)
  BY DEF RunPass, ShownInv, ReplayInv
<1>2. p \in toRun /\ \A q \in toRun : p <= q
  BY <1>1, LeastIsThere
<1> HIDE DEF p
<1>3. CASE PassOk(p)
  <2>1. /\ complete' = complete \union {p} /\ failing' = {} /\ PassEffect(p)
    BY <1>3 DEF PassOk
  <2>2. p = SetMayGoRw => ~replayed
    BY <1>1, <1>2 DEF ShownInv, ReplayInv
  <2>3. p = JournalReplay => SetMayGoRw \in complete
    BY <1>1, <1>2 DEF ShownInv, ReplayInv, JournalReplay, SetMayGoRw
  <2>4. ReplayInv'
    BY <1>1, <1>2, <2>1, <2>3 DEF ShownInv, ReplayInv, PassEffect
  <2>5. replayed' => ~ovlActive' /\ tree' = [k \in Keys |-> tree'[k]]
    <3>1. CASE p = JournalReplay
      BY <2>1, <3>1 DEF PassEffect, Drained, JournalReplay, SetMayGoRw
    <3>2. CASE p # JournalReplay
      BY <2>1, <2>2, <3>2 DEF PassEffect, ShownInv
    <3> QED
      BY <3>1, <3>2
  <2> QED
    BY <1>1, <2>4, <2>5 DEF ShownInv, MayGoRwSucceeds, ReplayInv
<1>4. CASE PassFails(p)
  <2>1. /\ p # SetMayGoRw /\ failing' = failing \union {p}
        /\ UNCHANGED <<complete, ovlActive, replayed>>
        /\ p # JournalReplay => tree' = tree
    BY <1>4 DEF PassFails, ShownInv, MayGoRwSucceeds
  <2>2. ReplayInv' /\ mounts' > 0
    BY <1>1, <1>2, <2>1 DEF ShownInv, ReplayInv
  <2>3. replayed => p # JournalReplay
    BY <1>1, <1>2 DEF ShownInv, ReplayInv
  <2> QED
    BY <1>1, <2>1, <2>2, <2>3 DEF ShownInv, MayGoRwSucceeds
<1> QED
  BY <1>1, <1>3, <1>4

LEMMA ShownStep == ShownInv /\ [Next]_vars => ShownInv'
<1> SUFFICES ASSUME ShownInv, [Next]_vars PROVE ShownInv'
  OBVIOUS
<1> QED
  BY ShownByUse, ShownByMount, ShownByControl, ShownByPass DEF Next

\* Once the journal is replayed, or the volume made, there is no overlay in front of
\* the tree, so that whatever writes, and wherever it writes to, is what Get returns.
THEOREM WritesAreShown == Spec /\ MayGoRwSucceeds => WritesAreRead
<1>1. Init /\ MayGoRwSucceeds => ShownInv
  BY DEF Init, ShownInv, ReplayInv, Empty
<1>2. ASSUME ShownInv, Next, mode = "rw", mode' = "rw", mounts = 0 \/ replayed,
             NEW k \in Keys, tree'[k] # tree[k] \/ ovl'[k] # ovl[k]
      PROVE  Get(k)' = last'
  <2>1. ~ovlActive /\ tree = [j \in Keys |-> tree[j]]
    BY <1>2 DEF ShownInv
  <2>2. PICK j \in Keys : Write(j) \/ PutGuarded(j)
    BY <1>2 DEF Next, JournalFlush, StopFlush, StopWrite, Crash, Mount, LoopHead, RunPass, EndRound,
       Finish
  <2>3. /\ last' = last + 1 /\ tree' = [tree EXCEPT ![j] = last + 1]
        /\ ovl' = ovl /\ ovlActive' = ovlActive
    BY <2>1, <2>2 DEF Write, PutGuarded
  <2>4. k = j
    BY <1>2, <2>1, <2>3
  <2>5. tree'[k] = last'
    BY <2>1, <2>3, <2>4
  <2> QED
    BY <2>1, <2>3, <2>5 DEF Get
<1>3. ShownInv /\ [Next]_vars =>
        [mode = "rw" /\ mode' = "rw" /\ (mounts = 0 \/ replayed) =>
           \A k \in Keys : tree'[k] # tree[k] \/ ovl'[k] # ovl[k] => Get(k)' = last']_vars
  BY <1>2
<1> QED
  BY <1>1, <1>3, ShownStep, PTL DEF Spec, WritesAreRead
-----------------------------------------------------------------------------
(* What a replay keeps.                                                    *)

\* The journal that is replayed is that of the session that made the volume: from the
\* end of the first mount the superblock says that the replay is done.
Replayable == disk.pass < Stable[JournalReplay]

\* Jsets as a session writes them; a blacklist has the sequence number 0.
AnyKey == Blacklist(0).key
Jsets == [seq : Nat, key : Keys \cup {AnyKey}, val : Nat, end : 0..2]

\* Newer values stand further back, and under no lower numbers.
Rising(log) ==
  \A i \in 1..Len(log) : \A h \in 1..(i - 1) :
    log[h].seq >= 1 /\ log[i].seq >= 1 => log[h].seq <= log[i].seq /\ log[h].val < log[i].val

LogSound(log, n) ==
  /\ log \in Seq(Jsets) /\ Rising(log)
  /\ \A i \in 1..Len(log) :
       log[i].seq <= Len(log) /\ (log[i].seq >= 1 => log[i].key \in Keys /\ log[i].val <= n)

\* What was acknowledged is in the journal, the first of an entry as the first.
AckedIn(log, as) ==
  \A a \in as : \E i \in 1..Len(log) :
    /\ a.jset = log[i] /\ log[i].seq >= 1
    /\ a.first => \A h \in 1..(i - 1) : log[h].seq # log[i].seq

ValsRise(js) == \A q \in 1..Len(js) : \A h \in 1..(q - 1) : js[h].val < js[q].val

\* What is read of it has values that rise, and each record that is owed as the first
\* of its number.
Owes(js, as, n) ==
  /\ js \in Seq(Jsets) /\ ValsRise(js)
  /\ \A q \in 1..Len(js) : js[q].seq >= 1 /\ js[q].key \in Keys /\ js[q].val <= n
  /\ \A a \in as : \E q \in 1..Len(js) :
       a.jset = js[q] /\ \A h \in 1..(q - 1) : js[h].seq # js[q].seq

\* A key shows a value or a newer one, whether the overlay is in front or not.
Shows(a) ==
  /\ a.jset.key \in Keys /\ a.jset.val \in 0..last
  /\ tree[a.jset.key] >= a.jset.val
  /\ ovl[a.jset.key] = 0 \/ ovl[a.jset.key] >= a.jset.val

TreeTypes ==
  /\ last \in Nat /\ last <= use.writes
  /\ tree \in [Keys -> 0..last] /\ ovl \in [Keys -> 0..last] /\ disk.tree \in [Keys -> 0..last]
  /\ cur \in Nat /\ disk.lastSeq \in Nat

\* The first session: its open entry goes on where its journal ends.
FirstSession ==
  /\ disk.pass = 0 /\ disk.lastSeq = 2
  /\ pos = Len(disk.log) + 1 /\ cur >= 1 /\ cur <= Len(disk.log) + 1
  /\ open \in Seq(Jsets) /\ Rising(open)
  /\ \A i \in 1..Len(disk.log) : disk.log[i].seq < cur
  /\ \A i \in 1..Len(open) : open[i].seq = cur /\ open[i].key \in Keys /\ open[i].val <= last
  /\ \A h \in 1..Len(disk.log) : \A i \in 1..Len(open) :
       disk.log[h].seq >= 1 => disk.log[h].val < open[i].val

\* A mount: the replay is to come, or done, or was done by an earlier one.
InMount ==
  /\ mounts > 0 /\ ovl = Empty
  /\ {JournalReplay, 14} \subseteq current
  /\ toRun \cap complete = {}
  /\ complete \subseteq 0..passDone /\ passDone >= 2
  /\ ~Replayable => passDone >= JournalReplay
  /\ JournalReplay \notin complete => ~replayed /\ Owes(jsets, owed, last)

KeepInv ==
  /\ TreeTypes
  /\ Replayable => LogSound(disk.log, last) /\ AckedIn(disk.log, acked)
  /\ mode = "rw" /\ mounts = 0 => FirstSession
  /\ mode \in {"rw", "stopping"} /\ mounts > 0 => ~Replayable
  /\ mode = "recovering" => InMount
  /\ mounts = 0 => ~replayed
  /\ replayed => \A a \in owed : Shows(a)

LEMMA JsetFields == \A j \in Jsets : j.seq \in Nat /\ j.val \in Nat /\ j.end \in 0..2
<1>1. \A j \in Jsets : j.seq \in Nat
  BY DEF Jsets
<1>2. \A j \in Jsets : j.val \in Nat
  BY DEF Jsets
<1>3. \A j \in Jsets : j.end \in 0..2
  BY DEF Jsets
<1> QED
  BY <1>1, <1>2, <1>3

-----------------------------------------------------------------------------
(* The folds, one step at a time.                                          *)

LEMMA SelectedSteps ==
  ASSUME NEW s \in Seq(Jsets), NEW T
  PROVE  \E f :
           /\ \A k \in 0..Len(s) : f[k] \in Seq(Jsets)
           /\ f[0] = <<>> /\ f[Len(s)] = Selected(s, T)
           /\ \A k \in 1..Len(s) : f[k] = IF s[k] \in T THEN Append(f[k - 1], s[k]) ELSE f[k - 1]
<1> DEFINE n == Len(s)
           Step(r, x) == IF x \in T THEN Append(r, x) ELSE r
           Eq(it) == it = [i \in SUBSET (1..n) |->
                        IF i = {} THEN <<>> ELSE Step(it[i \ {Max(i)}], s[Max(i)])]
           iter == CHOOSE it : Eq(it)
           G == [p \in (1..n) \X Seq(Jsets) |-> Step(p[2], s[p[1]])]
<1>1. n \in Nat /\ DOMAIN s = 1..n /\ \A k \in 1..n : s[k] \in Jsets
  OBVIOUS
<1>2. Selected(s, T) = iter[1..n]
  BY <1>1 DEF Selected, FoldLeft, MapThenFoldSet
<1> HIDE DEF iter
<1>3. \A i \in 1..n : \A r \in Seq(Jsets) : G[<<i, r>>] \in Seq(Jsets) /\ G[<<i, r>>] = Step(r, s[i])
  BY <1>1
<1> HIDE DEF G, Step
<1>4. PICK it \in [SUBSET (1..n) -> Seq(Jsets)] : Folding(it, SUBSET (1..n), <<>>, G)
  <2>1. <<>> \in Seq(Jsets)
    OBVIOUS
  <2> QED
    BY <1>1, <1>3, <2>1, FoldExists
<1>5. \A i \in SUBSET (1..n) : i # {} => Max(i) \in 1..n /\ it[i \ {Max(i)}] \in Seq(Jsets)
  BY <1>1, <1>4, PriorIsLess DEF Prior
<1>6. \A i \in SUBSET (1..n) : i # {} => G[<<Max(i), it[Prior(i)]>>] = Step(it[i \ {Max(i)}], s[Max(i)])
  BY <1>3, <1>5 DEF Prior
<1>7. Eq(it)
  BY <1>4, <1>6 DEF Folding
<1>8. Eq(iter)
  BY <1>7 DEF iter
<1> DEFINE f == [k \in 0..n |-> iter[1..k]]
<1>9. f[0] = <<>>
  BY <1>1, <1>8
<1>10. \A k \in 1..n : f[k] = Step(f[k - 1], s[k])
  <2> SUFFICES ASSUME NEW k \in 1..n PROVE f[k] = Step(f[k - 1], s[k])
    OBVIOUS
  <2>1. iter[1..k] = Step(iter[(1..k) \ {Max(1..k)}], s[Max(1..k)])
    BY <1>1, <1>8, UpToNext
  <2>2. k - 1 \in 0..n /\ k \in 0..n
    BY <1>1
  <2> QED
    BY <1>1, <2>1, <2>2, UpToNext
<1> HIDE DEF f
<1>11. \A k \in 0..n : f[k] \in Seq(Jsets)
  <2> DEFINE Q == {k \in 0..n : f[k] \in Seq(Jsets)}
  <2>1. ASSUME NEW k \in 1..n, k - 1 \in Q PROVE k \in Q
    <3>1. s[k] \in Jsets /\ f[k - 1] \in Seq(Jsets) /\ k \in 0..n
      BY <1>1, <2>1
    <3>2. f[k] = Step(f[k - 1], s[k])
      BY <1>10
    <3> DEFINE r == f[k - 1]
    <3>3. r \in Seq(Jsets)
      BY <3>1
    <3> HIDE DEF r
    <3>4. Step(r, s[k]) \in Seq(Jsets)
      <4>1. Append(r, s[k]) \in Seq(Jsets)
        BY <3>1, <3>3
      <4> QED
        BY <3>3, <4>1 DEF Step
    <3> QED
      BY <3>1, <3>2, <3>4 DEF r
  <2> SUFFICES ASSUME NEW m \in 0..n PROVE f[m] \in Seq(Jsets)
    OBVIOUS
  <2>2. m \in Nat /\ 0 \in Q /\ \A k \in 1..m : k - 1 \in Q => k \in Q
    <3>1. <<>> \in Seq(Jsets) /\ 0 \in 0..n
      BY <1>1
    <3>2. 0 \in Q
      BY <1>9, <3>1
    <3> HIDE DEF Q
    <3>3. m \in Nat /\ \A k \in 1..m : k \in 1..n
      BY <1>1
    <3> QED
      BY <2>1, <3>2, <3>3
  <2> HIDE DEF Q
  <2>3. m \in Q
    BY <2>2, StepByStep
  <2> QED
    BY <2>3 DEF Q
<1>12. f[n] = Selected(s, T)
  BY <1>1, <1>2 DEF f
<1>13. \A k \in 1..n : f[k] = IF s[k] \in T THEN Append(f[k - 1], s[k]) ELSE f[k - 1]
  BY <1>10 DEF Step
<1> QED
  BY <1>9, <1>11, <1>12, <1>13

LEMMA SelectedType ==
  ASSUME NEW s \in Seq(Jsets), NEW T PROVE Selected(s, T) \in Seq(Jsets)
<1>1. PICK f :
           /\ \A k \in 0..Len(s) : f[k] \in Seq(Jsets)
           /\ f[0] = <<>> /\ f[Len(s)] = Selected(s, T)
           /\ \A k \in 1..Len(s) : f[k] = IF s[k] \in T THEN Append(f[k - 1], s[k]) ELSE f[k - 1]
  BY SelectedSteps
<1>2. Len(s) \in 0..Len(s)
  OBVIOUS
<1> QED
  BY <1>1, <1>2

\* One sequence whose values rise behind another with lower ones.
LEMMA RiseOn ==
  ASSUME NEW r \in Seq(Jsets), NEW u \in Seq(Jsets), ValsRise(r), ValsRise(u),
         \A p \in 1..Len(r) : \A q \in 1..Len(u) : r[p].val < u[q].val
  PROVE  /\ r \o u \in Seq(Jsets) /\ Len(r \o u) = Len(r) + Len(u) /\ ValsRise(r \o u)
         /\ \A q \in 1..Len(r) : (r \o u)[q] = r[q]
         /\ \A q \in 1..Len(u) : (r \o u)[Len(r) + q] = u[q]
<1> DEFINE w == r \o u
<1>1. /\ w \in Seq(Jsets) /\ Len(w) = Len(r) + Len(u)
      /\ \A q \in 1..Len(r) : w[q] = r[q]
      /\ \A q \in 1..Len(w) : q > Len(r) => w[q] = u[q - Len(r)]
  OBVIOUS
<1> HIDE DEF w
<1>2. ASSUME NEW q \in 1..Len(w), NEW h \in 1..(q - 1) PROVE w[h].val < w[q].val
  <2>0. q \in Nat /\ h \in Nat /\ Len(r) \in Nat /\ Len(u) \in Nat /\ h < q /\ h \in 1..Len(w)
    BY <1>1
  <2>1. CASE q <= Len(r)
    BY <1>1, <1>2, <2>1 DEF ValsRise
  <2>2. CASE q > Len(r) /\ h <= Len(r)
    <3>1. q - Len(r) \in 1..Len(u) /\ h \in 1..Len(r) /\ w[h] = r[h] /\ w[q] = u[q - Len(r)]
      BY <1>1, <2>0, <2>2
    <3>2. r[h].val < u[q - Len(r)].val
      BY <3>1
    <3> QED
      BY <3>1, <3>2
  <2>3. CASE h > Len(r)
    <3>1. q - Len(r) \in 1..Len(u) /\ h - Len(r) \in 1..(q - Len(r) - 1)
      BY <1>1, <1>2, <2>3
    <3>2. u[h - Len(r)].val < u[q - Len(r)].val
      BY <3>1 DEF ValsRise
    <3>3. w[h] = u[h - Len(r)] /\ w[q] = u[q - Len(r)]
      BY <1>1, <2>0, <2>3
    <3> QED
      BY <3>2, <3>3
  <2> QED
    BY <2>0, <2>1, <2>2, <2>3
<1>3. \A q \in 1..Len(u) : w[Len(r) + q] = u[q]
  BY <1>1
<1>4. ValsRise(w)
  BY <1>2 DEF ValsRise
<1> QED
  BY <1>1, <1>3, <1>4 DEF w

\* What is selected of the first k, if its values rise.
Picked(r, s, T, k) ==
  /\ r \in Seq(Jsets) /\ ValsRise(r)
  /\ \A q \in 1..Len(r) : \E i \in 1..k : r[q] = s[i] /\ s[i] \in T
  /\ \A i \in 1..k : s[i] \in T => \E q \in 1..Len(r) : r[q] = s[i]

LEMMA SelectedIsPicked ==
  ASSUME NEW s \in Seq(Jsets), NEW T,
         \A i \in 1..Len(s) : \A h \in 1..(i - 1) : s[h] \in T /\ s[i] \in T => s[h].val < s[i].val
  PROVE  Picked(Selected(s, T), s, T, Len(s))
<1>1. PICK f :
           /\ \A k \in 0..Len(s) : f[k] \in Seq(Jsets)
           /\ f[0] = <<>> /\ f[Len(s)] = Selected(s, T)
           /\ \A k \in 1..Len(s) : f[k] = IF s[k] \in T THEN Append(f[k - 1], s[k]) ELSE f[k - 1]
  BY SelectedSteps
<1> DEFINE Q == {k \in 0..Len(s) : Picked(f[k], s, T, k)}
<1>2. 0 \in Q
  BY <1>1 DEF Picked, ValsRise
<1>3. ASSUME NEW k \in 1..Len(s), k - 1 \in Q PROVE k \in Q
  <2> DEFINE r == f[k - 1]
  <2>1. Picked(r, s, T, k - 1) /\ r \in Seq(Jsets) /\ s[k] \in Jsets
    BY <1>1, <1>3 DEF Picked
  <2>2. f[k] = IF s[k] \in T THEN Append(r, s[k]) ELSE r
    BY <1>1
  <2> HIDE DEF r
  <2>3. Picked(f[k], s, T, k)
    <3>1. CASE s[k] \notin T
      <4>1. f[k] = r
        BY <2>2, <3>1
      <4>2. \A i \in 1..k : s[i] \in T => i \in 1..(k - 1)
        BY <3>1
      <4> QED
        BY <2>1, <4>1, <4>2 DEF Picked
    <3>2. CASE s[k] \in T
      <4> DEFINE w == r \o <<s[k]>>
      <4>1. f[k] = Append(r, s[k])
        BY <2>2, <3>2
      <4>2. \A q \in 1..Len(r) : r[q].val < s[k].val
        <5> SUFFICES ASSUME NEW q \in 1..Len(r) PROVE r[q].val < s[k].val
          OBVIOUS
        <5>1. PICK i \in 1..(k - 1) : r[q] = s[i] /\ s[i] \in T
          BY <2>1 DEF Picked
        <5> QED
          BY <3>2, <5>1
      <4>3. /\ f[k] \in Seq(Jsets) /\ Len(f[k]) = Len(r) + 1 /\ f[k][Len(r) + 1] = s[k]
            /\ \A q \in 1..Len(r) : f[k][q] = r[q]
        BY <2>1, <4>1
      <4>4. \A q \in 1..Len(f[k]) : q \in 1..Len(r) \/ q = Len(r) + 1
        BY <2>1, <4>3
      <4>5. ValsRise(f[k])
        <5> SUFFICES ASSUME NEW q \in 1..Len(f[k]), NEW h \in 1..(q - 1)
                     PROVE  f[k][h].val < f[k][q].val
          BY DEF ValsRise
        <5>1. h \in 1..Len(r) /\ f[k][h] = r[h]
          <6>1. Len(r) \in Nat /\ Len(f[k]) \in Nat /\ h \in 1..Len(r)
            BY <2>1, <4>3
          <6> QED
            BY <4>3, <6>1
        <5>2. CASE q = Len(r) + 1
          BY <4>2, <4>3, <5>1, <5>2
        <5>3. CASE q \in 1..Len(r)
          <6>1. r[h].val < r[q].val
            BY <2>1, <5>3 DEF Picked, ValsRise
          <6> QED
            BY <4>3, <5>1, <5>3, <6>1
        <5> QED
          BY <4>4, <5>2, <5>3
      <4>6. \A q \in 1..Len(f[k]) : \E i \in 1..k : f[k][q] = s[i] /\ s[i] \in T
        <5> SUFFICES ASSUME NEW q \in 1..Len(f[k]) PROVE \E i \in 1..k : f[k][q] = s[i] /\ s[i] \in T
          OBVIOUS
        <5>1. CASE q = Len(r) + 1
          BY <3>2, <4>3, <5>1
        <5>2. CASE q \in 1..Len(r)
          <6>1. PICK i \in 1..(k - 1) : r[q] = s[i] /\ s[i] \in T
            BY <2>1, <5>2 DEF Picked
          <6>2. i \in 1..k
            OBVIOUS
          <6> QED
            BY <4>3, <5>2, <6>1, <6>2
        <5> QED
          BY <4>4, <5>1, <5>2
      <4>7. \A i \in 1..k : s[i] \in T => \E q \in 1..Len(f[k]) : f[k][q] = s[i]
        <5> SUFFICES ASSUME NEW i \in 1..k, s[i] \in T PROVE \E q \in 1..Len(f[k]) : f[k][q] = s[i]
          OBVIOUS
        <5>1. CASE i = k
          <6>1. Len(r) + 1 \in 1..Len(f[k])
            BY <2>1, <4>3
          <6> QED
            BY <4>3, <5>1, <6>1
        <5>2. CASE i # k
          <6>1. i \in 1..(k - 1)
            BY <5>2
          <6>2. PICK q \in 1..Len(r) : r[q] = s[i]
            BY <2>1, <6>1 DEF Picked
          <6>3. q \in 1..Len(f[k])
            BY <2>1, <4>3
          <6> QED
            BY <4>3, <6>2, <6>3
        <5> QED
          BY <5>1, <5>2
      <4> QED
        BY <4>3, <4>5, <4>6, <4>7 DEF Picked
    <3> QED
      BY <3>1, <3>2
  <2> QED
    BY <2>3
<1> HIDE DEF Q
<1>4. Len(s) \in Q
  BY <1>2, <1>3, StepByStep
<1> QED
  BY <1>1, <1>4 DEF Q

LEMMA ReadSteps ==
  ASSUME NEW log \in Seq(Jsets), NEW clean, cur \in Nat
  PROVE  \E f :
           /\ \A k \in 0..(cur + Len(log)) : f[k] \in Seq(Jsets)
           /\ f[0] = <<>> /\ f[cur + Len(log)] = JournalRead(log, clean)
           /\ \A k \in 1..(cur + Len(log)) : f[k] = f[k - 1] \o Selected(log, {j \in Kept(log, clean) : j.seq = k})
<1> DEFINE n == cur + Len(log)
           K == Kept(log, clean)
           Sel(k) == Selected(log, {j \in K : j.seq = k})
           Step(r, k) == r \o Sel(k)
           s == [i \in 1..n |-> i]
           Eq(it) == it = [i \in SUBSET (1..n) |->
                        IF i = {} THEN <<>> ELSE Step(it[i \ {Max(i)}], s[Max(i)])]
           iter == CHOOSE it : Eq(it)
           G == [p \in (1..n) \X Seq(Jsets) |-> Step(p[2], p[1])]
<1>1. n \in Nat /\ DOMAIN s = 1..n /\ (\A k \in 1..n : s[k] = k) /\ 1..cur + Len(log) = 1..n
  OBVIOUS
<1>2. JournalRead(log, clean) = iter[1..n]
  <2>0. 1..cur + Len(log) = 1..n
    OBVIOUS
  <2> HIDE DEF K, s, n
  <2>1. FoldLeft(LAMBDA done, i : done \o Selected(log, {j \in K : j.seq = i}), <<>>, s) = iter[1..n]
    BY <1>1 DEF FoldLeft, MapThenFoldSet
  <2> QED
    BY <2>0, <2>1 DEF JournalRead, K, s
<1> HIDE DEF iter, s, K, n
<1>3. \A k \in 1..n : Sel(k) \in Seq(Jsets)
  BY SelectedType
<1> HIDE DEF Sel
<1>4. \A k \in 1..n : \A r \in Seq(Jsets) : G[<<k, r>>] \in Seq(Jsets) /\ G[<<k, r>>] = Step(r, k)
  <2> SUFFICES ASSUME NEW k \in 1..n, NEW r \in Seq(Jsets)
               PROVE  G[<<k, r>>] \in Seq(Jsets) /\ G[<<k, r>>] = Step(r, k)
    OBVIOUS
  <2>1. G[<<k, r>>] = Step(r, k)
    OBVIOUS
  <2>2. Step(r, k) \in Seq(Jsets)
    <3> DEFINE u == Sel(k)
    <3>1. u \in Seq(Jsets)
      BY <1>3
    <3> HIDE DEF u
    <3>2. r \o u \in Seq(Jsets)
      BY <3>1
    <3> QED
      BY <3>2 DEF u
  <2> QED
    BY <2>1, <2>2
<1> HIDE DEF G, Step
<1>5. PICK it \in [SUBSET (1..n) -> Seq(Jsets)] : Folding(it, SUBSET (1..n), <<>>, G)
  <2>1. <<>> \in Seq(Jsets)
    OBVIOUS
  <2> QED
    BY <1>1, <1>4, <2>1, FoldExists
<1>6. \A i \in SUBSET (1..n) : i # {} =>
        Max(i) \in 1..n /\ it[i \ {Max(i)}] \in Seq(Jsets) /\ s[Max(i)] = Max(i)
  BY <1>1, <1>5, PriorIsLess DEF Prior
<1>7. \A i \in SUBSET (1..n) : i # {} => G[<<Max(i), it[Prior(i)]>>] = Step(it[i \ {Max(i)}], s[Max(i)])
  BY <1>4, <1>6 DEF Prior
<1>8. Eq(it)
  BY <1>5, <1>7 DEF Folding
<1>9. Eq(iter)
  BY <1>8 DEF iter
<1> DEFINE f == [k \in 0..n |-> iter[1..k]]
<1>10. f[0] = <<>>
  BY <1>1, <1>9
<1>11. \A k \in 1..n : f[k] = Step(f[k - 1], k)
  <2> SUFFICES ASSUME NEW k \in 1..n PROVE f[k] = Step(f[k - 1], k)
    OBVIOUS
  <2>1. iter[1..k] = Step(iter[(1..k) \ {Max(1..k)}], s[Max(1..k)])
    BY <1>1, <1>9, UpToNext
  <2>2. k - 1 \in 0..n /\ k \in 0..n
    BY <1>1
  <2> QED
    BY <1>1, <2>1, <2>2, UpToNext
<1> HIDE DEF f
<1>12. ASSUME NEW m \in 0..n PROVE f[m] \in Seq(Jsets)
  <2> DEFINE Q == {k \in 0..n : f[k] \in Seq(Jsets)}
  <2>1. ASSUME NEW k \in 1..n, k - 1 \in Q PROVE k \in Q
    <3> DEFINE r == f[k - 1]
    <3>1. r \in Seq(Jsets) /\ k \in 0..n
      BY <1>1, <2>1
    <3>2. f[k] = Step(r, k)
      BY <1>11
    <3> HIDE DEF r
    <3>3. Step(r, k) \in Seq(Jsets)
      BY <1>3, <3>1 DEF Step
    <3> QED
      BY <3>1, <3>2, <3>3
  <2>2. 0 \in Q
    <3>1. <<>> \in Seq(Jsets) /\ 0 \in 0..n
      BY <1>1
    <3> QED
      BY <1>10, <3>1
  <2> HIDE DEF Q
  <2>3. m \in Nat /\ \A k \in 1..m : k \in 1..n
    BY <1>1
  <2>4. m \in Q
    BY <2>1, <2>2, <2>3, StepByStep
  <2> QED
    BY <2>4 DEF Q
<1>13. (\A k \in 0..n : f[k] \in Seq(Jsets)) /\ f[n] = JournalRead(log, clean)
  BY <1>1, <1>2, <1>12 DEF f
<1>14. \A k \in 1..n : f[k] = f[k - 1] \o Selected(log, {j \in Kept(log, clean) : j.seq = k})
  BY <1>11 DEF Step, Sel, K
<1> QED
  BY <1>10, <1>13, <1>14 DEF n

\* What is read of the first k sequence numbers.
Gathered(r, log, K, k) ==
  /\ r \in Seq(Jsets) /\ ValsRise(r)
  /\ \A q \in 1..Len(r) : \E i \in 1..Len(log) : r[q] = log[i] /\ log[i] \in K /\ log[i].seq \in 1..k
  /\ \A i \in 1..Len(log) : log[i] \in K /\ log[i].seq \in 1..k => \E q \in 1..Len(r) : r[q] = log[i]

LEMMA GatherNext ==
  ASSUME NEW log \in Seq(Jsets), Rising(log), NEW K, NEW r, NEW k \in Nat \ {0},
         Gathered(r, log, K, k - 1)
  PROVE  Gathered(r \o Selected(log, {j \in K : j.seq = k}), log, K, k)
<1> DEFINE T == {j \in K : j.seq = k}
           u == Selected(log, T)
           w == r \o u
<1>1. \A i \in 1..Len(log) : log[i] \in T <=> log[i] \in K /\ log[i].seq = k
  OBVIOUS
<1>2. Picked(u, log, T, Len(log))
  <2>1. \A i \in 1..Len(log) : \A h \in 1..(i - 1) :
           log[h] \in T /\ log[i] \in T => log[h].val < log[i].val
    <3> SUFFICES ASSUME NEW i \in 1..Len(log), NEW h \in 1..(i - 1), log[h] \in T, log[i] \in T
                 PROVE  log[h].val < log[i].val
      OBVIOUS
    <3>1. h \in 1..Len(log) /\ log[h].seq >= 1 /\ log[i].seq >= 1
      OBVIOUS
    <3> QED
      BY <3>1 DEF Rising
  <2> HIDE DEF T
  <2> QED
    BY <2>1, SelectedIsPicked
<1> HIDE DEF T, u
<1>3. /\ r \in Seq(Jsets) /\ u \in Seq(Jsets) /\ ValsRise(r) /\ ValsRise(u)
      /\ Len(r) \in Nat /\ Len(u) \in Nat
  BY <1>2 DEF Gathered, Picked
<1>4. \A p \in 1..Len(r) : \A q \in 1..Len(u) : r[p].val < u[q].val
  <2> SUFFICES ASSUME NEW p \in 1..Len(r), NEW q \in 1..Len(u) PROVE r[p].val < u[q].val
    OBVIOUS
  <2>1. PICK h \in 1..Len(log) : r[p] = log[h] /\ log[h].seq \in 1..(k - 1)
    BY DEF Gathered
  <2>2. PICK i \in 1..Len(log) : u[q] = log[i] /\ log[i].seq = k
    BY <1>1, <1>2 DEF Picked
  <2>3. h # i /\ log[h].seq >= 1 /\ log[i].seq >= 1 /\ log[h].seq < log[i].seq
        /\ log[h].seq \in Nat /\ log[i].seq \in Nat
    BY <2>1, <2>2
  <2>4. ~(i < h)
    <3> SUFFICES ASSUME i < h PROVE FALSE
      OBVIOUS
    <3>1. log[i].seq <= log[h].seq
      BY <2>3 DEF Rising
    <3> QED
      BY <2>3, <3>1
  <2>5. h \in 1..(i - 1)
    BY <2>3, <2>4
  <2>6. log[h].val < log[i].val
    BY <2>3, <2>5 DEF Rising
  <2> QED
    BY <2>1, <2>2, <2>6
<1>5. /\ w \in Seq(Jsets) /\ Len(w) = Len(r) + Len(u) /\ ValsRise(w)
      /\ \A q \in 1..Len(r) : w[q] = r[q]
      /\ \A q \in 1..Len(u) : w[Len(r) + q] = u[q]
  BY <1>3, <1>4, RiseOn
<1> HIDE DEF w
<1>6. ASSUME NEW q \in 1..Len(w)
      PROVE  \E i \in 1..Len(log) : w[q] = log[i] /\ log[i] \in K /\ log[i].seq \in 1..k
  <2>1. CASE q <= Len(r)
    <3>1. q \in 1..Len(r) /\ w[q] = r[q]
      BY <1>3, <1>5, <2>1
    <3>2. PICK i \in 1..Len(log) : r[q] = log[i] /\ log[i] \in K /\ log[i].seq \in 1..(k - 1)
      BY <3>1 DEF Gathered
    <3>3. log[i].seq \in 1..k
      BY <3>2
    <3> QED
      BY <3>1, <3>2, <3>3
  <2>2. CASE q > Len(r)
    <3>1. q - Len(r) \in 1..Len(u) /\ q = Len(r) + (q - Len(r))
      BY <1>3, <1>5, <2>2
    <3>2. w[q] = u[q - Len(r)]
      BY <1>5, <3>1
    <3>3. PICK i \in 1..Len(log) : u[q - Len(r)] = log[i] /\ log[i] \in T
      BY <1>2, <3>1 DEF Picked
    <3> QED
      BY <1>1, <3>2, <3>3
  <2> QED
    BY <1>3, <1>5, <2>1, <2>2
<1>7. ASSUME NEW i \in 1..Len(log), log[i] \in K, log[i].seq \in 1..k
      PROVE  \E q \in 1..Len(w) : w[q] = log[i]
  <2>1. CASE log[i].seq = k
    <3>1. PICK q \in 1..Len(u) : u[q] = log[i]
      BY <1>1, <1>2, <1>7, <2>1 DEF Picked
    <3>2. Len(r) + q \in 1..Len(w) /\ w[Len(r) + q] = log[i]
      BY <1>3, <1>5, <3>1
    <3> QED
      BY <3>2
  <2>2. CASE log[i].seq # k
    <3>1. log[i].seq \in 1..(k - 1)
      BY <1>7, <2>2
    <3>2. PICK q \in 1..Len(r) : r[q] = log[i]
      BY <1>7, <3>1 DEF Gathered
    <3>3. q \in 1..Len(w)
      BY <1>3, <1>5
    <3> QED
      BY <1>5, <3>2, <3>3
  <2> QED
    BY <2>1, <2>2
<1>8. Gathered(w, log, K, k)
  BY <1>5, <1>6, <1>7 DEF Gathered
<1> QED
  BY <1>8 DEF w, u, T

LEMMA ReadIsGathered ==
  ASSUME NEW log \in Seq(Jsets), Rising(log), NEW clean, cur \in Nat
  PROVE  Gathered(JournalRead(log, clean), log, Kept(log, clean), cur + Len(log))
<1> DEFINE n == cur + Len(log)
           K == Kept(log, clean)
<1>1. n \in Nat
  OBVIOUS
<1>0. PICK f :
           /\ \A k \in 0..(cur + Len(log)) : f[k] \in Seq(Jsets)
           /\ f[0] = <<>> /\ f[cur + Len(log)] = JournalRead(log, clean)
           /\ \A k \in 1..(cur + Len(log)) :
                f[k] = f[k - 1] \o Selected(log, {j \in Kept(log, clean) : j.seq = k})
  BY ReadSteps
<1>2. /\ \A k \in 0..n : f[k] \in Seq(Jsets)
      /\ f[0] = <<>> /\ f[n] = JournalRead(log, clean)
      /\ \A k \in 1..n : f[k] = f[k - 1] \o Selected(log, {j \in K : j.seq = k})
  BY <1>0
<1> HIDE DEF K, n
<1> DEFINE Q == {k \in 0..n : Gathered(f[k], log, K, k)}
<1>3. 0 \in Q
  BY <1>1, <1>2 DEF Gathered, ValsRise
<1>4. ASSUME NEW k \in 1..n, k - 1 \in Q PROVE k \in Q
  <2>1. k \in Nat \ {0} /\ k \in 0..n
    BY <1>1
  <2>2. Gathered(f[k - 1], log, K, k - 1)
    BY <1>4
  <2>3. Gathered(f[k - 1] \o Selected(log, {j \in K : j.seq = k}), log, K, k)
    BY <2>1, <2>2, GatherNext
  <2> QED
    BY <1>2, <2>1, <2>3
<1> HIDE DEF Q
<1>5. n \in Q
  BY <1>1, <1>3, <1>4, StepByStep
<1> QED
  BY <1>2, <1>5 DEF Q, n, K

LEMMA BlacklistEndIs ==
  ASSUME NEW log \in Seq(Jsets) PROVE BlacklistEnd(log) \in 0..2
<1> DEFINE S == {0} \union {log[i].end : i \in DOMAIN log}
<1>1. \A i \in DOMAIN log : log[i].end \in 0..2
  <2>1. \A i \in DOMAIN log : log[i] \in Jsets
    OBVIOUS
  <2> QED
    BY <2>1, JsetFields
<1>2. S \subseteq 0..2 /\ S # {}
  BY <1>1
<1> HIDE DEF S
<1>3. Max(S) \in 0..2
  BY <1>2, GreatestIsThere
<1> QED
  BY <1>3 DEF S, BlacklistEnd

\* What journal_read keeps has all that is owed.
LEMMA ReadOwes ==
  ASSUME NEW n \in Nat, LogSound(disk.log, n), AckedIn(disk.log, acked), cur \in Nat
  PROVE  Owes(JournalRead(disk.log, disk.clean), {a \in acked : ~Dropped(a)}, n)
<1> DEFINE log == disk.log
           K == Kept(log, disk.clean)
           r == JournalRead(log, disk.clean)
           m == cur + Len(log)
<1>1. log \in Seq(Jsets) /\ Rising(log)
  BY DEF LogSound
<1>2. Gathered(r, log, K, m)
  BY <1>1, ReadIsGathered
<1>3. \A i \in 1..Len(log) : /\ log[i].seq \in Nat /\ log[i].seq <= Len(log) /\ log[i] \in Jsets
                             /\ log[i].seq >= 1 => log[i].key \in Keys /\ log[i].val <= n
  <2>1. \A i \in 1..Len(log) : log[i] \in Jsets
    BY <1>1
  <2> QED
    BY <2>1, JsetFields DEF LogSound
<1>4. \A i \in 1..Len(log) : log[i] \in K <=>
        (log[i].seq = 0 \/ log[i].seq >= BlacklistEnd(log)) /\ ~InSkip(log, disk.clean, log[i].seq)
  BY <1>1 DEF Kept, ToSet
<1>5. BlacklistEnd(log) \in Nat /\ Len(log) \in Nat /\ m \in Nat
  <2>1. BlacklistEnd(log) \in 0..2
    BY <1>1, BlacklistEndIs
  <2> QED
    BY <1>1, <2>1
<1>6. \A a \in acked : ~Dropped(a) =>
        /\ a.first /\ ~(a.jset.seq < BlacklistEnd(log)) /\ ~InSkip(log, disk.clean, a.jset.seq)
  BY DEF Dropped
<1>7. m >= Len(log)
  BY <1>1
<1> HIDE DEF r, K, log, m
<1>8. \A q \in 1..Len(r) : r[q].seq >= 1 /\ r[q].key \in Keys /\ r[q].val <= n
  <2> SUFFICES ASSUME NEW q \in 1..Len(r) PROVE r[q].seq >= 1 /\ r[q].key \in Keys /\ r[q].val <= n
    OBVIOUS
  <2>1. PICK i \in 1..Len(log) : r[q] = log[i] /\ log[i].seq \in 1..m
    BY <1>2 DEF Gathered
  <2>2. log[i].seq >= 1
    BY <1>5, <2>1
  <2> QED
    BY <1>3, <2>1, <2>2
<1>9. ASSUME NEW a \in acked, ~Dropped(a)
      PROVE  \E q \in 1..Len(r) : a.jset = r[q] /\ \A h \in 1..(q - 1) : r[h].seq # r[q].seq
  <2>1. PICK i \in 1..Len(log) :
          /\ a.jset = log[i] /\ log[i].seq >= 1
          /\ a.first => \A h \in 1..(i - 1) : log[h].seq # log[i].seq
    BY DEF AckedIn, log
  <2>2. a.first /\ ~(a.jset.seq < BlacklistEnd(log)) /\ ~InSkip(log, disk.clean, a.jset.seq)
    BY <1>6, <1>9
  <2>3. \A h \in 1..(i - 1) : log[h].seq # log[i].seq
    BY <2>1, <2>2
  <2>4. ~(log[i].seq < BlacklistEnd(log)) /\ ~InSkip(log, disk.clean, log[i].seq)
    BY <2>1, <2>2
  <2>5. log[i] \in K
    BY <1>3, <1>4, <1>5, <2>4
  <2>6. log[i].seq \in 1..m
    BY <1>3, <1>5, <1>7, <2>1
  <2>7. PICK q \in 1..Len(r) : r[q] = log[i]
    BY <1>2, <2>5, <2>6 DEF Gathered
  <2>8. ASSUME NEW h \in 1..(q - 1) PROVE r[h].seq # r[q].seq
    <3>0. r \in Seq(Jsets) /\ ValsRise(r)
      BY <1>2 DEF Gathered
    <3>1. h \in 1..Len(r) /\ r[h].val < r[q].val
      BY <3>0 DEF ValsRise
    <3>2. PICK g \in 1..Len(log) : r[h] = log[g] /\ log[g].seq \in 1..m
      BY <1>2, <3>1 DEF Gathered
    <3>3. log[g].val < log[i].val /\ log[g].val \in Nat /\ log[i].val \in Nat
      BY <1>3, <2>7, <3>1, <3>2, JsetFields
    <3>4. ~(i < g)
      <4> SUFFICES ASSUME i < g PROVE FALSE
        OBVIOUS
      <4>1. log[i].val < log[g].val
        BY <1>1, <1>3, <2>1, <3>2 DEF Rising
      <4> QED
        BY <3>3, <4>1
    <3>5. g # i
      BY <3>3
    <3>6. g \in 1..(i - 1)
      BY <3>4, <3>5
    <3> QED
      BY <2>3, <2>7, <3>2, <3>6
  <2> QED
    BY <2>1, <2>7, <2>8
<1>10. r \in Seq(Jsets) /\ ValsRise(r)
  BY <1>2 DEF Gathered
<1>11. Owes(r, {a \in acked : ~Dropped(a)}, n)
  BY <1>8, <1>9, <1>10 DEF Owes
<1> QED
  BY <1>11 DEF r, log

\* The trees in between.
Applying(f, m, t, js) ==
  /\ \A k \in 0..Len(js) : f[k] \in [Keys -> 0..m]
  /\ f[0] = t /\ f[Len(js)] = Applied(t, js)
  /\ \A k \in 1..Len(js) :
       f[k] = IF \E h \in 1..(k - 1) : js[h].seq = js[k].seq THEN f[k - 1]
              ELSE [f[k - 1] EXCEPT ![js[k].key] = js[k].val]

LEMMA AppliedSteps ==
  ASSUME NEW m \in Nat, NEW t \in [Keys -> 0..m], NEW js \in Seq(Jsets),
         \A q \in 1..Len(js) : js[q].key \in Keys /\ js[q].val \in 0..m
  PROVE  \E f : Applying(f, m, t, js)
<1> DEFINE n == Len(js)
           W == [Keys -> 0..m]
           Step(r, k) == IF \E h \in 1..(k - 1) : js[h].seq = js[k].seq THEN r
                         ELSE [r EXCEPT ![js[k].key] = js[k].val]
           s == [i \in DOMAIN js |-> i]
           Eq(it) == it = [i \in SUBSET (1..n) |->
                        IF i = {} THEN t ELSE Step(it[i \ {Max(i)}], s[Max(i)])]
           iter == CHOOSE it : Eq(it)
           G == [p \in (1..n) \X W |-> Step(p[2], p[1])]
<1>1. n \in Nat /\ DOMAIN s = 1..n /\ (\A k \in 1..n : s[k] = k)
  OBVIOUS
<1>2. Applied(t, js) = iter[1..n]
  <2> HIDE DEF s, n
  <2>1. FoldLeft(LAMBDA r, i : IF \E h \in 1..(i - 1) : js[h].seq = js[i].seq THEN r
                               ELSE [r EXCEPT ![js[i].key] = js[i].val], t, s) = iter[1..n]
    BY <1>1 DEF FoldLeft, MapThenFoldSet
  <2> QED
    BY <2>1 DEF Applied, FoldLeftDomain, s
<1> HIDE DEF iter, s
<1>3. \A k \in 1..n : \A r \in W : Step(r, k) \in W
  OBVIOUS
<1>4. \A k \in 1..n : \A r \in W : G[<<k, r>>] \in W /\ G[<<k, r>>] = Step(r, k)
  <2> HIDE DEF Step, W
  <2> QED
    BY <1>3
<1> HIDE DEF G, Step
<1>5. PICK it \in [SUBSET (1..n) -> W] : Folding(it, SUBSET (1..n), t, G)
  <2> HIDE DEF W
  <2>1. t \in W
    BY DEF W
  <2> QED
    BY <1>1, <1>4, <2>1, FoldExists
<1> HIDE DEF W
<1>6. \A i \in SUBSET (1..n) : i # {} =>
        Max(i) \in 1..n /\ it[i \ {Max(i)}] \in W /\ s[Max(i)] = Max(i)
  BY <1>1, <1>5, PriorIsLess DEF Prior
<1>7. \A i \in SUBSET (1..n) : i # {} => G[<<Max(i), it[Prior(i)]>>] = Step(it[i \ {Max(i)}], s[Max(i)])
  BY <1>4, <1>6 DEF Prior
<1>8. Eq(it)
  BY <1>5, <1>7 DEF Folding
<1>9. Eq(iter)
  BY <1>8 DEF iter
<1> DEFINE f == [k \in 0..n |-> iter[1..k]]
<1>10. f[0] = t
  BY <1>1, <1>9
<1>11. \A k \in 1..n : f[k] = Step(f[k - 1], k)
  <2> SUFFICES ASSUME NEW k \in 1..n PROVE f[k] = Step(f[k - 1], k)
    OBVIOUS
  <2>1. iter[1..k] = Step(iter[(1..k) \ {Max(1..k)}], s[Max(1..k)])
    BY <1>1, <1>9, UpToNext
  <2>2. k - 1 \in 0..n /\ k \in 0..n
    BY <1>1
  <2> QED
    BY <1>1, <2>1, <2>2, UpToNext
<1> HIDE DEF f
<1>12. ASSUME NEW j \in 0..n PROVE f[j] \in W
  <2> DEFINE Q == {k \in 0..n : f[k] \in W}
  <2>1. ASSUME NEW k \in 1..n, k - 1 \in Q PROVE k \in Q
    <3>1. f[k - 1] \in W /\ k \in 0..n
      BY <1>1, <2>1
    <3>2. f[k] = Step(f[k - 1], k)
      BY <1>11
    <3> QED
      BY <1>3, <3>1, <3>2
  <2>2. 0 \in Q
    BY <1>1, <1>10 DEF W
  <2> HIDE DEF Q
  <2>3. j \in Nat /\ \A k \in 1..j : k \in 1..n
    BY <1>1
  <2>4. j \in Q
    BY <2>1, <2>2, <2>3, StepByStep
  <2> QED
    BY <2>4 DEF Q
<1>13. f[n] = Applied(t, js)
  BY <1>1, <1>2 DEF f
<1>14. \A k \in 1..n :
         f[k] = IF \E h \in 1..(k - 1) : js[h].seq = js[k].seq THEN f[k - 1]
                ELSE [f[k - 1] EXCEPT ![js[k].key] = js[k].val]
  BY <1>11 DEF Step
<1>15. \A k \in 0..n : f[k] \in [Keys -> 0..m]
  BY <1>12 DEF W
<1> QED
  BY <1>10, <1>13, <1>14, <1>15 DEF Applying

LEMMA AppliedType ==
  ASSUME NEW m \in Nat, NEW t \in [Keys -> 0..m], NEW js \in Seq(Jsets),
         \A q \in 1..Len(js) : js[q].key \in Keys /\ js[q].val \in 0..m
  PROVE  Applied(t, js) \in [Keys -> 0..m]
<1>1. PICK f : Applying(f, m, t, js)
  BY AppliedSteps
<1>2. Len(js) \in 0..Len(js)
  OBVIOUS
<1> QED
  BY <1>1, <1>2 DEF Applying

\* The first record of each number is shown, or one with a newer value.
LEMMA AppliedShows ==
  ASSUME NEW m \in Nat, NEW t \in [Keys -> 0..m], NEW js \in Seq(Jsets), ValsRise(js),
         \A q \in 1..Len(js) : js[q].key \in Keys /\ js[q].val \in 0..m,
         NEW q \in 1..Len(js), \A h \in 1..(q - 1) : js[h].seq # js[q].seq
  PROVE  Applied(t, js)[js[q].key] >= js[q].val
<1>1. PICK f : Applying(f, m, t, js)
  BY AppliedSteps
<1> DEFINE n == Len(js)
           key == js[q].key
           val == js[q].val
<1>2. n \in Nat /\ key \in Keys /\ val \in Nat /\ q \in 1..n
  OBVIOUS
<1> DEFINE Q == {k \in 0..n : k >= q => f[k][key] >= val}
<1>3. 0 \in Q
  BY <1>2
<1>4. ASSUME NEW k \in 1..n, k - 1 \in Q PROVE k \in Q
  <2> SUFFICES ASSUME k >= q PROVE f[k][key] >= val
    BY <1>2
  <2>0. k \in Nat /\ k - 1 \in 0..n /\ k \in 0..n
    BY <1>2
  <2>1. /\ f[k - 1] \in [Keys -> 0..m]
        /\ f[k] = IF \E h \in 1..(k - 1) : js[h].seq = js[k].seq THEN f[k - 1]
                  ELSE [f[k - 1] EXCEPT ![js[k].key] = js[k].val]
    BY <1>1, <2>0 DEF Applying
  <2>2. CASE k = q
    <3>1. f[k] = [f[k - 1] EXCEPT ![key] = val]
      BY <2>1, <2>2
    <3>2. f[k][key] = val
      BY <1>2, <2>1, <3>1
    <3> QED
      BY <1>2, <3>2
  <2>3. CASE k # q
    <3>1. q \in 1..(k - 1) /\ f[k - 1][key] >= val
      BY <1>2, <1>4, <2>0, <2>3
    <3>2. val < js[k].val
      BY <3>1 DEF ValsRise
    <3>3. js[k].val \in Nat
      OBVIOUS
    <3>4. f[k][key] = f[k - 1][key] \/ f[k][key] = js[k].val
      BY <1>2, <2>1
    <3>5. f[k - 1][key] \in Nat
      BY <1>2, <2>1
    <3> HIDE DEF key, val
    <3> QED
      BY <1>2, <3>1, <3>2, <3>3, <3>4, <3>5
  <2> QED
    BY <2>2, <2>3
<1> HIDE DEF Q, key, val
<1>5. n \in Q
  BY <1>2, <1>3, <1>4, StepByStep
<1>6. f[n][key] >= val
  BY <1>2, <1>5 DEF Q
<1> QED
  BY <1>1, <1>6 DEF key, val, n, Applying

-----------------------------------------------------------------------------
LEMMA KeepInit == Init => KeepInv
<1> SUFFICES ASSUME Init PROVE KeepInv
  OBVIOUS
<1>1. TreeTypes
  <2>1. use.writes \in Nat
    BY ConstantAssumption DEF Init
  <2>2. /\ last = 0 /\ tree = Empty /\ ovl = Empty /\ cur = 1
        /\ disk.tree = Empty /\ disk.lastSeq = 2
    BY DEF Init
  <2>3. Empty \in [Keys -> 0..0]
    BY DEF Empty
  <2> QED
    BY <2>1, <2>2, <2>3 DEF TreeTypes
<1>2. /\ disk.log = <<>> /\ acked = {} /\ mode = "rw" /\ mounts = 0 /\ ~replayed /\ open = <<>>
      /\ disk.pass = 0 /\ disk.lastSeq = 2 /\ pos = 1 /\ cur = 1
  BY DEF Init
<1>3. <<>> \in Seq(Jsets) /\ Len(<<>>) = 0
  OBVIOUS
<1>4. LogSound(disk.log, last) /\ AckedIn(disk.log, acked)
  BY <1>2, <1>3 DEF LogSound, Rising, AckedIn
<1>5. FirstSession
  BY <1>2, <1>3 DEF FirstSession, Rising
<1> QED
  BY <1>1, <1>2, <1>4, <1>5 DEF KeepInv

\* What was sound stays sound while the numbers of the writes grow.
LEMMA SoundGrows ==
  ASSUME NEW n \in Nat, NEW log, LogSound(log, n) PROVE LogSound(log, n + 1)
<1>1. \A i \in 1..Len(log) : log[i].seq >= 1 => log[i].key \in Keys /\ log[i].val <= n + 1
  <2> SUFFICES ASSUME NEW i \in 1..Len(log), log[i].seq >= 1
               PROVE  log[i].key \in Keys /\ log[i].val <= n + 1
    OBVIOUS
  <2>1. log[i] \in Jsets
    BY DEF LogSound
  <2>2. log[i].val \in Nat
    BY <2>1, JsetFields
  <2> QED
    BY <2>2 DEF LogSound
<1> QED
  BY <1>1 DEF LogSound

\* A write shows itself, and hides nothing that is newer.
LEMMA WriteShows ==
  ASSUME KeepInv, NEW k \in Keys, last' = last + 1,
         \/ tree' = [tree EXCEPT ![k] = last + 1] /\ ovl' = ovl
         \/ ovl' = [ovl EXCEPT ![k] = last + 1] /\ tree' = tree,
         UNCHANGED <<use, disk, cur, owed, replayed>>, last < use.writes, use.writes \in Nat
  PROVE  TreeTypes' /\ (replayed' => \A a \in owed' : Shows(a)')
<1>1. /\ last \in Nat /\ tree \in [Keys -> 0..last] /\ ovl \in [Keys -> 0..last]
      /\ disk.tree \in [Keys -> 0..last] /\ cur \in Nat /\ disk.lastSeq \in Nat
  BY DEF KeepInv, TreeTypes
<1>2. TreeTypes'
  <2>1. tree' \in [Keys -> 0..(last + 1)] /\ ovl' \in [Keys -> 0..(last + 1)]
    BY <1>1
  <2>2. disk'.tree \in [Keys -> 0..(last + 1)]
    BY <1>1
  <2>3. last' \in Nat /\ last' <= use'.writes /\ cur' \in Nat /\ disk'.lastSeq \in Nat
    BY <1>1
  <2> QED
    BY <2>1, <2>2, <2>3 DEF TreeTypes
<1>3. ASSUME replayed, NEW a \in owed PROVE Shows(a)'
  <2> DEFINE key == a.jset.key
             val == a.jset.val
  <2>1. /\ key \in Keys /\ val \in 0..last /\ tree[key] >= val
        /\ ovl[key] = 0 \/ ovl[key] >= val
    BY <1>3 DEF KeepInv, Shows
  <2>2. Shows(a)' <=> /\ key \in Keys /\ val \in 0..last' /\ tree'[key] >= val
                      /\ ovl'[key] = 0 \/ ovl'[key] >= val
    BY DEF Shows
  <2> HIDE DEF key, val
  <2>3. tree'[key] = tree[key] \/ tree'[key] = last + 1
    BY <1>1, <2>1
  <2>4. ovl'[key] = ovl[key] \/ ovl'[key] = last + 1
    BY <1>1, <2>1
  <2>5. tree[key] \in Nat /\ ovl[key] \in Nat /\ val \in Nat /\ last + 1 >= val
    BY <1>1, <2>1
  <2> QED
    BY <1>1, <2>1, <2>2, <2>3, <2>4, <2>5
<1> QED
  BY <1>2, <1>3

LEMMA KeepPut ==
  ASSUME KeepInv, SchedulerInv, NEW k \in Keys, PutGuarded(k) PROVE KeepInv'
<1>1. /\ mode = "rw" /\ last' = last + 1 /\ last < use.writes
      /\ UNCHANGED <<use, disk, mode, open, cur, pos, mounts, acked, owed, replayed>>
      /\ \/ tree' = [tree EXCEPT ![k] = last + 1] /\ ovl' = ovl
         \/ ovl' = [ovl EXCEPT ![k] = last + 1] /\ tree' = tree
  BY DEF PutGuarded, diskVars, obsVars
<1>2. use.writes \in Nat /\ last \in Nat
  BY ConstantAssumption DEF SchedulerInv, TypeOK, KeepInv, TreeTypes
<1>3. TreeTypes' /\ (replayed' => \A a \in owed' : Shows(a)')
  BY <1>1, <1>2, WriteShows
<1>4. Replayable' => LogSound(disk.log, last)' /\ AckedIn(disk.log, acked)'
  <2>1. Replayable => LogSound(disk.log, last + 1) /\ AckedIn(disk.log, acked)
    BY <1>2, SoundGrows DEF KeepInv
  <2>2. Replayable' <=> Replayable
    BY <1>1 DEF Replayable
  <2> QED
    BY <1>1, <2>1, <2>2
<1>5. mounts = 0 => FirstSession'
  <2> SUFFICES ASSUME mounts = 0 PROVE FirstSession'
    OBVIOUS
  <2>1. FirstSession
    BY <1>1 DEF KeepInv
  <2>2. \A i \in 1..Len(open) : open[i].val <= last + 1
    <3> SUFFICES ASSUME NEW i \in 1..Len(open) PROVE open[i].val <= last + 1
      OBVIOUS
    <3>1. open[i] \in Jsets /\ open[i].val <= last
      BY <2>1 DEF FirstSession
    <3>2. open[i].val \in Nat
      BY <3>1, JsetFields
    <3> QED
      BY <1>2, <3>1, <3>2
  <2> QED
    BY <1>1, <2>1, <2>2 DEF FirstSession
<1>6. mounts > 0 => ~Replayable'
  BY <1>1 DEF KeepInv, Replayable
<1>7. mounts = 0 => ~replayed'
  BY <1>1 DEF KeepInv
<1> QED
  BY <1>1, <1>3, <1>4, <1>5, <1>6, <1>7 DEF KeepInv

LEMMA KeepWrite ==
  ASSUME KeepInv, SchedulerInv, NEW k \in Keys, Write(k) PROVE KeepInv'
<1>1. /\ mode = "rw" /\ last' = last + 1 /\ last < use.writes
      /\ UNCHANGED <<use, disk, mode, cur, pos, mounts, acked, owed, replayed, ovl>>
      /\ tree' = [tree EXCEPT ![k] = last + 1]
      /\ open' = Append(open, Keyed(cur, k, last + 1))
  BY DEF Write, diskVars, obsVars
<1>2. use.writes \in Nat /\ last \in Nat /\ cur \in Nat
  BY ConstantAssumption DEF SchedulerInv, TypeOK, KeepInv, TreeTypes
<1>3. TreeTypes' /\ (replayed' => \A a \in owed' : Shows(a)')
  BY <1>1, <1>2, WriteShows
<1>4. Replayable' => LogSound(disk.log, last)' /\ AckedIn(disk.log, acked)'
  <2>1. Replayable => LogSound(disk.log, last + 1) /\ AckedIn(disk.log, acked)
    BY <1>2, SoundGrows DEF KeepInv
  <2>2. Replayable' <=> Replayable
    BY <1>1 DEF Replayable
  <2> QED
    BY <1>1, <2>1, <2>2
<1>5. mounts = 0 => FirstSession'
  <2> SUFFICES ASSUME mounts = 0 PROVE FirstSession'
    OBVIOUS
  <2> DEFINE j == Keyed(cur, k, last + 1)
             n == Len(open)
  <2>1. FirstSession /\ Replayable
    BY <1>1 DEF KeepInv, FirstSession, Replayable, Stable, JournalReplay, Passes
  <2>2. j \in Jsets /\ j.seq = cur /\ j.key = k /\ j.val = last + 1
    BY <1>2 DEF Keyed, Jsets
  <2> HIDE DEF j
  <2>3. /\ open \in Seq(Jsets) /\ Rising(open)
        /\ \A i \in 1..n : open[i].seq = cur /\ open[i].key \in Keys /\ open[i].val <= last
    BY <2>1 DEF FirstSession
  <2>4. \A i \in 1..n : open[i].val \in Nat
    <3>1. \A i \in 1..n : open[i] \in Jsets
      BY <2>3
    <3> QED
      BY <3>1, JsetFields
  <2>5. /\ open' \in Seq(Jsets) /\ Len(open') = n + 1 /\ open'[n + 1] = j /\ n \in Nat
        /\ \A i \in 1..n : open'[i] = open[i]
    BY <1>1, <2>2, <2>3 DEF j
  <2> HIDE DEF n
  <2>6. \A i \in 1..(n + 1) : i \in 1..n \/ i = n + 1
    BY <2>5
  <2>7. ASSUME NEW i \in 1..(n + 1)
        PROVE  open'[i].seq = cur /\ open'[i].key \in Keys /\ open'[i].val <= last + 1
    <3>1. CASE i = n + 1
      BY <1>2, <2>2, <2>5, <3>1
    <3>2. CASE i \in 1..n
      BY <1>2, <2>3, <2>4, <2>5, <3>2
    <3> QED
      BY <2>6, <3>1, <3>2
  <2>8. ASSUME NEW i \in 1..(n + 1), NEW h \in 1..(i - 1)
        PROVE  open'[h].seq <= open'[i].seq /\ open'[h].val < open'[i].val
    <3>1. h \in 1..n /\ open'[h] = open[h] /\ h \in 1..(n + 1)
      BY <2>5
    <3>2. open'[h].seq <= open'[i].seq
      BY <1>2, <2>7, <3>1
    <3>3. CASE i = n + 1
      BY <1>2, <2>2, <2>3, <2>4, <2>5, <3>1, <3>2, <3>3
    <3>4. CASE i \in 1..n
      <4>1. open[h].seq = cur /\ open[i].seq = cur /\ cur >= 1
        BY <2>1, <2>3, <3>1, <3>4 DEF FirstSession
      <4>2. open[h].val < open[i].val
        BY <2>3, <3>4, <4>1 DEF Rising, n
      <4> QED
        BY <2>5, <3>1, <3>2, <3>4, <4>2
    <3> QED
      BY <2>6, <3>3, <3>4
  <2>9. Rising(open')
    BY <2>5, <2>8 DEF Rising
  <2>10. ASSUME NEW h \in 1..Len(disk.log), NEW i \in 1..(n + 1), disk.log[h].seq >= 1
         PROVE  disk.log[h].val < open'[i].val
    <3>1. disk.log[h] \in Jsets /\ disk.log[h].val <= last
      BY <2>1, <2>10 DEF KeepInv, LogSound
    <3>2. disk.log[h].val \in Nat
      BY <3>1, JsetFields
    <3>3. CASE i = n + 1
      BY <1>2, <2>2, <2>5, <3>1, <3>2, <3>3
    <3>4. CASE i \in 1..n
      BY <2>1, <2>5, <2>10, <3>4 DEF FirstSession, n
    <3> QED
      BY <2>6, <3>3, <3>4
  <2> QED
    BY <1>1, <2>1, <2>5, <2>7, <2>9, <2>10 DEF FirstSession
<1>6. mounts > 0 => ~Replayable'
  BY <1>1 DEF KeepInv, Replayable
<1>7. mounts = 0 => ~replayed'
  BY <1>1 DEF KeepInv
<1> QED
  BY <1>1, <1>3, <1>4, <1>5, <1>6, <1>7 DEF KeepInv

\* The blocks of the open entry, and of a blacklist behind it, go behind the journal.
LEMMA KeepFlushed ==
  ASSUME KeepInv, SchedulerInv, mode = "rw", NEW js \in Seq(Jsets), Len(js) >= 1, Flushed(js),
         mounts = 0 =>
           /\ Len(open) <= Len(js)
           /\ \A i \in 1..Len(js) : IF i <= Len(open) THEN js[i] = open[i] ELSE js[i].seq = 0,
         UNCHANGED <<use, tree, ovl, mounts, last, owed, replayed>>,
         mode' \in {"rw", "stopping"}
  PROVE  KeepInv'
<1> DEFINE log == disk.log
           new == Written(log, js)
           n == Len(log)
           k == Len(open)
           m == Len(js)
<1>1. /\ disk' = [disk EXCEPT !.log = new] /\ pos' = pos + m /\ open' = <<>> /\ cur' = cur + 1
      /\ acked' = acked \union {[jset |-> open[i], first |-> i = 1] : i \in DOMAIN open}
  BY DEF Flushed
<1>2. /\ disk'.pass = disk.pass /\ disk'.tree = disk.tree /\ disk'.lastSeq = disk.lastSeq
      /\ disk'.log = new \/ disk'.log = disk.log
  BY <1>1
<1>3. TreeTypes'
  <2>1. cur' \in Nat
    BY <1>1 DEF KeepInv, TreeTypes
  <2> QED
    BY <1>2, <2>1 DEF KeepInv, TreeTypes
<1>4. Replayable' <=> Replayable
  BY <1>2 DEF Replayable
<1>5. replayed' => \A a \in owed' : Shows(a)'
  BY DEF KeepInv, Shows
<1>6. CASE mounts # 0
  <2>1. mounts > 0 /\ ~Replayable
    BY <1>6 DEF SchedulerInv, KeepInv
  <2> QED
    BY <1>3, <1>4, <1>5, <1>6, <2>1 DEF KeepInv
<1>7. CASE mounts = 0
  <2>1. FirstSession /\ Replayable /\ LogSound(log, last) /\ AckedIn(log, acked) /\ ~replayed
    BY <1>7 DEF KeepInv, FirstSession, Replayable, Stable, JournalReplay, Passes
  <2>2. /\ log \in Seq(Jsets) /\ open \in Seq(Jsets) /\ js \in Seq(Jsets)
        /\ n \in Nat /\ k \in Nat /\ m \in Nat /\ m >= 1 /\ k <= m
        /\ pos = n + 1 /\ cur \in Nat /\ cur >= 1 /\ cur <= n + 1 /\ last \in Nat
    BY <1>7, <2>1 DEF FirstSession, LogSound, KeepInv, TreeTypes
  <2>3. \A i \in 1..m : IF i <= k THEN js[i] = open[i] ELSE js[i].seq = 0
    BY <1>7
  <2>4. \A i \in 1..n : /\ log[i] \in Jsets /\ log[i].seq \in Nat /\ log[i].val \in Nat
                        /\ log[i].seq <= n /\ log[i].seq < cur
                        /\ log[i].seq >= 1 => log[i].key \in Keys /\ log[i].val <= last
    <3>1. \A i \in 1..n : log[i] \in Jsets
      BY <2>2
    <3> QED
      BY <2>1, <3>1, JsetFields DEF LogSound, FirstSession
  <2>5. \A i \in 1..k : /\ open[i].seq = cur /\ open[i].val \in Nat
                        /\ open[i].key \in Keys /\ open[i].val <= last
    <3>1. \A i \in 1..k : open[i] \in Jsets
      BY <2>2
    <3> QED
      BY <2>1, <3>1, JsetFields DEF FirstSession
  <2>6. /\ \A i \in 1..n : \A h \in 1..(i - 1) :
             log[h].seq >= 1 /\ log[i].seq >= 1 => log[h].seq <= log[i].seq /\ log[h].val < log[i].val
        /\ \A i \in 1..k : \A h \in 1..(i - 1) : open[h].val < open[i].val
        /\ \A h \in 1..n : \A i \in 1..k : log[h].seq >= 1 => log[h].val < open[i].val
    <3>1. \A i \in 1..n : \A h \in 1..(i - 1) :
             log[h].seq >= 1 /\ log[i].seq >= 1 => log[h].seq <= log[i].seq /\ log[h].val < log[i].val
      BY <2>1 DEF LogSound, Rising
    <3>2. \A h \in 1..n : \A i \in 1..k : log[h].seq >= 1 => log[h].val < open[i].val
      BY <2>1 DEF FirstSession
    <3>3. ASSUME NEW i \in 1..k, NEW h \in 1..(i - 1) PROVE open[h].val < open[i].val
      <4>1. h \in 1..k /\ open[h].seq >= 1 /\ open[i].seq >= 1
        BY <2>2, <2>5
      <4> QED
        BY <2>1, <4>1 DEF FirstSession, Rising
    <3> QED
      BY <3>1, <3>2, <3>3
  <2>7. /\ new \in Seq(Jsets) /\ Len(new) = n + m
        /\ \A i \in 1..n : new[i] = log[i]
        /\ \A i \in 1..m : new[n + i] = js[i]
    <3>1. pos - 1 + m = n + m /\ pos - 1 + m \in Nat
      BY <2>2
    <3>2. Max({n, pos - 1 + m}) = n + m
      <4>1. \E x \in {n, n + m} : \A y \in {n, n + m} : x >= y
        BY <2>2
      <4>2. Max({n, n + m}) \in {n, n + m} /\ \A y \in {n, n + m} : Max({n, n + m}) >= y
        BY <4>1 DEF Max
      <4> HIDE DEF n, m
      <4> QED
        BY <2>2, <3>1, <4>2
    <3>3. new = [i \in 1..(n + m) |-> IF i \in (n + 1)..(n + m) THEN js[i - n] ELSE log[i]]
      <4>1. \A i \in (n + 1)..(n + m) : i - pos + 1 = i - n
        BY <2>2
      <4>2. pos..(pos - 1 + m) = (n + 1)..(n + m)
        BY <2>2
      <4> HIDE DEF n, m
      <4> QED
        BY <3>2, <4>1, <4>2 DEF Written, n, m
    <3>4. \A i \in 1..(n + m) : IF i \in (n + 1)..(n + m) THEN i - n \in 1..m ELSE i \in 1..n
      BY <2>2
    <3> HIDE DEF new, n, m, log
    <3>5. \A i \in 1..(n + m) : new[i] \in Jsets
      <4>1. \A i \in 1..m : js[i] \in Jsets
        BY <2>2 DEF m
      <4>2. \A i \in 1..n : log[i] \in Jsets
        BY <2>4
      <4> QED
        BY <3>3, <3>4, <4>1, <4>2
    <3>6. new \in Seq(Jsets) /\ Len(new) = n + m
      <4>1. n + m \in Nat
        BY <2>2
      <4>2. new \in [1..(n + m) -> Jsets]
        BY <3>3, <3>5
      <4> QED
        BY <4>1, <4>2
    <3>7. \A i \in 1..n : new[i] = log[i]
      BY <2>2, <3>3
    <3>8. \A i \in 1..m : new[n + i] = js[i]
      BY <2>2, <3>3
    <3> QED
      BY <3>6, <3>7, <3>8
  <2> HIDE DEF new, n, k, m, log
  <2>8. \A i \in 1..(n + m) : \/ i \in 1..n /\ new[i] = log[i]
                              \/ i - n \in 1..k /\ new[i] = open[i - n]
                              \/ new[i].seq = 0
    <3> SUFFICES ASSUME NEW i \in 1..(n + m)
                 PROVE  \/ i \in 1..n /\ new[i] = log[i]
                        \/ i - n \in 1..k /\ new[i] = open[i - n]
                        \/ new[i].seq = 0
      OBVIOUS
    <3>1. i \in Nat /\ (i \in 1..n \/ i - n \in 1..m)
      BY <2>2
    <3>2. CASE i \in 1..n
      BY <2>7, <3>2
    <3>3. CASE i - n \in 1..m
      <4>1. n + (i - n) = i
        BY <2>2, <3>1
      <4>2. new[i] = js[i - n]
        BY <2>7, <3>3, <4>1
      <4>3. i - n <= k => i - n \in 1..k
        BY <2>2, <3>3
      <4> QED
        BY <2>3, <3>3, <4>2, <4>3
    <3> QED
      BY <3>1, <3>2, <3>3
  <2>9. ASSUME NEW i \in 1..(n + m)
        PROVE  new[i].seq <= n + m /\ (new[i].seq >= 1 => new[i].key \in Keys /\ new[i].val <= last)
    <3>1. CASE i \in 1..n /\ new[i] = log[i]
      BY <2>2, <2>4, <3>1
    <3>2. CASE i - n \in 1..k /\ new[i] = open[i - n]
      BY <2>2, <2>5, <3>2
    <3>3. CASE new[i].seq = 0
      BY <2>2, <3>3
    <3> QED
      BY <2>8, <3>1, <3>2, <3>3
  <2>10. ASSUME NEW i \in 1..(n + m), NEW h \in 1..(i - 1), new[h].seq >= 1, new[i].seq >= 1
         PROVE  new[h].seq <= new[i].seq /\ new[h].val < new[i].val
    <3>0. h \in 1..(n + m) /\ h \in Nat /\ i \in Nat /\ h < i
      BY <2>2
    <3>1. CASE i \in 1..n
      <4>1. h \in 1..n /\ new[i] = log[i] /\ new[h] = log[h]
        BY <2>2, <2>7, <3>0, <3>1
      <4> QED
        BY <2>6, <2>10, <3>1, <4>1
    <3>2. CASE i \notin 1..n
      <4>1. i - n \in 1..k /\ new[i] = open[i - n]
        BY <2>8, <2>10, <3>2
      <4>2. new[i].seq = cur
        BY <2>5, <4>1
      <4>3. CASE h \in 1..n
        <5>1. new[h] = log[h] /\ log[h].seq >= 1
          BY <2>7, <2>10, <4>3
        <5>2. log[h].val < open[i - n].val /\ log[h].seq <= cur
          <6>1. log[h].val < open[i - n].val
            BY <2>6, <4>1, <4>3, <5>1
          <6>2. log[h].seq \in Nat /\ log[h].seq < cur
            BY <2>4, <4>3
          <6> QED
            BY <2>2, <6>1, <6>2
        <5> QED
          BY <4>1, <4>2, <5>1, <5>2
      <4>4. CASE h \notin 1..n
        <5>1. h - n \in 1..k /\ new[h] = open[h - n]
          BY <2>8, <2>10, <3>0, <4>4
        <5>2. h - n \in 1..(i - n - 1)
          BY <2>2, <3>0, <5>1
        <5>3. open[h - n].val < open[i - n].val /\ new[h].seq = cur
          BY <2>5, <2>6, <4>1, <5>1, <5>2
        <5> QED
          BY <2>2, <4>1, <4>2, <5>1, <5>3
      <4> QED
        BY <4>3, <4>4
    <3> QED
      BY <3>1, <3>2
  <2>11. LogSound(new, last)
    BY <2>7, <2>9, <2>10 DEF LogSound, Rising
  <2>12. ASSUME NEW a \in acked'
         PROVE  \E i \in 1..Len(new) :
                  /\ a.jset = new[i] /\ new[i].seq >= 1
                  /\ a.first => \A h \in 1..(i - 1) : new[h].seq # new[i].seq
    <3>1. CASE a \in acked
      <4>1. PICK i \in 1..n : /\ a.jset = log[i] /\ log[i].seq >= 1
                              /\ a.first => \A h \in 1..(i - 1) : log[h].seq # log[i].seq
        BY <2>1, <3>1 DEF AckedIn, n
      <4>2. i \in 1..Len(new) /\ new[i] = log[i]
        BY <2>2, <2>7
      <4>3. \A h \in 1..(i - 1) : new[h] = log[h]
        BY <2>2, <2>7
      <4> QED
        BY <4>1, <4>2, <4>3
    <3>2. CASE a \notin acked
      <4>0. DOMAIN open = 1..k
        BY <2>2 DEF k
      <4>1. PICK i \in 1..k : a = [jset |-> open[i], first |-> i = 1]
        BY <1>1, <3>2, <4>0
      <4>2. a.jset = open[i] /\ (a.first <=> i = 1)
        BY <4>1
      <4>3. /\ n + i \in 1..Len(new) /\ new[n + i] = open[i] /\ open[i].seq = cur
        <5>1. i \in 1..m /\ i <= k
          BY <2>2
        <5> QED
          BY <2>2, <2>3, <2>5, <2>7, <5>1
      <4>4. ASSUME i = 1, NEW h \in 1..(n + i - 1) PROVE new[h].seq # new[n + i].seq
        <5>1. h \in 1..n /\ new[h] = log[h]
          <6>1. h \in 1..n
            BY <2>2, <4>4
          <6> QED
            BY <2>7, <6>1
        <5>2. log[h].seq \in Nat /\ log[h].seq < cur
          BY <2>4, <5>1
        <5> QED
          BY <2>2, <4>3, <5>1, <5>2
      <4>5. \A h \in 1..(n + i - 1) : i = 1 => new[h].seq # new[n + i].seq
        BY <4>4
      <4>6. a.first => \A h \in 1..(n + i - 1) : new[h].seq # new[n + i].seq
        BY <4>2, <4>5
      <4> QED
        BY <2>2, <4>2, <4>3, <4>6
    <3> QED
      BY <3>1, <3>2
  <2>13. disk'.log = new
    <3>1. disk.log = log
      BY DEF log
    <3> QED
      BY <1>1
  <2>14. AckedIn(disk'.log, acked') /\ LogSound(disk'.log, last')
    BY <2>11, <2>12, <2>13 DEF AckedIn
  <2>15. mode' = "rw" => FirstSession'
    <3>1. /\ disk'.pass = 0 /\ disk'.lastSeq = 2 /\ pos' = Len(disk'.log) + 1
          /\ cur' >= 1 /\ cur' <= Len(disk'.log) + 1
      <4>1. disk'.pass = 0 /\ disk'.lastSeq = 2
        BY <1>2, <2>1 DEF FirstSession
      <4>2. pos' = pos + m /\ cur' = cur + 1 /\ Len(disk'.log) = n + m
        BY <1>1, <2>7, <2>13 DEF m
      <4> QED
        BY <2>2, <4>1, <4>2
    <3>2. open' \in Seq(Jsets) /\ Rising(open') /\ Len(open') = 0
      BY <1>1 DEF Rising
    <3>3. \A i \in 1..Len(disk'.log) : disk'.log[i].seq < cur'
      <4> SUFFICES ASSUME NEW i \in 1..(n + m) PROVE new[i].seq < cur + 1
        BY <1>1, <2>7, <2>13
      <4> QED
        BY <2>2, <2>4, <2>5, <2>8
    <3> QED
      BY <3>1, <3>2, <3>3 DEF FirstSession
  <2> QED
    BY <1>3, <1>4, <1>7, <2>1, <2>14, <2>15 DEF KeepInv
<1> QED
  BY <1>6, <1>7

LEMMA KeepFlush ==
  ASSUME KeepInv, SchedulerInv, JournalFlush \/ StopFlush PROVE KeepInv'
<1> DEFINE bl == Blacklist(disk.lastSeq)
           js == IF mode' = "rw" THEN open ELSE Append(open, bl)
<1>1. /\ mode = "rw" /\ mode' \in {"rw", "stopping"} /\ Flushed(js) /\ (mode' = "rw" => open # <<>>)
      /\ UNCHANGED <<use, tree, ovl, mounts, last, owed, replayed>>
  BY DEF JournalFlush, StopFlush
<1>2. CASE mounts = 0
  <2>1. open \in Seq(Jsets) /\ disk.lastSeq = 2
    BY <1>1, <1>2 DEF KeepInv, FirstSession
  <2>2. bl \in Jsets /\ bl.seq = 0
    BY <2>1 DEF Blacklist, Jsets, AnyKey
  <2> HIDE DEF bl
  <2>3. CASE mode' = "rw"
    <3>1. js = open
      BY <2>3
    <3> HIDE DEF js
    <3>2. /\ js \in Seq(Jsets) /\ Len(js) >= 1 /\ Len(open) <= Len(js)
          /\ \A i \in 1..Len(js) : i <= Len(open) /\ js[i] = open[i]
      BY <1>1, <2>1, <2>3, <3>1
    <3> QED
      BY <1>1, <3>2, KeepFlushed
  <2>4. CASE mode' # "rw"
    <3>1. js = Append(open, bl)
      BY <2>4
    <3> HIDE DEF js
    <3>2. /\ js \in Seq(Jsets) /\ Len(js) = Len(open) + 1 /\ Len(open) \in Nat
          /\ js[Len(open) + 1] = bl /\ \A i \in 1..Len(open) : js[i] = open[i]
      BY <2>1, <2>2, <3>1
    <3>3. \A i \in 1..Len(js) : IF i <= Len(open) THEN js[i] = open[i] ELSE js[i].seq = 0
      BY <2>2, <3>2
    <3>4. Len(js) >= 1 /\ Len(open) <= Len(js)
      BY <3>2
    <3> QED
      BY <1>1, <3>2, <3>3, <3>4, KeepFlushed
  <2> QED
    BY <2>3, <2>4
<1>3. CASE mounts # 0
  <2>1. mounts > 0 /\ ~Replayable
    BY <1>1, <1>3 DEF SchedulerInv, KeepInv
  <2>2. /\ disk'.pass = disk.pass /\ disk'.tree = disk.tree /\ disk'.lastSeq = disk.lastSeq
        /\ cur' = cur + 1
    BY <1>1 DEF Flushed
  <2>3. TreeTypes'
    <3>1. cur' \in Nat
      BY <2>2 DEF KeepInv, TreeTypes
    <3> QED
      BY <1>1, <2>2, <3>1 DEF KeepInv, TreeTypes
  <2>4. ~Replayable'
    BY <2>1, <2>2 DEF Replayable
  <2>5. replayed' => \A a \in owed' : Shows(a)'
    BY <1>1 DEF KeepInv, Shows
  <2> QED
    BY <1>1, <1>3, <2>1, <2>3, <2>4, <2>5 DEF KeepInv
<1> QED
  BY <1>2, <1>3

LEMMA KeepRest ==
  ASSUME KeepInv, SchedulerInv, StopWrite \/ Crash \/ UNCHANGED vars PROVE KeepInv'
<1>1. CASE StopWrite
  <2> DEFINE d == Redirected(disk, RootCacheAddr, NewBlock, tree)
  <2>1. /\ mode' = "off" /\ disk' = [d EXCEPT !.lastSeq = cur, !.clean = TRUE]
        /\ UNCHANGED <<use, tree, ovl, cur, mounts, last, acked, owed, replayed>>
    BY <1>1 DEF StopWrite, memVars
  <2>2. d.pass = disk.pass /\ d.log = disk.log /\ (d.tree = disk.tree \/ d.tree = tree)
    BY DEF Redirected
  <2> HIDE DEF d
  <2>3. /\ disk'.pass = disk.pass /\ disk'.log = disk.log /\ disk'.lastSeq = cur
        /\ disk'.tree = disk.tree \/ disk'.tree = tree
    BY <2>1, <2>2
  <2>4. TreeTypes'
    BY <2>1, <2>3 DEF KeepInv, TreeTypes
  <2>5. Replayable' <=> Replayable
    BY <2>3 DEF Replayable
  <2>6. replayed' => \A a \in owed' : Shows(a)'
    BY <2>1 DEF KeepInv, Shows
  <2> QED
    BY <2>1, <2>3, <2>4, <2>5, <2>6 DEF KeepInv
<1>2. CASE Crash
  <2>1. /\ mode' = "off"
        /\ UNCHANGED <<use, disk, tree, ovl, cur, mounts, last, acked, owed, replayed>>
    BY <1>2 DEF Crash, diskVars, memVars
  <2>2. TreeTypes' /\ (Replayable' <=> Replayable) /\ (replayed' => \A a \in owed' : Shows(a)')
    BY <2>1 DEF KeepInv, TreeTypes, Replayable, Shows
  <2> QED
    BY <2>1, <2>2 DEF KeepInv
<1>3. CASE UNCHANGED vars
  <2>1. UNCHANGED <<use, disk, mode, tree, ovl, open, cur, pos, current, complete, passDone, jsets,
                    toRun, mounts, last, acked, owed, replayed>>
    BY <1>3 DEF vars, diskVars, memVars, schedVars, obsVars
  <2>2. TreeTypes' /\ (Replayable' <=> Replayable) /\ (replayed' => \A a \in owed' : Shows(a)')
    BY <2>1 DEF KeepInv, TreeTypes, Replayable, Shows
  <2>3. (mode' = "rw" /\ mounts' = 0 => FirstSession') /\ (mode' = "recovering" => InMount')
    BY <2>1, <2>2 DEF KeepInv, FirstSession, InMount
  <2> QED
    BY <2>1, <2>2, <2>3 DEF KeepInv
<1> QED
  BY <1>1, <1>2, <1>3

\* The replay is among the passes of every mount, and so is the last pass.
LEMMA KeepMount ==
  ASSUME KeepInv, SchedulerInv, Mount PROVE KeepInv'
<1> DEFINE done == CompleteAt(disk.pass)
<1>1. /\ mode' = "recovering" /\ mounts' = mounts + 1 /\ UNCHANGED <<use, disk, last, acked>>
      /\ tree' = disk.tree /\ cur' = disk.lastSeq /\ ovl' = Empty /\ toRun' = {}
      /\ jsets' = JournalRead(disk.log, disk.clean)
      /\ complete' = done /\ passDone' = Max({0} \union done)
      /\ current' = ToCompute(disk.clean, disk.noAlloc)
      /\ owed' = {a \in acked : ~Dropped(a)} /\ replayed' = FALSE
  BY DEF Mount, diskVars
<1>2. disk.pass \in 0..48 /\ mounts \in Nat
  BY DEF SchedulerInv, TypeOK
<1>3. done \subseteq Passes /\ 2 \in done /\ (JournalReplay \in done <=> ~Replayable)
  BY <1>2 DEF CompleteAt, Passes, Stable, Replayable, JournalReplay
<1>4. Max({0} \union done) \in Passes /\ \A p \in done : p <= Max({0} \union done)
  <2> DEFINE S == {0} \union done
  <2>1. S \subseteq Passes /\ S # {} /\ S \subseteq 0..14
    BY <1>3 DEF Passes
  <2> HIDE DEF S
  <2>2. Max(S) \in S
    BY <2>1, GreatestPassIsThere
  <2>3. \E x \in S : \A y \in S : x >= y
    BY <2>1, GreatestOf
  <2>4. \A y \in S : Max(S) >= y
    BY <2>3 DEF Max
  <2>5. \A y \in S : y <= Max(S)
    BY <2>1, <2>2, <2>4
  <2> QED
    BY <2>1, <2>2, <2>5 DEF S
<1>5. TreeTypes'
  <2>1. Empty \in [Keys -> 0..last]
    BY DEF KeepInv, TreeTypes, Empty
  <2> QED
    BY <1>1, <2>1 DEF KeepInv, TreeTypes
<1>6. {JournalReplay, 14} \subseteq current'
  BY <1>1 DEF ToCompute, Always, AllocInfo, JournalReplay
<1>7. JournalReplay \notin done => Owes(jsets', owed', last')
  <2> SUFFICES ASSUME JournalReplay \notin done PROVE Owes(jsets', owed', last')
    OBVIOUS
  <2>1. Replayable /\ LogSound(disk.log, last) /\ AckedIn(disk.log, acked) /\ cur \in Nat /\ last \in Nat
    BY <1>3 DEF KeepInv, TreeTypes
  <2>2. Owes(JournalRead(disk.log, disk.clean), {a \in acked : ~Dropped(a)}, last)
    BY <2>1, ReadOwes
  <2> QED
    BY <1>1, <2>2
<1> HIDE DEF done
<1>8. complete' \subseteq 0..passDone' /\ passDone' >= 2 /\ (~Replayable' => passDone' >= JournalReplay)
  <2>1. Replayable' <=> Replayable
    BY <1>1 DEF Replayable
  <2>2. passDone' \in 0..14 /\ \A p \in done : p \in 0..14 /\ p <= passDone'
    BY <1>1, <1>3, <1>4 DEF Passes
  <2>3. complete' \subseteq 0..passDone' /\ passDone' >= 2
    BY <1>1, <1>3, <2>2
  <2>4. ~Replayable => JournalReplay <= passDone'
    BY <1>3, <2>2
  <2> QED
    BY <2>1, <2>2, <2>3, <2>4 DEF JournalReplay
<1>9. InMount'
  <2>1. mounts' > 0
    BY <1>1, <1>2
  <2> QED
    BY <1>1, <1>6, <1>7, <1>8, <2>1 DEF InMount, Empty
<1>10. Replayable' => LogSound(disk'.log, last') /\ AckedIn(disk'.log, acked')
  BY <1>1 DEF KeepInv, Replayable
<1> QED
  BY <1>1, <1>2, <1>5, <1>9, <1>10 DEF KeepInv

LEMMA KeepControl ==
  ASSUME KeepInv, SchedulerInv, LoopHead \/ EndRound PROVE KeepInv'
<1> DEFINE runnable == (current \ failing) \ complete
<1>1. /\ mode = "recovering" /\ mode' \in {"recovering", "failed"}
      /\ UNCHANGED <<use, disk, tree, ovl, cur, current, complete, passDone, jsets, mounts, last,
                     acked, owed, replayed>>
      /\ toRun' = runnable \/ toRun' = toRun
  <2>1. CASE LoopHead
    <3>1. mode' \in {"recovering", "failed"} /\ (toRun' = runnable \/ toRun' = toRun)
      BY <2>1 DEF LoopHead, End, Retry
    <3> QED
      BY <2>1, <3>1 DEF LoopHead, diskVars, memVars, obsVars
  <2>2. CASE EndRound
    <3>1. mode' \in {"recovering", "failed"}
      BY <2>2 DEF EndRound, End, Retry
    <3> QED
      BY <2>2, <3>1 DEF EndRound, diskVars, memVars, obsVars
  <2> QED
    BY <2>1, <2>2
<1>2. TreeTypes' /\ (Replayable' <=> Replayable) /\ (replayed' => \A a \in owed' : Shows(a)')
  BY <1>1 DEF KeepInv, TreeTypes, Replayable, Shows
<1>3. InMount'
  <2>1. InMount /\ toRun' \cap complete' = {}
    BY <1>1 DEF KeepInv, InMount
  <2> QED
    BY <1>1, <1>2, <2>1 DEF InMount
<1> QED
  BY <1>1, <1>2, <1>3 DEF KeepInv

\* Its own write of the superblock says that all passes are done.
LEMMA KeepFinish ==
  ASSUME KeepInv, SchedulerInv, Finish PROVE KeepInv'
<1>1. /\ mode = "recovering" /\ mode' = "rw" /\ pc = "done"
      /\ disk' = [disk EXCEPT !.pass = passDone, !.lastSeq = cur + 1]
      /\ UNCHANGED <<use, tree, ovl, cur, mounts, last, acked, owed, replayed>>
  BY DEF Finish, memVars, obsVars
<1>2. 14 \in complete /\ complete \subseteq 0..passDone /\ passDone \in 0..14
  <2>1. current \subseteq complete /\ passDone \in 0..14
    BY <1>1 DEF SchedulerInv, DoneInv, TypeOK, Passes
  <2> QED
    BY <1>1, <2>1 DEF KeepInv, InMount
<1>3. passDone = 14
  BY <1>2
<1>4. disk'.pass = 14 /\ disk'.tree = disk.tree /\ disk'.lastSeq = cur + 1
  BY <1>1, <1>3
<1>5. ~Replayable'
  BY <1>4 DEF Replayable, Stable, JournalReplay, Passes
<1>6. TreeTypes'
  <2>1. cur + 1 \in Nat
    BY DEF KeepInv, TreeTypes
  <2> QED
    BY <1>1, <1>4, <2>1 DEF KeepInv, TreeTypes
<1>7. mounts > 0 /\ (replayed' => \A a \in owed' : Shows(a)')
  <2>1. mounts > 0
    BY <1>1 DEF KeepInv, InMount
  <2> QED
    BY <1>1, <2>1 DEF KeepInv, Shows
<1> QED
  BY <1>1, <1>5, <1>6, <1>7 DEF KeepInv

\* The number that is persisted says that the replay is done from the replay on: the
\* stable number of no earlier pass but the first is as great.
LEMMA PersistedReplay ==
  ASSUME NEW d \in 2..14
  PROVE  Max({d, Stable[d]}) < Stable[JournalReplay] <=> d < JournalReplay
<1>1. /\ Stable[d] \in Int /\ d \in Int /\ Stable[JournalReplay] = 9 /\ JournalReplay = 8
      /\ d < 8 => Stable[d] <= 8
      /\ d >= 8 => Stable[d] >= 9
  BY DEF Stable, Passes, JournalReplay
<1>2. Max({d, Stable[d]}) \in {d, Stable[d]} /\ Max({d, Stable[d]}) >= d /\ Max({d, Stable[d]}) >= Stable[d]
  BY <1>1, GreaterOf
<1> DEFINE m == Max({d, Stable[d]})
<1> HIDE DEF m
<1>3. m \in {d, Stable[d]} /\ m >= d /\ m >= Stable[d]
  BY <1>2 DEF m
<1>4. m < 9 <=> d < 8
  BY <1>1, <1>3
<1> QED
  BY <1>1, <1>4 DEF m

\* What the records that are to be replayed make of the tree.
LEMMA ReplayedTree ==
  ASSUME KeepInv, mode = "recovering", JournalReplay \notin complete
  PROVE  /\ Applied(tree, jsets) \in [Keys -> 0..last]
         /\ \A a \in owed : a.jset.key \in Keys /\ a.jset.val \in 0..last
                            /\ Applied(tree, jsets)[a.jset.key] >= a.jset.val
         /\ \A n \in 0..Len(jsets) : Applied(tree, SubSeq(jsets, 1, n)) \in [Keys -> 0..last]
<1>1. /\ last \in Nat /\ tree \in [Keys -> 0..last] /\ jsets \in Seq(Jsets) /\ ValsRise(jsets)
      /\ Owes(jsets, owed, last)
  BY DEF KeepInv, InMount, TreeTypes, Owes
<1>2. \A q \in 1..Len(jsets) : jsets[q].key \in Keys /\ jsets[q].val \in 0..last
  <2> SUFFICES ASSUME NEW q \in 1..Len(jsets) PROVE jsets[q].key \in Keys /\ jsets[q].val \in 0..last
    OBVIOUS
  <2>1. jsets[q] \in Jsets
    BY <1>1
  <2>2. jsets[q].val \in Nat /\ jsets[q].val <= last /\ jsets[q].key \in Keys
    BY <1>1, <2>1, JsetFields DEF Owes
  <2> QED
    BY <1>1, <2>2
<1>3. Applied(tree, jsets) \in [Keys -> 0..last]
  BY <1>1, <1>2, AppliedType
<1>4. ASSUME NEW a \in owed
      PROVE  a.jset.key \in Keys /\ a.jset.val \in 0..last
             /\ Applied(tree, jsets)[a.jset.key] >= a.jset.val
  <2>1. PICK q \in 1..Len(jsets) :
          a.jset = jsets[q] /\ \A h \in 1..(q - 1) : jsets[h].seq # jsets[q].seq
    BY <1>1 DEF Owes
  <2>2. Applied(tree, jsets)[jsets[q].key] >= jsets[q].val
    BY <1>1, <1>2, <2>1, AppliedShows
  <2> QED
    BY <1>2, <2>1, <2>2
<1>5. ASSUME NEW n \in 0..Len(jsets) PROVE Applied(tree, SubSeq(jsets, 1, n)) \in [Keys -> 0..last]
  <2> DEFINE js == SubSeq(jsets, 1, n)
  <2>1. js \in Seq(Jsets) /\ Len(js) = n /\ \A q \in 1..n : js[q] = jsets[q] /\ q \in 1..Len(jsets)
    BY <1>1
  <2> HIDE DEF js
  <2>2. \A q \in 1..Len(js) : js[q].key \in Keys /\ js[q].val \in 0..last
    BY <1>2, <2>1
  <2>3. Applied(tree, js) \in [Keys -> 0..last]
    BY <1>1, <2>1, <2>2, AppliedType
  <2> QED
    BY <2>3 DEF js
<1> QED
  BY <1>3, <1>4, <1>5

LEMMA KeepPass ==
  ASSUME KeepInv, SchedulerInv, RunPass PROVE KeepInv'
<1> DEFINE p == Least(toRun)
<1>1. /\ mode = "recovering" /\ mode' = mode /\ toRun' = toRun \ {p} /\ toRun # {}
      /\ UNCHANGED <<use, cur, current, jsets, mounts, last, acked, owed>>
      /\ PassOk(p) \/ PassFails(p)
  BY DEF RunPass
<1>2. p \in toRun /\ p \in 0..14 /\ p \notin complete
  <2>1. toRun \subseteq Passes /\ toRun \cap complete = {}
    BY <1>1 DEF SchedulerInv, TypeOK, KeepInv, InMount
  <2>2. p \in toRun
    BY <1>1, <2>1, LeastIsThere
  <2> QED
    BY <2>1, <2>2 DEF Passes
<1> HIDE DEF p
<1>3. InMount /\ TreeTypes /\ ovl = Empty
  BY <1>1 DEF KeepInv, InMount
<1>4. CASE PassFails(p)
  <2>1. /\ UNCHANGED <<disk, complete, passDone, ovl, replayed>>
        /\ IF p = JournalReplay
           THEN \E n \in 0..Len(jsets) : tree' = Applied(tree, SubSeq(jsets, 1, n))
           ELSE tree' = tree
    BY <1>4 DEF PassFails
  <2>2. p = JournalReplay => ~replayed
    BY <1>2, <1>3 DEF InMount
  <2>3. tree' \in [Keys -> 0..last]
    BY <1>1, <1>2, <1>3, <2>1, ReplayedTree DEF TreeTypes
  <2>4. TreeTypes' /\ (Replayable' <=> Replayable)
    BY <1>1, <1>3, <2>1, <2>3 DEF TreeTypes, Replayable
  <2>5. replayed' => \A a \in owed' : Shows(a)'
    BY <1>1, <2>1, <2>2 DEF KeepInv, Shows
  <2>6. toRun' \cap complete' = {}
    BY <1>1, <1>3, <2>1 DEF InMount
  <2>7. InMount'
    BY <1>1, <1>3, <2>1, <2>4, <2>6 DEF InMount
  <2> QED
    BY <1>1, <1>3, <2>1, <2>4, <2>5, <2>7 DEF KeepInv, InMount
<1>5. CASE PassOk(p)
  <2> DEFINE d == Max({passDone, p})
  <2>1. /\ complete' = complete \union {p} /\ passDone' = d
        /\ sbPass' = Max({d, Stable[d]})
        /\ disk' = [disk EXCEPT !.pass = sbPass'] \/ disk' = disk
        /\ PassEffect(p)
    BY <1>5 DEF PassOk
  <2>2. d \in 2..14 /\ d >= passDone /\ d >= p /\ passDone \in 0..14
    <3>1. passDone \in 0..14 /\ passDone >= 2
      BY <1>3 DEF SchedulerInv, TypeOK, Passes, InMount
    <3>2. d \in {passDone, p} /\ d >= passDone /\ d >= p
      <4>1. passDone \in Int /\ p \in Int
        BY <1>2, <3>1
      <4> QED
        BY <4>1, GreaterOf
    <3> HIDE DEF d
    <3> QED
      BY <1>2, <3>1, <3>2
  <2> HIDE DEF d
  <2>3. sbPass' < Stable[JournalReplay] <=> d < JournalReplay
    BY <2>1, <2>2, PersistedReplay
  <2>4. /\ disk'.log = disk.log /\ disk'.tree = disk.tree /\ disk'.lastSeq = disk.lastSeq
        /\ disk'.pass = sbPass' \/ disk'.pass = disk.pass
    <3>1. CASE disk' = disk
      BY <3>1
    <3>2. CASE disk' = [disk EXCEPT !.pass = sbPass']
      BY <3>2
    <3> QED
      BY <2>1, <3>1, <3>2
  <2>5. ~Replayable => d >= JournalReplay
    BY <1>3, <2>2 DEF InMount, JournalReplay
  <2>6. ~Replayable' => d >= JournalReplay
    <3>1. CASE disk'.pass = sbPass'
      BY <2>2, <2>3, <3>1 DEF Replayable, JournalReplay
    <3>2. CASE disk'.pass = disk.pass
      BY <2>5, <3>2 DEF Replayable
    <3> QED
      BY <2>4, <3>1, <3>2
  <2>7. Replayable' => Replayable
    <3> SUFFICES ASSUME Replayable', ~Replayable PROVE FALSE
      OBVIOUS
    <3>1. disk'.pass = sbPass'
      BY <2>4 DEF Replayable
    <3>2. ~(d < JournalReplay)
      BY <2>2, <2>5 DEF JournalReplay
    <3> QED
      BY <2>3, <3>1, <3>2 DEF Replayable
  <2>8. ovl' = Empty
    BY <1>3, <2>1 DEF PassEffect
  <2>9. /\ tree' \in [Keys -> 0..last]
        /\ replayed' => \A a \in owed' : Shows(a)'
        /\ JournalReplay \notin complete' => ~replayed'
    <3>1. CASE p = JournalReplay
      <4>1. tree' = Drained(Applied(tree, jsets))
        BY <2>1, <3>1 DEF PassEffect
      <4>2. /\ Applied(tree, jsets) \in [Keys -> 0..last]
            /\ \A a \in owed : a.jset.key \in Keys /\ a.jset.val \in 0..last
                               /\ Applied(tree, jsets)[a.jset.key] >= a.jset.val
        BY <1>1, <1>2, <3>1, ReplayedTree
      <4>3. \A k \in Keys : ovl[k] = 0
        BY <1>3 DEF Empty
      <4> DEFINE t == Applied(tree, jsets)
      <4> HIDE DEF t
      <4>4. tree' = [k \in Keys |-> t[k]]
        BY <4>1, <4>3 DEF Drained, t
      <4>5. tree' \in [Keys -> 0..last]
        BY <4>2, <4>4 DEF t
      <4>6. ASSUME NEW a \in owed PROVE Shows(a)'
        <5>1. /\ a.jset.key \in Keys /\ a.jset.val \in 0..last /\ t[a.jset.key] >= a.jset.val
          BY <4>2 DEF t
        <5>2. tree'[a.jset.key] >= a.jset.val /\ ovl'[a.jset.key] = 0
          BY <2>8, <4>4, <5>1 DEF Empty
        <5> QED
          BY <1>1, <5>1, <5>2 DEF Shows
      <4> QED
        BY <1>1, <2>1, <3>1, <4>5, <4>6
    <3>2. CASE p # JournalReplay
      <4>1. tree' = tree /\ replayed' = replayed
        BY <2>1, <3>2 DEF PassEffect, SchedulerInv, TypeOK
      <4>2. ovl' = ovl
        BY <1>3, <2>8
      <4>3. replayed' => \A a \in owed' : Shows(a)'
        BY <1>1, <4>1, <4>2 DEF KeepInv, Shows
      <4>4. JournalReplay \notin complete' => ~replayed'
        BY <1>3, <2>1, <4>1 DEF InMount
      <4> QED
        BY <1>3, <4>1, <4>3, <4>4 DEF TreeTypes
    <3> QED
      BY <3>1, <3>2
  <2>10. TreeTypes'
    <3>1. ovl' \in [Keys -> 0..last]
      BY <1>3, <2>8 DEF TreeTypes
    <3> QED
      BY <1>1, <1>3, <2>4, <2>9, <3>1 DEF TreeTypes
  <2>11. complete' \subseteq 0..passDone' /\ passDone' >= 2 /\ toRun' \cap complete' = {}
    <3>1. complete \subseteq 0..passDone /\ toRun \cap complete = {}
      BY <1>3 DEF InMount
    <3> QED
      BY <1>1, <1>2, <2>1, <2>2, <3>1
  <2>12. JournalReplay \notin complete' => Owes(jsets', owed', last')
    BY <1>1, <1>3, <2>1 DEF InMount
  <2>13. mounts' > 0 /\ {JournalReplay, 14} \subseteq current' /\ (~Replayable' => passDone' >= JournalReplay)
    BY <1>1, <1>3, <2>1, <2>6 DEF InMount
  <2>14. InMount'
    BY <2>8, <2>9, <2>11, <2>12, <2>13 DEF InMount, Empty
  <2>15. Replayable' => LogSound(disk'.log, last') /\ AckedIn(disk'.log, acked')
    BY <1>1, <2>4, <2>7 DEF KeepInv
  <2> QED
    BY <1>1, <1>3, <2>9, <2>10, <2>14, <2>15 DEF KeepInv, InMount
<1> QED
  BY <1>1, <1>4, <1>5

-----------------------------------------------------------------------------
LEMMA KeepInvariant ==
  ASSUME RetryAssumption PROVE Spec => []KeepInv
<1>1. Init => KeepInv
  BY KeepInit
<1>2. SchedulerInv /\ KeepInv /\ [Next]_vars => KeepInv'
  <2> SUFFICES ASSUME SchedulerInv, KeepInv, [Next]_vars PROVE KeepInv'
    OBVIOUS
  <2>1. ASSUME NEW k \in Keys, Write(k) \/ PutGuarded(k) PROVE KeepInv'
    BY <2>1, KeepWrite, KeepPut
  <2>2. CASE JournalFlush \/ StopFlush
    BY <2>2, KeepFlush
  <2>3. CASE StopWrite \/ Crash \/ UNCHANGED vars
    BY <2>3, KeepRest
  <2>4. CASE Mount
    BY <2>4, KeepMount
  <2>5. CASE LoopHead \/ EndRound
    BY <2>5, KeepControl
  <2>6. CASE RunPass
    BY <2>6, KeepPass
  <2>7. CASE Finish
    BY <2>7, KeepFinish
  <2> QED
    BY <2>1, <2>2, <2>3, <2>4, <2>5, <2>6, <2>7 DEF Next
<1> QED
  BY <1>1, <1>2, SchedulerInvariant, PTL DEF Spec

\* MaxVal is a number: the writes of a use of the model have a bound.
WritesBounded == \E b \in Nat : \A u \in Uses : u.writes <= b

\* However crashes, mounts and passes that fail follow each other, a mount that replays
\* the journal shows each acknowledged write that the replay is not known to drop, or a
\* newer one (journal_read::run, replay_data_to_engine, drain_overlay).
THEOREM ReplayIsKept ==
  ASSUME RetryAssumption, WritesBounded PROVE Spec => []ReplayKeeps
<1>1. ASSUME SchedulerInv, KeepInv PROVE ReplayKeeps
  <2>1. last <= MaxVal /\ MaxVal \in Nat
    <3> DEFINE S == {u.writes : u \in Uses}
    <3>1. PICK b \in Nat : \A u \in Uses : u.writes <= b
      BY DEF WritesBounded
    <3>2. use \in Uses /\ \A u \in Uses : u.writes \in Nat
      BY <1>1, ConstantAssumption DEF SchedulerInv, TypeOK
    <3>3. S \subseteq 0..b /\ use.writes \in S
      BY <3>1, <3>2
    <3> HIDE DEF S
    <3>4. Max(S) \in S /\ use.writes <= Max(S)
      BY <3>3, GreatestIsThere
    <3>5. last \in Nat /\ last <= use.writes
      BY <1>1 DEF KeepInv, TreeTypes
    <3>6. Max(S) \in Nat /\ last <= Max(S)
      <4> DEFINE m == Max(S)
      <4>1. m \in S /\ use.writes <= m
        BY <3>4
      <4> HIDE DEF m
      <4>2. m \in Nat /\ use.writes \in Nat
        BY <3>2, <3>3, <4>1
      <4> QED
        BY <3>5, <4>1, <4>2 DEF m
    <3> QED
      BY <3>6 DEF MaxVal, S
  <2>2. TreesOK
    <3>1. last \in Nat /\ 0..last \subseteq Vals
      BY <1>1, <2>1 DEF Vals, KeepInv, TreeTypes
    <3>2. {disk.tree, tree, ovl} \subseteq [Keys -> 0..last]
      BY <1>1 DEF KeepInv, TreeTypes
    <3> QED
      BY <3>1, <3>2 DEF TreesOK
  <2>3. ASSUME replayed, NEW a \in owed PROVE Get(a.jset.key) >= a.jset.val
    BY <1>1, <2>3 DEF KeepInv, Shows, Get
  <2> QED
    BY <2>2, <2>3 DEF ReplayKeeps
<1> QED
  BY <1>1, SchedulerInvariant, KeepInvariant, PTL
=============================================================================
