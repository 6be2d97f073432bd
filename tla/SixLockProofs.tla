--------------------------- MODULE SixLockProofs ---------------------------
(***************************************************************************)
(* The six lock, for any number of threads.                                *)
(*                                                                         *)
(* Among threads that never enter the slow path - they try, upgrade,       *)
(* downgrade, relock, and call lock_* on a lock that is open - the lock    *)
(* excludes what conflicts, its counts are exact and a relock that         *)
(* succeeds has missed no writer.  And, however the threads use it, who    *)
(* sleeps is in the fifo.                                                  *)
(***************************************************************************)
EXTENDS SixLock, FiniteSetTheorems, WellFoundedInduction, TLAPS

\* What is asked of the way the threads use the lock: nobody waits, whoever takes
\* write locks reads no other six lock, for which THREAD_READ_CNT would count as
\* well, and no thread holds so many read locks that its counter wraps.
NeverWaits ==
  /\ ~use.slow
  /\ \A t \in use.elsewhere : "write" \notin use.wants[t]
  /\ 2 * use.hold < CntSize

\* How often a thread has a type: what it was given, and what a relock that is
\* not decided has taken.
Relocking(t) == pc[t] \in {"recheck", "undo"}
Own(t, ty)   == held[t][ty] + IF Relocking(t) /\ want[t] = ty THEN 1 ELSE 0

\* Types, bounds, and where a thread can be that never waits.
CalmInv ==
  /\ NeverWaits
  /\ TypeOK
  /\ waiting = {}
  /\ \A t \in Threads :
       /\ pc[t] \in {"idle", "undo", "wclear", "wake", "relock", "recheck", "downgrade"}
       /\ Relocking(t) \/ pc[t] = "relock" => Free(t) /\ want[t] \in use.wants[t]
       /\ \A ty \in Types : held[t][ty] <= use.hold
       /\ other[t] <= use.hold
       /\ other[t] > 0 => t \in use.elsewhere

\* The read locks that f says are held, one by one.
ReadLocks(f) == {r \in Threads \X (Nat \ {0}) : r[2] <= f[r[1]]}
Reading      == [t \in Threads |-> Own(t, "read")]

\* The word counts the read locks, and each thread its own.
ReadInv ==
  /\ IsFiniteSet(ReadLocks(Reading)) /\ readers = Cardinality(ReadLocks(Reading))
  /\ \A t \in Threads : cnt[t] = Own(t, "read") + other[t]

\* INTENT_BIT is set while the intent lock has an owner, and only its owner has it.
IntentInv ==
  /\ intent <=> iowner # NoThread
  /\ iowner = NoThread => irec = 0
  /\ \A t \in Threads : Own(t, "intent") = IF iowner = t THEN irec + 1 ELSE 0

\* A thread that is writing, or that has not cleared WRITE_BIT yet, is alone.
Writing(t) == wowner = t \/ pc[t] = "wclear"
WriteInv ==
  /\ wbit <=> \E t \in Threads : Writing(t)
  /\ wowner = NoThread => wrec = 0
  /\ \A t \in Threads : Own(t, "write") = IF wowner = t THEN wrec + 1 ELSE 0
  /\ \A t \in Threads : Writing(t) =>
       /\ pc[t] = "wclear" => wowner = NoThread
       /\ \A u \in Threads \ {t} : ~Writing(u) /\ \A ty \in Types : Own(u, ty) = 0

\* Another thread has written since a seq was noted, and the seq is still current,
\* only while that thread is writing.
StaleInv == \A t \in Threads :
  /\ snap[t] <= seq
  /\ stale[t] /\ snap[t] = seq => wowner \notin {t, NoThread}

HoldInv == ReadInv /\ IntentInv /\ WriteInv

TryInv == CalmInv /\ HoldInv /\ StaleInv

\* A downgrade under way gives back the only intent lock of its thread.
DownInv == \A t \in Threads : pc[t] = "downgrade" => held[t].intent = 1

\* A step that gives t one more of type ty, takes one away, or changes nobody's.
OthersKeep(t, ty) == \A u \in Threads : \A b \in Types :
  u # t \/ b # ty => Own(u, b)' = Own(u, b)
Gains(t, ty) == Own(t, ty)' = Own(t, ty) + 1 /\ OthersKeep(t, ty)
Loses(t, ty) == Own(t, ty) >= 1 /\ Own(t, ty)' = Own(t, ty) - 1 /\ OthersKeep(t, ty)
NobodyGains  == \A u \in Threads : \A b \in Types : Own(u, b)' = Own(u, b)
SameClears   == \A u \in Threads : pc'[u] = "wclear" <=> pc[u] = "wclear"

-----------------------------------------------------------------------------
USE DEF Types

\* Adding and removing a read lock, and what a count says about who reads.
LEMMA OneMore ==
  ASSUME NEW f \in [Threads -> Nat], NEW t \in Threads, IsFiniteSet(ReadLocks(f)),
         NEW g \in [Threads -> Nat], g[t] = f[t] + 1,
         \A u \in Threads \ {t} : g[u] = f[u]
  PROVE  /\ IsFiniteSet(ReadLocks(g))
         /\ Cardinality(ReadLocks(g)) = Cardinality(ReadLocks(f)) + 1
<1> DEFINE x == <<t, g[t]>>
<1>1. x \notin ReadLocks(f)
  BY DEF ReadLocks
<1>2. ReadLocks(g) = ReadLocks(f) \cup {x}
  BY DEF ReadLocks
<1> QED
  BY <1>1, <1>2, FS_AddElement

LEMMA OneLess ==
  ASSUME NEW f \in [Threads -> Nat], NEW t \in Threads, IsFiniteSet(ReadLocks(f)),
         NEW g \in [Threads -> Nat], f[t] >= 1, g[t] = f[t] - 1,
         \A u \in Threads \ {t} : g[u] = f[u]
  PROVE  /\ IsFiniteSet(ReadLocks(g))
         /\ Cardinality(ReadLocks(g)) = Cardinality(ReadLocks(f)) - 1
         /\ Cardinality(ReadLocks(g)) \in Nat
<1> DEFINE x == <<t, f[t]>>
<1>1. x \in ReadLocks(f)
  BY DEF ReadLocks
<1>2. ReadLocks(g) = ReadLocks(f) \ {x}
  BY DEF ReadLocks
<1> QED
  BY <1>1, <1>2, FS_RemoveElement, FS_CardinalityType

LEMMA RowCount ==
  ASSUME NEW x, NEW n \in Nat
  PROVE  IsFiniteSet({x} \X (1..n)) /\ Cardinality({x} \X (1..n)) = n
<1>1. IsFiniteSet({x}) /\ Cardinality({x}) = 1
  BY FS_Singleton
<1>2. IsFiniteSet(1..n) /\ Cardinality(1..n) = n
  <2>1. IF 1 > n THEN n = 0 ELSE n - 1 + 1 = n
    OBVIOUS
  <2> QED
    BY <2>1, FS_Interval
<1>3. /\ IsFiniteSet({x} \X (1..n))
      /\ Cardinality({x} \X (1..n)) = Cardinality({x}) * Cardinality(1..n)
  BY <1>1, <1>2, FS_Product
<1> QED
  BY <1>1, <1>2, <1>3

LEMMA ReadersAtLeast ==
  ASSUME NEW f \in [Threads -> Nat], IsFiniteSet(ReadLocks(f))
  PROVE  /\ Cardinality(ReadLocks(f)) \in Nat
         /\ Cardinality(ReadLocks(f)) = 0 <=> \A t \in Threads : f[t] = 0
         /\ \A t, u \in Threads :
              t # u /\ f[u] > 0 => Cardinality(ReadLocks(f)) >= f[t] + 1
<1>1. Cardinality(ReadLocks(f)) \in Nat
  BY FS_CardinalityType
<1>2. Cardinality(ReadLocks(f)) = 0 <=> \A t \in Threads : f[t] = 0
  <2>1. ReadLocks(f) = {} <=> \A t \in Threads : f[t] = 0
    <3>1. ASSUME NEW t \in Threads, f[t] # 0 PROVE <<t, 1>> \in ReadLocks(f)
      BY <3>1 DEF ReadLocks
    <3>2. (\A t \in Threads : f[t] = 0) => ReadLocks(f) = {}
      BY DEF ReadLocks
    <3> QED
      BY <3>1, <3>2
  <2> QED
    BY <2>1, FS_EmptySet
<1>3. ASSUME NEW t \in Threads, NEW u \in Threads, t # u, f[u] > 0
      PROVE  Cardinality(ReadLocks(f)) >= f[t] + 1
  <2> DEFINE mine == {t} \X (1..f[t])
  <2>1. IsFiniteSet(mine) /\ Cardinality(mine) = f[t]
    BY RowCount
  <2>2. <<u, 1>> \notin mine /\ mine \cup {<<u, 1>>} \subseteq ReadLocks(f)
    BY <1>3 DEF ReadLocks
  <2>3. IsFiniteSet(mine \cup {<<u, 1>>}) /\ Cardinality(mine \cup {<<u, 1>>}) = f[t] + 1
    BY <2>1, <2>2, FS_AddElement
  <2> QED
    BY <2>2, <2>3, FS_Subset
<1> QED
  BY <1>1, <1>2, <1>3

-----------------------------------------------------------------------------
\* What every step may rely on.
LEMMA CalmFacts ==
  ASSUME CalmInv
  PROVE  /\ NoThread \notin Threads
         /\ use \in Uses /\ ~use.slow /\ use.hold \in Nat /\ use.hold >= 1
         /\ CntSize \in Nat /\ 2 * use.hold < CntSize
         /\ \A t \in use.elsewhere : "write" \notin use.wants[t]
         /\ \A t \in Threads : \A ty \in Types :
              Own(t, ty) \in Nat /\ held[t][ty] <= Own(t, ty) /\ Own(t, ty) <= use.hold
         /\ Reading \in [Threads -> Nat]
<1>1. /\ use \in Uses /\ use.hold \in Nat /\ use.hold >= 1
  BY UseAssumption DEF CalmInv, TypeOK, Use
<1>2. \A t \in Threads : \A ty \in Types :
        Own(t, ty) \in Nat /\ held[t][ty] <= Own(t, ty) /\ Own(t, ty) <= use.hold
  BY <1>1 DEF CalmInv, TypeOK, Own, Free
<1> QED
  BY <1>1, <1>2, ThreadAssumption, BoundAssumption DEF CalmInv, NeverWaits, Reading

\* The read count follows the threads'.
LEMMA ReadStep ==
  ASSUME CalmInv, HoldInv, NEW t \in Threads,
         \A u \in Threads \ {t} : Own(u, "read")' = Own(u, "read"),
         \/ Own(t, "read")' = Own(t, "read") + 1 /\ readers' = readers + 1
         \/ Own(t, "read") >= 1 /\ Own(t, "read")' = Own(t, "read") - 1
            /\ readers' = readers - 1
         \/ Own(t, "read")' = Own(t, "read") /\ readers' = readers
  PROVE  IsFiniteSet(ReadLocks(Reading))' /\ (readers = Cardinality(ReadLocks(Reading)))'
<1>1. \A u \in Threads : Own(u, "read") \in Nat
  BY CalmFacts
<1>2. \A u \in Threads : Own(u, "read")' \in Nat
  BY <1>1
<1> DEFINE f == Reading
           g == Reading'
<1>3. /\ f \in [Threads -> Nat] /\ g \in [Threads -> Nat]
      /\ \A u \in Threads : f[u] = Own(u, "read") /\ g[u] = Own(u, "read")'
  BY <1>1, <1>2 DEF Reading
<1>4. IsFiniteSet(ReadLocks(f)) /\ readers = Cardinality(ReadLocks(f))
  BY DEF HoldInv, ReadInv
<1> HIDE DEF f, g
<1>5. IsFiniteSet(ReadLocks(g)) /\ readers' = Cardinality(ReadLocks(g))
  <2>1. CASE g[t] = f[t] + 1 /\ readers' = readers + 1
    BY <1>3, <1>4, <2>1, OneMore
  <2>2. CASE f[t] >= 1 /\ g[t] = f[t] - 1 /\ readers' = readers - 1
    BY <1>3, <1>4, <2>2, OneLess
  <2>3. CASE g[t] = f[t] /\ readers' = readers
    <3>1. \A u \in Threads : g[u] = f[u]
      BY <1>3, <2>3
    <3>2. g = f
      BY <1>3, <3>1
    <3> QED
      BY <1>4, <2>3, <3>2
  <2> QED
    BY <1>3, <2>1, <2>2, <2>3
<1>6. ReadLocks(g) = ReadLocks(Reading)'
  BY DEF ReadLocks, g
<1> QED
  BY <1>5, <1>6

\* A writer that finds no reader but itself is the only one.
LEMMA NoOtherReader ==
  ASSUME CalmInv, HoldInv, NEW t \in Threads, t \notin use.elsewhere, OtherReaders(t) = 0
  PROVE  \A u \in Threads \ {t} : Own(u, "read") = 0
<1>1. Reading \in [Threads -> Nat] /\ \A u \in Threads : Reading[u] = Own(u, "read")
  BY CalmFacts DEF Reading
<1>2. IsFiniteSet(ReadLocks(Reading)) /\ readers = Cardinality(ReadLocks(Reading))
  BY DEF HoldInv, ReadInv
<1>3. cnt[t] = Own(t, "read") /\ readers \in Nat /\ Own(t, "read") \in Nat
  BY CalmFacts DEF HoldInv, ReadInv, CalmInv, TypeOK
<1>4. readers <= cnt[t]
  BY <1>3 DEF OtherReaders
<1>5. ASSUME NEW u \in Threads \ {t}, Own(u, "read") # 0 PROVE FALSE
  <2>1. readers >= Reading[t] + 1
    BY <1>1, <1>2, <1>5, ReadersAtLeast
  <2> QED
    BY <1>1, <1>3, <1>4, <2>1
<1> QED
  BY <1>5

-----------------------------------------------------------------------------
\* A try that succeeds keeps the counts and the exclusion.
LEMMA TakeStep ==
  ASSUME TryInv, NEW t \in Threads, NEW ty \in Types,
         Take(t, ty), Gains(t, ty), SameClears, use' = use, other' = other,
         ty = "write" => t \notin use.elsewhere,
         ty = "read" => Own(t, "read") < use.hold
  PROVE  HoldInv'
<1> USE DEF TryInv
<1>0. /\ NoThread \notin Threads /\ use.hold \in Nat /\ 2 * use.hold < CntSize /\ CntSize \in Nat
      /\ \A u \in Threads : \A b \in Types : Own(u, b) \in Nat
      /\ \A u \in Threads : other[u] \in Nat /\ other[u] <= use.hold
      /\ cnt \in [Threads -> Nat] /\ irec \in Nat /\ wrec \in Nat /\ readers \in Nat
      /\ {intent, wbit} \subseteq BOOLEAN
  BY CalmFacts DEF CalmInv, TypeOK
<1>1. CASE ty = "read"
  <2>1. /\ ~wbit /\ readers' = readers + 1 /\ cnt' = [cnt EXCEPT ![t] = (@ + 1) % CntSize]
        /\ UNCHANGED <<intent, wbit, iowner, irec, wowner, wrec>>
    BY <1>1 DEF Take, TryRead, ReadOpen, ownerVars
  <2>2. cnt[t] = Own(t, "read") + other[t] /\ (cnt[t] + 1) % CntSize = cnt[t] + 1
    <3>1. cnt[t] = Own(t, "read") + other[t]
      BY DEF HoldInv, ReadInv
    <3>2. cnt[t] + 1 \in 0..(CntSize - 1)
      BY <1>0, <1>1, <3>1
    <3> QED
      BY <1>0, <3>1, <3>2
  <2>3. ReadInv'
    <3>1. IsFiniteSet(ReadLocks(Reading))' /\ (readers = Cardinality(ReadLocks(Reading)))'
      BY <1>1, <2>1, ReadStep DEF Gains, OthersKeep
    <3>2. ASSUME NEW u \in Threads PROVE cnt'[u] = Own(u, "read")' + other'[u]
      <4>1. CASE u = t
        BY <1>0, <1>1, <2>1, <2>2, <4>1 DEF Gains
      <4>2. CASE u # t
        <5>1. cnt'[u] = cnt[u] /\ Own(u, "read")' = Own(u, "read")
          BY <1>0, <1>1, <2>1, <4>2 DEF Gains, OthersKeep
        <5> QED
          BY <5>1 DEF HoldInv, ReadInv
      <4> QED
        BY <4>1, <4>2
    <3> QED
      BY <3>1, <3>2 DEF ReadInv
  <2>4. IntentInv'
    BY <1>1, <2>1 DEF HoldInv, IntentInv, Gains, OthersKeep
  <2>5. WriteInv'
    BY <1>1, <2>1 DEF HoldInv, WriteInv, Writing, Gains, OthersKeep, SameClears
  <2> QED
    BY <2>3, <2>4, <2>5 DEF HoldInv
<1>2. CASE ty = "intent"
  <2>1. /\ \/ iowner = t /\ irec' = irec + 1 /\ UNCHANGED <<intent, iowner>>
           \/ ~intent /\ ~wbit /\ intent' /\ iowner' = t /\ irec' = irec
        /\ UNCHANGED <<readers, wbit, wowner, wrec, cnt>>
    BY <1>2 DEF Take, TryIntent, IntentOpen
  <2>2. ReadInv'
    <3>1. IsFiniteSet(ReadLocks(Reading))' /\ (readers = Cardinality(ReadLocks(Reading)))'
      BY <1>2, <2>1, ReadStep DEF Gains, OthersKeep
    <3> QED
      BY <1>2, <2>1, <3>1 DEF HoldInv, ReadInv, Gains, OthersKeep
  <2>3. IntentInv'
    BY <1>0, <1>2, <2>1 DEF HoldInv, IntentInv, Gains, OthersKeep
  <2>4. \A u \in Threads \ {t} : ~Writing(u)
    <3>1. CASE iowner = t
      <4>1. Own(t, "intent") # 0
        BY <1>0, <3>1 DEF HoldInv, IntentInv
      <4> QED
        BY <4>1 DEF HoldInv, WriteInv
    <3>2. CASE ~wbit
      BY <3>2 DEF HoldInv, WriteInv
    <3> QED
      BY <2>1, <3>1, <3>2
  <2>5. WriteInv'
    BY <1>2, <2>1, <2>4 DEF HoldInv, WriteInv, Writing, Gains, OthersKeep, SameClears
  <2> QED
    BY <2>2, <2>3, <2>5 DEF HoldInv
<1>3. CASE ty = "write"
  <2>1. /\ \/ wbit /\ wowner = t /\ wrec' = wrec + 1 /\ UNCHANGED <<wbit, wowner>>
           \/ ~wbit /\ ~intent /\ OtherReaders(t) = 0 /\ wbit' /\ wowner' = t /\ wrec' = wrec
        /\ UNCHANGED <<readers, intent, iowner, irec, cnt>>
    BY <1>3 DEF Take, TryWrite, CanTryWrite, WriteOpen
  <2>2. ReadInv'
    <3>1. IsFiniteSet(ReadLocks(Reading))' /\ (readers = Cardinality(ReadLocks(Reading)))'
      BY <1>3, <2>1, ReadStep DEF Gains, OthersKeep
    <3> QED
      BY <1>3, <2>1, <3>1 DEF HoldInv, ReadInv, Gains, OthersKeep
  <2>3. IntentInv'
    BY <1>3, <2>1 DEF HoldInv, IntentInv, Gains, OthersKeep
  <2>4. WriteInv'
    <3>1. CASE wbit
      BY <1>0, <1>3, <2>1, <3>1 DEF HoldInv, WriteInv, Writing, Gains, OthersKeep, SameClears
    <3>2. CASE ~wbit
      <4>1. \A u \in Threads : ~Writing(u) /\ Own(u, "write") = 0
        BY <3>2 DEF HoldInv, WriteInv, Writing
      <4>2. wowner = NoThread /\ wrec = 0
        BY <4>1 DEF HoldInv, WriteInv, Writing, CalmInv, TypeOK
      <4>3. \A u \in Threads : Own(u, "intent") = 0
        BY <1>0, <2>1, <3>2 DEF HoldInv, IntentInv
      <4>4. \A u \in Threads \ {t} : Own(u, "read") = 0
        BY <1>3, <2>1, <3>2, NoOtherReader
      <4>5. \A u \in Threads \ {t} : \A b \in Types : Own(u, b)' = 0
        BY <1>3, <4>1, <4>3, <4>4 DEF Gains, OthersKeep
      <4>6. \A u \in Threads : pc'[u] # "wclear"
        BY <4>1 DEF Writing, SameClears
      <4>7. Own(t, "write")' = 1 /\ wrec' = 0 /\ wowner' = t /\ wbit'
        BY <1>3, <2>1, <3>2, <4>1, <4>2 DEF Gains
      <4> QED
        BY <1>0, <4>5, <4>6, <4>7 DEF WriteInv, Writing
    <3> QED
      BY <1>0, <3>1, <3>2
  <2> QED
    BY <2>2, <2>3, <2>4 DEF HoldInv
<1> QED
  BY <1>1, <1>2, <1>3

\* So does giving one back.
LEMMA ReleaseStep ==
  ASSUME TryInv, NEW t \in Threads, NEW ty \in Types,
         Release(t, ty), Loses(t, ty), pc[t] # "wclear", use' = use
  PROVE  HoldInv'
<1> USE DEF TryInv, Goto, WakeNext, wordVars, ownerVars
<1>0. /\ NoThread \notin Threads /\ use.hold \in Nat /\ 2 * use.hold < CntSize /\ CntSize \in Nat
      /\ \A u \in Threads : \A b \in Types : Own(u, b) \in Nat /\ Own(u, b) <= use.hold
      /\ \A u \in Threads : other[u] \in Nat /\ other[u] <= use.hold
      /\ cnt \in [Threads -> Nat] /\ irec \in Nat /\ wrec \in Nat /\ readers \in Nat
      /\ {intent, wbit} \subseteq BOOLEAN
      /\ pc = [u \in Threads |-> pc[u]] /\ want \in [Threads -> Types]
  <2>1. /\ cnt \in [Threads -> Nat] /\ irec \in Nat /\ wrec \in Nat /\ readers \in Nat
        /\ {intent, wbit} \subseteq BOOLEAN /\ want \in [Threads -> Types]
        /\ \A u \in Threads : other[u] \in Nat /\ other[u] <= use.hold
        /\ pc = [u \in Threads |-> pc[u]]
    BY DEF CalmInv, TypeOK
  <2> QED
    BY <2>1, CalmFacts
<1>1. other' = other /\ wbit' = wbit /\ \A u \in Threads \ {t} : pc'[u] = pc[u]
  BY <1>0 DEF Release
<1>2. CASE ty = "read"
  <2>1. /\ readers' = readers - 1 /\ cnt' = [cnt EXCEPT ![t] = (@ - 1) % CntSize]
        /\ UNCHANGED <<intent, iowner, irec, wowner, wrec>> /\ pc'[t] = "wake"
    BY <1>0, <1>2 DEF Release
  <2>2. cnt[t] = Own(t, "read") + other[t] /\ (cnt[t] - 1) % CntSize = cnt[t] - 1
    <3>1. cnt[t] = Own(t, "read") + other[t]
      BY DEF HoldInv, ReadInv
    <3>2. cnt[t] - 1 \in 0..(CntSize - 1)
      BY <1>0, <1>2, <3>1 DEF Loses
    <3>3. \A k \in 0..(CntSize - 1) : k % CntSize = k
      BY <1>0
    <3> QED
      BY <3>1, <3>2, <3>3
  <2>3. ReadInv'
    <3>1. IsFiniteSet(ReadLocks(Reading))' /\ (readers = Cardinality(ReadLocks(Reading)))'
      BY <1>2, <2>1, ReadStep DEF Loses, OthersKeep
    <3>2. ASSUME NEW u \in Threads PROVE cnt'[u] = Own(u, "read")' + other'[u]
      <4>1. CASE u = t
        BY <1>0, <1>1, <1>2, <2>1, <2>2, <4>1 DEF Loses
      <4>2. CASE u # t
        <5>1. cnt'[u] = cnt[u] /\ Own(u, "read")' = Own(u, "read")
          BY <1>0, <1>2, <2>1, <4>2 DEF Loses, OthersKeep
        <5> QED
          BY <1>1, <5>1 DEF HoldInv, ReadInv
      <4> QED
        BY <4>1, <4>2
    <3> QED
      BY <3>1, <3>2 DEF ReadInv
  <2>4. IntentInv'
    BY <1>2, <2>1 DEF HoldInv, IntentInv, Loses, OthersKeep
  <2>5. WriteInv'
    BY <1>0, <1>1, <1>2, <2>1 DEF HoldInv, WriteInv, Writing, Loses, OthersKeep
  <2> QED
    BY <2>3, <2>4, <2>5 DEF HoldInv
<1>3. CASE ty = "intent"
  <2>1. /\ \/ irec > 0 /\ irec' = irec - 1 /\ UNCHANGED <<intent, iowner>>
           \/ irec = 0 /\ irec' = irec /\ iowner' = NoThread /\ ~intent'
        /\ UNCHANGED <<readers, wowner, wrec, cnt>> /\ pc'[t] \in {"idle", "wake"}
    BY <1>0, <1>3 DEF Release
  <2>2. ReadInv'
    <3>1. IsFiniteSet(ReadLocks(Reading))' /\ (readers = Cardinality(ReadLocks(Reading)))'
      BY <1>3, <2>1, ReadStep DEF Loses, OthersKeep
    <3> QED
      BY <1>1, <1>3, <2>1, <3>1 DEF HoldInv, ReadInv, Loses, OthersKeep
  <2>3. iowner = t
    BY <1>3 DEF HoldInv, IntentInv, Loses
  <2>4. IntentInv'
    BY <1>0, <1>3, <2>1, <2>3 DEF HoldInv, IntentInv, Loses, OthersKeep
  <2>5. WriteInv'
    BY <1>0, <1>1, <1>3, <2>1 DEF HoldInv, WriteInv, Writing, Loses, OthersKeep
  <2> QED
    BY <2>2, <2>4, <2>5 DEF HoldInv
<1>4. CASE ty = "write"
  <2>1. /\ \/ wrec > 0 /\ wrec' = wrec - 1 /\ wowner' = wowner /\ pc'[t] = "idle"
           \/ wrec = 0 /\ wrec' = wrec /\ wowner' = NoThread /\ pc'[t] = "wclear"
        /\ UNCHANGED <<readers, intent, iowner, irec, cnt>>
    BY <1>0, <1>4 DEF Release
  <2>2. ReadInv'
    <3>1. IsFiniteSet(ReadLocks(Reading))' /\ (readers = Cardinality(ReadLocks(Reading)))'
      BY <1>4, <2>1, ReadStep DEF Loses, OthersKeep
    <3> QED
      BY <1>1, <1>4, <2>1, <3>1 DEF HoldInv, ReadInv, Loses, OthersKeep
  <2>3. IntentInv'
    BY <1>4, <2>1 DEF HoldInv, IntentInv, Loses, OthersKeep
  <2>4. /\ wowner = t /\ Writing(t)
        /\ \A u \in Threads \ {t} : ~Writing(u) /\ \A b \in Types : Own(u, b) = 0
    <3>1. wowner = t
      BY <1>4 DEF HoldInv, WriteInv, Loses
    <3> QED
      BY <3>1 DEF HoldInv, WriteInv, Writing
  <2>5. Own(t, "write") = wrec + 1
    BY <2>4 DEF HoldInv, WriteInv
  <2>6. \A u \in Threads \ {t} : \A b \in Types : Own(u, b)' = 0
    BY <2>4 DEF Loses, OthersKeep
  <2>7. \A u \in Threads \ {t} : pc'[u] # "wclear"
    BY <1>1, <2>4 DEF Writing
  <2>8. wbit' /\ Own(t, "write")' = wrec
    BY <1>0, <1>1, <1>4, <2>4, <2>5 DEF HoldInv, WriteInv, Loses
  <2>9. WriteInv'
    BY <1>0, <2>1, <2>4, <2>6, <2>7, <2>8 DEF WriteInv, Writing
  <2> QED
    BY <2>2, <2>3, <2>9 DEF HoldInv
<1> QED
  BY <1>2, <1>3, <1>4

\* A step that changes nobody's locks, and neither the word nor its owners.
LEMMA QuietStep ==
  ASSUME TryInv, NobodyGains, SameClears,
         UNCHANGED <<readers, intent, wbit, ownerVars>>,
         \A u \in Threads : cnt'[u] - other'[u] = cnt[u] - other[u],
         \A u \in Threads : {cnt[u], cnt'[u], other[u], other'[u]} \subseteq Nat
  PROVE  HoldInv'
<1> USE DEF TryInv, ownerVars, NobodyGains, SameClears
<1>0. \A u \in Threads : \A b \in Types : Own(u, b) \in Nat
  BY CalmFacts
<1>1. ReadInv'
  <2>1. ASSUME NEW t \in Threads
        PROVE IsFiniteSet(ReadLocks(Reading))' /\ (readers = Cardinality(ReadLocks(Reading)))'
    BY ReadStep
  <2>2. CASE Threads = {}
    <3>1. Reading' = Reading
      BY <2>2 DEF Reading
    <3>2. ReadLocks(Reading)' = ReadLocks(Reading)
      BY <3>1 DEF ReadLocks
    <3> QED
      BY <2>2, <3>2 DEF HoldInv, ReadInv
  <2>3. \A u \in Threads : cnt'[u] = Own(u, "read")' + other'[u]
    BY <1>0 DEF HoldInv, ReadInv
  <2> QED
    BY <2>1, <2>2, <2>3 DEF ReadInv
<1>2. IntentInv'
  BY DEF HoldInv, IntentInv
<1>3. WriteInv'
  BY DEF HoldInv, WriteInv, Writing
<1> QED
  BY <1>1, <1>2, <1>3 DEF HoldInv

\* The read count stays a number.
LEMMA ReadersNat == ASSUME HoldInv' PROVE readers' \in Nat
BY FS_CardinalityType DEF HoldInv, ReadInv

\* A try keeps the types of the word and of what is written next to it.
LEMMA TakeTypes ==
  ASSUME CalmInv, NEW t \in Threads, NEW ty \in Types, Take(t, ty)
  PROVE  /\ intent' \in BOOLEAN /\ wbit' \in BOOLEAN /\ irec' \in Nat /\ wrec' \in Nat
         /\ iowner' \in Threads \cup {NoThread} /\ wowner' \in Threads \cup {NoThread}
         /\ cnt' \in [Threads -> Nat]
<1>0. /\ CntSize \in Nat \ {0} /\ irec \in Nat /\ wrec \in Nat
      /\ cnt \in [Threads -> Nat] /\ intent \in BOOLEAN /\ wbit \in BOOLEAN
      /\ iowner \in Threads \cup {NoThread} /\ wowner \in Threads \cup {NoThread}
  BY BoundAssumption DEF CalmInv, TypeOK
<1>1. CASE ty = "read"
  <2>1. (cnt[t] + 1) % CntSize \in Nat
    BY <1>0
  <2> QED
    BY <1>0, <1>1, <2>1 DEF Take, TryRead, ownerVars
<1>2. CASE ty = "intent"
  <2>1. /\ \/ irec' = irec + 1 /\ intent' = intent /\ iowner' = iowner
           \/ irec' = irec /\ intent' = TRUE /\ iowner' = t
        /\ UNCHANGED <<readers, wbit, wowner, wrec, cnt>>
    BY <1>2 DEF Take, TryIntent
  <2>2. intent' \in BOOLEAN /\ wbit' \in BOOLEAN
    BY <1>0, <2>1
  <2>3. irec' \in Nat /\ wrec' \in Nat
    BY <1>0, <2>1
  <2>4. iowner' \in Threads \cup {NoThread} /\ wowner' \in Threads \cup {NoThread}
    BY <1>0, <2>1
  <2> QED
    BY <1>0, <2>1, <2>2, <2>3, <2>4
<1>3. CASE ty = "write"
  <2>1. /\ \/ wrec' = wrec + 1 /\ wbit' = wbit /\ wowner' = wowner
           \/ wrec' = wrec /\ wbit' = TRUE /\ wowner' = t
        /\ UNCHANGED <<readers, intent, iowner, irec, cnt>>
    BY <1>3 DEF Take, TryWrite
  <2>2. intent' \in BOOLEAN /\ wbit' \in BOOLEAN
    BY <1>0, <2>1
  <2>3. irec' \in Nat /\ wrec' \in Nat
    BY <1>0, <2>1
  <2>4. iowner' \in Threads \cup {NoThread} /\ wowner' \in Threads \cup {NoThread}
    BY <1>0, <2>1
  <2> QED
    BY <1>0, <2>1, <2>2, <2>3, <2>4
<1> QED
  BY <1>1, <1>2, <1>3

LEMMA LockStep ==
  ASSUME TryInv, use' = use, NEW t \in Threads, Lock(t) PROVE TryInv'
<1> USE DEF TryInv
<1>0. PICK ty \in Types :
        /\ pc[t] = "idle" /\ Room(t, ty) /\ Take(t, ty) /\ Has(t, ty)
        /\ UNCHANGED <<waiting, fifoVars, waitVars, seq, snap, other>>
  BY DEF Lock
<1>1. held' = [held EXCEPT ![t][ty] = @ + 1] /\ pc' = pc /\ want' = want
      /\ held \in [Threads -> [Types -> Nat]]
  BY <1>0 DEF Has, CallerHas, waitVars, CalmInv, TypeOK
<1>2. Gains(t, ty)
  <2>1. held'[t][ty] = held[t][ty] + 1
        /\ \A u \in Threads : \A b \in Types : u # t \/ b # ty => held'[u][b] = held[u][b]
    BY <1>1
  <2>2. ~Relocking(t) /\ \A u \in Threads : Relocking(u)' = Relocking(u)
    BY <1>0, <1>1 DEF Relocking
  <2> QED
    BY <1>1, <2>1, <2>2 DEF Gains, OthersKeep, Own
<1>3. ty \in use.wants[t] /\ held[t][ty] < use.hold
      /\ Own(t, ty) = held[t][ty]
  BY <1>0, <1>1 DEF Room, Own, Relocking
<1>4. HoldInv'
  <2>1. SameClears
    BY <1>1 DEF SameClears
  <2>2. other' = other /\ (ty = "write" => t \notin use.elsewhere)
    BY <1>0, <1>3, CalmFacts
  <2> QED
    BY <1>0, <1>2, <1>3, <2>1, <2>2, TakeStep
<1>5. CalmInv'
  <2>1. readers' \in Nat
    BY <1>4, ReadersNat
  <2>2. /\ intent' \in BOOLEAN /\ wbit' \in BOOLEAN /\ irec' \in Nat /\ wrec' \in Nat
        /\ iowner' \in Threads \cup {NoThread} /\ wowner' \in Threads \cup {NoThread}
        /\ cnt' \in [Threads -> Nat] /\ stale' \in [Threads -> BOOLEAN]
    <3>1. stale' \in [Threads -> BOOLEAN]
      BY <1>0 DEF Has, MarkWritten, CalmInv, TypeOK
    <3> QED
      BY <1>0, <3>1, TakeTypes
  <2>3. held' \in [Threads -> [Types -> Nat]]
        /\ \A u \in Threads : \A b \in Types : held'[u][b] <= use.hold
    BY <1>1, <1>3, CalmFacts DEF CalmInv
  <2>4. TypeOK'
    BY <1>0, <2>1, <2>2, <2>3 DEF CalmInv, TypeOK, fifoVars, waitVars
  <2>5. \A u \in Threads : Relocking(u)' \/ pc'[u] = "relock" => Free(u)'
    BY <1>0, <1>1 DEF CalmInv, Relocking, Free
  <2> QED
    BY <1>0, <1>1, <2>3, <2>4, <2>5 DEF CalmInv, NeverWaits, Relocking
<1>6. StaleInv'
  <2>1. CASE ty = "write"
    <3>1. wowner' = t /\ (wowner = t \/ wowner = NoThread)
      <4>1. wbit \/ wowner = NoThread
        BY DEF HoldInv, WriteInv, Writing, CalmInv, TypeOK
      <4> QED
        BY <1>0, <2>1, <4>1 DEF Take, TryWrite, CanTryWrite
    <3>2. stale' = [u \in Threads |-> stale[u] \/ u # t] /\ seq' = seq /\ snap' = snap
      BY <1>0, <2>1 DEF Has, MarkWritten
    <3> QED
      BY <3>1, <3>2, CalmFacts DEF StaleInv
  <2>2. CASE ty # "write"
    <3>1. wowner' = wowner /\ UNCHANGED <<seq, snap, stale>>
      BY <1>0, <2>2 DEF Take, TryRead, TryIntent, Has, MarkWritten, ownerVars
    <3> QED
      BY <3>1 DEF StaleInv
  <2> QED
    BY <2>1, <2>2
<1> QED
  BY <1>4, <1>5, <1>6

LEMMA ReleaseCalm ==
  ASSUME TryInv, HoldInv', use' = use, NEW t \in Threads, NEW ty \in Types, Release(t, ty),
         held' \in [Threads -> [Types -> Nat]],
         \A u \in Threads : \A b \in Types : held'[u][b] <= held[u][b],
         \A u \in Threads \ {t} : held'[u] = held[u]
  PROVE  CalmInv' /\ StaleInv'
<1> USE DEF TryInv, Goto, WakeNext, wordVars, ownerVars, fifoVars
<1>1. readers' \in Nat
  BY ReadersNat
<1>2. /\ intent' \in BOOLEAN /\ wbit' \in BOOLEAN /\ irec' \in Nat /\ wrec' \in Nat
      /\ iowner' \in Threads \cup {NoThread} /\ wowner' \in Threads \cup {NoThread}
      /\ cnt' \in [Threads -> Nat] /\ seq' \in Nat
      /\ pc' \in [Threads -> {"idle", "undo", "wclear", "wake", "relock", "recheck", "downgrade"}]
      /\ want' \in [Threads -> Types]
      /\ pc'[t] \in {"idle", "wake", "wclear"}
      /\ \A u \in Threads \ {t} : pc'[u] = pc[u] /\ want'[u] = want[u]
      /\ UNCHANGED <<waiting, fifo, nextFree, flag, token, snap, stale, other>>
  <2>1. CntSize \in Nat \ {0}
        /\ pc \in [Threads -> {"idle", "undo", "wclear", "wake", "relock", "recheck", "downgrade"}]
        /\ want \in [Threads -> Types]
    BY BoundAssumption DEF CalmInv, TypeOK
  <2>2. /\ irec \in Nat /\ wrec \in Nat /\ cnt \in [Threads -> Nat] /\ seq \in Nat
        /\ intent \in BOOLEAN /\ wbit \in BOOLEAN
        /\ iowner \in Threads \cup {NoThread} /\ wowner \in Threads \cup {NoThread}
        /\ (cnt[t] - 1) % CntSize \in Nat
    BY <2>1 DEF CalmInv, TypeOK
  <2>3. CASE ty = "read"
    BY <2>1, <2>2, <2>3 DEF Release
  <2>4. CASE ty = "intent"
    <3>1. /\ \/ /\ irec > 0 /\ irec' = irec - 1 /\ pc' = [pc EXCEPT ![t] = "idle"]
                /\ UNCHANGED <<intent, iowner, want>>
             \/ /\ iowner' = NoThread /\ intent' = FALSE /\ irec' = irec
                /\ pc' = [pc EXCEPT ![t] = "wake"] /\ want' = [want EXCEPT ![t] = ty]
          /\ UNCHANGED <<readers, wbit, wowner, wrec, cnt, seq, waiting, fifo, nextFree, flag,
                         token, snap, stale, other>>
      BY <2>4 DEF Release
    <3>2. intent' \in BOOLEAN /\ wbit' \in BOOLEAN
      BY <2>2, <3>1
    <3>3. irec' \in Nat /\ wrec' \in Nat /\ seq' \in Nat /\ cnt' \in [Threads -> Nat]
      BY <2>2, <3>1
    <3>4. iowner' \in Threads \cup {NoThread} /\ wowner' \in Threads \cup {NoThread}
      BY <2>2, <3>1
    <3>5. /\ pc' \in [Threads -> {"idle", "undo", "wclear", "wake", "relock", "recheck", "downgrade"}]
          /\ want' \in [Threads -> Types] /\ pc'[t] \in {"idle", "wake", "wclear"}
          /\ \A u \in Threads \ {t} : pc'[u] = pc[u] /\ want'[u] = want[u]
      BY <2>1, <3>1
    <3> QED
      BY <3>1, <3>2, <3>3, <3>4, <3>5
  <2>5. CASE ty = "write"
    BY <2>1, <2>2, <2>5 DEF Release
  <2> QED
    BY <2>3, <2>4, <2>5
<1>3. TypeOK'
  BY <1>1, <1>2 DEF CalmInv, TypeOK
<1>4. \A u \in Threads : Relocking(u)' \/ pc'[u] = "relock" => u # t
  BY <1>2 DEF Relocking
<1>5. CalmInv'
  <2>1. ASSUME NEW u \in Threads
        PROVE  /\ pc'[u] \in {"idle", "undo", "wclear", "wake", "relock", "recheck", "downgrade"}
               /\ Relocking(u)' \/ pc'[u] = "relock" => Free(u)' /\ want'[u] \in use'.wants[u]
               /\ \A b \in Types : held'[u][b] <= use'.hold
               /\ other'[u] <= use'.hold
               /\ other'[u] > 0 => u \in use'.elsewhere
    <3>1. Relocking(u)' \/ pc'[u] = "relock" => Free(u)' /\ want'[u] \in use'.wants[u]
      BY <1>2, <1>4 DEF CalmInv, Relocking, Free
    <3>2. \A b \in Types : held'[u][b] <= use'.hold
      BY CalmFacts DEF CalmInv, TypeOK
    <3> QED
      BY <1>2, <3>1, <3>2 DEF CalmInv
  <2> QED
    BY <1>2, <1>3, <2>1 DEF CalmInv, NeverWaits
<1>6. StaleInv'
  <2>1. \/ wowner' = wowner /\ seq' = seq
        \/ wowner' = NoThread /\ seq' = seq + 1
    BY DEF Release
  <2> QED
    BY <1>2, <2>1 DEF StaleInv, CalmInv, TypeOK, NoSeq
<1> QED
  BY <1>5, <1>6

LEMMA UnlockStep ==
  ASSUME TryInv, use' = use, NEW t \in Threads, Unlock(t) PROVE TryInv'
<1> USE DEF TryInv
<1>0. PICK ty \in Types : /\ pc[t] = "idle" /\ held[t][ty] > 0 /\ Release(t, ty)
                          /\ held' = [held EXCEPT ![t][ty] = @ - 1]
  BY DEF Unlock
<1>1. held \in [Threads -> [Types -> Nat]]
  BY DEF CalmInv, TypeOK
<1>2. /\ held' \in [Threads -> [Types -> Nat]] /\ held'[t][ty] = held[t][ty] - 1
      /\ \A u \in Threads : \A b \in Types : u # t \/ b # ty => held'[u][b] = held[u][b]
      /\ \A u \in Threads \ {t} : held'[u] = held[u]
  BY <1>0, <1>1
<1>3. /\ ~Relocking(t) /\ ~Relocking(t)'
      /\ \A u \in Threads \ {t} : Relocking(u)' = Relocking(u) /\ want'[u] = want[u]
  <2>1. pc = [u \in Threads |-> pc[u]] /\ want = [u \in Threads |-> want[u]]
    BY DEF CalmInv, TypeOK
  <2> QED
    BY <1>0, <2>1 DEF Release, WakeNext, Goto, Relocking
<1>4. Loses(t, ty)
  BY <1>0, <1>1, <1>2, <1>3 DEF Loses, OthersKeep, Own
<1>5. HoldInv'
  BY <1>0, <1>4, ReleaseStep
<1>6. CalmInv' /\ StaleInv'
  <2>1. \A u \in Threads : \A b \in Types : held'[u][b] <= held[u][b]
    BY <1>1, <1>2
  <2> QED
    BY <1>0, <1>2, <1>5, <2>1, ReleaseCalm
<1> QED
  BY <1>5, <1>6

LEMMA UndoStep ==
  ASSUME TryInv, use' = use, NEW t \in Threads, Undo(t) PROVE TryInv'
<1> USE DEF TryInv
<1>0. PICK ty \in Types : /\ pc[t] = "undo" /\ ty = want[t] /\ Release(t, ty) /\ held' = held
                          /\ held \in [Threads -> [Types -> Nat]]
  BY DEF Undo, CalmInv, TypeOK
<1>1. /\ Relocking(t) /\ ~Relocking(t)'
      /\ \A u \in Threads \ {t} : Relocking(u)' = Relocking(u) /\ want'[u] = want[u]
  <2>1. pc = [u \in Threads |-> pc[u]] /\ want = [u \in Threads |-> want[u]]
    BY DEF CalmInv, TypeOK
  <2> QED
    BY <1>0, <2>1 DEF Release, WakeNext, Goto, Relocking
<1>2. Loses(t, ty)
  <2>1. Own(t, ty) = held[t][ty] + 1 /\ held[t][ty] \in Nat
    BY <1>0, <1>1 DEF Own
  <2>2. \A b \in Types : Own(t, b)' = held[t][b]
    BY <1>0, <1>1 DEF Own
  <2>3. \A b \in Types : b # ty => Own(t, b) = held[t][b]
    BY <1>0, <1>1 DEF Own
  <2>4. \A u \in Threads \ {t} : \A b \in Types : Own(u, b)' = Own(u, b)
    BY <1>0, <1>1 DEF Own
  <2> QED
    BY <1>0, <2>1, <2>2, <2>3, <2>4 DEF Loses, OthersKeep
<1>3. HoldInv'
  BY <1>0, <1>2, ReleaseStep
<1>4. CalmInv' /\ StaleInv'
  BY <1>0, <1>3, ReleaseCalm
<1> QED
  BY <1>3, <1>4

\* A relock: the check of the seq, the try, and the seq again under the lock.
LEMMA RelockTryStep ==
  ASSUME TryInv, use' = use, NEW t \in Threads, RelockTry(t) PROVE TryInv'
<1> USE DEF TryInv
<1> DEFINE ty == want[t]
<1>0. /\ pc[t] = "relock" /\ ty \in use.wants[t] /\ ty \in Types /\ Free(t)
      /\ UNCHANGED <<waiting, fifoVars, want, flag, token, seqVars, held, other>>
      /\ held \in [Threads -> [Types -> Nat]]
      /\ pc \in [Threads -> {"idle", "undo", "wclear", "wake", "relock", "recheck", "downgrade"}]
  BY DEF RelockTry, CalmInv, TypeOK
<1>1. CASE Can(t, ty)
  <2>1. Take(t, ty) /\ pc' = [pc EXCEPT ![t] = "recheck"]
    BY <1>1 DEF RelockTry, Goto
  <2>2. Gains(t, ty)
    BY <1>0, <2>1 DEF Gains, OthersKeep, Own, Relocking
  <2>3. SameClears
    BY <1>0, <2>1 DEF SameClears
  <2>4. Own(t, "read") < use.hold
    BY <1>0, CalmFacts DEF Own, Relocking, Free
  <2>5. HoldInv'
    <3>1. ty = "write" => t \notin use.elsewhere
      BY <1>0, CalmFacts
    <3> HIDE DEF ty
    <3> QED
      BY <1>0, <2>1, <2>2, <2>3, <2>4, <3>1, TakeStep
  <2>6. CalmInv'
    <3>1. readers' \in Nat
      BY <2>5, ReadersNat
    <3>2. /\ intent' \in BOOLEAN /\ wbit' \in BOOLEAN /\ irec' \in Nat /\ wrec' \in Nat
          /\ iowner' \in Threads \cup {NoThread} /\ wowner' \in Threads \cup {NoThread}
          /\ cnt' \in [Threads -> Nat]
      <4> HIDE DEF ty
      <4> QED
        BY <1>0, <2>1, TakeTypes
    <3>3. TypeOK'
      BY <1>0, <2>1, <3>1, <3>2 DEF CalmInv, TypeOK, fifoVars, seqVars
    <3> QED
      BY <1>0, <2>1, <3>3 DEF CalmInv, NeverWaits, Relocking, Free
  <2>7. StaleInv'
    <3>1. \/ wowner' = wowner
          \/ wowner' = t /\ wowner = NoThread
      <4>1. wbit \/ wowner = NoThread
        BY DEF HoldInv, WriteInv, Writing, CalmInv, TypeOK
      <4> QED
        BY <1>0, <2>1, <4>1 DEF Take, TryRead, TryIntent, TryWrite, CanTryWrite, ownerVars
    <3> QED
      BY <1>0, <3>1, CalmFacts DEF StaleInv, seqVars
  <2> QED
    BY <2>5, <2>6, <2>7
<1>2. CASE ~Can(t, ty)
  <2>1. UNCHANGED <<readers, intent, wbit, ownerVars, cnt>> /\ pc' = [pc EXCEPT ![t] = "idle"]
    BY <1>2 DEF RelockTry, Goto
  <2>2. NobodyGains /\ SameClears
    BY <1>0, <2>1 DEF NobodyGains, SameClears, Own, Relocking
  <2>3. cnt \in [Threads -> Nat] /\ other \in [Threads -> Nat]
    BY DEF CalmInv, TypeOK
  <2>4. HoldInv'
    <3>1. \A u \in Threads : cnt'[u] = cnt[u] /\ other'[u] = other[u]
                             /\ cnt[u] \in Nat /\ other[u] \in Nat
      BY <1>0, <2>1, <2>3
    <3> QED
      BY <2>1, <2>2, <3>1, QuietStep
  <2>5. TypeOK'
    BY <1>0, <2>1 DEF CalmInv, TypeOK, fifoVars, seqVars, ownerVars
  <2>6. CalmInv'
    BY <1>0, <2>1, <2>5 DEF CalmInv, NeverWaits, Relocking, Free
  <2>7. StaleInv'
    BY <1>0, <2>1 DEF StaleInv, seqVars, ownerVars
  <2> QED
    BY <2>4, <2>6, <2>7
<1> QED
  BY <1>1, <1>2

LEMMA RecheckStep ==
  ASSUME TryInv, use' = use, NEW t \in Threads, Recheck(t)
  PROVE  TryInv' /\ (held'[t] # held[t] => ~stale[t])
         /\ \A u \in Threads \ {t} : held'[u] = held[u]
<1> USE DEF TryInv
<1> DEFINE ty == want[t]
<1>0. /\ pc[t] = "recheck" /\ ty \in use.wants[t] /\ ty \in Types /\ Free(t)
      /\ UNCHANGED <<wordVars, ownerVars, fifoVars, cnt, want, flag, token, seq, snap, other>>
      /\ held \in [Threads -> [Types -> Nat]]
      /\ pc \in [Threads -> {"idle", "undo", "wclear", "wake", "relock", "recheck", "downgrade"}]
      /\ cnt \in [Threads -> Nat] /\ other \in [Threads -> Nat]
      /\ stale \in [Threads -> BOOLEAN]
  BY DEF Recheck, CalmInv, TypeOK, Relocking
<1>1. CASE seq = snap[t]
  <2>1. /\ held' = [held EXCEPT ![t][ty] = @ + 1] /\ MarkWritten(t, ty)
        /\ pc' = [pc EXCEPT ![t] = "idle"]
    BY <1>1 DEF Recheck, Goto, Has, CallerHas
  <2>2. held'[t][ty] = held[t][ty] + 1
        /\ \A u \in Threads : \A b \in Types : u # t \/ b # ty => held'[u][b] = held[u][b]
    BY <1>0, <2>1
  <2>3. NobodyGains
    BY <1>0, <2>1, <2>2 DEF NobodyGains, Own, Relocking
  <2>4. SameClears
    BY <1>0, <2>1 DEF SameClears
  <2>5. HoldInv'
    BY <1>0, <2>3, <2>4, QuietStep DEF wordVars
  <2>6. TypeOK'
    BY <1>0, <2>1 DEF MarkWritten, CalmInv, TypeOK, wordVars, ownerVars, fifoVars
  <2>7. CalmInv'
    <3>1. ASSUME NEW u \in Threads, NEW b \in Types PROVE held'[u][b] <= use.hold
      BY <1>0, <2>2, CalmFacts DEF Free, CalmInv
    <3>2. \A u \in Threads : Relocking(u)' \/ pc'[u] = "relock" => Free(u)'
      BY <1>0, <2>1 DEF CalmInv, Relocking, Free
    <3> QED
      BY <1>0, <2>1, <2>6, <3>1, <3>2 DEF CalmInv, NeverWaits, Relocking, wordVars
  <2>8. ~stale[t] /\ (ty = "write" => wowner = t)
    <3>1. Own(t, ty) >= 1
      BY <1>0 DEF Own, Relocking
    <3>2. ASSUME stale[t] PROVE FALSE
      <4>1. wowner \in Threads \ {t}
        BY <1>1, <3>2 DEF StaleInv, CalmInv, TypeOK
      <4> QED
        BY <1>0, <3>1, <4>1 DEF HoldInv, WriteInv, Writing
    <3> QED
      BY <1>0, <3>1, <3>2 DEF HoldInv, WriteInv
  <2>9. StaleInv'
    BY <1>0, <2>1, <2>8, CalmFacts DEF StaleInv, MarkWritten, ownerVars
  <2> QED
    BY <1>0, <2>1, <2>5, <2>7, <2>8, <2>9
<1>2. CASE seq # snap[t]
  <2>1. held' = held /\ stale' = stale /\ pc' = [pc EXCEPT ![t] = "undo"]
    BY <1>2 DEF Recheck, Goto
  <2>2. NobodyGains /\ SameClears
    BY <1>0, <2>1 DEF NobodyGains, SameClears, Own, Relocking
  <2>3. HoldInv'
    BY <1>0, <2>2, QuietStep DEF wordVars
  <2>4. TypeOK'
    BY <1>0, <2>1 DEF CalmInv, TypeOK, wordVars, ownerVars, fifoVars
  <2>5. CalmInv'
    BY <1>0, <2>1, <2>4 DEF CalmInv, NeverWaits, Relocking, Free, wordVars
  <2>6. StaleInv'
    BY <1>0, <2>1 DEF StaleInv, ownerVars
  <2> QED
    BY <2>1, <2>3, <2>5, <2>6
<1> QED
  BY <1>1, <1>2

\* A thread that has cleared WRITE_BIT was the last that was writing.
LEMMA ClearStep ==
  ASSUME TryInv, use' = use, NEW t \in Threads, ClearWrite(t) PROVE TryInv'
<1> USE DEF TryInv
<1>0. /\ pc[t] = "wclear" /\ wbit' = FALSE
      /\ pc' = [pc EXCEPT ![t] = "wake"] /\ want' = [want EXCEPT ![t] = "read"]
      /\ UNCHANGED <<readers, intent, waiting, ownerVars, fifoVars, cnt, flag, token, seqVars,
                     held, other>>
      /\ pc \in [Threads -> {"idle", "undo", "wclear", "wake", "relock", "recheck", "downgrade"}]
      /\ want \in [Threads -> Types]
  BY DEF ClearWrite, WakeNext, Goto, CalmInv, TypeOK
<1>1. \A u \in Threads : \A b \in Types : Own(u, b)' = Own(u, b)
  BY <1>0 DEF Own, Relocking
<1>2. ReadInv'
  <2>1. IsFiniteSet(ReadLocks(Reading))' /\ (readers = Cardinality(ReadLocks(Reading)))'
    BY <1>0, <1>1, ReadStep
  <2> QED
    BY <1>0, <1>1, <2>1 DEF HoldInv, ReadInv
<1>3. IntentInv'
  BY <1>0, <1>1 DEF HoldInv, IntentInv, ownerVars
<1>4. WriteInv'
  <2>1. wowner = NoThread /\ \A u \in Threads \ {t} : pc[u] # "wclear"
    BY <1>0 DEF HoldInv, WriteInv, Writing
  <2>2. \A u \in Threads : ~Writing(u)'
    BY <1>0, <2>1, CalmFacts DEF Writing, ownerVars
  <2> QED
    BY <1>0, <1>1, <2>1, <2>2 DEF HoldInv, WriteInv, ownerVars
<1>5. TypeOK'
  BY <1>0 DEF CalmInv, TypeOK, ownerVars, fifoVars, seqVars
<1>6. CalmInv'
  BY <1>0, <1>5 DEF CalmInv, NeverWaits, Relocking, Free
<1>7. StaleInv'
  BY <1>0 DEF StaleInv, ownerVars, seqVars
<1> QED
  BY <1>2, <1>3, <1>4, <1>6, <1>7 DEF HoldInv

\* Steps that only move a thread, or note a seq.
LEMMA MoveStep ==
  ASSUME TryInv, use' = use, NEW t \in Threads, Wake(t) \/ RelockCheck(t) \/ Remember(t)
  PROVE  TryInv'
<1> USE DEF TryInv
<1>0. /\ pc \in [Threads -> {"idle", "undo", "wclear", "wake", "relock", "recheck", "downgrade"}]
      /\ want \in [Threads -> Types] /\ held \in [Threads -> [Types -> Nat]]
      /\ cnt \in [Threads -> Nat] /\ other \in [Threads -> Nat]
  BY DEF CalmInv, TypeOK
<1>1. CASE Wake(t)
  <2>1. /\ pc[t] = "wake" /\ pc' = [pc EXCEPT ![t] = "idle"]
        /\ UNCHANGED <<wordVars, ownerVars, fifoVars, cnt, want, flag, token, seqVars, held, other>>
    BY <1>1 DEF Wake, Goto, CalmInv
  <2>2. NobodyGains /\ SameClears
    BY <1>0, <2>1 DEF NobodyGains, SameClears, Own, Relocking
  <2>3. HoldInv'
    BY <1>0, <2>1, <2>2, QuietStep DEF wordVars
  <2>4. TypeOK'
    BY <1>0, <2>1 DEF CalmInv, TypeOK, wordVars, ownerVars, fifoVars, seqVars
  <2>5. CalmInv'
    BY <1>0, <2>1, <2>4 DEF CalmInv, NeverWaits, Relocking, Free, wordVars
  <2>6. StaleInv'
    BY <2>1 DEF StaleInv, ownerVars, seqVars
  <2> QED
    BY <2>3, <2>5, <2>6
<1>2. CASE RelockCheck(t)
  <2>1. PICK ty \in Types :
          /\ pc[t] = "idle" /\ Free(t) /\ ty \in use.wants[t]
          /\ pc' = [pc EXCEPT ![t] = "relock"] /\ want' = [want EXCEPT ![t] = ty]
          /\ UNCHANGED <<wordVars, ownerVars, fifoVars, cnt, flag, token, seqVars, held, other>>
    BY <1>2 DEF RelockCheck, Goto, Room
  <2>2. NobodyGains /\ SameClears
    BY <1>0, <2>1 DEF NobodyGains, SameClears, Own, Relocking
  <2>3. HoldInv'
    BY <1>0, <2>1, <2>2, QuietStep DEF wordVars
  <2>4. TypeOK'
    BY <1>0, <2>1 DEF CalmInv, TypeOK, wordVars, ownerVars, fifoVars, seqVars
  <2>5. CalmInv'
    BY <1>0, <2>1, <2>4 DEF CalmInv, NeverWaits, Relocking, Free, wordVars
  <2>6. StaleInv'
    BY <2>1 DEF StaleInv, ownerVars, seqVars
  <2> QED
    BY <2>3, <2>5, <2>6
<1>3. CASE Remember(t)
  <2>1. /\ snap' = [snap EXCEPT ![t] = seq] /\ stale' = [stale EXCEPT ![t] = FALSE]
        /\ UNCHANGED <<wordVars, ownerVars, fifoVars, cnt, waitVars, seq, held, other>>
    BY <1>3 DEF Remember
  <2>2. NobodyGains /\ SameClears
    BY <2>1 DEF NobodyGains, SameClears, Own, Relocking, waitVars
  <2>3. HoldInv'
    BY <1>0, <2>1, <2>2, QuietStep DEF wordVars
  <2>4. TypeOK'
    BY <1>0, <2>1 DEF CalmInv, TypeOK, wordVars, ownerVars, fifoVars, waitVars
  <2>5. CalmInv'
    BY <1>0, <2>1, <2>4 DEF CalmInv, NeverWaits, Relocking, Free, wordVars, waitVars
  <2>6. StaleInv'
    BY <2>1 DEF StaleInv, ownerVars, CalmInv, TypeOK
  <2> QED
    BY <2>3, <2>5, <2>6
<1> QED
  BY <1>1, <1>2, <1>3

\* What a thread reads elsewhere is only in its own count.
LEMMA ElsewhereStep ==
  ASSUME TryInv, use' = use, NEW t \in Threads, ReadElsewhere(t) \/ UnlockElsewhere(t)
  PROVE  TryInv'
<1> USE DEF TryInv
<1>0. /\ cnt \in [Threads -> Nat] /\ other \in [Threads -> Nat] /\ CntSize \in Nat
      /\ 2 * use.hold < CntSize /\ use.hold \in Nat /\ use.hold >= 1
      /\ \A u \in Threads : cnt[u] = Own(u, "read") + other[u] /\ Own(u, "read") \in Nat
      /\ Own(t, "read") <= use.hold
      /\ \A k \in 0..(CntSize - 1) : k % CntSize = k
  <2>1. /\ CntSize \in Nat /\ use.hold \in Nat /\ 2 * use.hold < CntSize
        /\ \A u \in Threads : Own(u, "read") \in Nat /\ Own(u, "read") <= use.hold
        /\ use.hold >= 1
    BY CalmFacts
  <2>2. \A k \in 0..(CntSize - 1) : k % CntSize = k
    BY <2>1
  <2>3. cnt \in [Threads -> Nat] /\ other \in [Threads -> Nat]
    BY DEF CalmInv, TypeOK
  <2> QED
    BY <2>1, <2>2, <2>3 DEF HoldInv, ReadInv
<1>1. \/ /\ t \in use.elsewhere /\ other[t] < use.hold
         /\ other' = [other EXCEPT ![t] = @ + 1] /\ cnt' = [cnt EXCEPT ![t] = @ + 1]
      \/ /\ other[t] > 0
         /\ other' = [other EXCEPT ![t] = @ - 1] /\ cnt' = [cnt EXCEPT ![t] = @ - 1]
  <2>1. CASE ReadElsewhere(t)
    <3>1. cnt[t] + 1 \in 0..(CntSize - 1)
      BY <1>0, <2>1 DEF ReadElsewhere
    <3>2. (cnt[t] + 1) % CntSize = cnt[t] + 1
      BY <1>0, <3>1
    <3> QED
      BY <2>1, <3>2 DEF ReadElsewhere
  <2>2. CASE UnlockElsewhere(t)
    <3>0. other[t] > 0 /\ other[t] <= use.hold
      BY <2>2 DEF UnlockElsewhere, CalmInv
    <3>1. cnt[t] - 1 \in 0..(CntSize - 1)
      BY <1>0, <3>0
    <3>2. (cnt[t] - 1) % CntSize = cnt[t] - 1
      BY <1>0, <3>1
    <3> QED
      BY <2>2, <3>2 DEF UnlockElsewhere
  <2> QED
    BY <2>1, <2>2
<1>2. UNCHANGED <<wordVars, ownerVars, fifoVars, waitVars, seqVars, held>>
  BY DEF ReadElsewhere, UnlockElsewhere
<1>3. cnt' \in [Threads -> Nat] /\ other' \in [Threads -> Nat]
      /\ \A u \in Threads : cnt'[u] - other'[u] = cnt[u] - other[u]
  BY <1>0, <1>1
<1>4. HoldInv'
  <2>1. NobodyGains /\ SameClears
    BY <1>2 DEF NobodyGains, SameClears, Own, Relocking, waitVars
  <2>2. \A u \in Threads : {cnt[u], cnt'[u], other[u], other'[u]} \subseteq Nat
    BY <1>0, <1>3
  <2> QED
    BY <1>2, <1>3, <2>1, <2>2, QuietStep DEF wordVars
<1>5. TypeOK'
  BY <1>2, <1>3 DEF CalmInv, TypeOK, wordVars, ownerVars, fifoVars, waitVars, seqVars
<1>6. CalmInv'
  <2>1. \A u \in Threads : other'[u] <= use.hold /\ (other'[u] > 0 => u \in use.elsewhere)
    BY <1>0, <1>1 DEF CalmInv
  <2> QED
    BY <1>2, <1>5, <2>1 DEF CalmInv, NeverWaits, Relocking, Free, wordVars, waitVars
<1>7. StaleInv'
  BY <1>2 DEF StaleInv, ownerVars, seqVars
<1> QED
  BY <1>4, <1>6, <1>7

-----------------------------------------------------------------------------
\* Upgrades and downgrades.  Who has the intent lock and finds no reader is alone.
LEMMA UpgradeToWriteStep ==
  ASSUME TryInv, use' = use, NEW t \in Threads, UpgradeToWrite(t) PROVE TryInv'
<1> USE DEF TryInv
<1>0. /\ pc[t] = "idle" /\ held[t].intent > 0 /\ readers = 0 /\ ~wbit
      /\ "write" \in use.wants[t] /\ held[t].write < use.hold
      /\ wbit' = TRUE /\ wowner' = t
      /\ held' = [held EXCEPT ![t]["write"] = @ + 1]
      /\ stale' = [u \in Threads |-> stale[u] \/ u # t]
      /\ UNCHANGED <<readers, intent, waiting, iowner, irec, wrec, fifoVars, cnt, waitVars, seq,
                     snap, other>>
      /\ held \in [Threads -> [Types -> Nat]]
  BY DEF UpgradeToWrite, Room, Has, CallerHas, MarkWritten, CalmInv, TypeOK
<1>1. Gains(t, "write") /\ SameClears
  <2>1. held'[t]["write"] = held[t]["write"] + 1
        /\ \A u \in Threads : \A b \in Types : u # t \/ b # "write" => held'[u][b] = held[u][b]
    BY <1>0
  <2> QED
    BY <1>0, <2>1 DEF Gains, OthersKeep, Own, Relocking, SameClears, waitVars
<1>2. /\ wowner = NoThread /\ wrec = 0
      /\ \A u \in Threads : pc'[u] # "wclear" /\ Own(u, "write") = 0
  <2>1. \A u \in Threads : ~Writing(u)
    BY <1>0 DEF HoldInv, WriteInv
  <2> QED
    BY <1>0, <2>1 DEF HoldInv, WriteInv, Writing, CalmInv, TypeOK, waitVars
<1>3. \A u \in Threads \ {t} : \A b \in Types : Own(u, b) = 0
  <2>1. Own(t, "intent") > 0
    BY <1>0 DEF Own, Relocking
  <2>2. \A u \in Threads \ {t} : Own(u, "intent") = 0
    BY <2>1, CalmFacts DEF HoldInv, IntentInv
  <2>3. \A u \in Threads : Own(u, "read") = 0
    <3>1. /\ Reading \in [Threads -> Nat] /\ \A u \in Threads : Reading[u] = Own(u, "read")
          /\ IsFiniteSet(ReadLocks(Reading)) /\ Cardinality(ReadLocks(Reading)) = 0
      BY <1>0, CalmFacts DEF HoldInv, ReadInv, Reading
    <3> QED
      BY <3>1, ReadersAtLeast
  <2> QED
    BY <1>2, <2>2, <2>3
<1>4. ReadInv'
  <2>1. IsFiniteSet(ReadLocks(Reading))' /\ (readers = Cardinality(ReadLocks(Reading)))'
    BY <1>0, <1>1, ReadStep DEF Gains, OthersKeep
  <2> QED
    BY <1>0, <1>1, <2>1 DEF HoldInv, ReadInv, Gains, OthersKeep
<1>5. IntentInv'
  BY <1>0, <1>1 DEF HoldInv, IntentInv, Gains, OthersKeep
<1>6. WriteInv'
  <2>1. Own(t, "write")' = 1 /\ \A u \in Threads \ {t} : \A b \in Types : Own(u, b)' = 0
    BY <1>1, <1>2, <1>3 DEF Gains, OthersKeep
  <2> QED
    BY <1>0, <1>2, <2>1, CalmFacts DEF WriteInv, Writing
<1>7. TypeOK'
  <2>1. held' \in [Threads -> [Types -> Nat]] /\ stale' \in [Threads -> BOOLEAN]
    BY <1>0
  <2>2. wbit' \in BOOLEAN /\ wowner' \in Threads \cup {NoThread}
    BY <1>0
  <2> QED
    BY <1>0, <2>1, <2>2 DEF CalmInv, TypeOK, fifoVars, waitVars
<1>8. CalmInv'
  <2>1. NeverWaits' /\ waiting' = {}
    BY <1>0 DEF CalmInv, NeverWaits
  <2>2. ASSUME NEW u \in Threads
        PROVE  /\ pc'[u] \in {"idle", "undo", "wclear", "wake", "relock", "recheck", "downgrade"}
               /\ Relocking(u)' \/ pc'[u] = "relock" => Free(u)' /\ want'[u] \in use'.wants[u]
               /\ other'[u] <= use'.hold /\ (other'[u] > 0 => u \in use'.elsewhere)
    <3>1. pc[u] \in {"recheck", "undo", "relock"} => u # t /\ held'[u] = held[u]
      BY <1>0
    <3> QED
      BY <1>0, <3>1 DEF CalmInv, Relocking, Free, waitVars
  <2>3. ASSUME NEW u \in Threads, NEW ty \in Types PROVE held'[u][ty] <= use'.hold
    <3>1. held'[u][ty] = IF u = t /\ ty = "write" THEN held[u][ty] + 1 ELSE held[u][ty]
      BY <1>0
    <3> QED
      BY <1>0, <3>1, CalmFacts DEF CalmInv
  <2> QED
    BY <1>7, <2>1, <2>2, <2>3 DEF CalmInv
<1>9. StaleInv'
  BY <1>0, <1>2, CalmFacts DEF StaleInv
<1> QED
  BY <1>4, <1>5, <1>6, <1>8, <1>9 DEF HoldInv

LEMMA DowngradeStep ==
  ASSUME TryInv, use' = use, NEW t \in Threads, DowngradeToRead(t) PROVE TryInv'
<1> USE DEF TryInv
<1>0. /\ pc[t] = "idle" /\ held[t].intent = 1 /\ held[t].read < use.hold
      /\ readers' = readers + 1 /\ cnt' = [cnt EXCEPT ![t] = (@ + 1) % CntSize]
      /\ held' = [held EXCEPT ![t]["read"] = @ + 1]
      /\ pc' = [pc EXCEPT ![t] = "downgrade"]
      /\ UNCHANGED <<intent, wbit, waiting, ownerVars, fifoVars, want, flag, token, seqVars, other>>
      /\ held \in [Threads -> [Types -> Nat]] /\ cnt \in [Threads -> Nat]
      /\ readers \in Nat /\ pc = [u \in Threads |-> pc[u]]
  BY DEF DowngradeToRead, CallerHas, Goto, Room, CalmInv, TypeOK
<1>1. /\ held'[t].intent = held[t].intent /\ held'[t].read = held[t].read + 1
      /\ held'[t].write = held[t].write
      /\ \A u \in Threads \ {t} : held'[u] = held[u] /\ pc'[u] = pc[u]
      /\ held' \in [Threads -> [Types -> Nat]] /\ pc'[t] = "downgrade"
  BY <1>0
<1>2. /\ Own(t, "intent") = 1 /\ Own(t, "intent")' = Own(t, "intent")
      /\ Own(t, "read")' = Own(t, "read") + 1 /\ Own(t, "write")' = Own(t, "write")
      /\ \A u \in Threads \ {t} : \A b \in Types : Own(u, b)' = Own(u, b)
  BY <1>0, <1>1 DEF Own, Relocking
<1>4. \A u \in Threads \ {t} : ~Writing(u)
  BY <1>2 DEF HoldInv, WriteInv
<1>5. cnt' = [cnt EXCEPT ![t] = @ + 1]
  <2>0. /\ cnt[t] = Own(t, "read") + other[t] /\ Own(t, "read") = held[t].read
        /\ held[t].read \in Nat /\ other[t] \in Nat /\ other[t] <= use.hold
        /\ use.hold \in Nat /\ CntSize \in Nat /\ 2 * use.hold < CntSize
    BY <1>0, CalmFacts DEF HoldInv, ReadInv, CalmInv, TypeOK, Own, Relocking
  <2>1. cnt[t] + 1 \in 0..(CntSize - 1) /\ CntSize \in Nat \ {0}
    BY <1>0, <2>0
  <2>2. (cnt[t] + 1) % CntSize = cnt[t] + 1
    <3>1. \A n \in Nat \ {0} : \A m \in 0..(n - 1) : m % n = m
      OBVIOUS
    <3> QED
      BY <2>1, <3>1
  <2> QED
    BY <1>0, <2>2
<1>6. ReadInv'
  <2>1. IsFiniteSet(ReadLocks(Reading))' /\ (readers = Cardinality(ReadLocks(Reading)))'
    BY <1>0, <1>2, ReadStep
  <2>2. \A u \in Threads : cnt'[u] = Own(u, "read")' + other'[u]
    BY <1>0, <1>2, <1>5, CalmFacts DEF HoldInv, ReadInv, CalmInv, TypeOK
  <2> QED
    BY <2>1, <2>2 DEF ReadInv
<1>7. IntentInv'
  BY <1>0, <1>2, CalmFacts DEF HoldInv, IntentInv, ownerVars
<1>8. WriteInv'
  BY <1>0, <1>1, <1>2, <1>4 DEF HoldInv, WriteInv, Writing, ownerVars
<1>9. TypeOK'
  BY <1>0, <1>1, <1>5 DEF CalmInv, TypeOK, fifoVars, seqVars, ownerVars
<1>10. CalmInv'
  <2>1. \A u \in Threads : \A b \in Types : held'[u][b] <= use.hold
    BY <1>0, <1>1, CalmFacts DEF CalmInv
  <2> QED
    BY <1>0, <1>1, <1>9, <2>1 DEF CalmInv, NeverWaits, Relocking, Free
<1>11. StaleInv'
  BY <1>0 DEF StaleInv, seqVars, ownerVars
<1> QED
  BY <1>6, <1>7, <1>8, <1>10, <1>11 DEF HoldInv

LEMMA DowngradeEndStep ==
  ASSUME TryInv, DownInv, use' = use, NEW t \in Threads, DowngradeEnd(t) PROVE TryInv'
<1> USE DEF TryInv
<1>0. /\ pc[t] = "downgrade" /\ held[t].intent = 1
      /\ intent' = FALSE /\ iowner' = NoThread
      /\ held' = [held EXCEPT ![t]["intent"] = @ - 1]
      /\ pc' = [pc EXCEPT ![t] = "idle"]
      /\ UNCHANGED <<readers, wbit, waiting, irec, wowner, wrec, fifoVars, cnt, want, flag, token,
                     seqVars, other>>
      /\ held \in [Threads -> [Types -> Nat]] /\ pc = [u \in Threads |-> pc[u]] /\ irec \in Nat
  BY DEF DowngradeEnd, Goto, DownInv, CalmInv, TypeOK
<1>1. /\ held'[t].intent = 0 /\ held'[t].read = held[t].read /\ held'[t].write = held[t].write
      /\ \A u \in Threads \ {t} : held'[u] = held[u] /\ pc'[u] = pc[u]
      /\ held' \in [Threads -> [Types -> Nat]] /\ pc'[t] = "idle"
  BY <1>0
<1>2. /\ Own(t, "intent") = 1 /\ Own(t, "intent")' = 0
      /\ Own(t, "read")' = Own(t, "read") /\ Own(t, "write")' = Own(t, "write")
      /\ \A u \in Threads \ {t} : \A b \in Types : Own(u, b)' = Own(u, b)
  BY <1>0, <1>1 DEF Own, Relocking
<1>3. iowner = t /\ irec = 0
  BY <1>0, <1>2 DEF HoldInv, IntentInv
<1>6. ReadInv'
  <2>1. IsFiniteSet(ReadLocks(Reading))' /\ (readers = Cardinality(ReadLocks(Reading)))'
    BY <1>0, <1>2, ReadStep
  <2> QED
    BY <1>0, <1>2, <2>1 DEF HoldInv, ReadInv
<1>7. IntentInv'
  BY <1>0, <1>2, <1>3, CalmFacts DEF HoldInv, IntentInv
<1>8. WriteInv'
  <2>1. \A u \in Threads : Writing(u)' <=> Writing(u)
    BY <1>0, <1>1 DEF Writing
  <2> QED
    BY <1>0, <1>1, <1>2, <2>1 DEF HoldInv, WriteInv
<1>9. TypeOK'
  BY <1>0, <1>1 DEF CalmInv, TypeOK, fifoVars, seqVars
<1>10. CalmInv'
  <2>1. \A u \in Threads : \A b \in Types : held'[u][b] <= use.hold
    BY <1>0, <1>1, CalmFacts DEF CalmInv
  <2> QED
    BY <1>0, <1>1, <1>9, <2>1 DEF CalmInv, NeverWaits, Relocking, Free
<1>11. StaleInv'
  BY <1>0 DEF StaleInv, seqVars
<1> QED
  BY <1>6, <1>7, <1>8, <1>10, <1>11 DEF HoldInv

LEMMA UpgradeToIntentStep ==
  ASSUME TryInv, use' = use, NEW t \in Threads, UpgradeToIntent(t) PROVE TryInv'
<1> USE DEF TryInv
<1>0. /\ pc[t] = "idle" /\ held[t].read > 0 /\ held[t].intent < use.hold
      /\ ~intent /\ ~wbit
      /\ readers' = readers - 1 /\ cnt' = [cnt EXCEPT ![t] = (@ - 1) % CntSize]
      /\ intent' = TRUE /\ iowner' = t
      /\ held' = [held EXCEPT ![t].intent = @ + 1, ![t].read = @ - 1]
      /\ UNCHANGED <<wbit, waiting, irec, wowner, wrec, fifoVars, waitVars, seqVars, other>>
      /\ held \in [Threads -> [Types -> Nat]] /\ cnt \in [Threads -> Nat]
      /\ readers \in Nat /\ irec \in Nat /\ other \in [Threads -> Nat]
  BY DEF UpgradeToIntent, IntentOpen, Room, CalmInv, TypeOK
<1>1. /\ held'[t].intent = held[t].intent + 1 /\ held'[t].read = held[t].read - 1
      /\ held'[t].write = held[t].write
      /\ \A u \in Threads \ {t} : held'[u] = held[u]
      /\ held' \in [Threads -> [Types -> Nat]]
  BY <1>0
<1>2. iowner = NoThread /\ irec = 0 /\ \A u \in Threads : Own(u, "intent") = 0
  BY <1>0, CalmFacts DEF HoldInv, IntentInv
<1>3. /\ Own(t, "intent")' = 1
      /\ Own(t, "read") >= 1 /\ Own(t, "read")' = Own(t, "read") - 1
      /\ Own(t, "write")' = Own(t, "write")
      /\ \A u \in Threads \ {t} : \A b \in Types : Own(u, b)' = Own(u, b)
  <2>1. Own(t, "intent") = held[t].intent /\ Own(t, "read") = held[t].read
        /\ ~Relocking(t) /\ pc' = pc /\ want' = want
    BY <1>0 DEF Own, Relocking, waitVars
  <2> QED
    BY <1>0, <1>1, <1>2, <2>1 DEF Own, Relocking
<1>4. \A u \in Threads : ~Writing(u)
  BY <1>0 DEF HoldInv, WriteInv
<1>5. cnt' = [cnt EXCEPT ![t] = @ - 1] /\ cnt[t] >= 1
  <2>1. cnt[t] = Own(t, "read") + other[t] /\ Own(t, "read") <= use.hold /\ other[t] <= use.hold
        /\ use.hold \in Nat /\ CntSize \in Nat /\ 2 * use.hold < CntSize /\ Own(t, "read") \in Nat
    BY CalmFacts DEF HoldInv, ReadInv, CalmInv
  <2>2. cnt[t] - 1 \in 0..(CntSize - 1)
    BY <1>0, <1>3, <2>1
  <2>3. (cnt[t] - 1) % CntSize = cnt[t] - 1
    BY <2>1, <2>2
  <2> QED
    BY <1>0, <2>2, <2>3
<1>6. ReadInv'
  <2>1. IsFiniteSet(ReadLocks(Reading))' /\ (readers = Cardinality(ReadLocks(Reading)))'
    BY <1>0, <1>3, ReadStep
  <2>2. \A u \in Threads : cnt'[u] = Own(u, "read")' + other'[u]
    BY <1>0, <1>3, <1>5, CalmFacts DEF HoldInv, ReadInv
  <2> QED
    BY <2>1, <2>2 DEF ReadInv
<1>7. IntentInv'
  BY <1>0, <1>2, <1>3, CalmFacts DEF IntentInv
<1>8. WriteInv'
  BY <1>0, <1>3, <1>4 DEF HoldInv, WriteInv, Writing, waitVars
<1>9. TypeOK'
  <2>1. readers' \in Nat
    BY <1>6, FS_CardinalityType DEF ReadInv
  <2>2. cnt' \in [Threads -> Nat]
    BY <1>0, <1>5
  <2> QED
    BY <1>0, <1>1, <2>1, <2>2 DEF CalmInv, TypeOK, fifoVars, waitVars, seqVars
<1>10. CalmInv'
  <2>1. \A u \in Threads : \A b \in Types : held'[u][b] <= use.hold
    BY <1>0, <1>1, CalmFacts DEF CalmInv
  <2> QED
    BY <1>0, <1>1, <1>9, <2>1 DEF CalmInv, NeverWaits, Relocking, Free, waitVars
<1>11. StaleInv'
  BY <1>0 DEF StaleInv, seqVars
<1> QED
  BY <1>6, <1>7, <1>8, <1>10, <1>11 DEF HoldInv

-----------------------------------------------------------------------------
LEMMA TryInit == Init /\ NeverWaits => TryInv
<1> SUFFICES ASSUME Init, NeverWaits PROVE TryInv
  OBVIOUS
<1>1. /\ use \in Uses /\ use.hold \in Nat /\ FifoSize \in Nat \ {0}
  BY UseAssumption, BoundAssumption DEF Init, Use
<1>2. TypeOK
  <2>1. fifo \in [Slots -> Threads \cup {NoThread}] /\ nextFree \in Slots
    BY <1>1 DEF Init, Slots
  <2>2. held \in [Threads -> [Types -> Nat]]
    BY DEF Init
  <2> QED
    BY <1>1, <2>1, <2>2 DEF Init, TypeOK, NoSeq
<1>3. CalmInv
  BY <1>1, <1>2 DEF Init, CalmInv, Relocking
<1>4. \A t \in Threads : \A ty \in Types : Own(t, ty) = 0
  BY DEF Init, Own, Relocking
<1>5. ReadInv
  <2>1. ReadLocks(Reading) = {}
    BY <1>4 DEF ReadLocks, Reading
  <2> QED
    BY <1>4, <2>1, FS_EmptySet DEF Init, ReadInv
<1>6. IntentInv /\ WriteInv /\ StaleInv
  BY <1>4, ThreadAssumption DEF Init, IntentInv, WriteInv, Writing, StaleInv, NoSeq
<1> QED
  BY <1>3, <1>5, <1>6 DEF TryInv, HoldInv

LEMMA TryStep == TryInv /\ DownInv /\ [Next]_vars => TryInv'
<1> SUFFICES ASSUME TryInv, DownInv, [Next]_vars PROVE TryInv'
  OBVIOUS
<1>1. CASE UNCHANGED vars
  BY <1>1 DEF vars, wordVars, ownerVars, fifoVars, waitVars, seqVars, TryInv, CalmInv, TypeOK,
     NeverWaits, HoldInv, ReadInv, IntentInv, WriteInv, StaleInv, Own, Relocking, Writing, Free,
     Reading, ReadLocks
<1>2. CASE Next
  <2>1. PICK t \in Threads :
          \/ Lock(t) \/ EnterSlow(t) \/ Waits(t)
          \/ Unlock(t) \/ Wakes(t) \/ Rises(t) \/ Again(t)
          \/ ReadElsewhere(t) \/ UnlockElsewhere(t)
    BY <1>2 DEF Next
  <2>2. use' = use
    BY <1>2 DEF Next
  <2>3. pc[t] \in {"idle", "undo", "wclear", "wake", "relock", "recheck", "downgrade"} /\ ~use.slow
    BY DEF TryInv, CalmInv, NeverWaits
  <2>4. ~EnterSlow(t) /\ ~Waits(t) /\ ~Waking(t)
    BY <2>3 DEF EnterSlow, Waits, Preset, PresetTry, Push, Unpark, WokenTry, Leave, Waking
  <2>5. CASE Wakes(t)
    BY <2>2, <2>4, <2>5, ClearStep, MoveStep, UndoStep DEF Wakes
  <2>6. CASE Rises(t)
    BY <2>2, <2>6, UpgradeToWriteStep, DowngradeStep, DowngradeEndStep, UpgradeToIntentStep DEF Rises
  <2>7. CASE Again(t)
    BY <2>2, <2>7, MoveStep, RelockTryStep, RecheckStep DEF Again
  <2> QED
    BY <2>1, <2>2, <2>4, <2>5, <2>6, <2>7, LockStep, UnlockStep, ElsewhereStep
<1> QED
  BY <1>1, <1>2

\* Only its own thread moves a downgrade on.
LEMMA DownStep == TryInv /\ DownInv /\ [Next]_vars => DownInv'
<1> SUFFICES ASSUME TryInv, DownInv, [Next]_vars, NEW t \in Threads, pc'[t] = "downgrade"
             PROVE  held'[t].intent = 1
  BY DEF DownInv
<1>0. /\ held \in [Threads -> [Types -> Nat]] /\ pc = [u \in Threads |-> pc[u]]
      /\ \A u \in Threads : ~EnterSlow(u) /\ ~Waits(u) /\ ~Waking(u)
  BY DEF TryInv, CalmInv, TypeOK, NeverWaits, EnterSlow, Waits, Preset, PresetTry, Push, Unpark,
     WokenTry, Leave, Waking
<1>1. CASE UNCHANGED vars
  BY <1>1 DEF vars, waitVars, DownInv
<1>2. ASSUME NEW u \in Threads,
             \/ Lock(u) \/ Unlock(u) \/ ClearWrite(u) \/ Wake(u) \/ Undo(u) \/ Rises(u) \/ Again(u)
             \/ ReadElsewhere(u) \/ UnlockElsewhere(u)
      PROVE  held'[t].intent = 1
  <2>1. CASE u # t
    <3>1. pc'[t] = pc[t]
      BY <1>0, <1>2, <2>1 DEF Lock, Unlock, ClearWrite, Wake, Undo, Release, WakeNext, Goto, Rises,
         UpgradeToWrite, DowngradeToRead, DowngradeEnd, UpgradeToIntent, Again, Remember, RelockCheck,
         RelockTry, Recheck, ReadElsewhere, UnlockElsewhere, waitVars
    <3>2. held'[t] = held[t]
      BY <1>0, <1>2, <2>1 DEF Lock, Has, CallerHas, Unlock, ClearWrite, Wake, Undo, Rises,
         UpgradeToWrite, DowngradeToRead, DowngradeEnd, UpgradeToIntent, Again, Remember, RelockCheck,
         RelockTry, Recheck, ReadElsewhere, UnlockElsewhere
    <3> QED
      BY <3>1, <3>2 DEF DownInv
  <2>2. CASE u = t
    <3>1. DowngradeToRead(t)
      BY <1>0, <1>2, <2>2 DEF Lock, Unlock, ClearWrite, Wake, Undo, Release, WakeNext, Goto, Rises,
         UpgradeToWrite, DowngradeEnd, UpgradeToIntent, Again, Remember, RelockCheck,
         RelockTry, Recheck, ReadElsewhere, UnlockElsewhere, waitVars
    <3> QED
      BY <1>0, <3>1 DEF DowngradeToRead, CallerHas
  <2> QED
    BY <2>1, <2>2
<1> QED
  BY <1>0, <1>1, <1>2 DEF Next, Wakes

LEMMA TryAlways == Spec /\ NeverWaits => []TryInv
<1>1. Init => DownInv
  BY DEF Init, DownInv
<1> QED
  BY <1>1, TryInit, TryStep, DownStep, PTL DEF Spec

-----------------------------------------------------------------------------
\* Two threads never hold types that conflict, whichever way each got its own: a try,
\* an upgrade, a downgrade or a relock.
THEOREM Exclusion == Spec /\ NeverWaits => []MutualExclusion
<1>1. TryInv => MutualExclusion
  <2> SUFFICES ASSUME TryInv, NEW t \in Threads, NEW u \in Threads, t # u,
                      NEW a \in Types, NEW b \in Types, held[t][a] > 0, held[u][b] > 0,
                      Conflicts(a, b)
               PROVE  FALSE
    BY DEF MutualExclusion
  <2>1. Own(t, a) > 0 /\ Own(u, b) > 0
    BY CalmFacts DEF TryInv, CalmInv, TypeOK
  <2>2. CASE a = "write"
    BY <2>1, <2>2 DEF TryInv, HoldInv, WriteInv, Writing
  <2>3. CASE b = "write"
    BY <2>1, <2>3 DEF TryInv, HoldInv, WriteInv, Writing
  <2>4. CASE a = "intent" /\ b = "intent"
    BY <2>1, <2>4 DEF TryInv, HoldInv, IntentInv
  <2> QED
    BY <2>2, <2>3, <2>4 DEF Conflicts
<1> QED
  BY <1>1, TryAlways, PTL

\* The counts are what is held, and a lock that everybody has given back is free.
THEOREM CountsExact == Spec /\ NeverWaits => []CountsHeld
<1>1. TryInv => CountsHeld
  <2> SUFFICES ASSUME TryInv PROVE ReadCntIsHeld /\ FreeAtRest
    BY DEF CountsHeld
  <2>1. ReadCntIsHeld
    BY DEF ReadCntIsHeld, TryInv, CalmInv, HoldInv, ReadInv, Own, Relocking, TypeOK
  <2>2. ASSUME \A t \in Threads : pc[t] = "idle" /\ Free(t)
        PROVE  /\ readers = 0 /\ ~intent /\ ~wbit
               /\ iowner = NoThread /\ wowner = NoThread /\ irec = 0 /\ wrec = 0
    <3>1. \A t \in Threads : \A ty \in Types : Own(t, ty) = 0
      BY <2>2 DEF Own, Relocking, Free
    <3>2. readers = 0
      <4>1. /\ Reading \in [Threads -> Nat] /\ \A t \in Threads : Reading[t] = 0
            /\ IsFiniteSet(ReadLocks(Reading)) /\ readers = Cardinality(ReadLocks(Reading))
        BY <3>1, CalmFacts DEF TryInv, HoldInv, ReadInv, Reading
      <4> QED
        BY <4>1, ReadersAtLeast
    <3>3. irec \in Nat /\ wrec \in Nat /\ iowner \in Threads \cup {NoThread}
          /\ wowner \in Threads \cup {NoThread}
      BY DEF TryInv, CalmInv, TypeOK
    <3>4. iowner = NoThread /\ irec = 0 /\ ~intent
      BY <3>1, <3>3 DEF TryInv, HoldInv, IntentInv
    <3>5. wowner = NoThread /\ wrec = 0
      BY <3>1, <3>3 DEF TryInv, HoldInv, WriteInv
    <3>6. ~wbit
      BY <2>2, <3>5, CalmFacts DEF TryInv, HoldInv, WriteInv, Writing
    <3> QED
      BY <3>2, <3>4, <3>5, <3>6
  <2> QED
    BY <2>1, <2>2 DEF FreeAtRest
<1> QED
  BY <1>1, TryAlways, PTL

\* A relock succeeds only if no other thread has had the write lock since the seq
\* was noted.
THEOREM RelocksSound == Spec /\ NeverWaits => RelockSound
<1>1. ASSUME TryInv, [Next]_vars, NEW t \in Threads, pc[t] = "recheck", held'[t] # held[t]
      PROVE  ~stale[t]
  <2>1. Next /\ use' = use
    BY <1>1 DEF vars, Next
  <2>2. PICK u \in Threads :
          \/ Lock(u) \/ EnterSlow(u) \/ Waits(u)
          \/ Unlock(u) \/ Wakes(u) \/ Rises(u) \/ Again(u)
          \/ ReadElsewhere(u) \/ UnlockElsewhere(u)
    BY <2>1 DEF Next
  <2>3. CASE u = t
    <3>1. Recheck(t)
      BY <1>1, <2>2, <2>3 DEF Lock, EnterSlow, Waits, Preset, PresetTry, Push, Unpark, WokenTry,
         Leave, Unlock, Wakes, ClearWrite, Wake, Waking, Undo, Rises, UpgradeToWrite,
         DowngradeToRead, DowngradeEnd, UpgradeToIntent, Again, Remember, RelockCheck, RelockTry,
         ReadElsewhere, UnlockElsewhere
    <3> QED
      BY <1>1, <2>1, <3>1, RecheckStep
  <2>4. CASE u # t
    <3>1. held \in [Threads -> [Types -> Nat]]
          /\ ~Waits(u) /\ ~EnterSlow(u) /\ ~Waking(u)
      BY <1>1 DEF TryInv, CalmInv, TypeOK, NeverWaits, EnterSlow, Waits, Preset, PresetTry, Push,
         Unpark, WokenTry, Leave, Waking
    <3>2. held'[t] = held[t]
      BY <1>1, <2>1, <2>2, <2>4, <3>1, RecheckStep DEF Lock, Has, CallerHas, Unlock, Wakes,
         ClearWrite, Wake, Undo, Rises, UpgradeToWrite, DowngradeToRead, DowngradeEnd, UpgradeToIntent, Again,
         Remember, RelockCheck, RelockTry, ReadElsewhere, UnlockElsewhere
    <3> QED
      BY <1>1, <3>2
  <2> QED
    BY <2>3, <2>4
<1>2. TryInv /\ [Next]_vars => [\A t \in Threads : pc[t] = "recheck" /\ held'[t] # held[t] => ~stale[t]]_vars
  BY <1>1
<1> QED
  BY <1>2, TryAlways, PTL DEF Spec, RelockSound

-----------------------------------------------------------------------------
(* Threads that wait.  When there is a slot for each thread, none sleeps where *)
(* no unlock would look for it, whatever they do with the lock.              *)

RoomForAll == Cardinality(Threads) <= FifoSize

InFifo(t) == \E i \in Slots : fifo[i] = t

\* What is in the fifo is there once, and is a thread that has parked and has not left;
\* who was not handed the lock is in it as long as it waits.
QueueInv ==
  /\ pc = [t \in Threads |-> pc[t]] /\ flag \in [Threads -> BOOLEAN]
  /\ fifo \in [Slots -> Threads \cup {NoThread}] /\ nextFree \in Slots
  /\ \A i, j \in Slots : fifo[i] = fifo[j] /\ fifo[i] # NoThread => i = j
  /\ \A i \in Slots : fifo[i] # NoThread => pc[fifo[i]] \in {"parked", "woken", "leave"}
  /\ \A t \in Threads : pc[t] \in {"parked", "woken"} /\ ~flag[t] => InFifo(t)

\* An injection of the slots into the other threads would be one too many.
LEMMA SlotForThread ==
  ASSUME QueueInv, RoomForAll, NEW t \in Threads, ~InFifo(t) PROVE EmptySlots # {}
<1> SUFFICES ASSUME EmptySlots = {} PROVE FALSE
  OBVIOUS
<1>1. fifo \in [Slots -> Threads \ {t}]
  BY DEF QueueInv, InFifo, EmptySlots
<1>2. fifo \in Injection(Slots, Threads \ {t})
  BY <1>1, ThreadAssumption DEF QueueInv, Injection, IsInjective
<1>3. /\ IsFiniteSet(Threads \ {t}) /\ Cardinality(Threads \ {t}) = Cardinality(Threads) - 1
      /\ Cardinality(Threads) \in Nat
  BY ThreadAssumption, FS_RemoveElement, FS_CardinalityType
<1>4. Cardinality(Slots) = FifoSize
  <2>1. FifoSize - 1 \in Nat /\ ~(0 > FifoSize - 1) /\ FifoSize - 1 - 0 + 1 = FifoSize
    BY BoundAssumption
  <2> QED
    BY <2>1, FS_Interval DEF Slots
<1>5. Cardinality(Slots) <= Cardinality(Threads \ {t})
  BY <1>2, <1>3, FS_Injection
<1> QED
  BY <1>3, <1>4, <1>5, BoundAssumption DEF RoomForAll

\* push finds an empty slot when there is one.
LEMMA PushSlotIsEmpty ==
  ASSUME nextFree \in Slots, EmptySlots # {} PROVE PushSlot \in EmptySlots /\ PushSlot \in Slots
<1> DEFINE D(i) == (i - nextFree) % FifoSize
           T == {D(i) : i \in EmptySlots}
<1>0. FifoSize \in Nat /\ FifoSize > 0 /\ EmptySlots \subseteq Slots /\ Slots \subseteq Int
  BY BoundAssumption DEF EmptySlots, Slots
<1>1. \A i \in EmptySlots : D(i) \in Nat /\ D(i) \in T
  <2>1. \A i \in Int : i % FifoSize \in Nat
    BY <1>0
  <2> QED
    BY <1>0, <2>1
<1>2. \A x \in T : \E i \in EmptySlots : x = D(i)
  OBVIOUS
<1> HIDE DEF T, D
<1>3. T \subseteq Nat /\ T # {}
  BY <1>1, <1>2
<1>4. PICK x \in T : \A y \in T : ~(<<y, x>> \in OpToRel(<, Nat))
  BY <1>3, NatLessThanWellFounded, WFMin, Zenon
<1>5. ASSUME NEW y \in T PROVE x <= y
  <2>1. x \in Nat /\ y \in Nat
    BY <1>3
  <2>2. ~(<<y, x>> \in {ss \in Nat \X Nat : ss[1] < ss[2]})
    BY <1>4 DEF OpToRel
  <2>3. ~(y < x)
    BY <2>1, <2>2
  <2> QED
    BY <2>1, <2>3
<1>6. PICK i \in EmptySlots : x = D(i)
  BY <1>2
<1>7. \A j \in EmptySlots : D(i) <= D(j)
  BY <1>1, <1>5, <1>6
<1>8. \E k \in EmptySlots : \A j \in EmptySlots :
        (k - nextFree) % FifoSize <= (j - nextFree) % FifoSize
  BY <1>7 DEF D
<1> QED
  BY <1>0, <1>8 DEF PushSlot

\* Steps that leave the fifo and the flags alone and do not make anybody park or leave.
LEMMA QueueKept ==
  ASSUME QueueInv, NEW t \in Threads, NEW w,
         UNCHANGED <<fifo, nextFree, flag>>, pc' = [pc EXCEPT ![t] = w],
         \/ ~InFifo(t) /\ w \notin {"parked", "woken"}
         \/ pc[t] \in {"parked", "woken"} /\ w \in {"parked", "woken", "leave"}
         \/ w = pc[t]
  PROVE  QueueInv'
<1>1. pc' = [u \in Threads |-> pc'[u]] /\ \A u \in Threads \ {t} : pc'[u] = pc[u]
  BY DEF QueueInv
<1>2. pc'[t] = w
  BY DEF QueueInv
<1>3. \A i \in Slots : fifo[i] # NoThread => pc'[fifo[i]] \in {"parked", "woken", "leave"}
  BY <1>1, <1>2 DEF QueueInv, InFifo
<1>4. \A u \in Threads : pc'[u] \in {"parked", "woken"} /\ ~flag[u] => InFifo(u)
  BY <1>1, <1>2 DEF QueueInv
<1> QED
  BY <1>1, <1>3, <1>4 DEF QueueInv, InFifo

\* Who is not waiting is not in the fifo.
LEMMA Outside ==
  ASSUME QueueInv, NEW t \in Threads, pc[t] \notin {"parked", "woken", "leave"} PROVE ~InFifo(t)
BY ThreadAssumption DEF QueueInv, InFifo

\* A thread begins to wait.
LEMMA EnterQueueStep ==
  ASSUME QueueInv, NEW t \in Threads, EnterSlow(t) PROVE QueueInv'
<1>1. PICK ty \in Types :
        /\ pc[t] = "idle" /\ flag' = [flag EXCEPT ![t] = FALSE]
        /\ pc' = [pc EXCEPT ![t] = IF ty = "write" THEN "preset" ELSE "push"]
        /\ UNCHANGED <<fifo, nextFree>>
  BY DEF EnterSlow, Goto, fifoVars
<1> PICK w \in {"preset", "push"} : pc' = [pc EXCEPT ![t] = w]
  BY <1>1
<1>2. ~InFifo(t)
  BY <1>1, Outside
<1>3. /\ pc' = [u \in Threads |-> pc'[u]] /\ flag' \in [Threads -> BOOLEAN]
      /\ pc'[t] = w
      /\ \A u \in Threads \ {t} : pc'[u] = pc[u] /\ flag'[u] = flag[u]
  BY <1>1 DEF QueueInv
<1>4. \A i \in Slots : fifo[i] # NoThread => fifo[i] \in Threads \ {t}
  BY <1>2 DEF QueueInv, InFifo
<1> QED
  BY <1>1, <1>3, <1>4 DEF QueueInv, InFifo

\* It gets the lock under wait_lock after all, or a slot, and parks.
LEMMA PushQueueStep ==
  ASSUME QueueInv, RoomForAll, NEW t \in Threads, Push(t) PROVE QueueInv'
<1>1. ~InFifo(t) /\ pc[t] = "push"
  BY Outside DEF Push
<1>2. CASE CanSlow(t, want[t])
  <2>1. UNCHANGED <<fifo, nextFree, flag>> /\ pc' = [pc EXCEPT ![t] = "idle"]
    BY <1>2 DEF Push, Goto, fifoVars
  <2> QED
    BY <1>1, <2>1, QueueKept
<1>3. CASE ~CanSlow(t, want[t])
  <2>1. EmptySlots # {}
    BY <1>1, SlotForThread
  <2>2. PushSlot \in Slots /\ fifo[PushSlot] = NoThread
    BY <2>1, PushSlotIsEmpty DEF EmptySlots, QueueInv
  <2>3. /\ fifo' = [fifo EXCEPT ![PushSlot] = t] /\ nextFree' = (PushSlot + 1) % FifoSize
        /\ pc' = [pc EXCEPT ![t] = "parked"] /\ flag' = flag
    BY <1>3, <2>1 DEF Push, Goto
  <2> DEFINE k == PushSlot
  <2>4. nextFree' \in Slots
    <3>1. PushSlot + 1 \in Int /\ FifoSize \in Nat /\ FifoSize > 0
      BY <2>2, BoundAssumption DEF Slots
    <3>2. \A x \in Int : x % FifoSize \in 0..(FifoSize - 1)
      BY <3>1
    <3> QED
      BY <2>3, <3>1, <3>2 DEF Slots
  <2> HIDE DEF k
  <2>5. /\ fifo' \in [Slots -> Threads \cup {NoThread}]
        /\ k \in Slots /\ fifo'[k] = t
        /\ \A i \in Slots \ {k} : fifo'[i] = fifo[i]
    BY <2>2, <2>3 DEF QueueInv, k
  <2>6. pc' = [u \in Threads |-> pc'[u]] /\ pc'[t] = "parked" /\ \A u \in Threads \ {t} : pc'[u] = pc[u]
    BY <2>3 DEF QueueInv
  <2>7. \A i \in Slots : fifo[i] # t
    BY <1>1 DEF InFifo
  <2>8. \A i, j \in Slots : fifo'[i] = fifo'[j] /\ fifo'[i] # NoThread => i = j
    BY <2>5, <2>7 DEF QueueInv
  <2>9. \A i \in Slots : fifo'[i] # NoThread => pc'[fifo'[i]] \in {"parked", "woken", "leave"}
    BY <2>5, <2>6 DEF QueueInv
  <2>10. \A u \in Threads : pc'[u] \in {"parked", "woken"} /\ ~flag'[u] => \E i \in Slots : fifo'[i] = u
    <3>1. \A u \in Threads \ {t} : InFifo(u) => \E i \in Slots : fifo'[i] = u
      BY <2>2, <2>5, ThreadAssumption DEF InFifo, k
    <3> QED
      BY <2>3, <2>5, <2>6, <3>1 DEF QueueInv
  <2> QED
    BY <2>3, <2>4, <2>5, <2>6, <2>8, <2>9, <2>10 DEF QueueInv, InFifo
<1> QED
  BY <1>2, <1>3

LEMMA WakingQueueStep ==
  ASSUME QueueInv, NEW t \in Threads, Waking(t) PROVE QueueInv'
<1> DEFINE Q == Queued(want[t])
           oldest == {i \in Q : \A j \in Q : i <= j}
<1>1. pc[t] = "waking" /\ pc' = [pc EXCEPT ![t] = "idle"] /\ nextFree' = nextFree /\ ~InFifo(t)
  BY Outside DEF Waking, Goto
<1>2. Q \subseteq Slots /\ oldest \subseteq Slots
  BY DEF Queued
<1>3. HandTo(Q) \/ HandTo(oldest) \/ UNCHANGED <<fifo, flag>>
  BY DEF Waking
<1> HIDE DEF Q, oldest
<1>4. PICK I \in SUBSET Slots : HandTo(I) \/ UNCHANGED <<fifo, flag>>
  BY <1>2, <1>3
<1>5. CASE UNCHANGED <<fifo, flag>>
  BY <1>1, <1>5, QueueKept
<1>6. CASE HandTo(I)
  <2>1. /\ fifo' = [i \in Slots |-> IF i \in I THEN NoThread ELSE fifo[i]]
        /\ flag' = [u \in Threads |-> flag[u] \/ u \in {fifo[i] : i \in I}]
    BY <1>6 DEF HandTo
  <2>2. /\ pc' = [u \in Threads |-> pc'[u]] /\ pc'[t] = "idle"
        /\ \A u \in Threads \ {t} : pc'[u] = pc[u]
    BY <1>1 DEF QueueInv
  <2>3. fifo' \in [Slots -> Threads \cup {NoThread}] /\ flag' \in [Threads -> BOOLEAN]
    <3>1. flag' \in [Threads -> BOOLEAN]
      BY <2>1, Zenon
    <3> QED
      BY <2>1, <3>1 DEF QueueInv
  <2>4. \A i \in Slots : fifo'[i] # NoThread => pc'[fifo'[i]] \in {"parked", "woken", "leave"}
    BY <1>1, <2>1, <2>2 DEF QueueInv, InFifo
  <2>5. ASSUME NEW u \in Threads, pc'[u] \in {"parked", "woken"}, ~flag'[u]
        PROVE \E i \in Slots : fifo'[i] = u
    <3>1. ~flag[u] /\ u \notin {fifo[i] : i \in I}
      BY <2>1, <2>5
    <3>2. InFifo(u)
      BY <2>2, <2>5, <3>1 DEF QueueInv
    <3>3. PICK i \in Slots : fifo[i] = u
      BY <3>2 DEF InFifo
    <3>4. i \notin I
      BY <3>1, <3>3
    <3> QED
      BY <2>1, <3>3, <3>4
  <2>6. \A i, j \in Slots : fifo'[i] = fifo'[j] /\ fifo'[i] # NoThread => i = j
    BY <2>1 DEF QueueInv
  <2> QED
    BY <1>1, <2>2, <2>3, <2>4, <2>5, <2>6 DEF QueueInv, InFifo
<1> QED
  BY <1>4, <1>5, <1>6

LEMMA LeaveQueueStep ==
  ASSUME QueueInv, NEW t \in Threads, Leave(t) PROVE QueueInv'
<1>1. /\ pc[t] = "leave" /\ pc' = [pc EXCEPT ![t] = "idle"]
      /\ fifo' = [i \in Slots |-> IF fifo[i] = t THEN NoThread ELSE fifo[i]]
      /\ UNCHANGED <<nextFree, flag>>
  BY DEF Leave, Goto, Without
<1>2. /\ pc' = [u \in Threads |-> pc'[u]] /\ pc'[t] = "idle"
      /\ \A u \in Threads \ {t} : pc'[u] = pc[u]
  BY <1>1 DEF QueueInv
<1>3. fifo' \in [Slots -> Threads \cup {NoThread}]
      /\ \A i \in Slots : fifo'[i] # t /\ (fifo'[i] # NoThread => fifo'[i] = fifo[i])
  BY <1>1, ThreadAssumption DEF QueueInv
<1>4. \A i \in Slots : fifo'[i] # NoThread => pc'[fifo'[i]] \in {"parked", "woken", "leave"}
  BY <1>2, <1>3 DEF QueueInv
<1>5. ASSUME NEW u \in Threads, pc'[u] \in {"parked", "woken"}, ~flag'[u]
      PROVE \E i \in Slots : fifo'[i] = u
  BY <1>1, <1>2, <1>5 DEF QueueInv, InFifo
<1>6. \A i, j \in Slots : fifo'[i] = fifo'[j] /\ fifo'[i] # NoThread => i = j
  BY <1>3 DEF QueueInv
<1> QED
  BY <1>1, <1>2, <1>3, <1>4, <1>5, <1>6 DEF QueueInv, InFifo

\* All other steps leave the fifo and the flags alone.
LEMMA OtherQueueStep ==
  ASSUME QueueInv, NEW t \in Threads,
         \/ Lock(t) \/ Preset(t) \/ PresetTry(t) \/ Unpark(t) \/ WokenTry(t) \/ Unlock(t)
         \/ ClearWrite(t) \/ Wake(t) \/ Undo(t) \/ Rises(t) \/ Again(t)
         \/ ReadElsewhere(t) \/ UnlockElsewhere(t)
  PROVE  QueueInv'
<1> USE DEF Goto, WakeNext, fifoVars, waitVars
<1>1. UNCHANGED <<fifo, nextFree, flag>>
  BY DEF Lock, Preset, PresetTry, Unpark, WokenTry, Unlock, ClearWrite, Wake, Undo, Release, Rises,
     UpgradeToWrite, DowngradeToRead, DowngradeEnd, UpgradeToIntent, Again, Remember, RelockCheck, RelockTry,
     Recheck, ReadElsewhere, UnlockElsewhere
<1>2. CASE Unpark(t) \/ WokenTry(t)
  <2>1. \E w \in {"parked", "woken", "leave"} : pc' = [pc EXCEPT ![t] = w]
    BY <1>2 DEF Unpark, WokenTry
  <2>2. pc[t] \in {"parked", "woken"}
    BY <1>2 DEF Unpark, WokenTry
  <2> QED
    BY <1>1, <2>1, <2>2, QueueKept
<1>3. CASE \/ Lock(t) \/ UpgradeToWrite(t) \/ UpgradeToIntent(t) \/ Remember(t)
           \/ ReadElsewhere(t) \/ UnlockElsewhere(t)
  <2>1. pc' = pc
    BY <1>3 DEF Lock, UpgradeToWrite, UpgradeToIntent, Remember, ReadElsewhere, UnlockElsewhere
  <2> QED
    BY <1>1, <2>1 DEF QueueInv, InFifo
<1>4. CASE Preset(t) \/ PresetTry(t) \/ Unlock(t) \/ ClearWrite(t) \/ Wake(t) \/ Undo(t)
           \/ RelockCheck(t) \/ RelockTry(t) \/ Recheck(t) \/ DowngradeToRead(t) \/ DowngradeEnd(t)
  <2>1. ~InFifo(t)
    BY <1>4, Outside DEF Preset, PresetTry, Unlock, ClearWrite, Wake, Undo, RelockCheck, RelockTry,
       Recheck, DowngradeToRead, DowngradeEnd
  <2>2. \E w \in {"idle", "presettry", "push", "wake", "waking", "wclear", "relock", "recheck", "undo",
                  "downgrade"} :
          pc' = [pc EXCEPT ![t] = w]
    <3>1. CASE Unlock(t) \/ Undo(t)
      BY <3>1 DEF Unlock, Undo, Release
    <3>2. CASE Preset(t) \/ PresetTry(t) \/ ClearWrite(t) \/ Wake(t)
      BY <3>2 DEF Preset, PresetTry, ClearWrite, Wake
    <3>3. CASE \/ RelockCheck(t) \/ RelockTry(t) \/ Recheck(t) \/ DowngradeToRead(t)
               \/ DowngradeEnd(t)
      BY <3>3 DEF RelockCheck, RelockTry, Recheck, DowngradeToRead, DowngradeEnd
    <3> QED
      BY <1>4, <3>1, <3>2, <3>3
  <2> QED
    BY <1>1, <2>1, <2>2, QueueKept
<1> QED
  BY <1>2, <1>3, <1>4 DEF Again, Rises

\* A waiter that sleeps and has not been handed the lock is in the fifo.
THEOREM SleepersAreQueued == Spec /\ RoomForAll => []SleeperIsQueued
<1> SUFFICES ASSUME RoomForAll PROVE Spec => []SleeperIsQueued
  OBVIOUS
<1>1. Init => QueueInv
  <2> SUFFICES ASSUME Init PROVE QueueInv
    OBVIOUS
  <2>1. 0 \in Slots /\ \A i \in Slots : fifo[i] = NoThread
    BY BoundAssumption DEF Init, Slots
  <2> QED
    BY <2>1 DEF Init, QueueInv
<1>2. QueueInv /\ [Next]_vars => QueueInv'
  <2> SUFFICES ASSUME QueueInv, [Next]_vars PROVE QueueInv'
    OBVIOUS
  <2>1. CASE UNCHANGED vars
    BY <2>1 DEF vars, fifoVars, waitVars, QueueInv, InFifo
  <2>2. CASE Next
    <3>1. PICK t \in Threads :
            \/ Lock(t) \/ EnterSlow(t) \/ Waits(t)
            \/ Unlock(t) \/ Wakes(t) \/ Rises(t) \/ Again(t)
            \/ ReadElsewhere(t) \/ UnlockElsewhere(t)
      BY <2>2 DEF Next
    <3> QED
      BY <3>1, EnterQueueStep, PushQueueStep, LeaveQueueStep, WakingQueueStep, OtherQueueStep
         DEF Waits, Wakes
  <2> QED
    BY <2>1, <2>2
<1>3. QueueInv => SleeperIsQueued
  BY DEF QueueInv, SleeperIsQueued, InFifo
<1> QED
  BY <1>1, <1>2, <1>3, PTL DEF Spec
=============================================================================
