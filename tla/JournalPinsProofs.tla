-------------------------- MODULE JournalPinsProofs --------------------------
(***************************************************************************)
(* Theorems about JournalPins.  Every variable keeps its type and every    *)
(* call its place (Typed).  With one flusher bch2_journal_pin_flush waits  *)
(* for the callback (CallbackIsKnown), and in a journal that Journal::new  *)
(* makes the lists, their counts and the seqs of the pins agree until its  *)
(* FIFO is full (Sound).  When calls are made one at a time last_seq_ondisk *)
(* stays in step with the front (InStep), and a journal without pins drains *)
(* only what it has written; while its lag leaves room it drains that in   *)
(* time and never fills (Lives).                                           *)
(***************************************************************************)
EXTENDS JournalPins, FiniteSetTheorems, WellFoundedInduction, TLAPS

\* The least of a set of naturals.
LEMMA LeastNat ==
  ASSUME NEW S, S \subseteq Nat, S # {} PROVE \E x \in S : \A y \in S : x <= y
<1>1. PICK x \in S : \A y \in S : ~(<<y, x>> \in OpToRel(<, Nat))
  BY NatLessThanWellFounded, WFMin, Zenon
<1>2. ASSUME NEW y \in S PROVE x <= y
  <2>1. x \in Nat /\ y \in Nat
    OBVIOUS
  <2>2. ~(<<y, x>> \in {ss \in Nat \X Nat : ss[1] < ss[2]})
    BY <1>1 DEF OpToRel
  <2> QED
    BY <2>1, <2>2
<1> QED
  BY <1>2

-----------------------------------------------------------------------------
(* Lists. *)

\* What Without builds index by index, up to k.
Kept(l, p, k, F) ==
  F = [i \in 0..k |-> IF i = 0 THEN <<>>
                      ELSE IF l[i] = p THEN F[i - 1] ELSE Append(F[i - 1], l[i])]

LEMMA KeptExists ==
  ASSUME NEW l, NEW p, NEW k \in Nat PROVE \E F : Kept(l, p, k, F)
<1> DEFINE Bad == {j \in 0..k : ~\E F : Kept(l, p, j, F)}
<1>1. CASE Bad = {}
  BY <1>1
<1>2. CASE Bad # {}
  <2>1. PICK j \in Bad : \A i \in Bad : j <= i
    <3> HIDE DEF Bad
    <3>1. Bad \subseteq Nat
      BY DEF Bad
    <3> QED
      BY <3>1, <1>2, LeastNat
  <2>2. CASE j = 0
    <3>1. Kept(l, p, 0, [i \in 0..0 |-> <<>>])
      BY DEF Kept
    <3> QED
      BY <2>1, <2>2, <3>1
  <2>3. CASE j # 0
    <3>1. j - 1 \in 0..k /\ j \in 1..k /\ j - 1 \notin Bad
      BY <2>1, <2>3
    <3>2. PICK F : Kept(l, p, j - 1, F)
      BY <3>1
    <3> DEFINE new == IF l[j] = p THEN F[j - 1] ELSE Append(F[j - 1], l[j])
               G == [i \in 0..j |-> IF i = j THEN new ELSE F[i]]
    <3>3. \A i \in 0..j : i # j => i \in 0..(j - 1) /\ (i # 0 => i - 1 \in 0..(j - 1) /\ i - 1 \in 0..j /\ i - 1 # j)
      BY <3>1
    <3>4. \A i \in 0..(j - 1) : F[i] = IF i = 0 THEN <<>>
                      ELSE IF l[i] = p THEN F[i - 1] ELSE Append(F[i - 1], l[i])
      BY <3>2, Zenon DEF Kept
    <3>5. \A i \in 0..j : G[i] = IF i = j THEN new ELSE F[i]
      OBVIOUS
    <3>6. new = IF l[j] = p THEN G[j - 1] ELSE Append(G[j - 1], l[j])
      BY <3>1, <3>5
    <3>7. DOMAIN G = 0..j /\ j \in 0..j /\ j # 0
      BY <3>1
    <3> HIDE DEF new, G
    <3>8. \A i \in 0..j : G[i] = IF i = 0 THEN <<>>
                      ELSE IF l[i] = p THEN G[i - 1] ELSE Append(G[i - 1], l[i])
      BY <3>3, <3>4, <3>5, <3>6, <3>7
    <3>9. G = [i \in 0..j |-> IF i = 0 THEN <<>>
                      ELSE IF l[i] = p THEN G[i - 1] ELSE Append(G[i - 1], l[i])]
      <4>1. G = [i \in 0..j |-> G[i]]
        BY <3>7 DEF G
      <4> QED
        BY <4>1, <3>8
    <3> QED
      BY <3>9, <2>1 DEF Kept
  <2> QED
    BY <2>2, <2>3
<1> QED
  BY <1>1, <1>2

\* A list without p has the members that it had, but for p.
LEMMA WithoutIs ==
  ASSUME NEW l \in Seq(Pins), NEW p
  PROVE  Without(l, p) \in Seq(Pins) /\ Members(Without(l, p)) = Members(l) \ {p}
<1> DEFINE F == CHOOSE F : Kept(l, p, Len(l), F)
           Taken(i) == {l[j] : j \in 1..i} \ {p}
           Good(i) == F[i] \in Seq(Pins) /\ Members(F[i]) = Taken(i)
           Bad == {i \in 0..Len(l) : ~Good(i)}
<1>1. Without(l, p) = F[Len(l)]
  BY DEF Without, Kept
<1>2. Len(l) \in Nat /\ \A i \in 1..Len(l) : l[i] \in Pins
  OBVIOUS
<1>3. Kept(l, p, Len(l), F)
  BY <1>2, KeptExists, Zenon
<1> HIDE DEF F
<1>4. \A i \in 0..Len(l) : F[i] = IF i = 0 THEN <<>>
                      ELSE IF l[i] = p THEN F[i - 1] ELSE Append(F[i - 1], l[i])
  BY <1>3, Zenon DEF Kept
<1>5. ASSUME Bad # {} PROVE FALSE
  <2>1. PICK j \in Bad : \A i \in Bad : j <= i
    <3> HIDE DEF Bad
    <3>1. Bad \subseteq Nat
      BY DEF Bad
    <3> QED
      BY <3>1, <1>5, LeastNat
  <2>2. j \in 0..Len(l)
    OBVIOUS
  <2>3. CASE j = 0
    <3>1. F[j] = <<>> /\ Members(<<>>) = {} /\ Taken(0) = {} /\ <<>> \in Seq(Pins)
      BY <1>4, <2>2, <2>3 DEF Members
    <3> QED
      BY <2>1, <2>3, <3>1
  <2>4. CASE j # 0
    <3>0. j - 1 \in 0..Len(l) /\ j \in 1..Len(l) /\ l[j] \in Pins /\ ~(j <= j - 1)
      BY <1>2, <2>2, <2>4
    <3>1. j - 1 \in 0..Len(l) /\ j \in 1..Len(l) /\ Good(j - 1) /\ l[j] \in Pins
      <4> HIDE DEF Good
      <4>1. j - 1 \notin Bad
        BY ONLY <2>1, <3>0
      <4> QED
        BY <3>0, <4>1
    <3> DEFINE f == F[j - 1]
    <3>2. f \in Seq(Pins) /\ Members(f) = Taken(j - 1)
      BY <3>1
    <3>3. Taken(j) = Taken(j - 1) \cup ({l[j]} \ {p})
      BY <3>1, <1>2
    <3>4. F[j] = IF l[j] = p THEN f ELSE Append(f, l[j])
      BY <1>4, <2>2, <2>4
    <3> HIDE DEF f
    <3>5. Append(f, l[j]) \in Seq(Pins) /\ Members(Append(f, l[j])) = Members(f) \cup {l[j]}
      BY <3>1, <3>2 DEF Members
    <3>6. Good(j)
      BY <3>2, <3>3, <3>4, <3>5
    <3> QED
      BY <2>1, <3>6
  <2> QED
    BY <2>3, <2>4
<1>6. Good(Len(l))
  <2> HIDE DEF Good
  <2>1. Len(l) \in 0..Len(l)
    BY <1>2
  <2> QED
    BY <2>1, <1>5
<1> QED
  BY <1>1, <1>6 DEF Members
-----------------------------------------------------------------------------
(* Remainders. *)

LEMMA RemainderIs ==
  ASSUME NEW q \in Int, NEW r \in 0..(FifoSize - 1) PROVE (FifoSize * q + r) % FifoSize = r
BY FifoAssumption

LEMMA Division ==
  ASSUME NEW d \in Nat, d >= 2, NEW a \in Nat PROVE a = d * (a \div d) + (a % d)
OBVIOUS

LEMMA Remainder ==
  ASSUME NEW a \in Nat
  PROVE  a % FifoSize \in 0..(FifoSize - 1) /\ \E q \in Nat : a = FifoSize * q + (a % FifoSize)
<1>1. a % FifoSize \in 0..(FifoSize - 1)
  BY FifoAssumption
<1>2. a \div FifoSize \in Nat
  BY FifoAssumption
<1>3. a = FifoSize * (a \div FifoSize) + (a % FifoSize)
  BY FifoAssumption, Division
<1> QED
  BY ONLY <1>1, <1>2, <1>3, Zenon

LEMMA SmallRemainder == ASSUME NEW a \in 0..(FifoSize - 1) PROVE a % FifoSize = a
<1>1. FifoSize * 0 + a = a
  BY FifoAssumption
<1> QED
  BY <1>1, RemainderIs

\* Multiplication by an unknown is beyond the solver, unless nothing else is.
LEMMA Distributes ==
  ASSUME NEW q \in Int, NEW p \in Int
  PROVE  /\ FifoSize * (q - p) = FifoSize * q - FifoSize * p
         /\ FifoSize * (q + p) = FifoSize * q + FifoSize * p
         /\ FifoSize * q \in Int /\ FifoSize * p \in Int
BY FifoAssumption

LEMMA RemainderPlus ==
  ASSUME NEW a \in Nat, NEW k \in Nat PROVE ((a % FifoSize) + k) % FifoSize = (a + k) % FifoSize
<1> DEFINE r == a % FifoSize
           r2 == (r + k) % FifoSize
<1>1. PICK q \in Nat : a = FifoSize * q + r
  BY Remainder
<1>2. r \in 0..(FifoSize - 1)
  BY Remainder
<1>3. r + k \in Nat
  BY <1>2
<1>4. PICK p \in Nat : r + k = FifoSize * p + r2
  <2> HIDE DEF r
  <2> QED
    BY <1>3, Remainder
<1>5. r2 \in 0..(FifoSize - 1)
  <2> HIDE DEF r
  <2> QED
    BY <1>3, Remainder
<1> HIDE DEF r, r2
<1>6. a + k = FifoSize * (q + p) + r2
  <2> DEFINE x == FifoSize * q
             y == FifoSize * p
  <2>1. x \in Int /\ y \in Int /\ FifoSize * (q + p) = x + y
    BY Distributes
  <2>2. a = x + r /\ r + k = y + r2
    BY <1>1, <1>4
  <2> HIDE DEF x, y
  <2> QED
    BY <1>2, <1>5, <2>1, <2>2
<1>7. (a + k) % FifoSize = r2
  BY <1>5, <1>6, RemainderIs
<1> QED
  BY <1>7 DEF r2, r

\* Numbers that are less than FifoSize apart.
LEMMA RemainderMinus ==
  ASSUME NEW a \in Nat, NEW b \in Nat, a <= b, b - a < FifoSize
  PROVE  ((b % FifoSize) - (a % FifoSize)) % FifoSize = b - a
<1> DEFINE r == a % FifoSize
           s == b % FifoSize
<1>1. PICK q \in Nat : a = FifoSize * q + r
  BY Remainder
<1>2. PICK p \in Nat : b = FifoSize * p + s
  BY Remainder
<1>3. r \in 0..(FifoSize - 1) /\ s \in 0..(FifoSize - 1)
  BY Remainder
<1> HIDE DEF r, s
<1>4. s - r = FifoSize * (q - p) + (b - a)
  <2> DEFINE x == FifoSize * q
             y == FifoSize * p
  <2>0. q \in Int /\ p \in Int
    OBVIOUS
  <2>1. x \in Int /\ y \in Int /\ FifoSize * (q - p) = x - y
    BY ONLY <2>0, Distributes
  <2>2. a = x + r /\ b = y + s
    BY <1>1, <1>2
  <2> HIDE DEF x, y
  <2> QED
    BY <1>3, <2>1, <2>2
<1>5. b - a \in 0..(FifoSize - 1) /\ q - p \in Int
  BY FifoAssumption
<1>6. (s - r) % FifoSize = b - a
  BY <1>4, <1>5, RemainderIs
<1> QED
  BY <1>6 DEF r, s

LEMMA RemaindersDiffer ==
  ASSUME NEW a \in Nat, NEW b \in Nat, a <= b, b - a < FifoSize, a % FifoSize = b % FifoSize
  PROVE  a = b
<1> DEFINE r == a % FifoSize
           s == b % FifoSize
<1>0. r \in 0..(FifoSize - 1) /\ r = s
  BY Remainder
<1>1. s - r = 0 /\ 0 \in 0..(FifoSize - 1)
  <2> HIDE DEF r, s
  <2> QED
    BY <1>0, FifoAssumption
<1>2. ((b % FifoSize) - (a % FifoSize)) % FifoSize = 0
  <2> DEFINE z == s - r
  <2>1. z = 0 /\ z \in 0..(FifoSize - 1)
    BY <1>1
  <2> HIDE DEF z
  <2>2. z % FifoSize = 0
    BY <2>1, SmallRemainder
  <2> QED
    BY <2>2 DEF z
<1>3. 0 = b - a
  BY <1>2, RemainderMinus
<1> QED
  BY <1>3

-----------------------------------------------------------------------------
(* Types, and where a task is when it has what. *)

Operation ==
  [kind : {"none", "set", "copy", "drop", "flush"}, pin : Pins \cup {NoPin},
   src : Pins \cup {NoPin}, seq : Nat, old : Nat, fn : BOOLEAN, new : Slots \cup {NoSlot},
   from : Slots \cup {NoSlot}, back : {"idle", "open", "ran"}]
Flush ==
  [mode : {"none", "write", "reclaim"}, target : Nat, pin : Pins \cup {NoPin}, seq : Nat,
   ok : BOOLEAN]

FifoType ==
  /\ head \in Slots /\ tail \in Slots
  /\ cnt \in [Slots -> Int] /\ puts \in [Slots -> Nat] /\ entry \in [Slots -> Nat]
  /\ unflushed \in [Slots -> [Types -> Seq(Pins)]] /\ flushed \in [Slots -> Seq(Pins)]
  /\ lock \in [Slots -> Tasks \cup {NoTask}]
PinType ==
  /\ pseq \in [Pins -> Nat] /\ hasFn \in [Pins -> BOOLEAN]
  /\ cbLock \in [Pins -> Tasks \cup {NoTask}]
SeqType == seq \in Nat \ {0} /\ disk \in Nat /\ written \in Nat
FipType == fip \in Pins \cup {NoPin} /\ fipDropped \in BOOLEAN
TaskType ==
  /\ pc \in [Tasks -> Where] /\ op \in [Tasks -> Operation] /\ n \in [Tasks -> Nat]
  /\ fl \in [Flushers -> Flush]

\* Where a task is.
Flushing == {"scanblocked", "callback", "running", "ran", "ranout"}
PinCalls(t) ==
  /\ pc[t] = "wait" => op[t].pin \in Pins
  /\ pc[t] \in {"read", "lock", "blocked"} =>
       /\ op[t].pin \in Pins /\ op[t].kind \in {"set", "copy", "drop"}
       /\ op[t].kind = "copy" => op[t].src \in Pins
       /\ op[t].kind = "drop" => ~op[t].fn
       /\ pc[t] # "read" /\ op[t].kind # "drop" => op[t].new \in Slots
       /\ pc[t] = "blocked" => op[t].kind # "drop"
Callbacks(t) ==
  op[t].back = "ran" =>
    /\ pc[t] \in {"read", "lock", "compute", "drain", "advance", "panicked"}
    /\ op[t].kind = "drop" /\ t \in use.flushers /\ op[t].pin = fl[t].pin /\ fl[t].pin \in Pins
FlushCalls(t) ==
  /\ pc[t] \in Flushing \cup {"scan", "open"} \/ op[t].back = "open" => t \in use.flushers
  /\ pc[t] \in Flushing => fl[t].pin \in Pins
Places == \A t \in Tasks : PinCalls(t) /\ Callbacks(t) /\ FlushCalls(t)

Typed == use \in Uses /\ FifoType /\ PinType /\ SeqType /\ FipType /\ TaskType /\ Places

LEMMA UseType ==
  ASSUME use \in Uses
  PROVE  /\ use.workers \subseteq Workers /\ use.flushers \subseteq Flushers
         /\ use.pins \subseteq Pins /\ use.type \in [Pins -> Types]
         /\ use.first \in Nat \ {0} /\ use.disk \in Nat /\ use.rearm \subseteq BOOLEAN
BY UseAssumption DEF Use, Types

LEMMA FifoTypes ==
  ASSUME head \in Slots, tail \in Slots
  PROVE  /\ Length \in Slots /\ Length \in Nat /\ Live \subseteq Slots
         /\ \A i \in Slots : Next1(i) \in Slots
         /\ \A s \in Nat : SlotOf(s) \in Slots \cup {NoSlot}
<1>1. \A i \in Int : i % FifoSize \in 0..(FifoSize - 1)
  BY FifoAssumption
<1>2. head \in Int /\ tail \in Int /\ tail - head \in Int
  BY FifoAssumption DEF Slots
<1>3. Length \in Slots /\ Length \in Nat
  BY <1>1, <1>2, FifoAssumption DEF Length, Slots
<1>4. Live \subseteq Slots
  <2>1. ASSUME NEW k \in 0..(Length - 1) PROVE (head + k) % FifoSize \in Slots
    <3>1. head + k \in Int
      BY <1>2
    <3> QED
      BY <1>1, <3>1 DEF Slots
  <2> QED
    BY <2>1 DEF Live
<1>5. ASSUME NEW i \in Slots PROVE Next1(i) \in Slots
  <2>1. i + 1 \in Int
    BY FifoAssumption DEF Slots
  <2> QED
    BY <1>1, <2>1 DEF Next1, Slots
<1>6. \A s \in Nat : SlotOf(s) \in Slots \cup {NoSlot}
  BY <1>4 DEF SlotOf
<1> QED
  BY <1>3, <1>4, <1>5, <1>6

\* The lists at the front that are released.
LEMMA DrainableIs ==
  ASSUME head \in Slots, tail \in Slots
  PROVE  /\ Drainable \in 0..Length
         /\ \A j \in 0..(Drainable - 1) : cnt[(head + j) % FifoSize] = 0
         /\ Drainable < Length => cnt[(head + Drainable) % FifoSize] # 0
<1> DEFINE Zero(k) == \A j \in 0..(k - 1) : cnt[(head + j) % FifoSize] = 0
           Last(k) == Zero(k) /\ (k = Length \/ ~Zero(k + 1))
           Stop == {k \in 0..Length : k = Length \/ cnt[(head + k) % FifoSize] # 0}
<1>1. Length \in Nat
  BY FifoTypes
<1>2. PICK k \in Stop : \A j \in Stop : k <= j
  <2>1. Length \in Stop /\ Stop \subseteq Nat
    BY <1>1
  <2> HIDE DEF Stop
  <2> QED
    BY <2>1, LeastNat
<1>3. k \in 0..Length /\ (k = Length \/ cnt[(head + k) % FifoSize] # 0)
  BY <1>2
<1>4. \A j \in 0..(k - 1) : cnt[(head + j) % FifoSize] = 0
  <2>1. ASSUME NEW j \in 0..(k - 1) PROVE j \notin Stop /\ j \in 0..Length
    <3>1. j \in 0..Length /\ ~(k <= j)
      BY <1>1, <1>3
    <3> HIDE DEF Stop
    <3> QED
      BY <1>2, <3>1
  <2> QED
    BY <2>1
<1>5. k # Length => k \in 0..((k + 1) - 1) /\ ~Zero(k + 1)
  BY <1>1, <1>3
<1>6. Last(k)
  BY <1>4, <1>5
<1>7. Drainable \in 0..Length /\ Last(Drainable)
  <2>1. Drainable = CHOOSE j \in 0..Length : Last(j)
    BY DEF Drainable
  <2> HIDE DEF Last
  <2> QED
    BY <1>3, <1>6, <2>1
<1> DEFINE d == Drainable
<1>8. d \in 0..Length /\ Zero(d) /\ (d = Length \/ ~Zero(d + 1))
  BY <1>7
<1> HIDE DEF d
<1>9. ASSUME d < Length, cnt[(head + d) % FifoSize] = 0 PROVE FALSE
  <2>1. \A j \in 0..((d + 1) - 1) : j \in 0..(d - 1) \/ j = d
    BY <1>1, <1>8
  <2>2. Zero(d + 1)
    BY <1>8, <1>9, <2>1
  <2> QED
    BY <1>1, <1>8, <1>9, <2>2
<1> QED
  BY <1>8, <1>9 DEF d

LEMMA TypedInit == Init => Typed
<1> SUFFICES ASSUME Init PROVE Typed
  OBVIOUS
<1>1. use \in Uses
  BY DEF Init
<1>2. NoOp \in Operation /\ NoFlush \in Flush /\ NoOp.back = "idle"
  BY DEF NoOp, NoFlush, Operation, Flush
<1>3. FifoType
  <2>1. 0 \in Slots /\ 1 \in Slots /\ use.first \in Nat
    BY <1>1, UseType, FifoAssumption DEF Slots
  <2>2. <<>> \in Seq(Pins)
    OBVIOUS
  <2> QED
    BY <2>1, <2>2 DEF Init, FifoType
<1>4. PinType /\ FipType /\ SeqType
  <2>3. use.first + 1 \in Nat \ {0} /\ use.first - 1 \in Nat /\ use.disk \in Nat
    BY <1>1, UseType
  <2> QED
    BY <2>3 DEF Init, PinType, FipType, SeqType
<1>5. TaskType
  BY <1>2, UseType DEF Init, TaskType, Where
<1>6. Places
  BY <1>2 DEF Init, Places, PinCalls, Callbacks, FlushCalls, Flushing
<1> QED
  BY <1>1, <1>3, <1>4, <1>5, <1>6 DEF Typed

-----------------------------------------------------------------------------
(* Calls. *)

\* A step of one task.
Alone(t) ==
  /\ use' = use
  /\ \A u \in Tasks \ {t} : pc'[u] = pc[u] /\ op'[u] = op[u] /\ n'[u] = n[u]
  /\ \A g \in Flushers \ {t} : fl'[g] = fl[g]

\* What does not depend on the task that takes the step.
LEMMA PlacesOfOthers ==
  ASSUME Typed, NEW t \in Tasks, Alone(t), PinCalls(t)', Callbacks(t)', FlushCalls(t)'
  PROVE  Places'
<1> SUFFICES ASSUME NEW u \in Tasks, u # t
             PROVE  PinCalls(u)' /\ Callbacks(u)' /\ FlushCalls(u)'
  BY DEF Places
<1>1. PinCalls(u) /\ Callbacks(u) /\ FlushCalls(u)
  BY DEF Typed, Places
<1>2. use' = use /\ pc'[u] = pc[u] /\ op'[u] = op[u] /\ (u \in Flushers => fl'[u] = fl[u])
  BY DEF Alone
<1>3. use.flushers \subseteq Flushers
  BY UseType DEF Typed
<1> QED
  BY <1>1, <1>2, <1>3 DEF PinCalls, Callbacks, FlushCalls

\* The tasks' own variables keep their types.
LEMMA NewOp ==
  ASSUME Typed, NEW t \in Tasks, NEW o \in Operation, NEW w \in Where,
         pc' = [pc EXCEPT ![t] = w], op' = [op EXCEPT ![t] = o], n' = n, fl' = fl, use' = use
  PROVE  TaskType' /\ Alone(t) /\ pc'[t] = w /\ op'[t] = o
BY DEF Typed, TaskType, Alone

LEMMA NewFlush ==
  ASSUME Typed, NEW f \in Flushers, NEW w \in Where, NEW d \in Flush,
         pc' = [pc EXCEPT ![f] = w], op' = op, n' = n, fl' = [fl EXCEPT ![f] = d], use' = use
  PROVE  TaskType' /\ Alone(f) /\ pc'[f] = w /\ fl'[f] = d /\ f \in Tasks
BY DEF Typed, TaskType, Alone, Tasks

CallAction(t) ==
  \/ PinSet(t) \/ PinAdd(t) \/ PinUpdate(t) \/ PinCopy(t) \/ PinDrop(t) \/ PinFlush(t)

\* What a caller asks.
LEMMA CallIs ==
  ASSUME Typed, NEW t \in Tasks, CallAction(t)
  PROVE  \E o \in Operation, w \in {"read", "wait"} :
      /\ Call(t, o, w) /\ o.back = "idle" /\ o.pin \in Pins
      /\ w = "read" => o.kind \in {"set", "copy", "drop"}
      /\ o.kind = "copy" => o.src \in Pins
      /\ o.kind = "drop" => ~o.fn
      /\ o.kind = "set" => o.seq \in Pinnable
<1>1. /\ use.pins \subseteq Pins /\ use.rearm \subseteq BOOLEAN
      /\ \A s \in Pinnable : s \in Nat
  BY UseType DEF Typed, SeqType, Pinnable
<1>2. NoSlot \in Slots \cup {NoSlot} /\ NoPin \in Pins \cup {NoPin}
  OBVIOUS
<1>3. CASE PinSet(t) \/ PinAdd(t) \/ PinUpdate(t)
  <2>1. PICK p \in use.pins, s \in Pinnable, f \in use.rearm :
          Call(t, [NoOp EXCEPT !.kind = "set", !.pin = p, !.seq = s, !.fn = f], "read")
    BY <1>3 DEF PinSet, PinAdd, PinUpdate
  <2> DEFINE o == [NoOp EXCEPT !.kind = "set", !.pin = p, !.seq = s, !.fn = f]
  <2>2. o \in Operation /\ o.back = "idle" /\ o.pin \in Pins /\ o.kind = "set" /\ o.seq = s
    BY <1>1, <1>2 DEF NoOp, Operation
  <2> QED
    BY <2>1, <2>2
<1>4. CASE PinCopy(t)
  <2>1. PICK p, q \in use.pins, f \in use.rearm :
          Call(t, [NoOp EXCEPT !.kind = "copy", !.pin = p, !.src = q, !.fn = f], "read")
    BY <1>4 DEF PinCopy
  <2> DEFINE o == [NoOp EXCEPT !.kind = "copy", !.pin = p, !.src = q, !.fn = f]
  <2>2. o \in Operation /\ o.back = "idle" /\ o.pin \in Pins /\ o.src \in Pins /\ o.kind = "copy"
    BY <1>1, <1>2 DEF NoOp, Operation
  <2> QED
    BY <2>1, <2>2
<1>5. CASE PinDrop(t)
  <2>1. PICK p \in use.pins : Call(t, [NoOp EXCEPT !.kind = "drop", !.pin = p], "read")
    BY <1>5 DEF PinDrop
  <2> DEFINE o == [NoOp EXCEPT !.kind = "drop", !.pin = p]
  <2>2. o \in Operation /\ o.back = "idle" /\ o.pin \in Pins /\ o.kind = "drop" /\ ~o.fn
    BY <1>1, <1>2 DEF NoOp, Operation
  <2> QED
    BY <2>1, <2>2
<1>6. CASE PinFlush(t)
  <2>1. PICK p \in use.pins : Call(t, [NoOp EXCEPT !.kind = "flush", !.pin = p], "wait")
    BY <1>6 DEF PinFlush
  <2> DEFINE o == [NoOp EXCEPT !.kind = "flush", !.pin = p]
  <2>2. o \in Operation /\ o.back = "idle" /\ o.pin \in Pins /\ o.kind = "flush"
    BY <1>1, <1>2 DEF NoOp, Operation
  <2> QED
    BY <2>1, <2>2
<1> QED
  BY <1>3, <1>4, <1>5, <1>6 DEF CallAction

LEMMA CallTyped ==
  ASSUME Typed, NEW t \in Tasks, CallAction(t), use' = use PROVE Typed' /\ Alone(t)
<1>1. PICK o \in Operation, w \in {"read", "wait"} :
      /\ Call(t, o, w) /\ o.back = "idle" /\ o.pin \in Pins
      /\ w = "read" => o.kind \in {"set", "copy", "drop"}
      /\ o.kind = "copy" => o.src \in Pins
      /\ o.kind = "drop" => ~o.fn
      /\ o.kind = "set" => o.seq \in Pinnable
  BY CallIs
<1>2. pc[t] = "idle" /\ op' = [op EXCEPT ![t] = o] /\ pc' = [pc EXCEPT ![t] = w]
      /\ UNCHANGED <<fifoVars, pinVars, fipVars, seqVars, n, fl>>
  BY <1>1 DEF Call, Goto
<1>3. w \in Where /\ n' = n /\ fl' = fl
  BY <1>2 DEF Where
<1>4. TaskType' /\ Alone(t) /\ pc'[t] = w /\ op'[t] = o
  BY <1>2, <1>3, NewOp
<1>5. PinCalls(t)' /\ Callbacks(t)' /\ FlushCalls(t)'
  BY <1>1, <1>4 DEF PinCalls, Callbacks, FlushCalls, Flushing
<1>6. Places'
  BY <1>4, <1>5, PlacesOfOthers
<1>7. use' \in Uses /\ FifoType' /\ PinType' /\ SeqType' /\ FipType'
  BY <1>2 DEF Typed, FifoType, PinType, SeqType, FipType, fifoVars, pinVars, fipVars, seqVars
<1> QED
  BY <1>4, <1>6, <1>7 DEF Typed

-----------------------------------------------------------------------------
(* The steps of a call. *)

\* The end of a call.
LEMMA FinishTyped ==
  ASSUME Typed, NEW t \in Tasks, pc[t] \in {"wait", "read", "lock", "blocked", "compute",
         "advance"},
         Finish(t), fl' = fl, use' = use, n' \in [Tasks -> Nat], \A u \in Tasks \ {t} : n'[u] = n[u]
  PROVE  TaskType' /\ Places' /\ Alone(t) /\ pc'[t] = op[t].back /\ op'[t] = NoOp
<1>1. op[t] \in Operation /\ Callbacks(t)
  BY DEF Typed, TaskType, Places
<1>2. op[t].back \in {"idle", "open", "ran"} /\ op[t].back \in Where
  BY <1>1 DEF Operation, Where
<1>3. NoOp \in Operation
  BY DEF NoOp, Operation
<1>4. TaskType' /\ Alone(t) /\ pc'[t] = op[t].back /\ op'[t] = NoOp
  BY <1>2, <1>3 DEF Typed, TaskType, Alone, Finish, Goto
<1>5. /\ op[t].back = "ran" => t \in use'.flushers /\ fl'[t].pin \in Pins
      /\ op[t].back = "open" => t \in use'.flushers
  BY <1>1 DEF Callbacks, FlushCalls, Typed, Places
<1>6. PinCalls(t)' /\ Callbacks(t)' /\ FlushCalls(t)'
  BY <1>2, <1>4, <1>5 DEF PinCalls, Callbacks, FlushCalls, Flushing, NoOp
<1> QED
  BY <1>4, <1>6, PlacesOfOthers

LEMMA GotoTyped ==
  ASSUME Typed, NEW t \in Tasks, NEW w \in Where, Goto(t, w), UNCHANGED <<op, fl, use>>,
         n' \in [Tasks -> Nat], \A u \in Tasks \ {t} : n'[u] = n[u]
  PROVE  TaskType' /\ Alone(t) /\ pc'[t] = w /\ op'[t] = op[t]
BY DEF Typed, TaskType, Alone, Goto

LEMMA WaitOverTyped ==
  ASSUME Typed, NEW t \in Tasks, WaitOver(t), use' = use PROVE Typed' /\ Alone(t)
<1>1. pc[t] = "wait" /\ Goto(t, "idle") /\ op' = [op EXCEPT ![t] = NoOp] /\ n' = n /\ fl' = fl
  BY DEF WaitOver
<1>2. NoOp \in Operation /\ "idle" \in Where
  BY DEF NoOp, Operation, Where
<1>3. TaskType' /\ Alone(t) /\ pc'[t] = "idle" /\ op'[t] = NoOp
  BY <1>1, <1>2, NewOp DEF Goto
<1>4. PinCalls(t)' /\ Callbacks(t)' /\ FlushCalls(t)'
  BY <1>3 DEF PinCalls, Callbacks, FlushCalls, Flushing, NoOp
<1> QED
  BY <1>3, <1>4, PlacesOfOthers DEF WaitOver, Typed, FifoType, PinType, SeqType, FipType,
     fifoVars, pinVars, fipVars, seqVars

LEMMA ReadSeqsTyped ==
  ASSUME Typed, NEW t \in Tasks, ReadSeqs(t), use' = use PROVE Typed' /\ Alone(t)
<1> DEFINE o == op[t]
           target == IF o.kind = "copy" THEN pseq[o.src] ELSE o.seq
           old == pseq[o.pin]
           new == IF o.kind = "drop" THEN SlotOf(old) ELSE SlotOf(target)
           next == [op[t] EXCEPT !.seq = target, !.old = old,
                      !.new = IF o.kind = "drop" THEN NoSlot ELSE new,
                      !.from = IF old = 0 THEN NoSlot ELSE SlotOf(old)]
<1>1. pc[t] = "read" /\ UNCHANGED <<fifoVars, pinVars, fipVars, seqVars, n, fl>>
  BY DEF ReadSeqs
<1>2. FifoType' /\ PinType' /\ SeqType' /\ FipType' /\ n' \in [Tasks -> Nat] /\ n' = n /\ fl' = fl
  BY <1>1 DEF Typed, FifoType, PinType, SeqType, FipType, fifoVars, pinVars, fipVars, seqVars,
     TaskType
<1>3. PinCalls(t) /\ Callbacks(t) /\ FlushCalls(t) /\ o \in Operation
  BY DEF Typed, Places, TaskType
<1>4. CASE Finish(t)
  BY <1>1, <1>2, <1>4, FinishTyped DEF Typed
<1>5. CASE Goto(t, "panicked") /\ UNCHANGED op
  <2>1. "panicked" \in Where
    BY DEF Where
  <2>2. TaskType' /\ Alone(t) /\ pc'[t] = "panicked" /\ op'[t] = op[t]
    BY <1>2, <1>5, <2>1, GotoTyped
  <2>3. PinCalls(t)' /\ Callbacks(t)' /\ FlushCalls(t)'
    BY <1>2, <1>3, <2>2 DEF PinCalls, Callbacks, FlushCalls, Flushing
  <2> QED
    BY <1>2, <2>2, <2>3, PlacesOfOthers DEF Typed
<1>6. CASE new # NoSlot /\ Goto(t, "lock") /\ op' = [op EXCEPT ![t] = next]
  <2>1. /\ target \in Nat /\ old \in Nat /\ new \in Slots \cup {NoSlot}
        /\ SlotOf(old) \in Slots \cup {NoSlot}
    BY <1>1, <1>3, FifoTypes DEF Typed, FifoType, PinType, PinCalls, Operation
  <2> HIDE DEF target, old, new
  <2>2. next \in Operation
    BY <1>3, <2>1 DEF Operation
  <2>3. /\ next.kind = o.kind /\ next.pin = o.pin /\ next.src = o.src /\ next.fn = o.fn
        /\ next.back = o.back /\ next.new = IF o.kind = "drop" THEN NoSlot ELSE new
    BY <1>3 DEF Operation
  <2> HIDE DEF next
  <2>4. "lock" \in Where
    BY DEF Where
  <2>5. TaskType' /\ Alone(t) /\ pc'[t] = "lock" /\ op'[t] = next
    BY <1>2, <1>6, <2>2, <2>4, NewOp DEF Goto
  <2>6. PinCalls(t)' /\ Callbacks(t)' /\ FlushCalls(t)'
    BY <1>1, <1>2, <1>3, <1>6, <2>1, <2>3, <2>5 DEF PinCalls, Callbacks, FlushCalls, Flushing
  <2> QED
    BY <1>2, <2>5, <2>6, PlacesOfOthers DEF Typed
<1> QED
  <2>1. \/ Finish(t)
        \/ Goto(t, "panicked") /\ UNCHANGED op
        \/ new # NoSlot /\ Goto(t, "lock")
           /\ op' = [op EXCEPT ![t].seq = target, ![t].old = old,
                        ![t].new = IF o.kind = "drop" THEN NoSlot ELSE new,
                        ![t].from = IF old = 0 THEN NoSlot ELSE SlotOf(old)]
    BY DEF ReadSeqs
  <2>2. [op EXCEPT ![t].seq = target, ![t].old = old,
                        ![t].new = IF o.kind = "drop" THEN NoSlot ELSE new,
                        ![t].from = IF old = 0 THEN NoSlot ELSE SlotOf(old)]
        = [op EXCEPT ![t] = next]
    <3> HIDE DEF target, old, new
    <3> QED
      BY <1>3 DEF Typed, TaskType, Operation
  <2> HIDE DEF target, old, new, next
  <2> QED
    BY <1>4, <1>5, <1>6, <2>1, <2>2

LEMMA RetryTyped ==
  ASSUME Typed, NEW t \in Tasks, Retry(t), use' = use PROVE Typed' /\ Alone(t)
<1>1. pc[t] = "lock" /\ Goto(t, "read") /\ UNCHANGED <<fifoVars, pinVars, fipVars, seqVars, op, n,
      fl>>
  BY DEF Retry
<1>2. "read" \in Where /\ n' \in [Tasks -> Nat] /\ n' = n /\ fl' = fl
  BY <1>1 DEF Where, Typed, TaskType
<1>3. TaskType' /\ Alone(t) /\ pc'[t] = "read" /\ op'[t] = op[t]
  BY <1>1, <1>2, GotoTyped
<1>4. PinCalls(t) /\ Callbacks(t) /\ FlushCalls(t)
  BY DEF Typed, Places
<1>5. PinCalls(t)' /\ Callbacks(t)' /\ FlushCalls(t)'
  BY <1>1, <1>2, <1>3, <1>4 DEF PinCalls, Callbacks, FlushCalls, Flushing
<1>6. FifoType' /\ PinType' /\ SeqType' /\ FipType'
  BY <1>1 DEF Typed, FifoType, PinType, SeqType, FipType, fifoVars, pinVars, fipVars, seqVars
<1> QED
  BY <1>3, <1>5, <1>6, PlacesOfOthers DEF Typed

\* The lists and counts after a section.
LEMMA UnlinkType ==
  ASSUME FifoType, NEW p \in Pins
  PROVE  /\ Unlink(p).u \in [Slots -> [Types -> Seq(Pins)]] /\ Unlink(p).f \in [Slots -> Seq(Pins)]
         /\ \A i \in Slots, ty \in Types :
              Members(Unlink(p).u[i][ty]) = Members(unflushed[i][ty]) \ {p}
         /\ \A i \in Slots : Members(Unlink(p).f[i]) = Members(flushed[i]) \ {p}
<1>1. /\ \A i \in Slots, ty \in Types : unflushed[i][ty] \in Seq(Pins)
      /\ \A i \in Slots : flushed[i] \in Seq(Pins)
  BY DEF FifoType
<1>2. /\ \A i \in Slots, ty \in Types : Without(unflushed[i][ty], p) \in Seq(Pins)
           /\ Members(Without(unflushed[i][ty], p)) = Members(unflushed[i][ty]) \ {p}
      /\ \A i \in Slots : Without(flushed[i], p) \in Seq(Pins)
           /\ Members(Without(flushed[i], p)) = Members(flushed[i]) \ {p}
  BY <1>1, WithoutIs
<1>3. /\ Unlink(p).u = [i \in Slots |-> [ty \in Types |-> Without(unflushed[i][ty], p)]]
      /\ Unlink(p).f = [i \in Slots |-> Without(flushed[i], p)]
  BY DEF Unlink
<1> DEFINE u == Unlink(p).u
           f == Unlink(p).f
<1>4. /\ u = [i \in Slots |-> [ty \in Types |-> Without(unflushed[i][ty], p)]]
      /\ f = [i \in Slots |-> Without(flushed[i], p)]
  BY <1>3
<1> HIDE DEF u, f
<1>5. u \in [Slots -> [Types -> Seq(Pins)]] /\ f \in [Slots -> Seq(Pins)]
  BY <1>2, <1>4
<1>6. \A i \in Slots, ty \in Types : u[i][ty] = Without(unflushed[i][ty], p)
  BY <1>4
<1>7. \A i \in Slots : f[i] = Without(flushed[i], p)
  BY <1>4
<1> QED
  BY <1>2, <1>5, <1>6, <1>7 DEF u, f

LEMMA AppendIs ==
  ASSUME NEW l \in Seq(Pins), NEW p \in Pins
  PROVE  Append(l, p) \in Seq(Pins) /\ Members(Append(l, p)) = Members(l) \cup {p}
<1> DEFINE m == Append(l, p)
<1>1. /\ m \in Seq(Pins) /\ Len(l) \in Nat /\ Len(m) = Len(l) + 1 /\ m[Len(l) + 1] = p
      /\ \A k \in 1..Len(l) : m[k] = l[k]
  OBVIOUS
<1> HIDE DEF m
<1>2. \A k \in 1..Len(m) : k \in 1..Len(l) \/ k = Len(l) + 1
  BY <1>1
<1>3. Len(l) + 1 \in 1..Len(m) /\ \A k \in 1..Len(l) : k \in 1..Len(m)
  BY <1>1
<1>4. Members(m) = Members(l) \cup {p}
  BY <1>1, <1>2, <1>3 DEF Members
<1> QED
  BY <1>1, <1>4 DEF m

\* m is what is left after the drop, if any.
Left(t, m) == m = IF Drops(t) THEN Unlink(op[t].pin) ELSE [u |-> unflushed, f |-> flushed]

LEMMA LeftType ==
  ASSUME FifoType, NEW t, op[t].pin \in Pins, NEW m, Left(t, m)
  PROVE  m.u \in [Slots -> [Types -> Seq(Pins)]] /\ m.f \in [Slots -> Seq(Pins)]
BY UnlinkType DEF Left, FifoType

LEMMA MoveIs ==
  ASSUME Typed, NEW t \in Tasks, pc[t] \in {"lock"}, NEW append \in BOOLEAN,
         Move(t, append), append => op[t].kind # "drop"
  PROVE  /\ unflushed' \in [Slots -> [Types -> Seq(Pins)]] /\ flushed' \in [Slots -> Seq(Pins)]
         /\ \E m : /\ Left(t, m) /\ flushed' = m.f
                   /\ unflushed' = IF append
                        THEN [m.u EXCEPT ![op[t].new][use.type[op[t].pin]] = Append(@, op[t].pin)]
                        ELSE m.u
<1> DEFINE m == IF Drops(t) THEN Unlink(op[t].pin) ELSE [u |-> unflushed, f |-> flushed]
<1>1. /\ flushed' = m.f
      /\ unflushed' = IF append
                        THEN [m.u EXCEPT ![op[t].new][use.type[op[t].pin]] = Append(@, op[t].pin)]
                        ELSE m.u
  BY DEF Move
<1>2. op[t].pin \in Pins /\ (append => op[t].new \in Slots)
  BY DEF Typed, Places, PinCalls
<1>3. m.u \in [Slots -> [Types -> Seq(Pins)]] /\ m.f \in [Slots -> Seq(Pins)]
  BY <1>2, LeftType DEF Typed, Left
<1>4. use.type[op[t].pin] \in Types
  BY <1>2, UseType DEF Typed
<1>5. Left(t, m)
  BY DEF Left
<1> HIDE DEF m
<1>6. unflushed' \in [Slots -> [Types -> Seq(Pins)]]
  BY <1>1, <1>2, <1>3, <1>4, AppendIs
<1> QED
  BY <1>1, <1>3, <1>5, <1>6

LEMMA EndSectionTyped ==
  ASSUME Typed, NEW t \in Tasks, pc[t] \in {"lock", "blocked"}, NEW released \in BOOLEAN,
         EndSection(t, released), UNCHANGED <<n, fl, use>>
  PROVE  TaskType' /\ Places' /\ Alone(t) /\ pc'[t] \in {"compute", op[t].back}
         /\ op'[t] \in {op[t], NoOp} /\ (pc'[t] = "compute" => op'[t] = op[t])
<1>1. n' \in [Tasks -> Nat] /\ n' = n /\ fl' = fl
  BY DEF Typed, TaskType
<1>2. CASE ~released
  <2>1. Finish(t)
    BY <1>2 DEF EndSection
  <2>2. op[t].back # "compute"
    BY DEF Typed, TaskType, Operation
  <2> QED
    BY <1>1, <2>1, <2>2, FinishTyped
<1>3. CASE released
  <2>1. Goto(t, "compute") /\ op' = op /\ "compute" \in Where
    BY <1>3 DEF EndSection, Where
  <2>2. TaskType' /\ Alone(t) /\ pc'[t] = "compute" /\ op'[t] = op[t]
    BY <1>1, <2>1, GotoTyped
  <2>3. PinCalls(t) /\ Callbacks(t) /\ FlushCalls(t)
    BY DEF Typed, Places
  <2>4. PinCalls(t)' /\ Callbacks(t)' /\ FlushCalls(t)'
    BY <1>1, <2>2, <2>3 DEF PinCalls, Callbacks, FlushCalls, Flushing
  <2> QED
    BY <2>2, <2>4, PlacesOfOthers
<1> QED
  BY <1>2, <1>3

LEMMA NewCountType ==
  ASSUME FifoType, NEW t PROVE NewCount(t) \in [Slots -> Int]
BY DEF FifoType, NewCount

LEMMA SectionTyped ==
  ASSUME Typed, NEW t \in Tasks, Section(t), use' = use PROVE Typed' /\ Alone(t)
<1> DEFINE o == op[t]
           append == o.kind # "drop"
           released == Releases(t)
<1>1. /\ pc[t] = "lock" /\ NoteDropped(t) /\ Move(t, append) /\ cnt' = NewCount(t)
      /\ pseq' = [pseq EXCEPT ![o.pin] = IF o.kind = "drop" THEN 0 ELSE o.seq]
      /\ hasFn' = [hasFn EXCEPT ![o.pin] = @ \/ o.fn]
      /\ EndSection(t, released)
      /\ UNCHANGED <<head, tail, lock, entry, puts, cbLock, seqVars, n, fl>>
  BY DEF Section
<1>2. append \in BOOLEAN /\ released \in BOOLEAN
  BY DEF Releases
<1>3. o \in Operation /\ o.pin \in Pins
  BY <1>1 DEF Typed, TaskType, Places, PinCalls
<1>4. FifoType'
  <2>1. unflushed' \in [Slots -> [Types -> Seq(Pins)]] /\ flushed' \in [Slots -> Seq(Pins)]
    BY <1>1, <1>2, MoveIs
  <2>2. cnt' \in [Slots -> Int]
    BY <1>1, NewCountType DEF Typed
  <2> QED
    BY <1>1, <2>1, <2>2 DEF Typed, FifoType
<1>5. PinType'
  <2>1. pseq' \in [Pins -> Nat]
    BY <1>1, <1>3 DEF Typed, PinType, Operation
  <2>2. hasFn' \in [Pins -> BOOLEAN]
    BY <1>1, <1>3, Zenon DEF Typed, PinType, Operation
  <2> QED
    BY <1>1, <2>1, <2>2 DEF Typed, PinType
<1>6. FipType' /\ SeqType'
  BY <1>1 DEF NoteDropped, Typed, FipType, SeqType, seqVars
<1> HIDE DEF released
<1>7. TaskType' /\ Places' /\ Alone(t)
  BY <1>1, <1>2, EndSectionTyped
<1> QED
  BY <1>4, <1>5, <1>6, <1>7 DEF Typed

LEMMA SectionBlocksTyped ==
  ASSUME Typed, NEW t \in Tasks, SectionBlocks(t), use' = use PROVE Typed' /\ Alone(t)
<1> DEFINE o == op[t]
<1>1. /\ pc[t] = "lock" /\ o.fn /\ NoteDropped(t) /\ Move(t, FALSE) /\ cnt' = NewCount(t)
      /\ pseq' = [pseq EXCEPT ![o.pin] = o.seq]
      /\ lock' = [i \in Slots |-> IF i \in Wanted(t) THEN t ELSE lock[i]]
      /\ n' = [n EXCEPT ![t] = IF Releases(t) THEN 1 ELSE 0]
      /\ Goto(t, "blocked")
      /\ UNCHANGED <<head, tail, entry, puts, hasFn, cbLock, seqVars, op, fl>>
  BY DEF SectionBlocks
<1>2. PinCalls(t) /\ Callbacks(t) /\ FlushCalls(t) /\ o \in Operation /\ o.pin \in Pins /\ o.kind # "drop"
  BY <1>1 DEF Typed, TaskType, Places, PinCalls
<1>3. FifoType'
  <2>1. unflushed' \in [Slots -> [Types -> Seq(Pins)]] /\ flushed' \in [Slots -> Seq(Pins)]
    BY <1>1, MoveIs
  <2>2. cnt' \in [Slots -> Int]
    BY <1>1, NewCountType DEF Typed
  <2>3. lock' \in [Slots -> Tasks \cup {NoTask}]
    BY <1>1 DEF Typed, FifoType
  <2> QED
    BY <1>1, <2>1, <2>2, <2>3 DEF Typed, FifoType
<1>4. PinType' /\ FipType' /\ SeqType'
  BY <1>1, <1>2 DEF NoteDropped, Typed, PinType, FipType, SeqType, seqVars, Operation
<1>5. n' \in [Tasks -> Nat] /\ \A u \in Tasks \ {t} : n'[u] = n[u]
  BY <1>1 DEF Typed, TaskType
<1>6. "blocked" \in Where
  BY DEF Where
<1>7. TaskType' /\ Alone(t) /\ pc'[t] = "blocked" /\ op'[t] = o
  BY <1>1, <1>5, <1>6, GotoTyped
<1>8. PinCalls(t)' /\ Callbacks(t)' /\ FlushCalls(t)'
  <2>1. o.back # "ran"
    BY <1>2 DEF Callbacks
  <2> QED
    BY <1>1, <1>2, <1>7, <2>1 DEF PinCalls, Callbacks, FlushCalls, Flushing
<1> QED
  BY <1>3, <1>4, <1>7, <1>8, PlacesOfOthers DEF Typed

LEMMA SectionResumesTyped ==
  ASSUME Typed, NEW t \in Tasks, SectionResumes(t), use' = use PROVE Typed' /\ Alone(t)
<1> DEFINE o == op[t]
           released == n[t] = 1
<1>1. /\ pc[t] = "blocked"
      /\ hasFn' = [hasFn EXCEPT ![o.pin] = TRUE]
      /\ unflushed' = [unflushed EXCEPT ![o.new][use.type[o.pin]] = Append(@, o.pin)]
      /\ lock' = [i \in Slots |-> IF lock[i] = t THEN NoTask ELSE lock[i]]
      /\ EndSection(t, released)
      /\ UNCHANGED <<head, tail, cnt, flushed, entry, puts, pseq, cbLock, fipVars, seqVars, n, fl>>
  BY DEF SectionResumes
<1>2. o.pin \in Pins /\ o.new \in Slots
  BY <1>1 DEF Typed, TaskType, Places, PinCalls
<1>3. FifoType'
  <2>1. use.type[o.pin] \in Types
    BY <1>2, UseType DEF Typed
  <2>2. unflushed' \in [Slots -> [Types -> Seq(Pins)]]
    BY <1>1, <1>2, <2>1, AppendIs DEF Typed, FifoType
  <2>3. lock' \in [Slots -> Tasks \cup {NoTask}]
    BY <1>1 DEF Typed, FifoType
  <2> QED
    BY <1>1, <2>2, <2>3 DEF Typed, FifoType
<1>4. PinType' /\ FipType' /\ SeqType'
  <2>1. hasFn' \in [Pins -> BOOLEAN]
    BY <1>1, <1>2 DEF Typed, PinType
  <2> QED
    BY <1>1, <2>1 DEF Typed, PinType, FipType, SeqType, seqVars, fipVars
<1>5. released \in BOOLEAN
  OBVIOUS
<1> HIDE DEF released
<1>6. TaskType' /\ Places' /\ Alone(t)
  BY <1>1, <1>5, EndSectionTyped
<1> QED
  BY <1>3, <1>4, <1>6 DEF Typed

LEMMA ComputeTyped ==
  ASSUME Typed, NEW t \in Tasks, Compute(t), use' = use PROVE Typed' /\ Alone(t)
<1>1. pc[t] = "compute" /\ n' = [n EXCEPT ![t] = Drainable]
      /\ UNCHANGED <<fifoVars, pinVars, fipVars, seqVars, fl>>
  BY DEF Compute
<1>2. FifoType' /\ PinType' /\ SeqType' /\ FipType' /\ fl' = fl
  BY <1>1 DEF Typed, FifoType, PinType, SeqType, FipType, fifoVars, pinVars, fipVars, seqVars
<1>3. Drainable \in Nat
  BY DrainableIs, FifoTypes DEF Typed, FifoType
<1>4. n' \in [Tasks -> Nat] /\ \A u \in Tasks \ {t} : n'[u] = n[u]
  BY <1>1, <1>3 DEF Typed, TaskType
<1>5. CASE Drainable = 0
  <2>1. Finish(t)
    BY <1>5 DEF Compute
  <2> QED
    BY <1>1, <1>2, <1>4, <2>1, FinishTyped DEF Typed
<1>6. CASE Drainable # 0
  <2>1. Goto(t, "drain") /\ op' = op /\ "drain" \in Where
    BY <1>6 DEF Compute, Where
  <2>2. TaskType' /\ Alone(t) /\ pc'[t] = "drain" /\ op'[t] = op[t]
    BY <1>2, <1>4, <2>1, GotoTyped
  <2>3. PinCalls(t) /\ Callbacks(t) /\ FlushCalls(t)
    BY DEF Typed, Places
  <2>4. PinCalls(t)' /\ Callbacks(t)' /\ FlushCalls(t)'
    BY <1>1, <1>2, <2>2, <2>3 DEF PinCalls, Callbacks, FlushCalls, Flushing
  <2> QED
    BY <1>2, <2>2, <2>4, PlacesOfOthers DEF Typed
<1> QED
  BY <1>5, <1>6

LEMMA DrainTyped ==
  ASSUME Typed, NEW t \in Tasks, Drain(t), use' = use PROVE Typed' /\ Alone(t)
<1> DEFINE k == IF n[t] <= Length THEN n[t] ELSE Length
           gone == {(head + j) % FifoSize : j \in 0..(k - 1)}
<1>1. /\ pc[t] = "drain"
      /\ head' = (head + k) % FifoSize
      /\ unflushed' = [i \in Slots |-> IF i \in gone THEN [ty \in Types |-> <<>>] ELSE unflushed[i]]
      /\ flushed' = [i \in Slots |-> IF i \in gone THEN <<>> ELSE flushed[i]]
      /\ Goto(t, "advance")
      /\ UNCHANGED <<tail, cnt, lock, entry, puts, pinVars, fipVars, seqVars, op, n, fl>>
  BY DEF Drain
<1>2. PinType' /\ SeqType' /\ FipType'
  BY <1>1 DEF Typed, PinType, SeqType, FipType, pinVars, fipVars, seqVars
<1>3. k \in Nat /\ head + k \in Int
  <2>1. head \in Slots /\ tail \in Slots /\ n[t] \in Nat
    BY DEF Typed, FifoType, TaskType
  <2>2. Length \in Nat
    BY <2>1, FifoTypes
  <2> QED
    BY <2>1, <2>2, FifoAssumption DEF Slots
<1> HIDE DEF k, gone
<1>4. head' \in Slots
  <2>1. \A i \in Int : i % FifoSize \in 0..(FifoSize - 1)
    BY FifoAssumption
  <2> QED
    BY <1>1, <1>3, <2>1 DEF Slots
<1>5. FifoType'
  <2>1. <<>> \in Seq(Pins)
    OBVIOUS
  <2> QED
    BY <1>1, <1>4, <2>1 DEF Typed, FifoType
<1>6. TaskType' /\ Alone(t) /\ pc'[t] = "advance" /\ op'[t] = op[t]
  <2>1. "advance" \in Where
    BY DEF Where
  <2> QED
    BY <1>1, <2>1, GotoTyped DEF Typed, TaskType
<1>7. PinCalls(t) /\ Callbacks(t) /\ FlushCalls(t)
  BY DEF Typed, Places
<1>8. PinCalls(t)' /\ Callbacks(t)' /\ FlushCalls(t)'
  BY <1>1, <1>6, <1>7 DEF PinCalls, Callbacks, FlushCalls, Flushing
<1> QED
  BY <1>2, <1>5, <1>6, <1>8, PlacesOfOthers DEF Typed

LEMMA AdvanceTyped ==
  ASSUME Typed, NEW t \in Tasks, Advance(t), use' = use PROVE Typed' /\ Alone(t)
<1>1. /\ pc[t] = "advance" /\ disk' = disk + n[t] /\ n' = [n EXCEPT ![t] = 0] /\ Finish(t)
      /\ UNCHANGED <<fifoVars, pinVars, fipVars, seq, written, fl>>
  BY DEF Advance
<1>2. n' \in [Tasks -> Nat] /\ (\A u \in Tasks \ {t} : n'[u] = n[u]) /\ n[t] \in Nat
  BY <1>1 DEF Typed, TaskType
<1>3. FifoType' /\ PinType' /\ SeqType' /\ FipType'
  BY <1>1, <1>2 DEF Typed, FifoType, PinType, SeqType, FipType, fifoVars, pinVars, fipVars
<1> QED
  BY <1>1, <1>2, <1>3, FinishTyped DEF Typed

-----------------------------------------------------------------------------
(* Entries and the walk. *)

LEMMA OpenEntryTyped ==
  ASSUME Typed, NEW t \in Tasks, NEW w, OpenEntry(t, w)
  PROVE  FifoType' /\ seq' \in Nat \ {0} /\ \E v \in {w, "poisoned"} : Goto(t, v)
<1>1. CASE IsFull \/ Poisoned
  BY <1>1 DEF OpenEntry, Typed, FifoType, SeqType, fifoVars
<1>2. CASE ~(IsFull \/ Poisoned)
  <2>1. PushList /\ Goto(t, w)
    BY <1>2 DEF OpenEntry
  <2>2. Next1(tail) \in Slots /\ <<>> \in Seq(Pins) /\ seq \in Nat
    BY FifoTypes DEF Typed, FifoType, SeqType
  <2>3. FifoType'
    BY <2>1, <2>2 DEF PushList, Typed, FifoType
  <2> QED
    BY <2>1, <2>2, <2>3 DEF PushList
<1> QED
  BY <1>1, <1>2

LEMMA CycleTyped ==
  ASSUME Typed, NEW t \in Tasks, Cycle(t), use' = use PROVE Typed' /\ Alone(t)
<1>1. pc[t] = "idle" /\ OpenEntry(t, "idle") /\ UNCHANGED <<pinVars, fipVars, disk, written, op,
      n, fl>>
  BY DEF Cycle
<1>2. FifoType' /\ seq' \in Nat \ {0}
  BY <1>1, OpenEntryTyped
<1>3. PICK v \in {"idle", "poisoned"} : Goto(t, v)
  BY <1>1, OpenEntryTyped
<1>4. v \in Where /\ n' \in [Tasks -> Nat] /\ n' = n /\ fl' = fl
  BY <1>1 DEF Where, Typed, TaskType
<1>5. TaskType' /\ Alone(t) /\ pc'[t] = v /\ op'[t] = op[t]
  BY <1>1, <1>3, <1>4, GotoTyped
<1>6. PinCalls(t) /\ Callbacks(t) /\ FlushCalls(t)
  BY DEF Typed, Places
<1>7. PinCalls(t)' /\ Callbacks(t)' /\ FlushCalls(t)'
  BY <1>1, <1>4, <1>5, <1>6 DEF PinCalls, Callbacks, FlushCalls, Flushing
<1>8. PinType' /\ SeqType' /\ FipType'
  BY <1>1, <1>2 DEF Typed, PinType, SeqType, FipType, pinVars, fipVars
<1> QED
  BY <1>2, <1>5, <1>7, <1>8, PlacesOfOthers DEF Typed

LEMMA WriteDoneIs ==
  ASSUME SeqType, use \in Uses
  PROVE  IsFiniteSet(WriteDone) /\ \A i : Hits(i) \in Nat
<1>1. IsFiniteSet(use.first..(seq - 1))
  <2>1. use.first \in Int /\ seq - 1 \in Int
    BY UseType DEF SeqType
  <2> QED
    BY <2>1, FS_Interval
<1>2. IsFiniteSet(WriteDone)
  BY <1>1, FS_Subset DEF WriteDone
<1>3. ASSUME NEW i PROVE Hits(i) \in Nat
  <2>1. IsFiniteSet({s \in WriteDone : SlotOf(s) = i})
    BY <1>2, FS_Subset
  <2> QED
    BY <2>1, FS_CardinalityType DEF Hits
<1> QED
  BY <1>2, <1>3

\* A flusher changes what it does, and nothing in Callbacks holds before.
LEMMA FlushGoes ==
  ASSUME Typed, NEW f \in use.flushers, NEW w \in Where, NEW d \in Flush,
         w \in Flushing \cup {"scan", "idle"}, w \in Flushing => d.pin \in Pins,
         pc[f] \in Flushing \cup {"scan", "idle"},
         pc' = [pc EXCEPT ![f] = w], UNCHANGED <<op, n, use>>, fl' = [fl EXCEPT ![f] = d]
  PROVE  TaskType' /\ Places' /\ Alone(f) /\ pc'[f] = w /\ fl'[f] = d
<1>1. f \in Flushers /\ f \in Tasks
  BY UseType DEF Typed, Tasks
<1>2. TaskType' /\ Alone(f) /\ pc'[f] = w /\ fl'[f] = d /\ op'[f] = op[f]
  BY <1>1, NewFlush
<1>3. PinCalls(f) /\ Callbacks(f) /\ FlushCalls(f)
  BY <1>1 DEF Typed, Places
<1>4. PinCalls(f)' /\ Callbacks(f)' /\ FlushCalls(f)'
  BY <1>2, <1>3 DEF PinCalls, Callbacks, FlushCalls, Flushing
<1> QED
  BY <1>1, <1>2, <1>4, PlacesOfOthers

LEMMA FlushWhere ==
  \A w \in Flushing \cup {"scan", "idle", "open", "compute", "read"} : w \in Where
BY DEF Flushing, Where

LEMMA PutSelfPinsTyped ==
  ASSUME Typed, NEW f \in use.flushers, PutSelfPins(f), use' = use PROVE Typed' /\ Alone(f)
<1> DEFINE d == [NoFlush EXCEPT !.mode = "write", !.target = seq]
<1>1. /\ pc[f] = "idle" /\ fl' = [fl EXCEPT ![f] = d] /\ Goto(f, "scan")
      /\ cnt' = [i \in Slots |-> cnt[i] - Hits(i)]
      /\ puts' = [i \in Slots |-> puts[i] + Hits(i)]
      /\ written' = seq - 1
      /\ UNCHANGED <<head, tail, unflushed, flushed, lock, entry, pinVars, fipVars, seq, disk, op,
         n>>
  BY DEF PutSelfPins
<1>2. d \in Flush
  BY DEF Typed, SeqType, NoFlush, Flush
<1> HIDE DEF d
<1>3. TaskType' /\ Places' /\ Alone(f)
  BY <1>1, <1>2, FlushGoes, FlushWhere DEF Goto, Flushing
<1>4. FifoType'
  <2>1. \A i \in Slots : cnt[i] \in Int /\ puts[i] \in Nat /\ Hits(i) \in Nat
    BY WriteDoneIs DEF Typed, FifoType
  <2>2. cnt' \in [Slots -> Int] /\ puts' \in [Slots -> Nat]
    BY <1>1, <2>1
  <2> QED
    BY <1>1, <2>2 DEF Typed, FifoType
<1>5. PinType' /\ SeqType' /\ FipType'
  BY <1>1 DEF Typed, PinType, SeqType, FipType, pinVars, fipVars
<1> QED
  BY <1>3, <1>4, <1>5 DEF Typed

LEMMA StartReclaimTyped ==
  ASSUME Typed, NEW f \in use.flushers, StartReclaim(f), use' = use PROVE Typed' /\ Alone(f)
<1>1. PICK target \in use.first..(seq - 1) :
  /\ pc[f] = "idle"
  /\ fl' = [fl EXCEPT ![f] = [NoFlush EXCEPT !.mode = "reclaim", !.target = target]]
  /\ Goto(f, "scan")
  /\ UNCHANGED <<fifoVars, pinVars, fipVars, seqVars, op, n>>
  BY DEF StartReclaim
<1> DEFINE d == [NoFlush EXCEPT !.mode = "reclaim", !.target = target]
<1>2. target \in Nat
  BY UseType DEF Typed, SeqType
<1>3. d \in Flush
  BY <1>2 DEF NoFlush, Flush
<1>4. fl' = [fl EXCEPT ![f] = d]
  BY <1>1
<1> HIDE DEF d
<1>5. TaskType' /\ Places' /\ Alone(f)
  BY <1>1, <1>3, <1>4, FlushGoes, FlushWhere DEF Goto, Flushing
<1>6. FifoType' /\ PinType' /\ SeqType' /\ FipType'
  BY <1>1 DEF Typed, FifoType, PinType, SeqType, FipType, fifoVars, pinVars, fipVars, seqVars
<1> QED
  BY <1>5, <1>6 DEF Typed

LEMMA OpenNextTyped ==
  ASSUME Typed, NEW f \in use.flushers, OpenNext(f), use' = use PROVE Typed' /\ Alone(f)
<1>1. pc[f] = "open" /\ fl' = [fl EXCEPT ![f] = NoFlush] /\ OpenEntry(f, "idle")
      /\ UNCHANGED <<pinVars, fipVars, disk, written, op, n>>
  BY DEF OpenNext
<1>2. f \in Flushers /\ f \in Tasks
  BY UseType DEF Typed, Tasks
<1>3. FifoType' /\ seq' \in Nat \ {0}
  BY <1>1, <1>2, OpenEntryTyped
<1>4. PICK v \in {"idle", "poisoned"} : Goto(f, v)
  BY <1>1, <1>2, OpenEntryTyped
<1>5. v \in Where /\ NoFlush \in Flush
  BY DEF Where, NoFlush, Flush
<1>6. TaskType' /\ Alone(f) /\ pc'[f] = v /\ op'[f] = op[f]
  BY <1>1, <1>2, <1>4, <1>5, NewFlush DEF Goto
<1>7. PinCalls(f) /\ Callbacks(f) /\ FlushCalls(f)
  BY <1>2 DEF Typed, Places
<1>8. PinCalls(f)' /\ Callbacks(f)' /\ FlushCalls(f)'
  BY <1>1, <1>5, <1>6, <1>7 DEF PinCalls, Callbacks, FlushCalls, Flushing
<1>9. PinType' /\ SeqType' /\ FipType'
  BY <1>1, <1>3 DEF Typed, PinType, SeqType, FipType, pinVars, fipVars
<1> QED
  BY <1>2, <1>3, <1>6, <1>8, <1>9, PlacesOfOthers DEF Typed

\* A flusher begins a call of its own: the update of last_seq_ondisk or the drop
\* of a callback.
LEMMA FlushCallsOn ==
  ASSUME Typed, NEW f \in use.flushers, NEW w \in {"compute", "read"}, NEW o \in Operation,
         pc' = [pc EXCEPT ![f] = w], op' = [op EXCEPT ![f] = o], UNCHANGED <<n, use, fl>>,
         w = "compute" => o.back # "ran",
         w = "read" => o.kind = "drop" /\ o.pin = fl[f].pin /\ fl[f].pin \in Pins /\ ~o.fn
  PROVE  TaskType' /\ Places' /\ Alone(f) /\ pc'[f] = w /\ op'[f] = o
<1>1. f \in Flushers /\ f \in Tasks
  BY UseType DEF Typed, Tasks
<1>2. w \in Where
  BY DEF Where
<1>3. TaskType' /\ Alone(f) /\ pc'[f] = w /\ op'[f] = o /\ fl'[f] = fl[f]
  BY <1>1, <1>2, NewOp
<1>4. PinCalls(f)' /\ Callbacks(f)' /\ FlushCalls(f)'
  BY <1>3 DEF PinCalls, Callbacks, FlushCalls, Flushing
<1> QED
  BY <1>1, <1>3, <1>4, PlacesOfOthers

LEMMA CallOfFlush ==
  /\ \A b \in {"open", "idle"} : [NoOp EXCEPT !.back = b] \in Operation
                                  /\ [NoOp EXCEPT !.back = b].back = b
  /\ \A p \in Pins : LET o == [NoOp EXCEPT !.kind = "drop", !.pin = p, !.back = "ran"]
                     IN  o \in Operation /\ o.kind = "drop" /\ o.pin = p /\ ~o.fn /\ o.back = "ran"
BY DEF NoOp, Operation

LEMMA ScanEndsTyped ==
  ASSUME Typed, NEW f \in use.flushers, ScanEnds(f), use' = use PROVE Typed' /\ Alone(f)
<1> DEFINE b == IF fl[f].mode = "write" THEN "open" ELSE "idle"
           o == [NoOp EXCEPT !.back = b]
<1>1. /\ pc[f] = "scan" /\ Goto(f, "compute") /\ op' = [op EXCEPT ![f] = o]
      /\ UNCHANGED <<fifoVars, pinVars, fipVars, seqVars, n, fl>>
  BY DEF ScanEnds
<1>2. o \in Operation /\ o.back # "ran"
  <2>1. b \in {"open", "idle"}
    OBVIOUS
  <2> HIDE DEF b
  <2> QED
    BY <2>1, CallOfFlush
<1> HIDE DEF o
<1>3. TaskType' /\ Places' /\ Alone(f)
  BY <1>1, <1>2, FlushCallsOn DEF Goto
<1>4. FifoType' /\ PinType' /\ SeqType' /\ FipType'
  BY <1>1 DEF Typed, FifoType, PinType, SeqType, FipType, fifoVars, pinVars, fipVars, seqVars
<1> QED
  BY <1>3, <1>4 DEF Typed

\* What the walk returns.
LEMMA WalkIs ==
  ASSUME Typed, NEW target, Candidates(target) # {}
  PROVE  LET s == Least(Candidates(target))
             i == SlotOf(s)
             ty == Least(Stopping(i))
         IN  /\ s \in Candidates(target) /\ s \in Nat /\ i \in Slots /\ ty \in Types
             /\ ty \in Stopping(i) /\ Front(i, ty) \in Members(unflushed[i][ty])
             /\ Front(i, ty) \in Pins
<1> DEFINE C == Candidates(target)
           s == Least(C)
           i == SlotOf(s)
           ty == Least(Stopping(i))
<1>1. C \subseteq Nat /\ C # {}
  BY DEF Candidates, Typed, SeqType
<1>2. s \in C
  <2> HIDE DEF C
  <2>1. \E x \in C : \A y \in C : x <= y
    BY <1>1, LeastNat
  <2> QED
    BY <2>1 DEF Least
<1>3. s \in Nat /\ i # NoSlot /\ Stopping(i) # {}
  BY <1>1, <1>2 DEF Candidates
<1> HIDE DEF s
<1>4. i \in Slots
  BY <1>3, FifoTypes DEF Typed, FifoType
<1> HIDE DEF i
<1>5. ty \in Stopping(i)
  <2>1. Stopping(i) \subseteq Nat
    BY DEF Stopping, Occupied, Types
  <2>2. \E x \in Stopping(i) : \A y \in Stopping(i) : x <= y
    BY <1>3, <2>1, LeastNat
  <2> QED
    BY <2>2 DEF Least
<1> HIDE DEF ty
<1>6. ty \in Types /\ unflushed[i][ty] # <<>>
  BY <1>5 DEF Stopping, Occupied
<1> DEFINE l == unflushed[i][ty]
<1>7. l \in Seq(Pins) /\ l # <<>>
  BY <1>4, <1>6 DEF Typed, FifoType
<1> HIDE DEF l
<1>8. 1 \in 1..Len(l) /\ l[1] \in Pins
  BY <1>7
<1>9. Front(i, ty) \in Members(unflushed[i][ty]) /\ Front(i, ty) \in Pins
  BY <1>8 DEF l, Front, Members
<1> QED
  BY <1>2, <1>3, <1>4, <1>5, <1>6, <1>9 DEF s, i, ty

LEMMA ChooseTyped ==
  ASSUME Typed, NEW f \in use.flushers, NEW p \in Pins, NEW s \in Nat, Choose(f, p, s),
         pc[f] \in {"scan", "scanblocked"}, UNCHANGED <<op, n, use>>
  PROVE  TaskType' /\ Places' /\ Alone(f) /\ FipType' /\ pc'[f] = "callback" /\ fl'[f].pin = p
         /\ fl'[f].seq = s
<1> DEFINE d == [fl[f] EXCEPT !.pin = p, !.seq = s, !.ok = TRUE]
<1>1. f \in Flushers /\ fl[f] \in Flush /\ fl \in [Flushers -> Flush]
  BY UseType DEF Typed, TaskType
<1>2. d \in Flush /\ d.pin = p /\ d.seq = s
  BY <1>1 DEF Flush
<1>3. fl' = [fl EXCEPT ![f] = d]
  BY <1>1 DEF Choose, Flush
<1> HIDE DEF d
<1>4. TaskType' /\ Places' /\ Alone(f) /\ pc'[f] = "callback" /\ fl'[f] = d
  BY <1>2, <1>3, FlushGoes, FlushWhere DEF Goto, Flushing, Choose
<1>5. FipType'
  BY DEF Choose, FipType
<1> QED
  BY <1>2, <1>4, <1>5

LEMMA ScanFindsTyped ==
  ASSUME Typed, NEW f \in use.flushers, ScanFinds(f), use' = use PROVE Typed' /\ Alone(f)
<1> DEFINE s == Least(Candidates(fl[f].target))
           i == SlotOf(s)
           ty == Least(Stopping(i))
           p == Front(i, ty)
<1>1. /\ pc[f] = "scan" /\ Candidates(fl[f].target) # {}
      /\ IF cbLock[p] = NoTask
           THEN Choose(f, p, s) /\ UNCHANGED lock
           ELSE /\ lock' = [lock EXCEPT ![i] = f]
                /\ fl' = [fl EXCEPT ![f].pin = p, ![f].seq = s]
                /\ Goto(f, "scanblocked")
                /\ UNCHANGED fipVars
      /\ UNCHANGED <<head, tail, cnt, unflushed, flushed, entry, puts, pinVars, seqVars, op, n>>
  BY DEF ScanFinds
<1>2. s \in Nat /\ i \in Slots /\ p \in Pins
  BY <1>1, WalkIs
<1> HIDE DEF s, i, p
<1>3. f \in Flushers /\ f \in Tasks /\ fl[f] \in Flush /\ fl \in [Flushers -> Flush]
  BY UseType DEF Typed, TaskType, Tasks
<1>4. TaskType' /\ Places' /\ Alone(f) /\ FipType' /\ lock' \in [Slots -> Tasks \cup {NoTask}]
  <2>1. CASE cbLock[p] = NoTask
    <3>1. Choose(f, p, s) /\ lock' = lock
      BY <1>1, <2>1
    <3> QED
      BY <1>1, <1>2, <3>1, ChooseTyped DEF Typed, FifoType
  <2>2. CASE cbLock[p] # NoTask
    <3> DEFINE d == [fl[f] EXCEPT !.pin = p, !.seq = s]
    <3>1. /\ lock' = [lock EXCEPT ![i] = f]
          /\ fl' = [fl EXCEPT ![f].pin = p, ![f].seq = s]
          /\ Goto(f, "scanblocked") /\ UNCHANGED fipVars
      BY <1>1, <2>2
    <3>2. d \in Flush /\ d.pin = p
      BY <1>2, <1>3 DEF Flush
    <3>3. fl' = [fl EXCEPT ![f] = d]
      BY <1>3, <3>1 DEF Flush
    <3> HIDE DEF d
    <3>4. TaskType' /\ Places' /\ Alone(f)
      BY <1>1, <1>2, <3>1, <3>2, <3>3, FlushGoes, FlushWhere DEF Goto, Flushing
    <3> QED
      BY <1>2, <1>3, <3>1, <3>4 DEF Typed, FifoType, FipType, fipVars
  <2> QED
    BY <2>1, <2>2
<1>5. FifoType' /\ PinType' /\ SeqType'
  BY <1>1, <1>4 DEF Typed, FifoType, PinType, SeqType, pinVars, seqVars
<1> QED
  BY <1>4, <1>5 DEF Typed

LEMMA ScanResumesTyped ==
  ASSUME Typed, NEW f \in use.flushers, ScanResumes(f), use' = use PROVE Typed' /\ Alone(f)
<1> DEFINE p == fl[f].pin
<1>1. /\ pc[f] = "scanblocked"
      /\ lock' = [i \in Slots |-> IF lock[i] = f THEN NoTask ELSE lock[i]]
      /\ IF hasFn[p] THEN Choose(f, p, fl[f].seq)
         ELSE Goto(f, "scan") /\ UNCHANGED <<fipVars, fl>>
      /\ UNCHANGED <<head, tail, cnt, unflushed, flushed, entry, puts, pinVars, seqVars, op, n>>
  BY DEF ScanResumes
<1>2. f \in Flushers /\ f \in Tasks /\ fl[f] \in Flush /\ fl \in [Flushers -> Flush] /\ FlushCalls(f)
  BY UseType DEF Typed, TaskType, Tasks, Places
<1>3. p \in Pins /\ fl[f].seq \in Nat
  BY <1>1, <1>2 DEF FlushCalls, Flushing, Flush
<1>4. TaskType' /\ Places' /\ Alone(f) /\ FipType'
  <2>1. CASE hasFn[p]
    <3>1. Choose(f, p, fl[f].seq)
      BY <1>1, <2>1
    <3> QED
      BY <1>1, <1>3, <3>1, ChooseTyped
  <2>2. CASE ~hasFn[p]
    <3>1. Goto(f, "scan") /\ UNCHANGED <<fipVars, fl>>
      BY <1>1, <2>2
    <3>2. fl' = [fl EXCEPT ![f] = fl[f]]
      BY <1>2, <3>1
    <3>3. TaskType' /\ Places' /\ Alone(f)
      BY <1>1, <1>2, <3>1, <3>2, FlushGoes, FlushWhere DEF Goto, Flushing
    <3> QED
      BY <3>1, <3>3 DEF Typed, FipType, fipVars
  <2> QED
    BY <2>1, <2>2
<1>5. lock' \in [Slots -> Tasks \cup {NoTask}]
  BY <1>1 DEF Typed, FifoType
<1>6. FifoType' /\ PinType' /\ SeqType'
  BY <1>1, <1>5 DEF Typed, FifoType, PinType, SeqType, pinVars, seqVars
<1> QED
  BY <1>4, <1>6 DEF Typed

-----------------------------------------------------------------------------
(* Callbacks. *)

LEMMA CallbackStartsTyped ==
  ASSUME Typed, NEW f \in use.flushers, CallbackStarts(f), use' = use PROVE Typed' /\ Alone(f)
<1>1. /\ pc[f] = "callback" /\ cbLock' = [cbLock EXCEPT ![fl[f].pin] = f] /\ Goto(f, "running")
      /\ UNCHANGED <<fifoVars, pseq, hasFn, fipVars, seqVars, op, n, fl>>
  BY DEF CallbackStarts
<1>2. f \in Flushers /\ f \in Tasks /\ fl[f] \in Flush /\ fl \in [Flushers -> Flush] /\ FlushCalls(f)
  BY UseType DEF Typed, TaskType, Tasks, Places
<1>3. fl' = [fl EXCEPT ![f] = fl[f]] /\ fl[f].pin \in Pins
  BY <1>1, <1>2 DEF FlushCalls, Flushing
<1>4. TaskType' /\ Places' /\ Alone(f)
  BY <1>1, <1>2, <1>3, FlushGoes, FlushWhere DEF Goto, Flushing
<1>5. FifoType' /\ PinType' /\ SeqType' /\ FipType'
  BY <1>1, <1>2 DEF Typed, FifoType, PinType, SeqType, FipType, fifoVars, fipVars, seqVars
<1> QED
  BY <1>4, <1>5 DEF Typed

LEMMA CallbackDropsTyped ==
  ASSUME Typed, NEW f \in use.flushers, CallbackDrops(f), use' = use PROVE Typed' /\ Alone(f)
<1> DEFINE o == [NoOp EXCEPT !.kind = "drop", !.pin = fl[f].pin, !.back = "ran"]
<1>1. /\ pc[f] = "running" /\ op' = [op EXCEPT ![f] = o] /\ Goto(f, "read")
      /\ UNCHANGED <<fifoVars, pinVars, fipVars, seqVars, n, fl>>
  BY DEF CallbackDrops
<1>2. fl[f].pin \in Pins
  BY <1>1, UseType DEF Typed, Tasks, Places, FlushCalls, Flushing
<1>3. o \in Operation /\ o.kind = "drop" /\ o.pin = fl[f].pin /\ ~o.fn
  BY <1>2, CallOfFlush
<1> HIDE DEF o
<1>4. TaskType' /\ Places' /\ Alone(f)
  BY <1>1, <1>2, <1>3, FlushCallsOn DEF Goto
<1>5. FifoType' /\ PinType' /\ SeqType' /\ FipType'
  BY <1>1 DEF Typed, FifoType, PinType, SeqType, FipType, fifoVars, pinVars, fipVars, seqVars
<1> QED
  BY <1>4, <1>5 DEF Typed

LEMMA CallbackLeavesTyped ==
  ASSUME Typed, NEW f \in use.flushers, CallbackLeaves(f), use' = use PROVE Typed' /\ Alone(f)
<1>1. PICK ok \in BOOLEAN :
        /\ pc[f] = "running" /\ fl' = [fl EXCEPT ![f].ok = ok] /\ Goto(f, "ran")
        /\ UNCHANGED <<fifoVars, pinVars, fipVars, seqVars, op, n>>
  BY DEF CallbackLeaves
<1> DEFINE d == [fl[f] EXCEPT !.ok = ok]
<1>2. f \in Flushers /\ f \in Tasks /\ fl[f] \in Flush /\ fl \in [Flushers -> Flush] /\ FlushCalls(f)
  BY UseType DEF Typed, TaskType, Tasks, Places
<1>3. d \in Flush /\ d.pin \in Pins
  BY <1>1, <1>2 DEF Flush, FlushCalls, Flushing
<1>4. fl' = [fl EXCEPT ![f] = d]
  BY <1>1, <1>2 DEF Flush
<1> HIDE DEF d
<1>5. TaskType' /\ Places' /\ Alone(f)
  BY <1>1, <1>3, <1>4, FlushGoes, FlushWhere DEF Goto, Flushing
<1>6. FifoType' /\ PinType' /\ SeqType' /\ FipType'
  BY <1>1 DEF Typed, FifoType, PinType, SeqType, FipType, fifoVars, pinVars, fipVars, seqVars
<1> QED
  BY <1>5, <1>6 DEF Typed

LEMMA CallbackEndsTyped ==
  ASSUME Typed, NEW f \in use.flushers, CallbackEnds(f), use' = use PROVE Typed' /\ Alone(f)
<1>1. /\ pc[f] = "ran" /\ cbLock' = [cbLock EXCEPT ![fl[f].pin] = NoTask] /\ Goto(f, "ranout")
      /\ UNCHANGED <<fifoVars, pseq, hasFn, fipVars, seqVars, op, n, fl>>
  BY DEF CallbackEnds
<1>2. f \in Flushers /\ f \in Tasks /\ fl[f] \in Flush /\ fl \in [Flushers -> Flush] /\ FlushCalls(f)
  BY UseType DEF Typed, TaskType, Tasks, Places
<1>3. fl' = [fl EXCEPT ![f] = fl[f]] /\ fl[f].pin \in Pins
  BY <1>1, <1>2 DEF FlushCalls, Flushing
<1>4. TaskType' /\ Places' /\ Alone(f)
  BY <1>1, <1>2, <1>3, FlushGoes, FlushWhere DEF Goto, Flushing
<1>5. FifoType' /\ PinType' /\ SeqType' /\ FipType'
  BY <1>1, <1>2 DEF Typed, FifoType, PinType, SeqType, FipType, fifoVars, fipVars, seqVars
<1> QED
  BY <1>4, <1>5 DEF Typed

LEMMA AfterPinTyped ==
  ASSUME Typed, NEW f \in use.flushers, pc[f] = "ranout", AfterPin(f), UNCHANGED <<n, fl, use>>
  PROVE  /\ TaskType' /\ Places' /\ Alone(f)
         /\ pc'[f] \in {"scan", "idle", "compute"} /\ op'[f].back # "ran"
<1>1. f \in Flushers /\ f \in Tasks /\ fl[f] \in Flush /\ fl \in [Flushers -> Flush] /\ Callbacks(f)
  BY UseType DEF Typed, TaskType, Tasks, Places
<1>2. fl' = [fl EXCEPT ![f] = fl[f]]
  BY <1>1
<1>3. CASE \E w \in {"scan", "idle"} : Goto(f, w) /\ op' = op
  <2>1. PICK w \in {"scan", "idle"} : Goto(f, w) /\ op' = op
    BY <1>3
  <2>2. TaskType' /\ Places' /\ Alone(f) /\ pc'[f] = w
    BY <1>1, <1>2, <2>1, FlushGoes, FlushWhere DEF Goto, Flushing
  <2>3. op'[f].back # "ran"
    BY <1>1, <2>1 DEF Callbacks
  <2> QED
    BY <2>2, <2>3
<1>4. CASE Goto(f, "compute") /\ op' = [op EXCEPT ![f] = [NoOp EXCEPT !.back = "open"]]
  <2> DEFINE o == [NoOp EXCEPT !.back = "open"]
  <2>1. o \in Operation /\ o.back = "open"
    BY CallOfFlush
  <2>2. op' = [op EXCEPT ![f] = o] /\ pc' = [pc EXCEPT ![f] = "compute"]
    BY <1>4 DEF Goto
  <2> HIDE DEF o
  <2>3. TaskType' /\ Places' /\ Alone(f) /\ pc'[f] = "compute" /\ op'[f] = o
    BY <2>1, <2>2, FlushCallsOn
  <2> QED
    BY <2>1, <2>3
<1> QED
  BY <1>3, <1>4 DEF AfterPin

LEMMA MoveToFlushedTyped ==
  ASSUME Typed, NEW f \in use.flushers, MoveToFlushed(f), use' = use PROVE Typed' /\ Alone(f)
<1> DEFINE p == fl[f].pin
           i == SlotOf(fl[f].seq)
<1>1. /\ pc[f] = "ranout" /\ i # NoSlot
      /\ IF fipDropped THEN UNCHANGED <<unflushed, flushed>>
         ELSE /\ unflushed' = Unlink(p).u
              /\ flushed' = [Unlink(p).f EXCEPT ![i] = Append(@, p)]
      /\ fip' = NoPin /\ fipDropped' = FALSE /\ AfterPin(f)
      /\ UNCHANGED <<head, tail, cnt, lock, entry, puts, pinVars, seqVars, n, fl>>
  BY DEF MoveToFlushed
<1>2. TaskType' /\ Places' /\ Alone(f)
  BY <1>1, AfterPinTyped
<1>3. p \in Pins /\ i \in Slots
  <2>1. f \in Flushers /\ f \in Tasks /\ fl[f] \in Flush /\ FlushCalls(f)
    BY UseType DEF Typed, TaskType, Tasks, Places
  <2>2. fl[f].seq \in Nat /\ p \in Pins
    BY <1>1, <2>1 DEF Flush, FlushCalls, Flushing
  <2> QED
    BY <1>1, <2>2, FifoTypes DEF Typed, FifoType
<1> HIDE DEF p, i
<1>4. unflushed' \in [Slots -> [Types -> Seq(Pins)]] /\ flushed' \in [Slots -> Seq(Pins)]
  <2>1. CASE fipDropped
    BY <1>1, <2>1 DEF Typed, FifoType
  <2>2. CASE ~fipDropped
    <3>1. Unlink(p).u \in [Slots -> [Types -> Seq(Pins)]] /\ Unlink(p).f \in [Slots -> Seq(Pins)]
      BY <1>3, UnlinkType DEF Typed
    <3> DEFINE g == Unlink(p).f
               l == g[i]
    <3>2. unflushed' = Unlink(p).u /\ flushed' = [g EXCEPT ![i] = Append(l, p)]
      BY <1>1, <2>2
    <3>3. l \in Seq(Pins) /\ g \in [Slots -> Seq(Pins)]
      BY <1>3, <3>1
    <3> HIDE DEF g, l
    <3>4. Append(l, p) \in Seq(Pins)
      BY <1>3, <3>3, AppendIs
    <3> QED
      BY <3>1, <3>2, <3>3, <3>4
  <2> QED
    BY <2>1, <2>2
<1>5. FifoType' /\ PinType' /\ SeqType' /\ FipType'
  BY <1>1, <1>4 DEF Typed, FifoType, PinType, SeqType, FipType, pinVars, seqVars
<1> QED
  BY <1>2, <1>5 DEF Typed

LEMMA ListIsGoneTyped ==
  ASSUME Typed, NEW f \in use.flushers, ListIsGone(f), use' = use PROVE Typed' /\ Alone(f)
<1>1. pc[f] = "ranout" /\ AfterPin(f) /\ UNCHANGED <<fifoVars, pinVars, fipVars, seqVars, n, fl>>
  BY DEF ListIsGone
<1>2. TaskType' /\ Places' /\ Alone(f)
  BY <1>1, AfterPinTyped
<1>3. FifoType' /\ PinType' /\ SeqType' /\ FipType'
  BY <1>1 DEF Typed, FifoType, PinType, SeqType, FipType, fifoVars, pinVars, fipVars, seqVars
<1> QED
  BY <1>2, <1>3 DEF Typed

FlusherStep(f) == PutSelfPins(f) \/ StartReclaim(f) \/ FlushStep(f)

LEMMA TypedNext == Typed /\ Next => Typed'
<1> SUFFICES ASSUME Typed, Next PROVE Typed'
  OBVIOUS
<1>1. use' = use
  BY DEF Next
<1>2. ASSUME NEW t \in use.workers, WorkerStep(t) PROVE Typed'
  <2>1. t \in Tasks
    BY UseType DEF Typed, Tasks
  <2> QED
    BY <1>1, <1>2, <2>1, CallTyped, CycleTyped DEF WorkerStep, CallAction
<1>3. ASSUME NEW t \in Tasks, CallStep(t) PROVE Typed'
  BY <1>1, <1>3, WaitOverTyped, ReadSeqsTyped, RetryTyped, SectionTyped, SectionBlocksTyped,
     SectionResumesTyped, ComputeTyped, DrainTyped, AdvanceTyped DEF CallStep
<1>4. ASSUME NEW f \in use.flushers, FlusherStep(f) PROVE Typed'
  BY <1>1, <1>4, PutSelfPinsTyped, StartReclaimTyped, OpenNextTyped, ScanEndsTyped,
     ScanFindsTyped, ScanResumesTyped, CallbackStartsTyped, CallbackDropsTyped,
     CallbackLeavesTyped, CallbackEndsTyped, MoveToFlushedTyped, ListIsGoneTyped
     DEF FlusherStep, FlushStep
<1> QED
  BY <1>2, <1>3, <1>4 DEF Next, FlusherStep

LEMMA TypedStutters == Typed /\ UNCHANGED vars => Typed'
BY DEF Typed, FifoType, PinType, SeqType, FipType, TaskType, Places, PinCalls, Callbacks,
   FlushCalls, vars, fifoVars,
       pinVars, fipVars, seqVars, taskVars

-----------------------------------------------------------------------------
(* The callback of the one flusher.                                        *)

OneFlusher == \A u \in Uses : \A f, g \in u.flushers : f = g

\* A flusher has a callback to run, runs it, or has run it and has not said so.
Flushes(f) == pc[f] \in {"callback", "running", "ran", "ranout"} \/ op[f].back = "ran"
Runs(f) == pc[f] \in {"running", "ran"} \/ op[f].back = "ran"

\* flush_in_progress is the pin of that callback, and pin.flush is held while it
\* runs and by nobody else.
CallbackIsKnown ==
  /\ \A f \in use.flushers : Flushes(f) => fip = fl[f].pin
  /\ \A p \in Pins : cbLock[p] # NoTask =>
       cbLock[p] \in use.flushers /\ fl[cbLock[p]].pin = p /\ Runs(cbLock[p])

\* A step that is not about the callback.
LEMMA NotTheCallback ==
  ASSUME Typed, CallbackIsKnown, NEW t \in Tasks, Alone(t), UNCHANGED <<fip, cbLock, fl>>,
         Flushes(t)' => Flushes(t), Runs(t) => Runs(t)'
  PROVE  CallbackIsKnown'
<1>1. use' = use /\ use.flushers \subseteq Tasks
  BY UseType DEF Typed, Alone, Tasks
<1>2. ASSUME NEW u \in Tasks PROVE (Flushes(u)' => Flushes(u)) /\ (Runs(u) => Runs(u)')
  <2>1. u # t => pc'[u] = pc[u] /\ op'[u] = op[u]
    BY DEF Alone
  <2> QED
    BY <2>1 DEF Flushes, Runs
<1>3. \A f \in use'.flushers : Flushes(f)' => fip' = fl'[f].pin
  BY <1>1, <1>2 DEF CallbackIsKnown
<1>4. ASSUME NEW p \in Pins, cbLock'[p] # NoTask
      PROVE  cbLock'[p] \in use'.flushers /\ fl'[cbLock'[p]].pin = p /\ Runs(cbLock[p])'
  <2>1. cbLock[p] \in use.flushers /\ fl[cbLock[p]].pin = p /\ Runs(cbLock[p])
    BY <1>4 DEF CallbackIsKnown
  <2> QED
    BY <1>1, <1>2, <2>1
<1>5. \A p \in Pins : cbLock'[p] # NoTask => cbLock'[p] \in use'.flushers /\ fl'[cbLock'[p]].pin = p
  BY <1>4
<1>6. \A p \in Pins : cbLock'[p] # NoTask => pc'[cbLock'[p]] \in {"running",
      "ran"} \/ op'[cbLock'[p]].back = "ran"
  BY <1>4 DEF Runs
<1> QED
  BY <1>3, <1>5, <1>6 DEF CallbackIsKnown, Flushes, Runs

\* Calls neither begin a callback nor end one.
LEMMA CallsRunNothing ==
  ASSUME Typed, NEW t \in Tasks, CallStep(t) \/ CallAction(t) \/ Cycle(t)
  PROVE  UNCHANGED <<fip, cbLock, fl>> /\ (Flushes(t)' => Flushes(t)) /\ (Runs(t) => Runs(t)')
<1>1. UNCHANGED <<fip, cbLock, fl>>
  BY DEF CallStep, CallAction, PinSet, PinAdd, PinUpdate, PinCopy, PinDrop, PinFlush, Call, Cycle,
         WaitOver, ReadSeqs, Retry, Section, SectionBlocks, SectionResumes, Compute, Drain, Advance,
         NoteDropped, fipVars, pinVars
<1>2. pc \in [Tasks -> Where] /\ op \in [Tasks -> Operation] /\ Callbacks(t) /\ PinCalls(t)
  BY DEF Typed, TaskType, Places
<1>3. (Flushes(t)' => Flushes(t)) /\ (Runs(t) => Runs(t)')
  <2>0. op[t].back \in {"idle", "open", "ran"} /\ NoOp.back = "idle"
    BY <1>2 DEF Operation, NoOp
  <2>1. CASE pc[t] \in {"read", "lock", "blocked", "compute", "advance", "wait"} /\ Finish(t)
    <3>1. pc'[t] = op[t].back /\ op'[t] = NoOp
      BY <1>2, <2>1 DEF Finish, Goto
    <3> QED
      BY <2>0, <2>1, <3>1 DEF Flushes, Runs
  <2>2. CASE pc[t] \notin {"running", "ran"} /\ op'[t].back = op[t].back
             /\ pc'[t] \in {"read", "lock", "blocked", "compute", "drain", "advance", "wait",
                "idle",
                             "panicked", "poisoned"}
    BY <2>2 DEF Flushes, Runs
  <2>3. CASE WaitOver(t)
    <3>1. pc[t] = "wait" /\ pc'[t] = "idle" /\ op'[t] = NoOp
      BY <1>2, <2>3 DEF WaitOver, Goto
    <3> QED
      BY <1>2, <2>0, <3>1 DEF Flushes, Runs, Callbacks
  <2>4. CASE ReadSeqs(t)
    BY <1>2, <2>1, <2>2, <2>4 DEF ReadSeqs, Goto, Operation
  <2>5. CASE Retry(t)
    BY <1>2, <2>2, <2>5 DEF Retry, Goto
  <2>6. CASE Section(t)
    BY <1>2, <2>1, <2>2, <2>6 DEF Section, EndSection, Goto
  <2>7. CASE SectionBlocks(t)
    BY <1>2, <2>2, <2>7 DEF SectionBlocks, Goto
  <2>8. CASE SectionResumes(t)
    BY <1>2, <2>1, <2>2, <2>8 DEF SectionResumes, EndSection, Goto
  <2>9. CASE Compute(t)
    BY <1>2, <2>1, <2>2, <2>9 DEF Compute, Goto
  <2>10. CASE Drain(t)
    BY <1>2, <2>2, <2>10 DEF Drain, Goto
  <2>11. CASE Advance(t)
    BY <1>2, <2>1, <2>11 DEF Advance
  <2>12. CASE Cycle(t)
    BY <1>2, <2>2, <2>12 DEF Cycle, OpenEntry, Goto
  <2>13. CASE CallAction(t)
    <3>2. PICK o \in Operation, w \in {"read", "wait"} : Call(t, o, w) /\ o.back = "idle"
      BY <2>13, CallIs
    <3>3. pc[t] = "idle" /\ pc'[t] = w /\ op'[t] = o
      BY <1>2, <3>2 DEF Call, Goto
    <3> QED
      BY <1>2, <3>2, <3>3 DEF Flushes, Runs, Callbacks
  <2> QED
    BY <2>3, <2>4, <2>5, <2>6, <2>7, <2>8, <2>9, <2>10, <2>11, <2>12, <2>13 DEF CallStep
<1> QED
  BY <1>1, <1>3

LEMMA CallKeepsCallback ==
  ASSUME Typed, CallbackIsKnown, NEW t \in Tasks, CallStep(t) \/ CallAction(t) \/ Cycle(t), Alone(t)
  PROVE  CallbackIsKnown'
BY CallsRunNothing, NotTheCallback

\* Only the one flusher says what flush_in_progress is.
LEMMA TheCallback ==
  ASSUME OneFlusher, Typed, CallbackIsKnown, NEW f \in use.flushers, Alone(f),
         Flushes(f)' => fip' = fl'[f].pin,
         \A p \in Pins : cbLock'[p] # NoTask => cbLock'[p] = f /\ fl'[f].pin = p /\ Runs(f)'
  PROVE  CallbackIsKnown'
<1>1. use' = use /\ \A g \in use.flushers : g = f
  BY UseAssumption DEF Alone, OneFlusher, Typed
<1> QED
  BY <1>1 DEF CallbackIsKnown, Flushes, Runs

LEMMA FlusherKeepsCallback ==
  ASSUME OneFlusher, Typed, CallbackIsKnown, NEW f \in use.flushers, FlusherStep(f), use' = use,
         Alone(f)
  PROVE  CallbackIsKnown'
<1>1. \A g \in use.flushers : g = f
  BY UseAssumption DEF OneFlusher, Typed
<1>2. \A p \in Pins : cbLock[p] # NoTask => cbLock[p] = f /\ fl[f].pin = p /\ Runs(f)
  BY <1>1 DEF CallbackIsKnown
<1>3. Flushes(f) => fip = fl[f].pin
  BY DEF CallbackIsKnown
<1>4. f \in Flushers /\ f \in Tasks
  BY UseType DEF Typed, Tasks
<1>5. /\ pc \in [Tasks -> Where] /\ op \in [Tasks -> Operation] /\ fl \in [Flushers -> Flush]
      /\ cbLock \in [Pins -> Tasks \cup {NoTask}] /\ Callbacks(f) /\ FlushCalls(f)
  BY <1>4 DEF Typed, TaskType, PinType, Places
<1>6. NoOp.back = "idle"
  BY DEF NoOp
<1>7. CASE PutSelfPins(f) \/ StartReclaim(f) \/ OpenNext(f) \/ ScanEnds(f)
  <2>1. /\ pc[f] \in {"idle", "open", "scan"} /\ pc'[f] \in {"scan", "idle", "poisoned", "compute"}
        /\ cbLock' = cbLock /\ op'[f].back # "ran"
    <3>1. CASE PutSelfPins(f) \/ StartReclaim(f)
      BY <1>4, <1>5, <3>1 DEF PutSelfPins, StartReclaim, Goto, pinVars, Callbacks
    <3>2. CASE OpenNext(f)
      BY <1>4, <1>5, <3>2 DEF OpenNext, OpenEntry, Goto, pinVars, Callbacks
    <3>3. CASE ScanEnds(f)
      BY <1>4, <1>5, <3>3 DEF ScanEnds, Goto, pinVars, NoOp
    <3> QED
      BY <1>7, <3>1, <3>2, <3>3
  <2>2. ~Runs(f) /\ ~Flushes(f)'
    BY <1>5, <2>1 DEF Runs, Flushes, Callbacks
  <2> QED
    BY <1>2, <2>1, <2>2, TheCallback
<1>8. CASE ScanFinds(f)
  <2> DEFINE s == Least(Candidates(fl[f].target))
             i == SlotOf(s)
             ty == Least(Stopping(i))
             p == Front(i, ty)
  <2>1. pc[f] = "scan" /\ op' = op /\ cbLock' = cbLock
        /\ (IF cbLock[p] = NoTask THEN Choose(f, p, s) ELSE fl' = [fl EXCEPT ![f].pin = p,
           ![f].seq = s] /\ Goto(f, "scanblocked"))
    BY <1>8 DEF ScanFinds, pinVars
  <2> HIDE DEF p, s
  <2>2. ~Runs(f) /\ op'[f].back # "ran"
    BY <1>5, <2>1 DEF Runs, Callbacks
  <2>3. Choose(f, p, s) => fip' = fl'[f].pin
    BY <1>4, <1>5 DEF Choose, Flush
  <2>4. Goto(f, "scanblocked") => pc'[f] = "scanblocked"
    BY <1>4, <1>5 DEF Goto
  <2> QED
    BY <1>2, <2>1, <2>2, <2>3, <2>4, TheCallback DEF Flushes
<1>9. CASE ScanResumes(f)
  <2> DEFINE p == fl[f].pin
             s == fl[f].seq
  <2>1. pc[f] = "scanblocked" /\ op' = op /\ cbLock' = cbLock
        /\ (Choose(f, p, s) \/ Goto(f, "scan"))
    BY <1>9 DEF ScanResumes, pinVars
  <2> HIDE DEF p, s
  <2>2. ~Runs(f) /\ op'[f].back # "ran"
    BY <1>5, <2>1 DEF Runs, Callbacks
  <2>3. Choose(f, p, s) => fip' = fl'[f].pin
    BY <1>4, <1>5 DEF Choose, Flush
  <2>4. Goto(f, "scan") => pc'[f] = "scan"
    BY <1>4, <1>5 DEF Goto
  <2> QED
    BY <1>2, <2>1, <2>2, <2>3, <2>4, TheCallback DEF Flushes
<1>10. CASE CallbackStarts(f)
  <2>1. /\ pc[f] = "callback" /\ cbLock' = [cbLock EXCEPT ![fl[f].pin] = f]
        /\ pc'[f] = "running" /\ fip' = fip /\ op' = op /\ fl' = fl
    BY <1>4, <1>5, <1>10 DEF CallbackStarts, Goto, fipVars
  <2>2. ~Runs(f) /\ Flushes(f) /\ Runs(f)'
    BY <1>5, <2>1 DEF Runs, Flushes, Callbacks
  <2> QED
    BY <1>2, <1>3, <1>5, <2>1, <2>2, TheCallback
<1>11. CASE CallbackDrops(f)
  <2>1. /\ pc[f] = "running" /\ cbLock' = cbLock /\ fip' = fip /\ fl' = fl /\ op'[f].back = "ran"
    BY <1>4, <1>5, <1>11 DEF CallbackDrops, Goto, fipVars, pinVars, NoOp
  <2>2. Flushes(f) /\ Runs(f)'
    BY <2>1 DEF Runs, Flushes
  <2> QED
    BY <1>2, <1>3, <2>1, <2>2, TheCallback
<1>12. CASE CallbackLeaves(f)
  <2>1. /\ pc[f] = "running" /\ pc'[f] = "ran" /\ cbLock' = cbLock /\ fip' = fip
        /\ \E ok \in BOOLEAN : fl' = [fl EXCEPT ![f].ok = ok]
    BY <1>4, <1>5, <1>12 DEF CallbackLeaves, Goto, fipVars, pinVars
  <2>2. Flushes(f) /\ Runs(f)' /\ fl'[f].pin = fl[f].pin
    BY <1>4, <1>5, <2>1 DEF Runs, Flushes, Flush
  <2> QED
    BY <1>2, <1>3, <2>1, <2>2, TheCallback
<1>13. CASE CallbackEnds(f)
  <2>1. /\ pc[f] = "ran" /\ pc'[f] = "ranout" /\ fip' = fip /\ fl' = fl
        /\ cbLock' = [cbLock EXCEPT ![fl[f].pin] = NoTask]
    BY <1>4, <1>5, <1>13 DEF CallbackEnds, Goto, fipVars
  <2>2. Flushes(f)
    BY <2>1 DEF Flushes
  <2> QED
    BY <1>2, <1>3, <1>5, <2>1, <2>2, TheCallback
<1>14. CASE MoveToFlushed(f) \/ ListIsGone(f)
  <2>1. pc[f] = "ranout" /\ cbLock' = cbLock /\ AfterPin(f)
        /\ UNCHANGED <<n, fl, use>>
    BY <1>14 DEF MoveToFlushed, ListIsGone, pinVars
  <2>2. pc'[f] \in {"scan", "idle", "compute"} /\ op'[f].back # "ran"
    BY <2>1, AfterPinTyped
  <2>3. ~Runs(f) /\ ~Flushes(f)'
    BY <1>5, <2>1, <2>2 DEF Runs, Flushes, Callbacks
  <2> QED
    BY <1>2, <2>1, <2>3, TheCallback
<1> QED
  BY <1>7, <1>8, <1>9, <1>10, <1>11, <1>12, <1>13, <1>14 DEF FlusherStep, FlushStep

\* Every step is of one task.
LEMMA StepsOf ==
  ASSUME Typed, Next
  PROVE  /\ use' = use
         /\ \/ \E t \in Tasks : Alone(t) /\ (CallStep(t) \/ CallAction(t) \/ Cycle(t))
            \/ \E f \in use.flushers : Alone(f) /\ FlusherStep(f)
<1>1. use' = use
  BY DEF Next
<1>2. ASSUME NEW t \in use.workers, WorkerStep(t)
      PROVE  t \in Tasks /\ Alone(t) /\ (CallAction(t) \/ Cycle(t))
  <2>1. t \in Tasks
    BY UseType DEF Typed, Tasks
  <2> QED
    BY <1>1, <1>2, <2>1, CallTyped, CycleTyped DEF WorkerStep, CallAction
<1>3. ASSUME NEW t \in Tasks, CallStep(t) PROVE Alone(t)
  BY <1>1, <1>3, WaitOverTyped, ReadSeqsTyped, RetryTyped, SectionTyped, SectionBlocksTyped,
     SectionResumesTyped, ComputeTyped, DrainTyped, AdvanceTyped DEF CallStep
<1>4. ASSUME NEW f \in use.flushers, FlusherStep(f) PROVE Alone(f)
  BY <1>1, <1>4, PutSelfPinsTyped, StartReclaimTyped, OpenNextTyped, ScanEndsTyped,
     ScanFindsTyped, ScanResumesTyped, CallbackStartsTyped, CallbackDropsTyped,
     CallbackLeavesTyped, CallbackEndsTyped, MoveToFlushedTyped, ListIsGoneTyped
     DEF FlusherStep, FlushStep
<1>5. \/ \E t \in use.workers : WorkerStep(t)
      \/ \E t \in Tasks : CallStep(t)
      \/ \E f \in use.flushers : FlusherStep(f)
  BY DEF Next, FlusherStep
<1> QED
  BY <1>1, <1>2, <1>3, <1>4, <1>5

LEMMA CallbackIsKnownInit == Init => CallbackIsKnown
<1> SUFFICES ASSUME Init PROVE CallbackIsKnown
  OBVIOUS
<1>1. use.flushers \subseteq Tasks /\ NoOp.back = "idle"
  BY TypedInit, UseType DEF Typed, Tasks, NoOp
<1>2. \A f \in use.flushers : ~Flushes(f)
  BY <1>1 DEF Init, Flushes
<1>3. \A p \in Pins : cbLock[p] = NoTask
  BY DEF Init
<1> QED
  BY <1>2, <1>3 DEF CallbackIsKnown

LEMMA WaitEnds ==
  ASSUME Typed, CallbackIsKnown, NEW t \in Workers, pc[t] = "wait", pc'[t] = "idle", Next
  PROVE  ~InCallback(op[t].pin)
<1>0. t \in Tasks /\ use.flushers \subseteq Tasks
  BY UseType DEF Tasks, Typed
<1>1. WaitOver(t)
  <2>1. PICK u \in Tasks : /\ Alone(u)
                           /\ \/ CallStep(u) \/ CallAction(u) \/ Cycle(u)
                              \/ u \in use.flushers /\ FlusherStep(u)
    BY <1>0, StepsOf
  <2>2. u = t
    BY <1>0, <2>1 DEF Alone
  <2>3. CASE CallStep(t)
    BY <2>3 DEF CallStep, ReadSeqs, Retry, Section, SectionBlocks, SectionResumes, Compute, Drain,
                Advance
  <2>4. ~CallAction(t) /\ ~Cycle(t)
    BY DEF CallAction, PinSet, PinAdd, PinUpdate, PinCopy, PinDrop, PinFlush, Call, Cycle
  <2>5. ~FlusherStep(t)
    BY DEF FlusherStep, PutSelfPins, StartReclaim, FlushStep, ScanEnds, ScanFinds, ScanResumes,
           CallbackStarts, CallbackDrops, CallbackLeaves, CallbackEnds, MoveToFlushed, ListIsGone,
           OpenNext
  <2> QED
    BY <2>1, <2>2, <2>3, <2>4, <2>5
<1>2. fip # op[t].pin /\ op[t].pin \in Pins
  BY <1>0, <1>1 DEF WaitOver, Typed, Places, PinCalls
<1>3. ASSUME NEW f \in Flushers, fl[f].pin = op[t].pin,
             pc[f] \in {"callback", "running", "ran"} \/ cbLock[op[t].pin] = f
      PROVE  FALSE
  <2>1. f \in Tasks /\ f # NoTask
    BY TaskAssumption DEF Tasks
  <2>2. CASE pc[f] \in {"callback", "running", "ran"}
    <3>1. f \in use.flushers
      BY <2>1, <2>2 DEF Typed, Places, FlushCalls, Flushing
    <3> QED
      BY <1>2, <1>3, <2>2, <3>1 DEF CallbackIsKnown, Flushes
  <2>3. CASE cbLock[op[t].pin] = f
    <3>1. f \in use.flushers /\ Runs(f)
      BY <1>2, <2>1, <2>3 DEF CallbackIsKnown
    <3> QED
      BY <1>2, <1>3, <3>1 DEF CallbackIsKnown, Flushes, Runs
  <2> QED
    BY <1>3, <2>2, <2>3
<1> QED
  BY <1>3 DEF InCallback

LEMMA CallbackIsKnownNext ==
  ASSUME OneFlusher, Typed, CallbackIsKnown, Next PROVE CallbackIsKnown'
BY StepsOf, CallKeepsCallback, FlusherKeepsCallback

LEMMA CallbackIsKnownStutters == CallbackIsKnown /\ UNCHANGED vars => CallbackIsKnown'
BY DEF CallbackIsKnown, Flushes, Runs, vars, pinVars, fipVars, taskVars

\* bch2_journal_pin_flush returns only when no callback runs on the pin or is about
\* to, however tasks and the flusher interleave: its owner may free it.
THEOREM FlushWaitsForCallback == OneFlusher => (Spec => FlushWaitIsOver)
<1> SUFFICES ASSUME OneFlusher PROVE Spec => FlushWaitIsOver
  OBVIOUS
<1> DEFINE Inv == Typed /\ CallbackIsKnown
<1>1. Init => Inv
  BY TypedInit, CallbackIsKnownInit
<1>2. Inv /\ [Next]_vars => Inv'
  <2>1. Inv /\ Next => Inv'
    BY TypedNext, CallbackIsKnownNext
  <2>2. Inv /\ UNCHANGED vars => Inv'
    BY TypedStutters, CallbackIsKnownStutters
  <2> QED
    BY <2>1, <2>2
<1>3. Inv /\ [Next]_vars =>
        [\A t \in Workers : (pc[t] = "wait" /\ pc'[t] = "idle") => ~InCallback(op[t].pin)]_vars
  <2>1. Inv /\ Next => \A t \in Workers : (pc[t] = "wait" /\ pc'[t] = "idle") => ~InCallback(op[t].pin)
    BY WaitEnds
  <2> QED
    BY <2>1
<1> QED
  BY <1>1, <1>2, <1>3, PTL DEF Spec, FlushWaitIsOver

-----------------------------------------------------------------------------
(* The lists of a fresh journal (Journal::new).  The self pin of the first *)
(* entry is never put, so that the front stays where it is; what can go    *)
(* wrong are the calls on pins, which race.                                *)

IsNew == use.first = 1 /\ use.disk = 0

\* The lists that p is linked into; place 0 stands for the flushed list.
Lists(u, f, p) ==
  {l \in Slots \X (Types \cup {0}) :
     p \in Members(IF l[2] = 0 THEN f[l[1]] ELSE u[l[1]][l[2]])}

Linked(p) ==
  IF Active(p) /\ ~Moving(p)
  THEN \E k \in Types \cup {0} : Lists(unflushed, flushed, p) = {<<pseq[p], k>>}
  ELSE Lists(unflushed, flushed, p) = {}

At(i) == {p \in Pins : Active(p) /\ pseq[p] = i}

FrontStays == head = 0 /\ disk = 0 /\ tail = seq - 1 /\ tail >= 1 /\ written <= seq - 1 /\ puts[0] = 0
EntriesInOrder == \A i \in 0..(tail - 1) : entry[i] = i + 1
PinsLinked == \A p \in Pins : pseq[p] \in 0..(tail - 1) /\ Linked(p)
Counts == \A i \in 0..(tail - 1) : cnt[i] = 1 - puts[i] + Cardinality(At(i))
ListPart == FrontStays /\ EntriesInOrder /\ PinsLinked /\ Counts

\* What a task remembers, and the lock that keeps others off a pin that it moves.
TaskSound(t) ==
  /\ pc[t] \notin {"drain", "advance", "scanblocked"}
  /\ pc[t] \in {"read", "lock", "blocked"} /\ op[t].kind = "set" => op[t].seq \in 1..(seq - 1)
  /\ pc[t] \in {"lock", "blocked"} =>
       /\ op[t].old \in 0..(tail - 1)
       /\ op[t].from = IF op[t].old = 0 THEN NoSlot ELSE op[t].old
       /\ op[t].kind # "drop" => op[t].seq \in 1..(tail - 1) /\ op[t].new = op[t].seq
       /\ op[t].kind = "drop" => op[t].old # 0
  /\ pc[t] = "blocked" => lock[op[t].new] = t /\ pseq[op[t].pin] = op[t].seq

\* As long as nobody has dropped or moved the pin it has the seq of the walk.
FlushSound(f) ==
  /\ fl[f].target <= seq
  /\ Flushes(f) /\ ~fipDropped =>
       Active(fl[f].pin) /\ pseq[fl[f].pin] = fl[f].seq /\ ~Moving(fl[f].pin)

Sound ==
  ListPart /\ (\A t \in Tasks : TaskSound(t)) /\ \A f \in use.flushers : FlushSound(f)

LEMMA UnlinkLists ==
  ASSUME FifoType, NEW p \in Pins, NEW q \in Pins
  PROVE  Lists(Unlink(p).u, Unlink(p).f, q) = IF q = p THEN {} ELSE Lists(unflushed, flushed, q)
<1> DEFINE u == Unlink(p).u
           f == Unlink(p).f
<1>1. /\ \A i \in Slots, ty \in Types : Members(u[i][ty]) = Members(unflushed[i][ty]) \ {p}
      /\ \A i \in Slots : Members(f[i]) = Members(flushed[i]) \ {p}
  BY UnlinkType
<1> HIDE DEF u, f
<1>2. \A i \in Slots, k \in Types \cup {0} :
        q \in Members(IF k = 0 THEN f[i] ELSE u[i][k]) <=>
          q # p /\ q \in Members(IF k = 0 THEN flushed[i] ELSE unflushed[i][k])
  BY <1>1
<1>3. \A l \in Slots \X (Types \cup {0}) :
        q \in Members(IF l[2] = 0 THEN f[l[1]] ELSE u[l[1]][l[2]]) <=>
          q # p /\ q \in Members(IF l[2] = 0 THEN flushed[l[1]] ELSE unflushed[l[1]][l[2]])
  BY <1>2
<1>4. Lists(u, f, q) = IF q = p THEN {} ELSE Lists(unflushed, flushed, q)
  BY <1>3 DEF Lists
<1> QED
  BY <1>4 DEF u, f

\* The lists, as types that the provers need not look into.
ListsU == [Slots -> [Types -> Seq(Pins)]]
ListsF == [Slots -> Seq(Pins)]

Linking(u, i, ty, p) == [u EXCEPT ![i][ty] = Append(@, p)]

LEMMA LinkLists ==
  ASSUME NEW u \in ListsU, NEW f \in ListsF,
         NEW i \in Slots, NEW ty \in Types, NEW p \in Pins, NEW q \in Pins
  PROVE  Lists(Linking(u, i, ty, p), f, q) = IF q = p THEN Lists(u, f, q) \cup {<<i, ty>>}
         ELSE Lists(u, f, q)
<1> DEFINE v == Linking(u, i, ty, p)
<1>1. 0 \notin Types
  BY DEF Types
<1>2. \A j \in Slots, k \in Types :
        v[j][k] = IF j = i /\ k = ty THEN Append(u[i][ty], p) ELSE u[j][k]
  BY DEF Linking, ListsU
<1>3. Members(Append(u[i][ty], p)) = Members(u[i][ty]) \cup {p}
  BY AppendIs DEF ListsU
<1>4. \A j \in Slots, k \in Types \cup {0} :
        q \in Members(IF k = 0 THEN f[j] ELSE v[j][k]) <=>
          (q = p /\ j = i /\ k = ty) \/ q \in Members(IF k = 0 THEN f[j] ELSE u[j][k])
  BY <1>1, <1>2, <1>3
<1>5. \A l \in Slots \X (Types \cup {0}) :
        q \in Members(IF l[2] = 0 THEN f[l[1]] ELSE v[l[1]][l[2]]) <=>
          (q = p /\ l = <<i, ty>>) \/ q \in Members(IF l[2] = 0 THEN f[l[1]] ELSE u[l[1]][l[2]])
  BY <1>4
<1> QED
  BY <1>5 DEF Lists

LinkingF(f, i, p) == [f EXCEPT ![i] = Append(@, p)]

LEMMA FlushedLists ==
  ASSUME NEW u \in ListsU, NEW f \in ListsF,
         NEW i \in Slots, NEW p \in Pins, NEW q \in Pins
  PROVE  Lists(u, LinkingF(f, i, p), q) = IF q = p THEN Lists(u, f, q) \cup {<<i, 0>>}
         ELSE Lists(u, f, q)
<1> DEFINE g == LinkingF(f, i, p)
<1>2. \A j \in Slots : g[j] = IF j = i THEN Append(f[i], p) ELSE f[j]
  BY DEF ListsF, LinkingF
<1>3. Members(Append(f[i], p)) = Members(f[i]) \cup {p}
  BY AppendIs DEF ListsF
<1>4. \A j \in Slots, k \in Types \cup {0} :
        q \in Members(IF k = 0 THEN g[j] ELSE u[j][k]) <=>
          (q = p /\ j = i /\ k = 0) \/ q \in Members(IF k = 0 THEN f[j] ELSE u[j][k])
  BY <1>2, <1>3
<1>5. \A l \in Slots \X (Types \cup {0}) :
        q \in Members(IF l[2] = 0 THEN g[l[1]] ELSE u[l[1]][l[2]]) <=>
          (q = p /\ l = <<i, 0>>) \/ q \in Members(IF l[2] = 0 THEN f[l[1]] ELSE u[l[1]][l[2]])
  <2>1. \A l \in Slots \X (Types \cup {0}) :
          l[1] \in Slots /\ l[2] \in Types \cup {0} /\ (l = <<i, 0>> <=> l[1] = i /\ l[2] = 0)
    OBVIOUS
  <2> QED
    BY <1>4, <2>1
<1> QED
  BY <1>5 DEF Lists

\* The slots of a fresh journal.
LEMMA FreshSlots ==
  ASSUME Typed, FrontStays
  PROVE  /\ tail \in 1..(FifoSize - 1) /\ Length = tail /\ Live = 0..(tail - 1)
         /\ \A s \in 0..(FifoSize - 1) : SlotOf(s) = IF s < tail THEN s ELSE NoSlot
         /\ \A s \in 1..(tail - 1) : s \in Slots /\ s # 0 /\ s < tail
<1>1. tail \in 1..(FifoSize - 1) /\ head = 0
  <2>1. tail \in Slots
    BY DEF Typed, FifoType
  <2> QED
    BY <2>1, FifoAssumption DEF FrontStays, Slots
<1>2. \A s \in 0..(FifoSize - 1) : s % FifoSize = s
  BY SmallRemainder
<1>3. Length = tail
  <2>1. tail - head = tail /\ tail \in 0..(FifoSize - 1)
    BY <1>1, FifoAssumption
  <2> QED
    BY <1>2, <2>1 DEF Length
<1>4. Live = 0..(tail - 1)
  <2>1. \A k \in 0..(tail - 1) : head + k = k /\ k \in 0..(FifoSize - 1)
    BY <1>1, FifoAssumption
  <2>2. \A k \in 0..(tail - 1) : (head + k) % FifoSize = k
    BY <1>2, <2>1
  <2> QED
    BY <1>3, <2>2 DEF Live
<1>5. \A s \in 0..(FifoSize - 1) : SlotOf(s) = IF s < tail THEN s ELSE NoSlot
  <2>1. \A s \in 0..(FifoSize - 1) : s \in 0..(tail - 1) <=> s < tail
    BY <1>1, FifoAssumption
  <2> QED
    BY <1>2, <1>4, <2>1 DEF SlotOf
<1>6. \A s \in 1..(tail - 1) : s \in Slots /\ s # 0 /\ s < tail
  BY <1>1, FifoAssumption DEF Slots
<1> QED
  BY <1>1, <1>3, <1>4, <1>5, <1>6

\* The front is never released.
LEMMA NothingDrains ==
  ASSUME Typed, ListPart PROVE Drainable = 0
<1> DEFINE d == Drainable
<1>1. d \in 0..tail /\ \A j \in 0..(d - 1) : cnt[(head + j) % FifoSize] = 0
  BY DrainableIs, FreshSlots DEF ListPart, Typed, FifoType
<1>2. cnt[0] = 1
  <2>1. At(0) = {}
    BY DEF At, Active
  <2>2. Cardinality(At(0)) = 0
    BY <2>1, FS_EmptySet
  <2>3. 0 \in 0..(tail - 1) /\ puts[0] = 0
    BY FreshSlots DEF ListPart, FrontStays
  <2> QED
    BY <2>2, <2>3 DEF ListPart, Counts
<1>3. (head + 0) % FifoSize = 0
  <2>1. head + 0 = 0 /\ 0 \in 0..(FifoSize - 1)
    BY FifoAssumption DEF ListPart, FrontStays
  <2> QED
    BY <2>1, SmallRemainder
<1> HIDE DEF d
<1>4. ASSUME d # 0 PROVE FALSE
  <2>1. 0 \in 0..(d - 1)
    BY <1>1, <1>4
  <2> QED
    BY <1>1, <1>2, <1>3, <2>1
<1> QED
  BY <1>4 DEF d

-----------------------------------------------------------------------------
(* What one step leaves to the others. *)

LEMMA MovingStays ==
  ASSUME NEW t \in Tasks, Alone(t), pc[t] # "blocked", pc'[t] # "blocked"
  PROVE  \A p : Moving(p)' <=> Moving(p)
<1>1. \A u \in Tasks : /\ pc'[u] = "blocked" <=> pc[u] = "blocked"
                       /\ pc[u] = "blocked" => op'[u] = op[u]
  BY DEF Alone
<1> QED
  BY <1>1 DEF Moving

LEMMA Wider ==
  ASSUME NEW a \in Int, NEW b \in Int, a <= b
  PROVE  /\ \A x \in 0..(a - 1) : x \in 0..(b - 1)
         /\ \A x \in 1..(a - 1) : x \in 1..(b - 1)
OBVIOUS

LEMMA TasksSound ==
  ASSUME Typed, Typed', Sound, NEW t \in Tasks, Alone(t), tail <= tail', seq <= seq', TaskSound(t)',
         \A u \in Tasks \ {t} : pc[u] = "blocked" =>
           lock'[op[u].new] = u /\ pseq'[op[u].pin] = op[u].seq
  PROVE  \A u \in Tasks : TaskSound(u)'
<1> SUFFICES ASSUME NEW u \in Tasks, u # t PROVE TaskSound(u)'
  OBVIOUS
<1>1. pc'[u] = pc[u] /\ op'[u] = op[u] /\ TaskSound(u) /\ op[u] \in Operation
  BY DEF Alone, Sound, Typed, TaskType
<1>2. /\ tail \in Int /\ tail' \in Int /\ seq \in Int /\ seq' \in Int
      /\ \A x \in 1..(seq - 1) : x \in 1..(seq' - 1)
      /\ \A x \in 0..(tail - 1) : x \in 0..(tail' - 1)
      /\ \A x \in 1..(tail - 1) : x \in 1..(tail' - 1)
  <2>1. tail \in Int /\ tail' \in Int /\ seq \in Int /\ seq' \in Int
    <3>1. tail \in Slots /\ tail' \in Slots /\ seq \in Nat /\ seq' \in Nat
      BY DEF Typed, FifoType, SeqType
    <3>2. Slots \subseteq Int
      BY FifoAssumption DEF Slots
    <3> QED
      BY <3>1, <3>2
  <2> QED
    BY <2>1, Wider
<1> QED
  BY <1>1, <1>2 DEF TaskSound

LEMMA FlushesSound ==
  ASSUME Typed, Typed', Sound, NEW t \in Tasks, Alone(t), fl' = fl, seq <= seq',
         Flushes(t)' => Flushes(t),
         \A f \in use.flushers, p \in Pins : fl[f].pin = p /\ Flushes(f) /\ ~fipDropped' =>
           ~fipDropped /\ pseq'[p] = pseq[p] /\ ~Moving(p)'
  PROVE  \A f \in use'.flushers : FlushSound(f)'
<1> SUFFICES ASSUME NEW f \in use.flushers PROVE FlushSound(f)'
  BY DEF Alone
<1>1. f \in Flushers /\ f \in Tasks /\ FlushSound(f)
  BY UseType DEF Typed, Tasks, Sound
<1>2. Flushes(f)' => Flushes(f)
  BY <1>1 DEF Alone, Flushes
<1>3. fl[f] \in Flush /\ seq \in Nat /\ seq' \in Nat
  BY <1>1 DEF Typed, TaskType, SeqType
<1>4. fl'[f].target <= seq'
  BY <1>1, <1>3 DEF FlushSound, Flush
<1>5. ASSUME Flushes(f)', ~fipDropped'
      PROVE  Active(fl[f].pin)' /\ pseq'[fl[f].pin] = fl[f].seq /\ ~Moving(fl[f].pin)'
  <2> DEFINE p == fl[f].pin
  <2>1. p \in Pins
    <3>1. FlushCalls(f) /\ Callbacks(f)
      BY <1>1 DEF Typed, Places
    <3> QED
      BY <1>2, <1>5, <3>1 DEF Flushes, FlushCalls, Callbacks, Flushing
  <2>2. ~fipDropped /\ pseq'[p] = pseq[p] /\ Flushes(f)
    BY <1>2, <1>5, <2>1
  <2>3. Active(p) /\ pseq[p] = fl[f].seq
    BY <1>1, <2>2 DEF FlushSound
  <2>4. ~\E u \in Tasks : pc'[u] = "blocked" /\ op'[u].pin = p
    BY <1>2, <1>5, <2>1 DEF Moving
  <2> QED
    BY <2>2, <2>3, <2>4 DEF Active, Moving
<1> QED
  BY <1>4, <1>5 DEF FlushSound

LEMMA ListsStay ==
  ASSUME ListPart, Typed,
         UNCHANGED <<head, tail, cnt, unflushed, flushed, entry, puts, pseq, seq, disk, written>>,
         \A p \in Pins : Moving(p)' <=> Moving(p)
  PROVE  ListPart'
<1>1. \A p \in Pins : Linked(p)'
  BY DEF ListPart, PinsLinked, Linked, Active
<1>2. PinsLinked'
  BY <1>1 DEF ListPart, PinsLinked
<1>3. FrontStays' /\ EntriesInOrder'
  BY DEF ListPart, FrontStays, EntriesInOrder
<1>4. Counts'
  BY DEF ListPart, Counts, At, Active
<1> QED
  BY <1>2, <1>3, <1>4 DEF ListPart

\* A step that touches no list.
LEMMA QuietStep ==
  ASSUME Typed, Typed', Sound, NEW t \in Tasks, Alone(t),
         UNCHANGED <<head, tail, cnt, unflushed, flushed, lock, entry, puts, pseq, seq, disk,
            written>>,
         pc[t] # "blocked", pc'[t] # "blocked", TaskSound(t)',
         \A f \in use'.flushers : FlushSound(f)'
  PROVE  Sound'
<1>1. ListPart'
  BY ListsStay, MovingStays DEF Sound
<1>2. \A u \in Tasks : TaskSound(u)'
  <2>1. tail <= tail' /\ seq <= seq'
    BY FifoAssumption DEF Typed, FifoType, SeqType, Slots
  <2>2. \A u \in Tasks : pc[u] = "blocked" => lock'[op[u].new] = u /\ pseq'[op[u].pin] = op[u].seq
    BY DEF Sound, TaskSound
  <2> QED
    BY <2>1, <2>2, TasksSound
<1> QED
  BY <1>1, <1>2 DEF Sound

LEMMA QuietCall ==
  ASSUME Typed, Typed', Sound, NEW t \in Tasks, Alone(t),
         UNCHANGED <<fifoVars, pinVars, fipVars, seqVars, fl>>,
         pc[t] # "blocked", pc'[t] # "blocked", TaskSound(t)', Flushes(t)' => Flushes(t)
  PROVE  Sound'
<1>1. UNCHANGED <<head, tail, cnt, unflushed, flushed, lock, entry, puts, pseq, seq, disk, written,
                  fl, fipDropped>>
  BY DEF fifoVars, pinVars, fipVars, seqVars
<1>2. \A f \in use'.flushers : FlushSound(f)'
  <2>1. \A f \in use.flushers, p \in Pins : fl[f].pin = p /\ Flushes(f) /\ ~fipDropped' =>
           ~fipDropped /\ pseq'[p] = pseq[p] /\ ~Moving(p)'
    <3>1. \A p \in Pins : Moving(p)' <=> Moving(p)
      BY MovingStays
    <3> QED
      BY <1>1, <3>1 DEF Sound, FlushSound
  <2>2. seq <= seq'
    BY <1>1 DEF Typed, SeqType
  <2> QED
    BY <1>1, <2>1, <2>2, FlushesSound
<1> QED
  BY <1>1, <1>2, QuietStep

-----------------------------------------------------------------------------
(* The calls. *)

LEMMA CallSound ==
  ASSUME Typed, Typed', Sound, NEW t \in Tasks, Alone(t), CallAction(t) PROVE Sound'
<1>1. PICK o \in Operation, w \in {"read", "wait"} :
      /\ Call(t, o, w) /\ o.back = "idle" /\ o.pin \in Pins
      /\ w = "read" => o.kind \in {"set", "copy", "drop"}
      /\ o.kind = "copy" => o.src \in Pins
      /\ o.kind = "drop" => ~o.fn
      /\ o.kind = "set" => o.seq \in Pinnable
  BY CallIs
<1>2. /\ pc[t] = "idle" /\ pc'[t] = w /\ op'[t] = o
      /\ UNCHANGED <<fifoVars, pinVars, fipVars, seqVars, fl>>
  BY <1>1 DEF Call, Goto, Typed, TaskType
<1>3. \A s \in Pinnable : s \in 1..(seq - 1)
  BY DEF Pinnable, Typed, SeqType
<1>4. TaskSound(t)'
  <2>1. seq' = seq
    BY <1>2 DEF seqVars
  <2> QED
    BY <1>1, <1>2, <1>3, <2>1 DEF TaskSound
<1> QED
  BY <1>2, <1>4, CallsRunNothing, QuietCall

\* The end of a call.
LEMMA EndSound ==
  ASSUME Typed, NEW t \in Tasks, Finish(t)
  PROVE  TaskSound(t)' /\ pc'[t] # "blocked"
<1>1. pc'[t] = op[t].back /\ op[t].back \in {"idle", "open", "ran"}
  BY DEF Finish, Goto, Typed, TaskType, Operation
<1> QED
  BY <1>1 DEF TaskSound

LEMMA WaitOverSound ==
  ASSUME Typed, Typed', Sound, NEW t \in Tasks, Alone(t), WaitOver(t) PROVE Sound'
<1>1. pc[t] = "wait" /\ pc'[t] = "idle" /\ UNCHANGED <<fifoVars, pinVars, fipVars, seqVars, fl>>
  BY DEF WaitOver, Goto, Typed, TaskType
<1>2. TaskSound(t)'
  BY <1>1 DEF TaskSound
<1> QED
  BY <1>1, <1>2, CallsRunNothing, QuietCall DEF CallStep

LEMMA RetrySound ==
  ASSUME Typed, Typed', Sound, NEW t \in Tasks, Alone(t), Retry(t) PROVE Sound'
<1>1. pc[t] = "lock" /\ pc'[t] = "read" /\ op' = op /\ UNCHANGED <<fifoVars, pinVars, fipVars,
      seqVars, fl>>
  BY DEF Retry, Goto, Typed, TaskType
<1>2. TaskSound(t)'
  BY <1>1 DEF TaskSound, Sound, seqVars
<1> QED
  BY <1>1, <1>2, CallsRunNothing, QuietCall DEF CallStep

LEMMA ComputeSound ==
  ASSUME Typed, Typed', Sound, NEW t \in Tasks, Alone(t), Compute(t) PROVE Sound'
<1>1. pc[t] = "compute" /\ Finish(t) /\ UNCHANGED <<fifoVars, pinVars, fipVars, seqVars, fl>>
  BY NothingDrains DEF Compute, Sound
<1> QED
  BY <1>1, EndSound, CallsRunNothing, QuietCall DEF CallStep

LEMMA ReadSeqsSound ==
  ASSUME Typed, Typed', Sound, NEW t \in Tasks, Alone(t), ReadSeqs(t) PROVE Sound'
<1> DEFINE o == op[t]
           target == IF o.kind = "copy" THEN pseq[o.src] ELSE o.seq
           old == pseq[o.pin]
           new == IF o.kind = "drop" THEN SlotOf(old) ELSE SlotOf(target)
<1>1. pc[t] = "read" /\ UNCHANGED <<fifoVars, pinVars, fipVars, seqVars, fl>>
  BY DEF ReadSeqs
<1>2. TaskSound(t)' /\ pc'[t] # "blocked"
  <2>1. CASE Finish(t)
    BY <2>1, EndSound
  <2>2. CASE Goto(t, "panicked") /\ UNCHANGED op
    BY <2>2 DEF Goto, Typed, TaskType, TaskSound
  <2>3. CASE /\ ~((o.kind = "copy" /\ target = 0) \/ (o.kind = "drop" /\ old = 0))
             /\ new # NoSlot /\ Goto(t, "lock")
             /\ op' = [op EXCEPT ![t].seq = target, ![t].old = old,
                        ![t].new = IF o.kind = "drop" THEN NoSlot ELSE new,
                        ![t].from = IF old = 0 THEN NoSlot ELSE SlotOf(old)]
    <3>1. o \in Operation /\ o.pin \in Pins /\ o.kind \in {"set", "copy", "drop"}
          /\ (o.kind = "copy" => o.src \in Pins)
      BY <1>1 DEF Typed, TaskType, Places, PinCalls
    <3>2. tail \in 1..(FifoSize - 1) /\ tail = seq - 1 /\ FifoSize \in Nat /\ seq \in Nat
          /\ \A s \in 0..(FifoSize - 1) : SlotOf(s) = IF s < tail THEN s ELSE NoSlot
      BY FreshSlots, FifoAssumption DEF Sound, ListPart, FrontStays, Typed, SeqType
    <3>3. old \in 0..(tail - 1)
      BY <3>1 DEF Sound, ListPart, PinsLinked
    <3>4. o.kind # "drop" => target \in 1..(FifoSize - 1)
      <4>1. o.kind = "copy" => pseq[o.src] \in 0..(tail - 1)
        BY <3>1 DEF Sound, ListPart, PinsLinked
      <4>2. o.kind = "set" => o.seq \in 1..(seq - 1)
        BY <1>1 DEF Sound, TaskSound
      <4> QED
        BY <2>3, <3>1, <3>2, <4>1, <4>2
    <3> DEFINE from == IF old = 0 THEN NoSlot ELSE SlotOf(old)
    <3>5. /\ o.kind # "drop" => target \in 1..(tail - 1) /\ new = target
          /\ o.kind = "drop" => old # 0
          /\ from = IF old = 0 THEN NoSlot ELSE old
      <4> HIDE DEF target, old
      <4> QED
        BY <2>3, <3>2, <3>3, <3>4
    <3> HIDE DEF target, old, new, from
    <3>6. op'[t] = [o EXCEPT !.seq = target, !.old = old,
                        !.new = IF o.kind = "drop" THEN NoSlot ELSE new, !.from = from]
      BY <2>3, <3>1 DEF Typed, TaskType, Operation, from
    <3>7. /\ op'[t].kind = o.kind /\ op'[t].seq = target /\ op'[t].old = old /\ op'[t].from = from
          /\ o.kind # "drop" => op'[t].new = new
      BY <3>1, <3>6 DEF Operation
    <3>8. pc'[t] = "lock" /\ tail' = tail /\ seq' = seq
      BY <1>1, <2>3 DEF Goto, Typed, TaskType, fifoVars, seqVars
    <3>9. o.kind # "drop" => target \in 1..(seq - 1)
      BY <3>2, <3>5
    <3> QED
      BY <3>1, <3>3, <3>5, <3>7, <3>8, <3>9 DEF TaskSound
  <2> QED
    <3>1. \/ Finish(t)
          \/ Goto(t, "panicked") /\ UNCHANGED op
          \/ /\ ~((o.kind = "copy" /\ target = 0) \/ (o.kind = "drop" /\ old = 0))
             /\ new # NoSlot /\ Goto(t, "lock")
             /\ op' = [op EXCEPT ![t].seq = target, ![t].old = old,
                        ![t].new = IF o.kind = "drop" THEN NoSlot ELSE new,
                        ![t].from = IF old = 0 THEN NoSlot ELSE SlotOf(old)]
      BY DEF ReadSeqs
    <3> HIDE DEF target, old, new
    <3> QED
      BY <2>1, <2>2, <2>3, <3>1
<1> QED
  BY <1>1, <1>2, CallsRunNothing, QuietCall DEF CallStep

-----------------------------------------------------------------------------
(* The sections. *)

PinsAt(ps, i) == {q \in Pins : ps[q] # 0 /\ ps[q] = i}

Repinned(ps, p, s) == [ps EXCEPT ![p] = s]

LEMMA PinMoves ==
  ASSUME NEW ps \in [Pins -> Nat], NEW p \in Pins, NEW s \in Nat, NEW i \in Nat
  PROVE  /\ Cardinality(PinsAt(ps, i)) \in Nat
         /\ Cardinality(PinsAt(Repinned(ps, p, s), i)) =
              Cardinality(PinsAt(ps, i)) - (IF ps[p] # 0 /\ ps[p] = i THEN 1 ELSE 0)
                                         + (IF s # 0 /\ s = i THEN 1 ELSE 0)
<1> DEFINE D == PinsAt(ps, i) \ {p}
           E == PinsAt(Repinned(ps, p, s), i)
<1>1. IsFiniteSet(PinsAt(ps, i)) /\ IsFiniteSet(D)
  BY PinAssumption, FS_Subset DEF PinsAt
<1>2. /\ p \notin D
      /\ PinsAt(ps, i) = IF ps[p] # 0 /\ ps[p] = i THEN D \cup {p} ELSE D
      /\ E = IF s # 0 /\ s = i THEN D \cup {p} ELSE D
  BY DEF PinsAt, Repinned
<1> HIDE DEF D, E
<1>3. Cardinality(D \cup {p}) = Cardinality(D) + 1 /\ Cardinality(D) \in Nat
  BY <1>1, <1>2, FS_AddElement, FS_CardinalityType
<1>4. /\ Cardinality(PinsAt(ps, i)) = Cardinality(D) + (IF ps[p] # 0 /\ ps[p] = i THEN 1 ELSE 0)
      /\ Cardinality(E) = Cardinality(D) + (IF s # 0 /\ s = i THEN 1 ELSE 0)
  BY <1>2, <1>3
<1> DEFINE c == Cardinality(D)
           x == Cardinality(PinsAt(ps, i))
           y == Cardinality(E)
<1>5. /\ c \in Nat /\ x = c + (IF ps[p] # 0 /\ ps[p] = i THEN 1 ELSE 0)
      /\ y = c + (IF s # 0 /\ s = i THEN 1 ELSE 0)
  BY <1>3, <1>4
<1> HIDE DEF c, x, y
<1>6. x \in Nat /\ y = x - (IF ps[p] # 0 /\ ps[p] = i THEN 1 ELSE 0) + (IF s # 0 /\ s = i THEN 1
      ELSE 0)
  BY <1>5
<1> QED
  BY <1>6 DEF x, y, E

\* The task that has the locks is the only one at its pin.
LEMMA AtLock ==
  ASSUME Typed, Sound, NEW t \in Tasks, pc[t] = "lock", CanLock(t), ~Raced(t)
  PROVE  LET p == op[t].pin
         IN  /\ p \in Pins /\ op[t].kind \in {"set", "copy", "drop"} /\ ~Moving(p)
             /\ op[t].old = pseq[p] /\ pseq[p] \in 0..(tail - 1)
             /\ op[t].from = IF pseq[p] = 0 THEN NoSlot ELSE pseq[p]
             /\ op[t].kind # "drop" => op[t].seq \in 1..(tail - 1) /\ op[t].new = op[t].seq
             /\ op[t].kind = "drop" => pseq[p] # 0
             /\ Drops(t) <=> Active(p)
<1> DEFINE p == op[t].pin
<1>1. p \in Pins /\ op[t].kind \in {"set", "copy", "drop"} /\ TaskSound(t)
  BY DEF Typed, Places, PinCalls, Sound
<1>2. op[t].old = pseq[p]
  BY DEF Raced
<1>3. pseq[p] \in 0..(tail - 1)
  BY <1>1 DEF Sound, ListPart, PinsLinked
<1>4. op[t].from = IF pseq[p] = 0 THEN NoSlot ELSE pseq[p]
  BY <1>1, <1>2 DEF TaskSound
<1>5. Drops(t) <=> Active(p)
  BY <1>3, <1>4 DEF Drops, Active, NoSlot
<1>6. ASSUME NEW u \in Tasks, pc[u] = "blocked", op[u].pin = p PROVE FALSE
  <2>1. /\ op[u].kind # "drop" /\ op[u].seq \in 1..(tail - 1) /\ op[u].new = op[u].seq
        /\ lock[op[u].new] = u /\ pseq[p] = op[u].seq
    BY <1>6 DEF Typed, Places, PinCalls, Sound, TaskSound
  <2>2. op[t].from = pseq[p] /\ pseq[p] # NoSlot
    BY <1>3, <1>4, <2>1 DEF NoSlot
  <2>3. lock[pseq[p]] = NoTask
    BY <2>2 DEF CanLock, Wanted
  <2> QED
    BY <2>1, <2>3, TaskAssumption DEF Tasks
<1> QED
  BY <1>1, <1>2, <1>3, <1>4, <1>5, <1>6 DEF TaskSound, Moving

LEMMA AfterMove ==
  ASSUME Typed, Sound, NEW t \in Tasks, pc[t] = "lock", CanLock(t), ~Raced(t),
         NEW append \in BOOLEAN, Move(t, append), append => op[t].kind # "drop"
  PROVE  \A q \in Pins : Lists(unflushed', flushed', q) =
           IF q = op[t].pin THEN IF append THEN {<<op[t].new, use.type[q]>>} ELSE {}
           ELSE Lists(unflushed, flushed, q)
<1> DEFINE p == op[t].pin
           ty == use.type[p]
           i == op[t].new
<1>1. PICK m : /\ Left(t, m) /\ flushed' = m.f
               /\ unflushed' = IF append THEN [m.u EXCEPT ![i][ty] = Append(@, p)] ELSE m.u
  BY MoveIs
<1>2. p \in Pins /\ ty \in Types /\ (append => i \in Slots)
  BY UseType DEF Typed, Places, PinCalls
<1>3. m.u \in [Slots -> [Types -> Seq(Pins)]] /\ m.f \in [Slots -> Seq(Pins)]
  BY <1>1, <1>2, LeftType DEF Typed
<1>4. ASSUME NEW q \in Pins
      PROVE  Lists(m.u, m.f, q) = IF q = p THEN {} ELSE Lists(unflushed, flushed, q)
  <2>1. CASE Drops(t)
    <3>1. m = Unlink(p)
      BY <1>1, <2>1 DEF Left
    <3> QED
      BY <1>2, <3>1, UnlinkLists DEF Typed
  <2>2. CASE ~Drops(t)
    <3>1. m.u = unflushed /\ m.f = flushed
      BY <1>1, <2>2 DEF Left
    <3>2. ~Active(p)
      BY <2>2, AtLock
    <3>3. Lists(unflushed, flushed, p) = {}
      BY <1>2, <3>2 DEF Sound, ListPart, PinsLinked, Linked
    <3> QED
      BY <3>1, <3>3
  <2> QED
    BY <2>1, <2>2
<1> DEFINE u == m.u
           f == m.f
<1>5. /\ u \in [Slots -> [Types -> Seq(Pins)]] /\ f \in [Slots -> Seq(Pins)] /\ flushed' = f
      /\ unflushed' = IF append THEN [u EXCEPT ![i][ty] = Append(@, p)] ELSE u
      /\ \A q \in Pins : Lists(u, f, q) = IF q = p THEN {} ELSE Lists(unflushed, flushed, q)
  BY <1>1, <1>3, <1>4
<1> HIDE DEF u, f
<1>6. CASE ~append
  BY <1>5, <1>6
<1>7. CASE append
  <2> DEFINE v == unflushed'
  <2>1. v = Linking(u, i, ty, p) /\ i \in Slots
    BY <1>2, <1>5, <1>7 DEF Linking
  <2> HIDE DEF v, i, ty, p
  <2>2. \A q \in Pins :
          Lists(v, f, q) = IF q = p THEN Lists(u, f, q) \cup {<<i, ty>>} ELSE Lists(u, f, q)
    <3>1. p \in Pins /\ ty \in Types
      BY <1>2 DEF p, ty
    <3>2. u \in ListsU /\ f \in ListsF
      BY <1>5 DEF ListsU, ListsF
    <3>3. ASSUME NEW q \in Pins
          PROVE  Lists(Linking(u, i, ty, p), f, q)
                   = IF q = p THEN Lists(u, f, q) \cup {<<i, ty>>} ELSE Lists(u, f, q)
      BY ONLY <2>1, <3>1, <3>2, LinkLists
    <3> QED
      BY ONLY <2>1, <3>3
  <2>3. \A q \in Pins : Lists(v, f, q) = IF q = p THEN {<<i, ty>>} ELSE Lists(unflushed, flushed, q)
    BY <1>5, <2>2
  <2> QED
    BY <1>5, <1>7, <2>3 DEF v, i, ty, p
<1> QED
  BY <1>6, <1>7

\* The seq that the section gives to the pin.
Given(t) == IF op[t].kind = "drop" THEN 0 ELSE op[t].seq

LEMMA CountsAfter ==
  ASSUME Typed, Sound, NEW t \in Tasks, pc[t] = "lock", CanLock(t), ~Raced(t),
         cnt' = NewCount(t), pseq' = [pseq EXCEPT ![op[t].pin] = Given(t)],
         UNCHANGED <<tail, puts>>
  PROVE  Counts' /\ \A q \in Pins : pseq'[q] \in 0..(tail - 1)
<1> DEFINE p == op[t].pin
           s == Given(t)
<1>1. /\ p \in Pins /\ op[t].kind \in {"set", "copy", "drop"} /\ pseq[p] \in 0..(tail - 1)
      /\ op[t].from = IF pseq[p] = 0 THEN NoSlot ELSE pseq[p]
      /\ op[t].kind # "drop" => op[t].seq \in 1..(tail - 1) /\ op[t].new = op[t].seq
      /\ Drops(t) <=> pseq[p] # 0
  BY AtLock DEF Active
<1>2. tail \in 1..(FifoSize - 1) /\ FifoSize \in Nat
  BY FreshSlots, FifoAssumption DEF Sound, ListPart
<1>3. s \in 0..(tail - 1) /\ s \in Nat /\ (op[t].kind # "drop" <=> s # 0) /\ (s # 0 => op[t].new = s)
  BY <1>1, <1>2 DEF Given
<1>4. pseq \in [Pins -> Nat] /\ \A q \in Pins : pseq[q] \in 0..(tail - 1)
  BY DEF Typed, PinType, Sound, ListPart, PinsLinked
<1>5. \A q \in Pins : pseq'[q] \in 0..(tail - 1)
  BY <1>1, <1>3, <1>4
<1>6. ASSUME NEW i \in 0..(tail - 1)
      PROVE  cnt'[i] = 1 - puts[i] + Cardinality(PinsAt(pseq', i))
  <2>1. i \in Slots /\ i \in Nat /\ puts[i] \in Nat /\ cnt[i] \in Int
    BY <1>2 DEF Slots, Typed, FifoType
  <2>2. cnt[i] = 1 - puts[i] + Cardinality(PinsAt(pseq, i))
    BY DEF Sound, ListPart, Counts, At, Active, PinsAt
  <2>3. cnt'[i] = cnt[i] - (IF pseq[p] # 0 /\ i = pseq[p] THEN 1 ELSE 0) + (IF s # 0 /\ i = s
        THEN 1 ELSE 0)
    <3>1. cnt'[i] = cnt[i] - (IF Drops(t) /\ i = op[t].from THEN 1 ELSE 0)
                           + (IF op[t].kind # "drop" /\ i = op[t].new THEN 1 ELSE 0)
      BY <2>1 DEF NewCount
    <3>2. Drops(t) /\ i = op[t].from <=> pseq[p] # 0 /\ i = pseq[p]
      BY <1>1
    <3>3. op[t].kind # "drop" /\ i = op[t].new <=> s # 0 /\ i = s
      BY <1>3
    <3> HIDE DEF p, s
    <3> QED
      BY <3>1, <3>2, <3>3, <2>1
  <2>4. /\ Cardinality(PinsAt(pseq, i)) \in Nat
        /\ Cardinality(PinsAt(pseq', i)) =
              Cardinality(PinsAt(pseq, i)) - (IF pseq[p] # 0 /\ pseq[p] = i THEN 1 ELSE 0)
                                           + (IF s # 0 /\ s = i THEN 1 ELSE 0)
    <3> HIDE DEF s, p
    <3>1. pseq' = Repinned(pseq, p, s)
      BY DEF s, p, Repinned
    <3> QED
      <4>1. p \in Pins /\ s \in Nat /\ i \in Nat /\ pseq \in [Pins -> Nat]
        BY <1>1, <1>3, <1>4, <2>1 DEF p, s
      <4>2. Cardinality(PinsAt(pseq, i)) \in Nat
            /\ Cardinality(PinsAt(Repinned(pseq, p, s), i)) =
                 Cardinality(PinsAt(pseq, i)) - (IF pseq[p] # 0 /\ pseq[p] = i THEN 1 ELSE 0)
                                              + (IF s # 0 /\ s = i THEN 1 ELSE 0)
        BY <4>1, PinMoves
      <4> QED
        BY <3>1, <4>2
  <2> DEFINE x == Cardinality(PinsAt(pseq, i))
             y == Cardinality(PinsAt(pseq', i))
             a == IF pseq[p] # 0 /\ pseq[p] = i THEN 1 ELSE 0
             b == IF s # 0 /\ s = i THEN 1 ELSE 0
             c == cnt[i]
             d == cnt'[i]
  <2>5. x \in Nat /\ y = x - a + b /\ c = 1 - puts[i] + x /\ d = c - a + b /\ a \in Int /\ b \in Int
    BY <2>2, <2>3, <2>4
  <2> HIDE DEF x, y, a, b, c, d
  <2>6. d = 1 - puts[i] + y
    BY <2>1, <2>5
  <2> QED
    BY <2>6 DEF d, y
<1>7. Counts'
  BY <1>6 DEF Counts, At, Active, PinsAt
<1> QED
  BY <1>5, <1>7

\* The lists after a section: nobody else moves the pin.
LEMMA LinksAfter ==
  ASSUME Typed, Sound, NEW t \in Tasks, pc[t] = "lock", CanLock(t), ~Raced(t), Alone(t),
         NEW append \in BOOLEAN, Move(t, append), append => op[t].kind # "drop",
         pseq' = [pseq EXCEPT ![op[t].pin] = Given(t)],
         pc'[t] = "blocked" <=> ~append /\ op[t].kind # "drop", pc'[t] = "blocked" => op'[t] = op[t]
  PROVE  /\ \A q \in Pins : Linked(q)'
         /\ \A q \in Pins : q # op[t].pin => pseq'[q] = pseq[q] /\ (Moving(q)' <=> Moving(q))
<1>0. PICK p \in Pins : p = op[t].pin
  BY AtLock
<1> DEFINE ty == use.type[p]
<1>1. /\ p = op[t].pin /\ op[t].kind \in {"set", "copy", "drop"} /\ ~Moving(p)
      /\ op[t].kind # "drop" => op[t].seq \in 1..(tail - 1) /\ op[t].new = op[t].seq
  BY <1>0, AtLock
<1>2. pseq \in [Pins -> Nat] /\ ty \in Types
  BY <1>1, UseType DEF Typed, PinType
<1>3. pseq'[p] = Given(t) /\ \A q \in Pins : q # p => pseq'[q] = pseq[q]
  BY <1>1, <1>2
<1>4. \A u \in Tasks : u # t => pc'[u] = pc[u] /\ op'[u] = op[u]
  BY DEF Alone
<1>5. \A q \in Pins : q # p => (Moving(q)' <=> Moving(q))
  BY <1>1, <1>4 DEF Moving
<1>6. Moving(p)' <=> pc'[t] = "blocked"
  <2>1. Moving(p)' <=> \E u \in Tasks : pc'[u] = "blocked" /\ op'[u].pin = op[t].pin
    BY <1>1 DEF Moving
  <2> QED
    BY <1>1, <1>4, <2>1 DEF Moving
<1>7. \A q \in Pins : Lists(unflushed', flushed', q) =
        IF q = p THEN IF append THEN {<<op[t].new, use.type[q]>>} ELSE {}
        ELSE Lists(unflushed, flushed, q)
  BY <1>1, AfterMove
<1>8. ASSUME NEW q \in Pins PROVE Linked(q)'
  <2>1. CASE q # p
    <3>1. Linked(q)
      BY DEF Sound, ListPart, PinsLinked
    <3> QED
      BY <1>3, <1>5, <1>7, <2>1, <3>1 DEF Linked, Active
  <2>2. CASE q = p /\ append
    <3>1. Lists(unflushed', flushed', q) = {<<pseq'[q], ty>>} /\ ty \in Types \cup {0}
      <4>1. op[t].new = pseq'[q] /\ use.type[q] = ty
        BY <1>1, <1>3, <2>2 DEF Given
      <4>2. Lists(unflushed', flushed', q) = {<<op[t].new, use.type[q]>>}
        BY <1>7, <2>2
      <4> QED
        BY <1>2, <4>1, <4>2
    <3>2. pseq'[q] # 0 /\ ~Moving(q)'
      BY <1>1, <1>3, <1>6, <2>2 DEF Given
    <3> QED
      BY <3>1, <3>2 DEF Linked, Active
  <2>3. CASE q = p /\ ~append
    <3>1. Lists(unflushed', flushed', q) = {}
      BY <1>7, <2>3
    <3>2. pseq'[q] = 0 \/ Moving(q)'
      BY <1>1, <1>3, <1>6, <2>3 DEF Given
    <3> QED
      BY <3>1, <3>2 DEF Linked, Active
  <2> QED
    BY <2>1, <2>2, <2>3
<1> QED
  BY <1>1, <1>3, <1>5, <1>8

\* A section notes that it takes the pin away from the flusher.
LEMMA NotedFlush ==
  ASSUME Typed, Sound, CallbackIsKnown, NEW t \in Tasks, pc[t] = "lock", CanLock(t), ~Raced(t),
         NoteDropped(t), NEW f \in use.flushers, Flushes(f), ~fipDropped'
  PROVE  ~fipDropped /\ fl[f].pin # op[t].pin /\ ~Moving(fl[f].pin)
<1>1. fip = fl[f].pin /\ FlushSound(f)
  BY DEF CallbackIsKnown, Sound
<1>2. ~fipDropped /\ ~(Drops(t) /\ fip = op[t].pin)
  BY DEF NoteDropped
<1>3. Active(fl[f].pin) /\ ~Moving(fl[f].pin)
  BY <1>1, <1>2 DEF FlushSound
<1> QED
  BY <1>1, <1>2, <1>3, AtLock

LEMMA SectionKeeps ==
  ASSUME Typed, Typed', Sound, CallbackIsKnown, NEW t \in Tasks, Alone(t),
         pc[t] = "lock", CanLock(t), ~Raced(t), NoteDropped(t),
         NEW append \in BOOLEAN, Move(t, append), append => op[t].kind # "drop",
         cnt' = NewCount(t), pseq' = [pseq EXCEPT ![op[t].pin] = Given(t)],
         pc'[t] = "blocked" <=> ~append /\ op[t].kind # "drop",
            pc'[t] = "blocked" => op'[t] = op[t],
         UNCHANGED <<head, tail, entry, puts, seqVars, fl>>,
         \A u \in Tasks \ {t} : pc[u] = "blocked" => lock'[op[u].new] = u,
         TaskSound(t)', Flushes(t)' => Flushes(t)
  PROVE  Sound'
<1>1. UNCHANGED <<seq, disk, written>>
  BY DEF seqVars
<1>2. /\ \A q \in Pins : Linked(q)'
      /\ \A q \in Pins : q # op[t].pin => pseq'[q] = pseq[q] /\ (Moving(q)' <=> Moving(q))
  BY LinksAfter
<1>3. Counts' /\ \A q \in Pins : pseq'[q] \in 0..(tail - 1)
  BY CountsAfter
<1>4. ListPart'
  <2>1. PinsLinked'
    BY <1>2, <1>3 DEF PinsLinked
  <2>2. FrontStays' /\ EntriesInOrder'
    BY <1>1 DEF Sound, ListPart, FrontStays, EntriesInOrder
  <2> QED
    BY <1>3, <2>1, <2>2 DEF ListPart
<1>5. seq <= seq' /\ tail <= tail'
  <2>1. seq \in Int /\ tail \in Int
    BY <1>1 DEF Typed, SeqType, Sound, ListPart, FrontStays
  <2> QED
    BY <1>1, <2>1
<1>6. \A u \in Tasks : TaskSound(u)'
  <2>1. ASSUME NEW u \in Tasks \ {t}, pc[u] = "blocked"
        PROVE  lock'[op[u].new] = u /\ pseq'[op[u].pin] = op[u].seq
    <3>1. op[u].pin # op[t].pin /\ op[u].pin \in Pins /\ pseq[op[u].pin] = op[u].seq
      BY <2>1, AtLock DEF Moving, Typed, Places, PinCalls, Sound, TaskSound
    <3> QED
      BY <1>2, <2>1, <3>1
  <2> QED
    BY <1>5, <2>1, TasksSound
<1>7. \A f \in use'.flushers : FlushSound(f)'
  <2>1. ASSUME NEW f \in use.flushers, NEW p \in Pins, fl[f].pin = p, Flushes(f), ~fipDropped'
        PROVE  ~fipDropped /\ pseq'[p] = pseq[p] /\ ~Moving(p)'
    BY <1>2, <2>1, NotedFlush
  <2> QED
    BY <1>5, <2>1, FlushesSound
<1> QED
  BY <1>4, <1>6, <1>7 DEF Sound

LEMMA SectionSound ==
  ASSUME Typed, Typed', Sound, CallbackIsKnown, NEW t \in Tasks, Alone(t), Section(t) PROVE Sound'
<1> DEFINE append == op[t].kind # "drop"
<1>1. /\ pc[t] = "lock" /\ CanLock(t) /\ ~Raced(t) /\ NoteDropped(t) /\ Move(t, append)
      /\ cnt' = NewCount(t) /\ pseq' = [pseq EXCEPT ![op[t].pin] = Given(t)]
      /\ UNCHANGED <<head, tail, lock, entry, puts, seqVars, fl>>
      /\ EndSection(t, Releases(t)) /\ append \in BOOLEAN
  BY DEF Section, Given
<1>2. TaskSound(t)' /\ pc'[t] # "blocked"
  <2>1. CASE Finish(t)
    BY <2>1, EndSound
  <2>2. CASE Goto(t, "compute")
    BY <2>2 DEF Goto, Typed, TaskType, TaskSound
  <2> QED
    BY <1>1, <2>1, <2>2 DEF EndSection
<1>3. Flushes(t)' => Flushes(t)
  BY CallsRunNothing DEF CallStep
<1>4. \A u \in Tasks : pc[u] = "blocked" => lock'[op[u].new] = u
  BY <1>1 DEF Sound, TaskSound
<1>5. append => op[t].kind # "drop"
  OBVIOUS
<1>6. pc'[t] = "blocked" <=> ~append /\ op[t].kind # "drop"
  BY <1>2
<1> HIDE DEF append
<1> QED
  BY <1>1, <1>2, <1>3, <1>4, <1>5, <1>6, SectionKeeps

LEMMA SectionBlocksSound ==
  ASSUME Typed, Typed', Sound, CallbackIsKnown, NEW t \in Tasks, Alone(t), SectionBlocks(t)
  PROVE  Sound'
<1>1. /\ pc[t] = "lock" /\ CanLock(t) /\ ~Raced(t) /\ NoteDropped(t) /\ Move(t, FALSE)
      /\ cnt' = NewCount(t) /\ pseq' = [pseq EXCEPT ![op[t].pin] = op[t].seq]
      /\ lock' = [i \in Slots |-> IF i \in Wanted(t) THEN t ELSE lock[i]]
      /\ UNCHANGED <<head, tail, entry, puts, seqVars, fl>>
      /\ pc'[t] = "blocked" /\ op' = op /\ op[t].fn
  BY DEF SectionBlocks, Goto, Typed, TaskType
<1>2. op[t].kind # "drop" /\ op[t].new \in Slots /\ op[t].pin \in Pins
  BY <1>1 DEF Typed, Places, PinCalls
<1>3. Given(t) = op[t].seq /\ pseq'[op[t].pin] = op[t].seq
  BY <1>1, <1>2 DEF Given, Typed, PinType
<1>4. TaskSound(t)'
  <2>1. op[t].new \in Wanted(t)
    BY <1>2 DEF Wanted, NoSlot, Slots
  <2>2. lock'[op[t].new] = t
    BY <1>1, <1>2, <2>1
  <2>3. tail' = tail /\ seq' = seq /\ TaskSound(t)
    BY <1>1 DEF seqVars, Sound
  <2> QED
    BY <1>1, <1>2, <1>3, <2>2, <2>3 DEF TaskSound
<1>5. ASSUME NEW u \in Tasks, pc[u] = "blocked" PROVE lock'[op[u].new] = u
  <2>1. op[u].new \in Slots /\ lock[op[u].new] = u /\ u # NoTask
    BY <1>5, TaskAssumption DEF Typed, Places, PinCalls, Sound, TaskSound, Tasks
  <2>2. op[u].new \notin Wanted(t)
    BY <1>1, <2>1 DEF CanLock
  <2> QED
    BY <1>1, <2>1, <2>2
<1>6. Flushes(t)' => Flushes(t)
  BY CallsRunNothing DEF CallStep
<1> QED
  BY <1>1, <1>2, <1>3, <1>4, <1>5, <1>6, SectionKeeps

LEMMA SectionResumesSound ==
  ASSUME Typed, Typed', Sound, NEW t \in Tasks, Alone(t), SectionResumes(t) PROVE Sound'
<1> DEFINE p == op[t].pin
           i == op[t].new
           ty == use.type[p]
<1>1. /\ pc[t] = "blocked"
      /\ unflushed' = [unflushed EXCEPT ![i][ty] = Append(@, p)]
      /\ lock' = [j \in Slots |-> IF lock[j] = t THEN NoTask ELSE lock[j]]
      /\ EndSection(t, n[t] = 1)
      /\ UNCHANGED <<head, tail, cnt, flushed, entry, puts, pseq, fipVars, seqVars, fl>>
  BY DEF SectionResumes
<1>2. /\ p \in Pins /\ i \in Slots /\ op[t].kind # "drop" /\ op[t].seq \in 1..(tail - 1)
      /\ i = op[t].seq /\ lock[i] = t /\ pseq[p] = i
  BY <1>1 DEF Typed, Places, PinCalls, Sound, TaskSound
<1>3. ty \in Types
  BY <1>2, UseType DEF Typed
<1>4. TaskSound(t)' /\ pc'[t] # "blocked"
  <2>1. CASE Finish(t)
    BY <2>1, EndSound
  <2>2. CASE Goto(t, "compute")
    BY <2>2 DEF Goto, Typed, TaskType, TaskSound
  <2> QED
    BY <1>1, <2>1, <2>2 DEF EndSection
<1>5. ASSUME NEW u \in Tasks, u # t, pc[u] = "blocked"
      PROVE  op[u].pin # p /\ lock[op[u].new] = u /\ op[u].new \in Slots /\ pseq[op[u].pin] = op[u].seq
  <2>1. /\ op[u].kind # "drop" /\ op[u].new = op[u].seq /\ lock[op[u].new] = u /\ op[u].new \in Slots
        /\ pseq[op[u].pin] = op[u].seq
    BY <1>5 DEF Typed, Places, PinCalls, Sound, TaskSound
  <2> QED
    BY <1>2, <1>5, <2>1
<1>6. \A u \in Tasks : u # t => pc'[u] = pc[u] /\ op'[u] = op[u]
  BY DEF Alone
<1>7. \A q \in Pins : Moving(q)' <=> Moving(q) /\ q # p
  BY <1>1, <1>4, <1>5, <1>6 DEF Moving
<1>8. \A q \in Pins : Lists(unflushed', flushed', q) =
        IF q = p THEN Lists(unflushed, flushed, q) \cup {<<i, ty>>} ELSE Lists(unflushed, flushed,
           q)
  <2>1. unflushed' = Linking(unflushed, i, ty, p) /\ flushed' = flushed
    BY <1>1 DEF Linking
  <2>2. unflushed \in ListsU /\ flushed \in ListsF
    BY DEF Typed, FifoType, ListsU, ListsF
  <2> HIDE DEF i, ty, p
  <2> QED
    <3>1. \A q \in Pins : Lists(Linking(unflushed, i, ty, p), flushed, q) =
            IF q = p THEN Lists(unflushed, flushed, q) \cup {<<i, ty>>} ELSE Lists(unflushed,
               flushed, q)
      <4>1. p \in Pins /\ i \in Slots /\ ty \in Types
        BY <1>2, <1>3 DEF i, ty, p
      <4> QED
        BY <4>1, <2>2, LinkLists
    <3> QED
      BY <2>1, <3>1
<1>9. ASSUME NEW q \in Pins PROVE Linked(q)'
  <2>0. Linked(q)
    BY DEF Sound, ListPart, PinsLinked
  <2>1. CASE q # p
    BY <1>1, <1>7, <1>8, <2>0, <2>1 DEF Linked, Active
  <2>2. CASE q = p
    <3>1. Moving(p)
      BY <1>1 DEF Moving
    <3>2. Lists(unflushed, flushed, p) = {}
      BY <2>0, <2>2, <3>1 DEF Linked
    <3>3. Lists(unflushed', flushed', p) = {<<i, ty>>}
      BY <1>2, <1>8, <3>2
    <3>4. pseq'[p] = i /\ pseq'[p] # 0 /\ ~Moving(q)'
      BY <1>1, <1>2, <1>7, <2>2
    <3> QED
      BY <1>3, <2>2, <3>3, <3>4 DEF Linked, Active
  <2> QED
    BY <2>1, <2>2
<1>10. ListPart'
  <2>1. PinsLinked'
    BY <1>1, <1>9 DEF Sound, ListPart, PinsLinked
  <2>2. FrontStays' /\ EntriesInOrder' /\ Counts'
    BY <1>1 DEF Sound, ListPart, FrontStays, EntriesInOrder, Counts, At, Active, seqVars
  <2> QED
    BY <2>1, <2>2 DEF ListPart
<1>11. seq <= seq' /\ tail <= tail' /\ fipDropped' = fipDropped
  <2>1. seq \in Int /\ tail \in Int /\ seq' = seq /\ tail' = tail
    BY <1>1 DEF Typed, SeqType, Sound, ListPart, FrontStays, seqVars
  <2> QED
    BY <1>1, <2>1 DEF fipVars
<1>12. \A u \in Tasks : TaskSound(u)'
  <2>1. \A u \in Tasks \ {t} : pc[u] = "blocked" =>
          lock'[op[u].new] = u /\ pseq'[op[u].pin] = op[u].seq
    BY <1>1, <1>5
  <2> QED
    BY <1>4, <1>11, <2>1, TasksSound
<1>13. \A f \in use'.flushers : FlushSound(f)'
  <2>1. ASSUME NEW f \in use.flushers, NEW q \in Pins, fl[f].pin = q, Flushes(f), ~fipDropped'
        PROVE  ~fipDropped /\ pseq'[q] = pseq[q] /\ ~Moving(q)'
    BY <1>1, <1>7, <1>11, <2>1 DEF Sound, FlushSound
  <2>2. Flushes(t)' => Flushes(t)
    BY CallsRunNothing DEF CallStep
  <2> QED
    BY <1>1, <1>11, <2>1, <2>2, FlushesSound
<1> QED
  BY <1>10, <1>12, <1>13 DEF Sound

-----------------------------------------------------------------------------
(* The flusher. *)

\* What the one flusher does to the flushers' part.
LEMMA TheFlusher ==
  ASSUME OneFlusher, Typed, NEW f \in use.flushers, Alone(f), FlushSound(f)'
  PROVE  \A g \in use'.flushers : FlushSound(g)'
<1>1. use' = use /\ \A g \in use.flushers : g = f
  BY UseAssumption DEF Alone, OneFlusher, Typed
<1> QED
  BY <1>1

\* A step of the flusher that touches no list.
LEMMA QuietFlush ==
  ASSUME OneFlusher, Typed, Typed', Sound, NEW f \in use.flushers, Alone(f),
         UNCHANGED <<head, tail, cnt, unflushed, flushed, lock, entry, puts, pseq, seq, disk,
            written>>,
         pc[f] # "blocked", pc'[f] \notin {"lock", "blocked", "drain", "advance", "scanblocked"},
         pc'[f] = "read" => op'[f].kind # "set",
         fl'[f].target <= seq,
         Flushes(f)' /\ ~fipDropped' =>
           \E p \in Pins : fl'[f].pin = p /\ Active(p) /\ pseq[p] = fl'[f].seq /\ ~Moving(p)
  PROVE  Sound'
<1>1. f \in Tasks
  BY UseType DEF Typed, Tasks
<1>2. TaskSound(f)'
  BY DEF TaskSound
<1>3. pc'[f] # "blocked"
  OBVIOUS
<1>4. \A q : Moving(q)' <=> Moving(q)
  BY <1>1, <1>3, MovingStays
<1>5. FlushSound(f)'
  <2>1. ASSUME Flushes(f)', ~fipDropped'
        PROVE  Active(fl[f].pin)' /\ pseq'[fl'[f].pin] = fl'[f].seq /\ ~Moving(fl[f].pin)'
    <3>1. PICK p \in Pins : fl'[f].pin = p /\ Active(p) /\ pseq[p] = fl'[f].seq /\ ~Moving(p)
      BY <2>1
    <3>2. ~\E u \in Tasks : pc'[u] = "blocked" /\ op'[u].pin = p
      BY <1>4, <3>1 DEF Moving
    <3> QED
      BY <3>1, <3>2 DEF Active, Moving
  <2> QED
    BY <2>1 DEF FlushSound
<1>6. \A g \in use'.flushers : FlushSound(g)'
  BY <1>5, TheFlusher
<1> QED
  BY <1>1, <1>2, <1>3, <1>6, QuietStep

LEMMA FlusherIs ==
  ASSUME Typed, Sound, NEW f \in use.flushers
  PROVE  /\ f \in Flushers /\ f \in Tasks /\ fl[f] \in Flush /\ fl \in [Flushers -> Flush]
         /\ pc \in [Tasks -> Where] /\ op \in [Tasks -> Operation] /\ seq \in Nat
         /\ Callbacks(f) /\ FlushCalls(f) /\ FlushSound(f) /\ TaskSound(f)
         /\ fl[f].target \in Nat /\ fl[f].target <= seq
<1>1. f \in Flushers /\ f \in Tasks
  BY UseType DEF Typed, Tasks
<1>2. fl[f] \in Flush /\ fl \in [Flushers -> Flush] /\ pc \in [Tasks -> Where] /\ op \in [Tasks -> Operation]
  BY <1>1 DEF Typed, TaskType
<1>3. Callbacks(f) /\ FlushCalls(f) /\ FlushSound(f) /\ TaskSound(f)
  BY <1>1 DEF Typed, Places, Sound
<1>4. seq \in Nat
  BY DEF Typed, SeqType
<1> QED
  BY <1>1, <1>2, <1>3, <1>4 DEF Flush, FlushSound

LEMMA StartReclaimSound ==
  ASSUME OneFlusher, Typed, Typed', Sound, NEW f \in use.flushers, Alone(f), StartReclaim(f)
  PROVE  Sound'
<1>1. PICK target \in use.first..(seq - 1) :
  /\ pc[f] = "idle"
  /\ fl' = [fl EXCEPT ![f] = [NoFlush EXCEPT !.mode = "reclaim", !.target = target]]
  /\ Goto(f, "scan")
  /\ UNCHANGED <<fifoVars, pinVars, fipVars, seqVars, op, n>>
  BY DEF StartReclaim
<1>2. pc'[f] = "scan" /\ fl'[f].target = target /\ op'[f].back # "ran"
  BY <1>1, FlusherIs DEF Goto, NoFlush, Callbacks
<1>3. target <= seq
  BY UseType, FlusherIs DEF Typed
<1>4. ~Flushes(f)'
  BY <1>2 DEF Flushes
<1>5. UNCHANGED <<head, tail, cnt, unflushed, flushed, lock, entry, puts, pseq, seq, disk, written>>
  BY <1>1 DEF fifoVars, pinVars, seqVars
<1> QED
  BY <1>1, <1>2, <1>3, <1>4, <1>5, QuietFlush

LEMMA ScanEndsSound ==
  ASSUME OneFlusher, Typed, Typed', Sound, NEW f \in use.flushers, Alone(f), ScanEnds(f)
  PROVE  Sound'
<1>1. /\ pc[f] = "scan" /\ Goto(f, "compute")
      /\ op' = [op EXCEPT ![f] = [NoOp EXCEPT !.back = IF fl[f].mode = "write" THEN "open"
         ELSE "idle"]]
      /\ UNCHANGED <<fifoVars, pinVars, fipVars, seqVars, n, fl>>
  BY DEF ScanEnds
<1>2. pc'[f] = "compute" /\ fl'[f].target = fl[f].target /\ op'[f].back # "ran"
  BY <1>1, FlusherIs DEF Goto, NoOp
<1>4. ~Flushes(f)'
  BY <1>2 DEF Flushes
<1>5. UNCHANGED <<head, tail, cnt, unflushed, flushed, lock, entry, puts, pseq, seq, disk, written>>
  BY <1>1 DEF fifoVars, pinVars, seqVars
<1> QED
  BY <1>1, <1>2, <1>4, <1>5, FlusherIs, QuietFlush

\* The walk stops at a pin of the list of its seq, and its lock is free.
LEMMA ScanFindsSound ==
  ASSUME OneFlusher, Typed, Typed', Sound, CallbackIsKnown, NEW f \in use.flushers, Alone(f),
         ScanFinds(f)
  PROVE  Sound'
<1> DEFINE s == Least(Candidates(fl[f].target))
           i == SlotOf(s)
           ty == Least(Stopping(i))
           p == Front(i, ty)
<1>1. /\ pc[f] = "scan" /\ Candidates(fl[f].target) # {}
      /\ IF cbLock[p] = NoTask THEN Choose(f, p, s) /\ UNCHANGED lock
           ELSE /\ lock' = [lock EXCEPT ![i] = f]
                /\ fl' = [fl EXCEPT ![f].pin = p, ![f].seq = s]
                /\ Goto(f, "scanblocked")
                /\ UNCHANGED fipVars
      /\ UNCHANGED <<head, tail, cnt, unflushed, flushed, entry, puts, pinVars, seqVars, op, n>>
  BY DEF ScanFinds
<1>2. /\ s \in Candidates(fl[f].target) /\ s \in Nat /\ i \in Slots /\ ty \in Types
      /\ p \in Members(unflushed[i][ty]) /\ p \in Pins
  BY <1>1, WalkIs
<1>3. i = SlotOf(s)
  OBVIOUS
<1> HIDE DEF s, i, ty, p
<1>4. cbLock[p] = NoTask
  <2>1. ~Runs(f)
    BY <1>1, FlusherIs DEF Runs, Callbacks
  <2>2. \A g \in use.flushers : g = f
    BY UseAssumption DEF OneFlusher, Typed
  <2> QED
    BY <1>2, <2>1, <2>2 DEF CallbackIsKnown
<1>5. Choose(f, p, s) /\ lock' = lock
  BY <1>1, <1>4
<1>6. Active(p) /\ ~Moving(p) /\ pseq[p] = i
  <2>1. <<i, ty>> \in Lists(unflushed, flushed, p)
    <3>1. ty # 0
      BY <1>2 DEF Types
    <3> QED
      BY <1>2, <3>1 DEF Lists
  <2>2. Linked(p)
    BY <1>2 DEF Sound, ListPart, PinsLinked
  <2> QED
    BY <2>1, <2>2 DEF Linked
<1>7. s = i
  <2>1. tail \in 1..(FifoSize - 1) /\ tail = seq - 1 /\ FifoSize \in Nat /\ seq \in Nat
    BY FreshSlots, FifoAssumption, FlusherIs DEF Sound, ListPart, FrontStays
  <2>2. s <= fl[f].target
    BY <1>2 DEF Candidates
  <2>3. s <= FifoSize
    BY <1>2, <2>1, <2>2, FlusherIs
  <2>4. i = s % FifoSize /\ i # 0
    <3>1. i # NoSlot
      BY <1>2 DEF Slots, NoSlot
    <3> QED
      BY <1>3, <1>6, <3>1 DEF SlotOf, Active
  <2>5. s # FifoSize
    <3>1. FifoSize * 1 + 0 = FifoSize /\ 0 \in 0..(FifoSize - 1)
      BY FifoAssumption
    <3>2. FifoSize % FifoSize = 0
      BY <3>1, RemainderIs
    <3> QED
      BY <2>4, <3>2
  <2>6. s \in 0..(FifoSize - 1)
    BY <1>2, <2>1, <2>3, <2>5
  <2> QED
    BY <2>4, <2>6, SmallRemainder
<1>8. pc'[f] = "callback" /\ fl'[f].pin = p /\ fl'[f].seq = s /\ fl'[f].target = fl[f].target
  BY <1>5, FlusherIs DEF Choose, Goto, Flush
<1>9. UNCHANGED <<head, tail, cnt, unflushed, flushed, lock, entry, puts, pseq, seq, disk, written>>
  BY <1>1, <1>5 DEF pinVars, seqVars
<1> QED
  BY <1>1, <1>2, <1>6, <1>7, <1>8, <1>9, FlusherIs, QuietFlush

\* The callback's own steps.
LEMMA CallbackSound ==
  ASSUME OneFlusher, Typed, Typed', Sound, NEW f \in use.flushers, Alone(f),
         CallbackStarts(f) \/ CallbackDrops(f) \/ CallbackLeaves(f) \/ CallbackEnds(f)
  PROVE  Sound'
<1>1. /\ pc[f] \in {"callback", "running", "ran"} /\ pc'[f] \in {"running", "read", "ran", "ranout"}
      /\ pc'[f] = "read" => op'[f].kind # "set"
      /\ UNCHANGED <<fifoVars, pseq, fipVars, seqVars>>
      /\ fl'[f].pin = fl[f].pin /\ fl'[f].seq = fl[f].seq /\ fl'[f].target = fl[f].target
  <2>1. CASE CallbackStarts(f) \/ CallbackEnds(f)
    BY <2>1, FlusherIs DEF CallbackStarts, CallbackEnds, Goto
  <2>2. CASE CallbackDrops(f)
    BY <2>2, FlusherIs DEF CallbackDrops, Goto, NoOp, pinVars
  <2>3. CASE CallbackLeaves(f)
    BY <2>3, FlusherIs DEF CallbackLeaves, Goto, pinVars, Flush
  <2> QED
    BY <2>1, <2>2, <2>3
<1>2. Flushes(f) /\ fl[f].pin \in Pins
  BY <1>1, FlusherIs DEF Flushes, FlushCalls, Flushing
<1>3. ~fipDropped' => Active(fl[f].pin) /\ pseq[fl[f].pin] = fl[f].seq /\ ~Moving(fl[f].pin)
  BY <1>1, <1>2, FlusherIs DEF FlushSound, fipVars
<1>4. UNCHANGED <<head, tail, cnt, unflushed, flushed, lock, entry, puts, pseq, seq, disk, written>>
  BY <1>1 DEF fifoVars, seqVars
<1> QED
  BY <1>1, <1>2, <1>3, <1>4, FlusherIs, QuietFlush

LEMMA ListIsGoneSound ==
  ASSUME OneFlusher, Typed, Typed', Sound, NEW f \in use.flushers, Alone(f), ListIsGone(f)
  PROVE  Sound'
<1>1. /\ pc[f] = "ranout" /\ AfterPin(f) /\ UNCHANGED <<fifoVars, pinVars, fipVars, seqVars, n, fl>>
  BY DEF ListIsGone
<1>2. pc'[f] \in {"scan", "idle", "compute"} /\ op'[f].back # "ran"
  BY <1>1, AfterPinTyped DEF Alone
<1>3. ~Flushes(f)'
  BY <1>2 DEF Flushes
<1>4. UNCHANGED <<head, tail, cnt, unflushed, flushed, lock, entry, puts, pseq, seq, disk, written>>
  BY <1>1 DEF fifoVars, pinVars, seqVars
<1> QED
  BY <1>1, <1>2, <1>3, <1>4, FlusherIs, QuietFlush

LEMMA MoveToFlushedSound ==
  ASSUME OneFlusher, Typed, Typed', Sound, NEW f \in use.flushers, Alone(f), MoveToFlushed(f)
  PROVE  Sound'
<1> DEFINE i == SlotOf(fl[f].seq)
<1>1. /\ pc[f] = "ranout" /\ i # NoSlot /\ AfterPin(f)
      /\ IF fipDropped THEN UNCHANGED <<unflushed, flushed>>
         ELSE /\ unflushed' = Unlink(fl[f].pin).u
              /\ flushed' = [Unlink(fl[f].pin).f EXCEPT ![i] = Append(@, fl[f].pin)]
      /\ UNCHANGED <<head, tail, cnt, lock, entry, puts, pinVars, seqVars, n, fl>>
  BY DEF MoveToFlushed
<1>2. pc'[f] \in {"scan", "idle", "compute"} /\ op'[f].back # "ran"
  BY <1>1, AfterPinTyped DEF Alone
<1>3. ~Flushes(f)' /\ Flushes(f) /\ TaskSound(f)' /\ pc'[f] # "blocked"
  BY <1>1, <1>2 DEF Flushes, TaskSound
<1>4. PICK p \in Pins : p = fl[f].pin
  BY <1>1, FlusherIs DEF FlushCalls, Flushing
<1>5. \A q : Moving(q)' <=> Moving(q)
  BY <1>1, <1>3, FlusherIs, MovingStays
<1>6. pseq' = pseq /\ seq' = seq /\ tail' = tail /\ fl' = fl
  BY <1>1 DEF pinVars, seqVars
<1>7. ASSUME NEW q \in Pins PROVE Linked(q)'
  <2>0. Linked(q)
    BY DEF Sound, ListPart, PinsLinked
  <2>1. CASE fipDropped
    <3>1. unflushed' = unflushed /\ flushed' = flushed
      BY <1>1, <2>1
    <3> QED
      BY <1>5, <1>6, <2>0, <3>1 DEF Linked, Active
  <2>2. CASE ~fipDropped
    <3>1. Active(p) /\ pseq[p] = fl[f].seq /\ ~Moving(p)
      BY <1>3, <1>4, <2>2, FlusherIs DEF FlushSound
    <3>2. i = pseq[p] /\ i \in Slots
      <4>1. pseq[p] \in 1..(tail - 1) /\ tail \in 1..(FifoSize - 1) /\ FifoSize \in Nat
        BY <3>1, FreshSlots, FifoAssumption DEF Sound, ListPart, PinsLinked, Active
      <4>2. pseq[p] \in 0..(FifoSize - 1) /\ pseq[p] < tail
        BY <4>1
      <4>3. SlotOf(pseq[p]) = pseq[p]
        BY <4>2, FreshSlots DEF Sound, ListPart
      <4> QED
        BY <3>1, <4>2, <4>3 DEF Slots
    <3> DEFINE u == Unlink(p).u
               g == Unlink(p).f
    <3>3. unflushed' = u /\ flushed' = [g EXCEPT ![i] = Append(@, p)]
      BY <1>1, <1>4, <2>2
    <3>4. u \in ListsU /\ g \in ListsF
      BY UnlinkType DEF Typed, ListsU, ListsF
    <3>5. \A x \in Pins : Lists(u, g, x) = IF x = p THEN {} ELSE Lists(unflushed, flushed, x)
      BY UnlinkLists DEF Typed
    <3> HIDE DEF u, g, i
    <3>6. \A x \in Pins : Lists(u, flushed', x) = IF x = p THEN Lists(u, g, x) \cup {<<i, 0>>}
          ELSE Lists(u, g, x)
      <4> SUFFICES ASSUME NEW x \in Pins
                   PROVE  Lists(u, flushed', x) = IF x = p THEN Lists(u, g, x) \cup {<<i, 0>>}
                          ELSE Lists(u, g, x)
        OBVIOUS
      <4>1. flushed' = LinkingF(g, i, p)
        BY <3>3 DEF LinkingF
      <4>2. i \in Slots
        BY <3>2
      <4>3. Lists(u, LinkingF(g, i, p), x) = IF x = p THEN Lists(u, g, x) \cup {<<i, 0>>}
            ELSE Lists(u, g, x)
        BY ONLY <3>4, <4>2, p \in Pins, x \in Pins, FlushedLists
      <4> QED
        BY <4>1, <4>3
    <3>7. Lists(unflushed', flushed', q) = IF q = p THEN {<<i, 0>>} ELSE Lists(unflushed, flushed,
          q)
      BY <3>3, <3>5, <3>6
    <3>8. CASE q = p
      <4>1. Active(q)' /\ ~Moving(q)' /\ Lists(unflushed', flushed', q) = {<<pseq'[q], 0>>}
        BY <1>5, <1>6, <3>1, <3>2, <3>7, <3>8 DEF Active
      <4> QED
        BY <4>1 DEF Linked
    <3>9. CASE q # p
      BY <1>5, <1>6, <2>0, <3>7, <3>9 DEF Linked, Active
    <3> QED
      BY <3>8, <3>9
  <2> QED
    BY <2>1, <2>2
<1>8. ListPart'
  <2>1. PinsLinked'
    BY <1>6, <1>7 DEF Sound, ListPart, PinsLinked
  <2>2. FrontStays' /\ EntriesInOrder' /\ Counts'
    BY <1>1, <1>6 DEF Sound, ListPart, FrontStays, EntriesInOrder, Counts, At, Active, seqVars
  <2> QED
    BY <2>1, <2>2 DEF ListPart
<1>9. \A u \in Tasks : TaskSound(u)'
  <2>1. tail <= tail' /\ seq <= seq'
    <3>1. tail \in Int /\ seq \in Int
      BY FlusherIs DEF Sound, ListPart, FrontStays
    <3> QED
      BY <1>6, <3>1
  <2>2. \A u \in Tasks : pc[u] = "blocked" => lock'[op[u].new] = u /\ pseq'[op[u].pin] = op[u].seq
    BY <1>1, <1>6 DEF Sound, TaskSound
  <2> QED
    BY <1>3, <2>1, <2>2, FlusherIs, TasksSound
<1>10. FlushSound(f)'
  BY <1>3, <1>6, FlusherIs DEF FlushSound
<1> QED
  BY <1>8, <1>9, <1>10, TheFlusher DEF Sound

\* The self pins that a flush puts are not that of the front.
LEMMA PutSelfPinsSound ==
  ASSUME OneFlusher, Typed, Typed', Sound, IsNew, NEW f \in use.flushers, Alone(f), PutSelfPins(f)
  PROVE  Sound'
<1>1. /\ pc[f] = "idle"
      /\ cnt' = [i \in Slots |-> cnt[i] - Hits(i)]
      /\ puts' = [i \in Slots |-> puts[i] + Hits(i)]
      /\ written' = seq - 1
      /\ fl' = [fl EXCEPT ![f] = [NoFlush EXCEPT !.mode = "write", !.target = seq]]
      /\ Goto(f, "scan")
      /\ UNCHANGED <<head, tail, unflushed, flushed, lock, entry, pinVars, fipVars, seq, disk, op,
         n>>
  BY DEF PutSelfPins
<1>2. pc'[f] = "scan" /\ fl'[f].target = seq /\ op'[f].back # "ran" /\ pseq' = pseq
  BY <1>1, FlusherIs DEF Goto, NoFlush, Callbacks, pinVars
<1>3. ~Flushes(f)' /\ TaskSound(f)'
  BY <1>2 DEF Flushes, TaskSound
<1>4. tail \in 1..(FifoSize - 1) /\ tail = seq - 1 /\ FifoSize \in Nat /\ seq \in Nat
  BY FreshSlots, FifoAssumption, FlusherIs DEF Sound, ListPart, FrontStays
<1>5. \A i \in 0..(tail - 1) : i \in Slots /\ cnt[i] \in Int /\ puts[i] \in Nat /\ Hits(i) \in Nat
  <2>1. \A i \in 0..(tail - 1) : i \in Slots
    BY <1>4 DEF Slots
  <2> QED
    BY <2>1, WriteDoneIs DEF Typed, FifoType
<1>6. Hits(0) = 0
  <2>1. ASSUME NEW s \in WriteDone PROVE SlotOf(s) # 0
    <3>1. s \in 1..tail
      BY <1>4, UseType DEF WriteDone, IsNew, Typed
    <3>2. s \in 0..(FifoSize - 1)
      BY <1>4, <3>1
    <3>3. SlotOf(s) = IF s < tail THEN s ELSE NoSlot
      BY <3>2, FreshSlots DEF Sound, ListPart
    <3> QED
      BY <3>1, <3>3 DEF NoSlot
  <2>2. {s \in WriteDone : SlotOf(s) = 0} = {}
    BY <2>1
  <2> QED
    BY <2>2, FS_EmptySet DEF Hits
<1>7. ListPart'
  <2>1. FrontStays'
    <3>1. puts'[0] = 0
      <4>1. 0 \in 0..(tail - 1)
        BY <1>4
      <4> QED
        BY <1>1, <1>5, <1>6, <4>1 DEF Sound, ListPart, FrontStays
    <3> QED
      BY <1>1, <1>4, <3>1 DEF Sound, ListPart, FrontStays
  <2>2. EntriesInOrder'
    BY <1>1 DEF Sound, ListPart, EntriesInOrder
  <2>3. PinsLinked'
    <3>1. pc[f] # "blocked" /\ pc'[f] # "blocked"
      BY <1>1, <1>2
    <3>2. \A p : Moving(p)' <=> Moving(p)
      BY <3>1, FlusherIs, MovingStays
    <3>3. \A p \in Pins : Linked(p)'
      BY <1>1, <1>2, <3>2 DEF Sound, ListPart, PinsLinked, Linked, Active
    <3> QED
      BY <1>1, <1>2, <3>3 DEF Sound, ListPart, PinsLinked
  <2>4. ASSUME NEW i \in 0..(tail - 1) PROVE cnt'[i] = 1 - puts'[i] + Cardinality(At(i)')
    <3>1. At(i)' = At(i)
      BY <1>2 DEF At, Active
    <3> DEFINE c == Cardinality(At(i))
    <3>2. cnt[i] = 1 - puts[i] + c /\ c \in Int
      <4>1. IsFiniteSet(At(i))
        BY PinAssumption, FS_Subset DEF At
      <4> QED
        BY <4>1, FS_CardinalityType DEF Sound, ListPart, Counts
    <3>3. cnt'[i] = cnt[i] - Hits(i) /\ puts'[i] = puts[i] + Hits(i)
      BY <1>1, <1>5
    <3> HIDE DEF c
    <3>4. cnt'[i] = 1 - puts'[i] + c
      BY <1>5, <3>2, <3>3
    <3> QED
      BY <3>1, <3>4 DEF c
  <2>5. Counts'
    BY <1>1, <2>4 DEF Counts
  <2> QED
    BY <2>1, <2>2, <2>3, <2>5 DEF ListPart
<1>8. \A u \in Tasks : TaskSound(u)'
  <2>1. tail <= tail' /\ seq <= seq'
    BY <1>1, <1>4
  <2>2. \A u \in Tasks : pc[u] = "blocked" => lock'[op[u].new] = u /\ pseq'[op[u].pin] = op[u].seq
    BY <1>1, <1>2 DEF Sound, TaskSound
  <2> QED
    BY <1>3, <2>1, <2>2, FlusherIs, TasksSound
<1>9. FlushSound(f)'
  BY <1>1, <1>2, <1>3, <1>4 DEF FlushSound
<1> QED
  BY <1>7, <1>8, <1>9, TheFlusher DEF Sound

-----------------------------------------------------------------------------
(* Entries that are opened, until the FIFO is full. *)

LEMMA PoisonStays ==
  ASSUME Typed, NEW t \in Tasks, OpenEntry(t, "idle"), ~Poisoned'
  PROVE  ~IsFull /\ PushList /\ pc'[t] = "idle"
<1>1. pc \in [Tasks -> Where]
  BY DEF Typed, TaskType
<1>2. ~(IsFull \/ Poisoned)
  BY <1>1 DEF OpenEntry, Goto, Poisoned
<1> QED
  BY <1>1, <1>2 DEF OpenEntry, Goto

\* The FIFO that was not full has the next slot.
LEMMA NextSlot ==
  ASSUME Typed, FrontStays, ~IsFull
  PROVE  /\ Next1(tail) = tail + 1 /\ tail + 1 \in 1..(FifoSize - 1)
         /\ tail \in 1..(FifoSize - 1) /\ tail \in Slots /\ seq = tail + 1 /\ seq \in Nat
<1>1. tail \in 1..(FifoSize - 1) /\ FifoSize \in Nat /\ FifoSize >= 2
  BY FreshSlots, FifoAssumption
<1>2. tail + 1 # FifoSize
  <2>1. SUFFICES ASSUME tail + 1 = FifoSize PROVE FALSE
    OBVIOUS
  <2>2. FifoSize * 1 + 0 = FifoSize /\ 0 \in 0..(FifoSize - 1)
    BY <1>1
  <2>3. FifoSize % FifoSize = 0
    BY <2>2, RemainderIs
  <2> QED
    BY <2>1, <2>3 DEF IsFull, Next1, FrontStays
<1>3. tail + 1 \in 1..(FifoSize - 1) /\ tail + 1 \in 0..(FifoSize - 1)
  BY <1>1, <1>2
<1>4. Next1(tail) = tail + 1
  BY <1>3, SmallRemainder DEF Next1
<1>5. tail \in Slots
  BY <1>1 DEF Slots
<1>6. seq = tail + 1 /\ seq \in Nat
  BY <1>1 DEF FrontStays, Typed, SeqType
<1> QED
  BY <1>1, <1>3, <1>4, <1>5, <1>6

\* A list that nobody is linked into can be emptied.
Emptying(u, i)  == [u EXCEPT ![i] = [ty \in Types |-> <<>>]]
EmptyingF(g, i) == [g EXCEPT ![i] = <<>>]

LEMMA EmptyList ==
  ASSUME NEW u \in ListsU, NEW g \in ListsF, NEW i \in Slots, NEW p \in Pins,
         \A l \in Lists(u, g, p) : l[1] # i
  PROVE  Lists(Emptying(u, i), EmptyingF(g, i), p) = Lists(u, g, p)
<1> DEFINE v == Emptying(u, i)
           h == EmptyingF(g, i)
<1>1. Members(<<>>) = {}
  BY DEF Members
<1>2. \A j \in Slots : /\ h[j] = IF j = i THEN <<>> ELSE g[j]
                       /\ \A k \in Types : v[j][k] = IF j = i THEN <<>> ELSE u[j][k]
  BY DEF ListsU, ListsF, Emptying, EmptyingF
<1> HIDE DEF v, h
<1>3. \A l \in Slots \X (Types \cup {0}) :
        l[1] = i => ~(p \in Members(IF l[2] = 0 THEN g[l[1]] ELSE u[l[1]][l[2]]))
  BY DEF Lists
<1>4. \A l \in Slots \X (Types \cup {0}) :
        p \in Members(IF l[2] = 0 THEN h[l[1]] ELSE v[l[1]][l[2]]) <=>
          p \in Members(IF l[2] = 0 THEN g[l[1]] ELSE u[l[1]][l[2]])
  <2> SUFFICES ASSUME NEW j \in Slots, NEW k \in Types \cup {0}
               PROVE  p \in Members(IF k = 0 THEN h[j] ELSE v[j][k]) <=>
                        p \in Members(IF k = 0 THEN g[j] ELSE u[j][k])
    OBVIOUS
  <2>1. CASE j = i
    <3>1. p \notin Members(IF k = 0 THEN g[j] ELSE u[j][k])
      <4> DEFINE l == <<j, k>>
      <4>1. l \in Slots \X (Types \cup {0}) /\ l[1] = j /\ l[2] = k
        OBVIOUS
      <4> HIDE DEF l
      <4> QED
        BY <1>3, <2>1, <4>1
    <3>2. (IF k = 0 THEN h[j] ELSE v[j][k]) = <<>>
      BY <1>2, <2>1
    <3> QED
      BY <1>1, <3>1, <3>2
  <2>2. CASE j # i
    <3>1. (IF k = 0 THEN h[j] ELSE v[j][k]) = (IF k = 0 THEN g[j] ELSE u[j][k])
      BY <1>2, <2>2
    <3> QED
      BY <3>1
  <2> QED
    BY <2>1, <2>2
<1>5. Lists(v, h, p) = Lists(u, g, p)
  BY <1>4 DEF Lists
<1> QED
  BY <1>5 DEF v, h

LEMMA PushSound ==
  ASSUME Typed, Typed', Sound, NEW t \in Tasks, Alone(t), PushList, ~IsFull,
         pc[t] # "blocked", pc'[t] = "idle",
         UNCHANGED <<pinVars, disk, written, op>>
  PROVE  ListPart' /\ (\A u \in Tasks : TaskSound(u)') /\ (\A p : Moving(p)' <=> Moving(p))
<1>1. /\ tail' = Next1(tail)
      /\ cnt' = [cnt EXCEPT ![tail] = 1]
      /\ unflushed' = [unflushed EXCEPT ![tail] = [ty \in Types |-> <<>>]]
      /\ flushed' = [flushed EXCEPT ![tail] = <<>>]
      /\ lock' = [lock EXCEPT ![tail] = NoTask]
      /\ entry' = [entry EXCEPT ![tail] = seq]
      /\ puts' = [puts EXCEPT ![tail] = 0]
      /\ seq' = seq + 1
      /\ head' = head
  BY DEF PushList
<1>2. /\ tail' = tail + 1 /\ tail + 1 \in 1..(FifoSize - 1)
      /\ tail \in 1..(FifoSize - 1) /\ tail \in Slots /\ seq = tail + 1 /\ seq \in Nat
  BY <1>1, NextSlot DEF Sound, ListPart
<1>3. pseq' = pseq
  BY DEF pinVars
<1>4. \A p : Moving(p)' <=> Moving(p)
  BY MovingStays
<1>5. \A i \in 0..(tail' - 1) : i \in Slots /\ (i = tail \/ i \in 0..(tail - 1))
  BY <1>2, FifoAssumption DEF Slots
<1>6. FrontStays'
  <2>1. written' = written /\ written <= seq - 1 /\ written \in Nat /\ disk' = disk
    BY DEF Sound, ListPart, FrontStays, Typed, SeqType
  <2>2. puts'[0] = 0
    <3>1. 0 \in Slots /\ 0 # tail
      BY <1>2, FifoAssumption DEF Slots
    <3> QED
      BY <1>1, <3>1 DEF Typed, FifoType, Sound, ListPart, FrontStays
  <2> QED
    BY <1>1, <1>2, <2>1, <2>2 DEF Sound, ListPart, FrontStays
<1>7. EntriesInOrder'
  <2>1. ASSUME NEW i \in 0..(tail' - 1) PROVE entry'[i] = i + 1
    BY <1>1, <1>2, <1>5 DEF Typed, FifoType, Sound, ListPart, EntriesInOrder
  <2> QED
    BY <2>1 DEF EntriesInOrder
<1>8. ASSUME NEW p \in Pins PROVE pseq'[p] \in 0..(tail' - 1) /\ Linked(p)'
  <2>1. pseq[p] \in 0..(tail - 1) /\ Linked(p)
    BY DEF Sound, ListPart, PinsLinked
  <2>2. \A l \in Lists(unflushed, flushed, p) : l[1] # tail
    <3>1. \A l \in Lists(unflushed, flushed, p) : l[1] = pseq[p]
      BY <2>1 DEF Linked
    <3> QED
      BY <1>2, <2>1, <3>1
  <2>3. Lists(unflushed', flushed', p) = Lists(unflushed, flushed, p)
    <3> DEFINE u == unflushed
               g == flushed
               v == unflushed'
               h == flushed'
    <3>1. u \in ListsU /\ g \in ListsF
      BY DEF Typed, FifoType, ListsU, ListsF
    <3>2. v = Emptying(u, tail) /\ h = EmptyingF(g, tail)
      BY <1>1 DEF Emptying, EmptyingF
    <3>3. \A l \in Lists(u, g, p) : l[1] # tail
      BY <2>2
    <3>4. tail \in Slots
      BY <1>2
    <3> HIDE DEF u, g, v, h
    <3>5. Lists(Emptying(u, tail), EmptyingF(g, tail), p) = Lists(u, g, p)
      BY ONLY <3>1, <3>3, <3>4, p \in Pins, EmptyList
    <3> QED
      BY <3>2, <3>5 DEF u, g, v, h
  <2>4. pseq'[p] \in 0..(tail' - 1)
    BY <1>2, <1>3, <2>1
  <2>5. Active(p)' <=> Active(p)
    BY <1>3 DEF Active
  <2>6. Linked(p)'
    BY <1>3, <1>4, <2>1, <2>3, <2>5 DEF Linked
  <2> QED
    BY <2>4, <2>6
<1>9. Counts'
  <2>1. \A i : At(i)' = At(i)
    BY <1>3 DEF At, Active
  <2>2. At(tail) = {}
    <3>1. \A p \in Pins : pseq[p] # tail
      BY <1>2 DEF Sound, ListPart, PinsLinked
    <3> QED
      BY <3>1 DEF At
  <2>3. Cardinality(At(tail)) = 0
    BY <2>2, FS_EmptySet
  <2>4. ASSUME NEW i \in 0..(tail' - 1) PROVE cnt'[i] = 1 - puts'[i] + Cardinality(At(i)')
    <3>1. CASE i = tail
      BY <1>1, <1>2, <2>1, <2>3, <3>1 DEF Typed, FifoType
    <3>2. CASE i \in 0..(tail - 1)
      <4>1. i # tail /\ i \in Slots
        BY <1>2, <1>5, <3>2
      <4>2. cnt'[i] = cnt[i] /\ puts'[i] = puts[i]
        BY <1>1, <4>1 DEF Typed, FifoType
      <4> QED
        BY <2>1, <3>2, <4>2 DEF Sound, ListPart, Counts
    <3> QED
      BY <1>5, <3>1, <3>2
  <2> QED
    BY <2>4 DEF Counts
<1>10. \A u \in Tasks : TaskSound(u)'
  <2>1. tail <= tail' /\ seq <= seq'
    BY <1>1, <1>2
  <2>2. TaskSound(t)'
    BY DEF TaskSound
  <2>3. ASSUME NEW u \in Tasks, pc[u] = "blocked"
        PROVE  lock'[op[u].new] = u /\ pseq'[op[u].pin] = op[u].seq
    <3>1. lock[op[u].new] = u /\ pseq[op[u].pin] = op[u].seq /\ TaskSound(u)
      BY <2>3 DEF Sound, TaskSound
    <3>2. op[u].kind # "drop" /\ op[u].new \in Slots
      BY <2>3 DEF Typed, Places, PinCalls
    <3>3. op[u].new # tail
      BY <1>2, <2>3, <3>1, <3>2 DEF TaskSound
    <3>4. lock'[op[u].new] = lock[op[u].new]
      BY <1>1, <3>2, <3>3 DEF Typed, FifoType
    <3> QED
      BY <1>3, <3>1, <3>4
  <2> QED
    BY <2>1, <2>2, <2>3, TasksSound
<1> QED
  BY <1>4, <1>6, <1>7, <1>8, <1>9, <1>10 DEF ListPart, PinsLinked

LEMMA CycleSound ==
  ASSUME Typed, Typed', Sound, NEW t \in Tasks, Alone(t), Cycle(t), ~Poisoned' PROVE Sound'
<1>1. pc[t] = "idle" /\ OpenEntry(t, "idle") /\ UNCHANGED <<pinVars, fipVars, disk, written, op,
      n, fl>>
  BY DEF Cycle
<1>2. ~IsFull /\ PushList /\ pc'[t] = "idle"
  BY <1>1, PoisonStays
<1>3. ListPart' /\ (\A u \in Tasks : TaskSound(u)') /\ (\A p : Moving(p)' <=> Moving(p))
  BY <1>1, <1>2, PushSound
<1>4. \A f \in use'.flushers : FlushSound(f)'
  <2>1. seq <= seq' /\ fl' = fl /\ pseq' = pseq /\ fipDropped' = fipDropped
    BY <1>1, <1>2 DEF PushList, pinVars, fipVars, Typed, SeqType
  <2>2. ~Flushes(t)'
    BY <1>2 DEF Flushes, Typed, Places, Callbacks
  <2>3. ASSUME NEW f \in use.flushers, NEW p \in Pins, fl[f].pin = p, Flushes(f), ~fipDropped'
        PROVE  ~fipDropped /\ pseq'[p] = pseq[p] /\ ~Moving(p)'
    BY <1>3, <2>1, <2>3 DEF Sound, FlushSound
  <2> QED
    BY <2>1, <2>2, <2>3, FlushesSound
<1> QED
  BY <1>3, <1>4 DEF Sound

LEMMA OpenNextSound ==
  ASSUME OneFlusher, Typed, Typed', Sound, NEW f \in use.flushers, Alone(f), OpenNext(f), ~Poisoned'
  PROVE  Sound'
<1>1. pc[f] = "open" /\ OpenEntry(f, "idle") /\ fl' = [fl EXCEPT ![f] = NoFlush]
      /\ UNCHANGED <<pinVars, fipVars, disk, written, op, n>>
  BY DEF OpenNext
<1>2. ~IsFull /\ PushList /\ pc'[f] = "idle" /\ f \in Tasks
  BY <1>1, FlusherIs, PoisonStays
<1>3. ListPart' /\ (\A u \in Tasks : TaskSound(u)')
  BY <1>1, <1>2, PushSound
<1>4. FlushSound(f)'
  <2>1. fl'[f].target = 0 /\ 0 <= seq'
    BY <1>1, FlusherIs DEF NoFlush, Typed, SeqType
  <2>2. ~Flushes(f)'
    BY <1>2 DEF Flushes, Typed, Places, Callbacks
  <2> QED
    BY <2>1, <2>2 DEF FlushSound
<1> QED
  BY <1>3, <1>4, TheFlusher DEF Sound

-----------------------------------------------------------------------------
(* Sound holds until the FIFO of the journal is full.                      *)

LEMMA SoundInit == IsNew /\ Init => Sound
<1> SUFFICES ASSUME IsNew, Init PROVE Sound
  OBVIOUS
<1>1. use \in Uses /\ use.first = 1 /\ use.disk = 0
  BY DEF Init, IsNew
<1>2. head = 0 /\ tail = 1 /\ seq = 2 /\ disk = 0 /\ written = 0
  BY <1>1 DEF Init
<1>3. 0 \in Slots /\ tail - 1 = 0 /\ 0..(tail - 1) = {0}
  BY <1>2, FifoAssumption DEF Slots
<1>4. cnt[0] = 1 /\ entry[0] = 1 /\ puts[0] = 0
  BY <1>1, <1>3 DEF Init
<1>5. \A t \in Tasks : pc[t] = "idle" /\ op[t].back = "idle"
  BY DEF Init, NoOp
<1>6. ASSUME NEW p \in Pins PROVE pseq[p] = 0 /\ Linked(p)
  <2>1. pseq[p] = 0
    BY DEF Init
  <2>2. Members(<<>>) = {}
    BY DEF Members
  <2>3. \A i \in Slots : flushed[i] = <<>> /\ \A ty \in Types : unflushed[i][ty] = <<>>
    BY DEF Init
  <2>4. \A i \in Slots, k \in Types \cup {0} :
          p \notin Members(IF k = 0 THEN flushed[i] ELSE unflushed[i][k])
    BY <2>2, <2>3
  <2>5. Lists(unflushed, flushed, p) = {}
    BY <2>4 DEF Lists
  <2> QED
    BY <2>1, <2>5 DEF Linked, Active
<1>7. Counts
  <2>1. At(0) = {}
    BY DEF At, Active
  <2>2. Cardinality(At(0)) = 0
    BY <2>1, FS_EmptySet
  <2> QED
    BY <1>3, <1>4, <2>2 DEF Counts
<1>8. ListPart
  BY <1>2, <1>3, <1>4, <1>6, <1>7 DEF ListPart, FrontStays, EntriesInOrder, PinsLinked
<1>9. \A t \in Tasks : TaskSound(t)
  BY <1>5 DEF TaskSound
<1>10. \A f \in use.flushers : FlushSound(f)
  <2>1. ASSUME NEW f \in use.flushers PROVE FlushSound(f)
    <3>1. f \in Flushers /\ f \in Tasks
      BY <1>1, UseType DEF Tasks
    <3>2. fl[f].target = 0 /\ ~Flushes(f)
      BY <1>5, <3>1 DEF Init, NoFlush, Flushes
    <3> QED
      BY <1>2, <3>2 DEF FlushSound
  <2> QED
    BY <2>1
<1> QED
  BY <1>8, <1>9, <1>10 DEF Sound

\* A panic is for good.
LEMMA PoisonLasts == ASSUME Typed, Next, Poisoned PROVE Poisoned'
<1>1. PICK t \in Tasks : pc[t] = "poisoned"
  BY DEF Poisoned
<1>2. PICK u \in Tasks : /\ Alone(u)
                         /\ \/ CallStep(u) \/ CallAction(u) \/ Cycle(u)
                            \/ u \in use.flushers /\ FlusherStep(u)
  <2>1. \A f \in use.flushers : f \in Tasks
    BY UseType DEF Typed, Tasks
  <2> QED
    BY <2>1, StepsOf
<1>3. pc[u] # "poisoned"
  <2>1. CASE CallStep(u) \/ CallAction(u) \/ Cycle(u)
    BY <2>1 DEF CallStep, CallAction, PinSet, PinAdd, PinUpdate, PinCopy, PinDrop, PinFlush, Call,
       Cycle,
       WaitOver, ReadSeqs, Retry, Section, SectionBlocks, SectionResumes, Compute, Drain, Advance
  <2>2. CASE FlusherStep(u)
    BY <2>2 DEF FlusherStep, FlushStep, PutSelfPins, StartReclaim, ScanEnds, ScanFinds, ScanResumes,
       CallbackStarts, CallbackDrops, CallbackLeaves, CallbackEnds, MoveToFlushed, ListIsGone,
          OpenNext
  <2> QED
    BY <1>2, <2>1, <2>2
<1>4. pc'[t] = "poisoned"
  BY <1>1, <1>2, <1>3 DEF Alone
<1> QED
  BY <1>1, <1>4 DEF Poisoned

LEMMA SoundNext ==
  ASSUME OneFlusher, IsNew, Typed, CallbackIsKnown, Sound, Next, ~Poisoned' PROVE Sound'
<1>1. Typed'
  BY TypedNext
<1>2. ASSUME NEW t \in Tasks, Alone(t), CallStep(t) PROVE Sound'
  <2>1. ~Drain(t) /\ ~Advance(t)
    BY DEF Sound, TaskSound, Drain, Advance
  <2> QED
    BY <1>1, <1>2, <2>1, WaitOverSound, ReadSeqsSound, RetrySound, SectionSound, SectionBlocksSound,
       SectionResumesSound, ComputeSound DEF CallStep
<1>3. ASSUME NEW t \in Tasks, Alone(t), CallAction(t) \/ Cycle(t) PROVE Sound'
  BY <1>1, <1>3, CallSound, CycleSound
<1>4. ASSUME NEW f \in use.flushers, Alone(f), FlusherStep(f) PROVE Sound'
  <2>1. ~ScanResumes(f)
    BY FlusherIs DEF TaskSound, ScanResumes
  <2> QED
    BY <1>1, <1>4, <2>1, PutSelfPinsSound, StartReclaimSound, OpenNextSound, ScanEndsSound,
       ScanFindsSound, CallbackSound, MoveToFlushedSound, ListIsGoneSound DEF FlusherStep, FlushStep
<1> QED
  BY <1>2, <1>3, <1>4, StepsOf

LEMMA SoundStutters == Sound /\ UNCHANGED vars => Sound'
<1> SUFFICES ASSUME Sound, UNCHANGED vars PROVE Sound'
  OBVIOUS
<1>1. UNCHANGED <<use, head, tail, cnt, unflushed, flushed, lock, entry, puts, pseq, fip,
      fipDropped,
                  seq, disk, written, pc, op, fl>>
  BY DEF vars, fifoVars, pinVars, fipVars, seqVars, taskVars
<1>2. \A p : Moving(p)' <=> Moving(p)
  BY <1>1 DEF Moving
<1>3. \A p : Linked(p)' <=> Linked(p)
  BY <1>1, <1>2 DEF Linked, Active
<1>4. ListPart'
  BY <1>1, <1>3 DEF Sound, ListPart, FrontStays, EntriesInOrder, PinsLinked, Counts, At, Active
<1>5. \A t \in Tasks : TaskSound(t)'
  BY <1>1 DEF Sound, TaskSound
<1>6. \A f \in use'.flushers : FlushSound(f)'
  BY <1>1, <1>2 DEF Sound, FlushSound, Flushes, Active
<1> QED
  BY <1>4, <1>5, <1>6 DEF Sound

-----------------------------------------------------------------------------
(* What it says of the lists, the counts and last_seq_ondisk.              *)

LEMMA LinksAre == ASSUME Typed, Sound, NEW p \in Pins PROVE Links(p) = Lists(unflushed, flushed, p)
<1>1. Live = 0..(tail - 1) /\ Live \subseteq Slots
  BY FreshSlots, FifoTypes DEF Sound, ListPart, Typed, FifoType
<1>2. 0 \notin Types
  BY DEF Types
<1>3. \A l \in Lists(unflushed, flushed, p) : l[1] \in Live
  BY <1>1 DEF Sound, ListPart, PinsLinked, Linked
<1>4. Links(p) \subseteq Lists(unflushed, flushed, p)
  BY <1>1, <1>2 DEF Links, Lists
<1>5. ASSUME NEW l \in Lists(unflushed, flushed, p) PROVE l \in Links(p)
  <2>1. /\ l = <<l[1], l[2]>> /\ l[1] \in Live /\ l[2] \in Types \cup {0}
        /\ p \in Members(IF l[2] = 0 THEN flushed[l[1]] ELSE unflushed[l[1]][l[2]])
    BY <1>3 DEF Lists
  <2>2. CASE l[2] = 0
    BY <2>1, <2>2 DEF Links
  <2>3. CASE l[2] \in Types
    BY <1>2, <2>1, <2>3 DEF Links
  <2> QED
    BY <2>1, <2>2, <2>3
<1> QED
  BY <1>4, <1>5

LEMMA MovingIsActive ==
  ASSUME Typed, Sound, NEW p \in Pins, Moving(p) PROVE Active(p)
BY DEF Sound, TaskSound, Moving, Active, Typed, Places, PinCalls

LEMMA SmallSeqs ==
  ASSUME Typed, Sound, NEW p \in Pins
  PROVE  pseq[p] % FifoSize = pseq[p] /\ pseq[p] \in 0..(tail - 1)
<1>1. pseq[p] \in 0..(tail - 1) /\ tail \in 1..(FifoSize - 1) /\ FifoSize \in Nat
  BY FreshSlots, FifoAssumption DEF Sound, ListPart, PinsLinked
<1>2. pseq[p] \in 0..(FifoSize - 1)
  BY <1>1
<1> QED
  BY <1>1, <1>2, SmallRemainder

LEMMA LinkedOnce == ASSUME Typed, Sound PROVE PinIsLinkedOnce
<1> SUFFICES ASSUME NEW p \in Pins
             PROVE  /\ Cardinality(Links(p)) = IF Active(p) /\ ~Moving(p) THEN 1 ELSE 0
                    /\ \A l \in Links(p) : l[1] = pseq[p] % FifoSize
  BY DEF PinIsLinkedOnce
<1>1. Linked(p) /\ Links(p) = Lists(unflushed, flushed, p)
  BY LinksAre DEF Sound, ListPart, PinsLinked
<1>2. CASE Active(p) /\ ~Moving(p)
  <2>1. PICK k \in Types \cup {0} : Links(p) = {<<pseq[p], k>>}
    BY <1>1, <1>2 DEF Linked
  <2>2. Cardinality(Links(p)) = 1
    BY <2>1, FS_Singleton
  <2>3. \A l \in Links(p) : l[1] = pseq[p]
    BY <2>1
  <2> QED
    BY <1>2, <2>2, <2>3, SmallSeqs
<1>3. CASE ~(Active(p) /\ ~Moving(p))
  <2>1. Links(p) = {}
    BY <1>1, <1>3 DEF Linked
  <2> QED
    BY <1>3, <2>1, FS_EmptySet
<1> QED
  BY <1>2, <1>3

LEMMA CountedOnce == ASSUME Typed, Sound PROVE CountIsLinks
<1>1. TypeOK
  BY DEF TypeOK, Typed, FifoType, PinType, SeqType, FipType, TaskType
<1>2. ASSUME NEW i \in Live
      PROVE  cnt[i] = 1 - puts[i]
               + Cardinality({p \in Pins : \E l \in Links(p) : l[1] = i})
               + Cardinality({p \in Pins : Moving(p) /\ pseq[p] % FifoSize = i})
  <2> DEFINE L == {p \in Pins : \E l \in Links(p) : l[1] = i}
             M == {p \in Pins : Moving(p) /\ pseq[p] % FifoSize = i}
  <2>1. ASSUME NEW p \in Pins
        PROVE  /\ p \in L <=> Active(p) /\ ~Moving(p) /\ pseq[p] = i
               /\ p \in M <=> Active(p) /\ Moving(p) /\ pseq[p] = i
    <3>1. Linked(p) /\ Links(p) = Lists(unflushed, flushed, p)
      BY LinksAre DEF Sound, ListPart, PinsLinked
    <3>2. p \in L <=> Active(p) /\ ~Moving(p) /\ pseq[p] = i
      <4>1. CASE Active(p) /\ ~Moving(p)
        <5>1. PICK k \in Types \cup {0} : Links(p) = {<<pseq[p], k>>}
          BY <3>1, <4>1 DEF Linked
        <5>2. (\E l \in Links(p) : l[1] = i) <=> pseq[p] = i
          BY <5>1
        <5>3. p \in L <=> \E l \in Links(p) : l[1] = i
          OBVIOUS
        <5> QED
          BY <4>1, <5>2, <5>3
      <4>2. CASE ~(Active(p) /\ ~Moving(p))
        <5>1. Links(p) = {}
          BY <3>1, <4>2 DEF Linked
        <5> QED
          BY <4>2, <5>1
      <4> QED
        BY <4>1, <4>2
    <3>3. p \in M <=> Active(p) /\ Moving(p) /\ pseq[p] = i
      BY SmallSeqs, MovingIsActive
    <3> QED
      BY <3>2, <3>3
  <2>2. L \subseteq Pins /\ M \subseteq Pins
    OBVIOUS
  <2>3. At(i) = L \cup M /\ L \cap M = {}
    <3>1. \A p \in Pins : p \in At(i) <=> Active(p) /\ pseq[p] = i
      BY DEF At
    <3>2. At(i) \subseteq Pins
      BY DEF At
    <3> HIDE DEF L, M
    <3> QED
      BY <2>1, <2>2, <3>1, <3>2
  <2> HIDE DEF L, M
  <2>4. IsFiniteSet(L) /\ IsFiniteSet(M)
    BY <2>2, PinAssumption, FS_Subset
  <2>5. Cardinality(L) \in Nat /\ Cardinality(M) \in Nat
    BY <2>4, FS_CardinalityType
  <2>6. Cardinality(At(i)) = Cardinality(L) + Cardinality(M) - Cardinality({})
    BY <2>3, <2>4, FS_Union
  <2>7. cnt[i] = 1 - puts[i] + Cardinality(At(i))
    BY FreshSlots DEF Sound, ListPart, Counts
  <2>8. puts[i] \in Nat
    BY FifoTypes DEF Typed, FifoType
  <2>9. cnt[i] = 1 - puts[i] + Cardinality(L) + Cardinality(M)
    BY <2>5, <2>6, <2>7, <2>8, FS_EmptySet
  <2> QED
    BY <2>9 DEF L, M
<1> QED
  BY <1>1, <1>2 DEF CountIsLinks

LEMMA FrontIsKnown == ASSUME Typed, Sound PROVE LastSeqIsFront
<1>1. 0 \in 0..(FifoSize - 1)
  BY FifoAssumption
<1>2. 0 % FifoSize = 0
  BY <1>1, SmallRemainder
<1> QED
  BY <1>2 DEF LastSeqIsFront, Sound, ListPart, FrontStays

LEMMA UnwrittenInSlots == ASSUME Typed, Sound PROVE UnwrittenIsKept
<1> SUFFICES ASSUME NEW s \in (written + 1)..(seq - 1) PROVE \E i \in Live : entry[i] = s
  BY DEF UnwrittenIsKept
<1>1. written \in Nat /\ seq = tail + 1 /\ tail \in Nat /\ Live = 0..(tail - 1)
  <2>1. tail \in 1..(FifoSize - 1) /\ FifoSize \in Nat
    BY FreshSlots, FifoAssumption DEF Sound, ListPart
  <2>2. tail \in Nat /\ tail = seq - 1 /\ written \in Nat /\ seq \in Nat
    BY <2>1 DEF Sound, ListPart, FrontStays, Typed, SeqType
  <2> QED
    BY <2>2, FreshSlots DEF Sound, ListPart
<1>2. s - 1 \in 0..(tail - 1) /\ (s - 1) + 1 = s
  BY <1>1
<1>3. entry[s - 1] = s
  BY <1>2 DEF Sound, ListPart, EntriesInOrder
<1> QED
  BY <1>1, <1>2, <1>3

\* Until the FIFO is full, and a fresh journal never drains it, the lists, their
\* counts and the seqs of the pins agree, however the calls on pins and the flusher
\* with its callbacks race, every entry that is not written has its list, and the test of
\* journal_pin_drop_locked for the front is right.
THEOREM NewListsSound ==
  OneFlusher => (Spec => [](IsNew /\ ~Poisoned => ListsSound /\ LastSeqIsFront /\ UnwrittenIsKept))
<1> SUFFICES ASSUME OneFlusher
             PROVE  Spec => [](IsNew /\ ~Poisoned => ListsSound /\ LastSeqIsFront /\ UnwrittenIsKept)
  OBVIOUS
<1> DEFINE Inv == Typed /\ CallbackIsKnown /\ (IsNew /\ ~Poisoned => Sound)
<1>1. Init => Inv
  BY TypedInit, CallbackIsKnownInit, SoundInit
<1>2. Inv /\ [Next]_vars => Inv'
  <2>1. ASSUME Inv, Next PROVE Inv'
    <3>1. IsNew' <=> IsNew
      BY <2>1 DEF Next, IsNew
    <3> QED
      BY <2>1, <3>1, TypedNext, CallbackIsKnownNext, PoisonLasts, SoundNext
  <2>2. ASSUME Inv, UNCHANGED vars PROVE Inv'
    <3>1. (Poisoned' <=> Poisoned) /\ (IsNew' <=> IsNew)
      BY <2>2 DEF Poisoned, IsNew, vars, taskVars
    <3> QED
      BY <2>2, <3>1, TypedStutters, CallbackIsKnownStutters, SoundStutters
  <2> QED
    BY <2>1, <2>2
<1>3. Inv => (IsNew /\ ~Poisoned => ListsSound /\ LastSeqIsFront /\ UnwrittenIsKept)
  BY LinkedOnce, CountedOnce, FrontIsKnown, UnwrittenInSlots DEF ListsSound
<1> QED
  BY <1>1, <1>2, <1>3, PTL DEF Spec

\* Every variable has its type, in every use of a journal.
THEOREM TypesKept == Spec => []TypeOK
<1>1. Typed => TypeOK
  BY DEF TypeOK, Typed, FifoType, PinType, SeqType, FipType, TaskType
<1>2. Typed /\ [Next]_vars => Typed'
  BY TypedNext, TypedStutters
<1> QED
  BY <1>1, <1>2, TypedInit, PTL DEF Spec

-----------------------------------------------------------------------------
(* Calls made one at a time, as under the daemon's lock.                   *)

Busy(t) == pc[t] \notin {"idle", "panicked", "poisoned"}
OneCall == \A t, u \in Tasks : Busy(t) /\ Busy(u) => t = u

Step(t) ==
  \/ CallStep(t) \/ CallAction(t) \/ Cycle(t)
  \/ t \in use.flushers /\ FlusherStep(t)

LEMMA StepOf == ASSUME Typed, Next PROVE use' = use /\ \E t \in Tasks : Alone(t) /\ Step(t)
<1>1. \A f \in use.flushers : f \in Tasks
  BY UseType DEF Typed, Tasks
<1> QED
  BY <1>1, StepsOf DEF Step

LEMMA OthersRest ==
  ASSUME use.serial, OneCall, NEW t \in Tasks, Step(t)
  PROVE  \A u \in Tasks \ {t} : ~Busy(u)
<1>1. CASE CallAction(t) \/ Cycle(t) \/ PutSelfPins(t) \/ StartReclaim(t)
  <2>1. MayStart(t)
    BY <1>1 DEF CallAction, PinSet, PinAdd, PinUpdate, PinCopy, PinDrop, PinFlush, Call, Cycle,
       PutSelfPins, StartReclaim
  <2> QED
    BY <2>1 DEF MayStart, Busy
<1>2. CASE CallStep(t) \/ FlushStep(t)
  <2>1. Busy(t)
    BY <1>2 DEF CallStep, WaitOver, ReadSeqs, Retry, Section, SectionBlocks, SectionResumes,
       Compute,
       Drain, Advance, FlushStep, ScanEnds, ScanFinds, ScanResumes, CallbackStarts, CallbackDrops,
       CallbackLeaves, CallbackEnds, MoveToFlushed, ListIsGone, OpenNext, Busy
  <2> QED
    BY <2>1 DEF OneCall
<1> QED
  BY <1>1, <1>2 DEF Step, FlusherStep

LEMMA OneCallStays ==
  ASSUME use.serial, OneCall, NEW t \in Tasks, Step(t), Alone(t)
  PROVE  OneCall' /\ \A u \in Tasks \ {t} : ~Busy(u) /\ ~Busy(u)' /\ pc'[u] = pc[u]
<1>1. \A u \in Tasks \ {t} : ~Busy(u)
  BY OthersRest
<1>2. \A u \in Tasks \ {t} : ~Busy(u)' /\ pc'[u] = pc[u]
  BY <1>1 DEF Alone, Busy
<1> QED
  BY <1>1, <1>2 DEF OneCall

\* Between the drain of a task and its update of last_seq_ondisk the front is that
\* many entries ahead.
InStep ==
  \A t \in Tasks :
    /\ pc[t] = "drain" => n[t] <= Length
    /\ pc[t] = "advance" => head = (disk + n[t]) % FifoSize

\* Only the drain moves the front, and only the update moves last_seq_ondisk.
LEMMA FrontRests ==
  ASSUME Typed, NEW t \in Tasks, Step(t), ~Drain(t), ~Advance(t)
  PROVE  head' = head /\ disk' = disk
<1>1. CASE Cycle(t)
  BY <1>1 DEF Cycle, OpenEntry, PushList, fifoVars
<1>2. CASE OpenNext(t)
  BY <1>2 DEF OpenNext, OpenEntry, PushList, fifoVars
<1>3. CASE CallAction(t)
  BY <1>3 DEF CallAction, PinSet, PinAdd, PinUpdate, PinCopy, PinDrop, PinFlush, Call, fifoVars,
     seqVars
<1>4. CASE CallStep(t)
  BY <1>4 DEF CallStep, WaitOver, ReadSeqs, Retry, Section, SectionBlocks, SectionResumes, Compute,
     fifoVars, seqVars
<1>5. CASE FlusherStep(t) /\ ~OpenNext(t)
  BY <1>5 DEF FlusherStep, FlushStep, PutSelfPins, StartReclaim, ScanEnds, ScanFinds, ScanResumes,
     CallbackStarts, CallbackDrops, CallbackLeaves, CallbackEnds, MoveToFlushed, ListIsGone,
     fifoVars, seqVars
<1> QED
  BY <1>1, <1>2, <1>3, <1>4, <1>5 DEF Step

\* Where a task goes that neither computes nor drains.
LEMMA NoNewDrain ==
  ASSUME Typed, NEW t \in Tasks, Step(t), ~Compute(t), ~Drain(t)
  PROVE  pc'[t] \notin {"drain", "advance"}
<1>1. pc \in [Tasks -> Where] /\ op[t].back \in {"idle", "open", "ran"}
  BY DEF Typed, TaskType, Operation
<1>2. CASE Cycle(t) \/ OpenNext(t)
  <2>1. \E v \in {"idle", "poisoned"} : Goto(t, v)
    BY <1>2, OpenEntryTyped DEF Cycle, OpenNext
  <2> QED
    BY <1>1, <2>1 DEF Goto
<1>3. CASE CallAction(t)
  <2>1. \E w \in {"read", "wait"} : Goto(t, w)
    BY <1>3, CallIs DEF Call
  <2> QED
    BY <1>1, <2>1 DEF Goto
<1>4. CASE WaitOver(t) \/ ReadSeqs(t) \/ Retry(t) \/ Section(t) \/ SectionBlocks(t)
           \/ SectionResumes(t) \/ Advance(t)
  BY <1>1, <1>4 DEF WaitOver, ReadSeqs, Retry, Section, SectionBlocks, SectionResumes, Advance,
     EndSection, Finish, Goto
<1>5. CASE FlusherStep(t) /\ ~OpenNext(t)
  BY <1>1, <1>5 DEF FlusherStep, FlushStep, PutSelfPins, StartReclaim, ScanEnds, ScanFinds,
     ScanResumes, CallbackStarts, CallbackDrops, CallbackLeaves, CallbackEnds, MoveToFlushed,
     ListIsGone, AfterPin, Choose, Goto
<1> QED
  BY <1>2, <1>3, <1>4, <1>5 DEF Step, CallStep

LEMMA InStepNext ==
  ASSUME Typed, Typed', use.serial, OneCall, InStep, LastSeqIsFront, NEW t \in Tasks, Step(t),
         Alone(t)
  PROVE  InStep' /\ LastSeqIsFront'
<1>1. \A u \in Tasks \ {t} : ~Busy(u) /\ ~Busy(u)' /\ pc'[u] = pc[u]
  BY OneCallStays
<1>2. \A u \in Tasks \ {t} : pc[u] \notin {"drain", "advance"} /\ pc'[u] \notin {"drain", "advance"}
  BY <1>1 DEF Busy
<1>3. head \in Slots /\ tail \in Slots /\ disk \in Nat /\ n[t] \in Nat /\ Length \in Nat
  BY FifoTypes DEF Typed, FifoType, SeqType, TaskType
<1>4. CASE Drain(t)
  <2>1. pc[t] = "drain" /\ n[t] <= Length
    BY <1>4 DEF Drain, InStep
  <2>2. head' = (head + n[t]) % FifoSize /\ pc'[t] = "advance" /\ n' = n /\ disk' = disk
    BY <1>4, <2>1 DEF Drain, Goto, seqVars, Typed, TaskType
  <2>3. disk % FifoSize = head
    BY <1>2, <2>1 DEF LastSeqIsFront
  <2>4. head' = (disk + n[t]) % FifoSize
    BY <1>3, <2>2, <2>3, RemainderPlus
  <2> QED
    BY <1>2, <2>2, <2>4 DEF InStep, LastSeqIsFront
<1>5. CASE Advance(t)
  <2>1. pc[t] = "advance" /\ disk' = disk + n[t] /\ head' = head /\ Finish(t)
    BY <1>5 DEF Advance, fifoVars
  <2>2. pc'[t] \notin {"drain", "advance"}
    <3>1. ~Compute(t) /\ ~Drain(t)
      BY <2>1 DEF Compute, Drain
    <3> QED
      BY <3>1, NoNewDrain
  <2>3. disk' % FifoSize = head'
    BY <2>1 DEF InStep
  <2> QED
    BY <1>2, <2>2, <2>3 DEF InStep, LastSeqIsFront
<1>6. CASE Compute(t)
  <2>1. pc[t] = "compute" /\ n' = [n EXCEPT ![t] = Drainable] /\ UNCHANGED <<head, tail, disk>>
        /\ IF Drainable = 0 THEN Finish(t) ELSE Goto(t, "drain")
    BY <1>6 DEF Compute, fifoVars, seqVars
  <2>2. n'[t] <= Length' /\ pc'[t] # "advance"
    <3>1. Drainable \in 0..Length /\ n'[t] = Drainable /\ Length' = Length
      BY <1>3, <2>1, DrainableIs DEF Typed, TaskType, Length
    <3>2. pc'[t] # "advance"
      BY <2>1 DEF Finish, Goto, Typed, TaskType, Operation
    <3> QED
      BY <1>3, <3>1, <3>2
  <2>3. disk % FifoSize = head
    BY <1>2, <2>1 DEF LastSeqIsFront
  <2> QED
    BY <1>2, <2>1, <2>2, <2>3 DEF InStep, LastSeqIsFront
<1>7. CASE ~Drain(t) /\ ~Advance(t) /\ ~Compute(t)
  <2>1. head' = head /\ disk' = disk
    BY <1>7, FrontRests
  <2>2. pc'[t] \notin {"drain", "advance"}
    BY <1>7, NoNewDrain
  <2>3. disk % FifoSize = head
    <3>1. pc[t] # "advance"
      BY <1>7 DEF Step, CallStep, CallAction, PinSet, PinAdd, PinUpdate, PinCopy, PinDrop,
         PinFlush, Call,
         Cycle, WaitOver, ReadSeqs, Retry, Section, SectionBlocks, SectionResumes, Compute,
            FlusherStep,
         FlushStep, PutSelfPins, StartReclaim, ScanEnds, ScanFinds, ScanResumes, CallbackStarts,
         CallbackDrops, CallbackLeaves, CallbackEnds, MoveToFlushed, ListIsGone, OpenNext
    <3> QED
      BY <1>2, <3>1 DEF LastSeqIsFront
  <2> QED
    BY <1>2, <2>1, <2>2, <2>3 DEF InStep, LastSeqIsFront
<1> QED
  BY <1>4, <1>5, <1>6, <1>7

\* When calls are made one at a time last_seq_ondisk stays in step with the front, in a
\* journal that from_superblock opens with a last_seq_ondisk that fits its FIFO.
THEOREM SerialFrontKept ==
  Spec => [](use.serial /\ use.disk % FifoSize = 0 => LastSeqIsFront)
<1> DEFINE Use0 == use.serial /\ use.disk % FifoSize = 0
           Inv == Typed /\ (Use0 => OneCall /\ InStep /\ LastSeqIsFront)
<1>1. Init => Inv
  <2> SUFFICES ASSUME Init, Use0 PROVE OneCall /\ InStep /\ LastSeqIsFront
    BY TypedInit
  <2>1. \A t \in Tasks : pc[t] = "idle"
    BY DEF Init
  <2>2. head = 0 /\ disk = use.disk
    BY DEF Init
  <2> QED
    BY <2>1, <2>2 DEF OneCall, Busy, InStep, LastSeqIsFront
<1>2. Inv /\ [Next]_vars => Inv'
  <2>1. ASSUME Inv, Next PROVE Inv'
    <3>1. PICK t \in Tasks : Alone(t) /\ Step(t)
      BY <2>1, StepOf
    <3>2. use' = use /\ Typed'
      BY <2>1, StepOf, TypedNext
    <3> QED
      BY <2>1, <3>1, <3>2, OneCallStays, InStepNext
  <2>2. ASSUME Inv, UNCHANGED vars PROVE Inv'
    <3>1. UNCHANGED <<use, head, tail, disk, pc, n>>
      BY <2>2 DEF vars, fifoVars, seqVars, taskVars
    <3> QED
      BY <2>2, <3>1, TypedStutters DEF OneCall, Busy, InStep, LastSeqIsFront, Length
  <2> QED
    BY <2>1, <2>2
<1> QED
  BY <1>1, <1>2, PTL DEF Spec

-----------------------------------------------------------------------------
(* A journal without pins: entries alone fill the FIFO, and flushes empty  *)
(* it.  The first entry has slot 0 whatever its seq, so that the list at   *)
(* the slot of a seq is that of the entry Lag before it.                   *)

EntriesOnly == use.serial /\ use.pins = {}

\* The slot that an entry is pushed to.
Place(s) == (s + Lag) % FifoSize

\* The FIFO holds the entries from b on, and the self pin of an entry is there until the
\* entry has been written.
Holds(b) ==
  /\ b \in Nat /\ use.first <= b /\ b <= written + 1 /\ written < seq /\ seq - b < FifoSize
  /\ head = Place(b) /\ tail = Place(seq)
  /\ \A s \in b..(seq - 1) : entry[Place(s)] = s /\ (s > written => cnt[Place(s)] = 1)

\* Does the lag leave room for the entries that are not written yet?
Roomy == Lag + NBuf < FifoSize

\* The first entry whose list is not released.
FirstKept == IF use.first + Lag > written THEN use.first ELSE written + 1 - Lag

\* Released lists stay in the FIFO only until the flush that released them drains them.
Draining == \E t \in Tasks : pc[t] \in {"scan", "compute", "drain"}
Emptied(b) == b = FirstKept \/ Draining

\* Then the self pin of an entry is put once, with the entry Lag after it.
PutInTime(b) ==
  /\ seq - 1 - written <= NBuf /\ b <= FirstKept /\ Emptied(b)
  /\ \A s \in b..(seq - 1) : cnt[Place(s)] = IF s + Lag > written THEN 1 ELSE 0

NoLinks == \A i \in Slots, ty \in Types : unflushed[i][ty] = <<>>

\* How many lists at the front are released.
Released(k) ==
  /\ k \in 0..Length /\ \A j \in 0..(k - 1) : cnt[(head + j) % FifoSize] = 0
  /\ k < Length => cnt[(head + k) % FifoSize] # 0

\* Where a task is, and when everything is written.
Cycles(t) ==
  /\ pc[t] \in {"idle", "scan", "compute", "drain", "advance", "open"}
  /\ op[t].back = "idle" \/ (op[t].back = "open" /\ pc[t] \in {"compute", "drain", "advance"})
  /\ (pc[t] = "scan" /\ fl[t].mode = "write") \/ pc[t] = "open" \/ op[t].back = "open"
     => written = seq - 1
  /\ pc[t] = "drain" => Released(n[t])

Filled ==
  NoLinks /\ (\A t \in Tasks : Cycles(t)) /\ \E b \in Nat : Holds(b) /\ (Roomy => PutInTime(b))

\* What becomes of a journal: without the room it may fill, and then it is poisoned.
Lives == Filled \/ (Poisoned /\ ~Roomy)

LEMMA FullTurn == ASSUME NEW a \in Nat PROVE (a + FifoSize) % FifoSize = a % FifoSize
<1> DEFINE r == a % FifoSize
<1>1. PICK q \in Nat : a = FifoSize * q + r
  BY Remainder
<1>2. r \in 0..(FifoSize - 1)
  BY Remainder
<1> HIDE DEF r
<1>3. a + FifoSize = FifoSize * (q + 1) + r
  <2> DEFINE x == FifoSize * q
  <2>1. x \in Int /\ FifoSize * (q + 1) = x + FifoSize * 1 /\ FifoSize * 1 = FifoSize
    <3>1. FifoSize * 1 = FifoSize
      BY FifoAssumption
    <3>2. q \in Int /\ 1 \in Int
      OBVIOUS
    <3>3. FifoSize * (q + 1) = FifoSize * q + FifoSize * 1 /\ FifoSize * q \in Int
      BY ONLY <3>2, Distributes
    <3> QED
      BY <3>1, <3>3
  <2>2. a = x + r
    BY <1>1
  <2> HIDE DEF x
  <2> QED
    BY <1>2, <2>1, <2>2, FifoAssumption
<1>4. (a + FifoSize) % FifoSize = r
  BY <1>2, <1>3, RemainderIs
<1> QED
  BY <1>4 DEF r

\* The first entry is pushed to slot 0.
LEMMA LagIs == ASSUME use \in Uses PROVE Lag \in Nat /\ Lag < FifoSize /\ Place(use.first) = 0
<1> DEFINE r == use.first % FifoSize
<1>1. use.first \in Nat /\ r \in 0..(FifoSize - 1) /\ FifoSize \in Nat /\ FifoSize >= 2
  BY UseType, Remainder, FifoAssumption
<1>2. 0 % FifoSize = 0 /\ FifoSize % FifoSize = 0
  <2>1. 0 % FifoSize = 0
    BY <1>1, SmallRemainder
  <2>2. (0 + FifoSize) % FifoSize = 0 % FifoSize
    BY FullTurn
  <2>3. 0 + FifoSize = FifoSize
    BY <1>1
  <2> QED
    BY ONLY <2>1, <2>2, <2>3
<1> HIDE DEF r
<1>3. CASE r = 0
  <2>1. FifoSize - r = FifoSize /\ use.first + 0 = use.first
    BY <1>1, <1>3
  <2>2. Lag = 0
    BY ONLY <1>2, <2>1 DEF Lag, r
  <2> QED
    BY <1>1, <1>3, <2>1, <2>2 DEF Place, r
<1>4. CASE r # 0
  <2> DEFINE m == FifoSize - r
  <2>1. m \in 0..(FifoSize - 1) /\ r + m = FifoSize
    BY <1>1, <1>4
  <2>2. Lag = m
    <3>1. m % FifoSize = m
      <4> HIDE DEF m
      <4> QED
        BY <2>1, SmallRemainder
    <3> QED
      BY <3>1 DEF Lag, r
  <2> HIDE DEF m
  <2>3. m \in Nat /\ m < FifoSize
    BY <1>1, <2>1
  <2>4. (r + m) % FifoSize = (use.first + m) % FifoSize
    BY <1>1, <2>3, RemainderPlus DEF r
  <2> QED
    BY ONLY <1>2, <2>1, <2>2, <2>3, <2>4 DEF Place
<1> QED
  BY <1>3, <1>4

LEMMA PlacesDiffer ==
  ASSUME use \in Uses, NEW a \in Nat, NEW b \in Nat, a <= b, b - a < FifoSize, Place(a) = Place(b)
  PROVE  a = b
<1>1. Lag \in Nat
  BY LagIs
<1> DEFINE x == a + Lag
           y == b + Lag
<1>2. x \in Nat /\ y \in Nat /\ x <= y /\ y - x < FifoSize
  BY <1>1, FifoAssumption
<1>3. x % FifoSize = y % FifoSize
  BY DEF Place
<1> HIDE DEF x, y
<1>4. x = y
  BY <1>2, <1>3, RemaindersDiffer
<1> QED
  BY <1>1, <1>4 DEF x, y

LEMMA PlacePlus ==
  ASSUME use \in Uses, NEW a \in Nat, NEW k \in Nat
  PROVE  (Place(a) + k) % FifoSize = Place(a + k) /\ Place(a) \in Slots
<1>1. Lag \in Nat
  BY LagIs
<1>2. a + Lag \in Nat /\ (a + Lag) + k = (a + k) + Lag
  BY <1>1
<1>3. (((a + Lag) % FifoSize) + k) % FifoSize = ((a + Lag) + k) % FifoSize
  BY <1>2, RemainderPlus
<1> QED
  BY <1>2, <1>3, Remainder DEF Place, Slots

LEMMA HeldSlots ==
  ASSUME Typed, NEW b \in Nat, Holds(b)
  PROVE  /\ seq \in Nat /\ written \in Nat /\ b <= seq /\ Length = seq - b
         /\ Live = {Place(s) : s \in b..(seq - 1)}
         /\ \A s \in b..(seq - 1) : s \in Nat /\ Place(s) \in Slots
         /\ \A s, r \in b..seq : Place(s) = Place(r) => s = r
         /\ \A k \in 0..(Length - 1) : b + k \in b..(seq - 1) /\ (head + k) % FifoSize = Place(b + k)
<1>1. seq \in Nat /\ written \in Nat /\ b <= seq /\ seq - b < FifoSize /\ use \in Uses
  BY FifoAssumption DEF Holds, Typed, SeqType
<1>2. Length = seq - b
  <2> DEFINE x == b + Lag
             y == seq + Lag
  <2>1. x \in Nat /\ y \in Nat /\ x <= y /\ y - x < FifoSize /\ y - x = seq - b
    BY <1>1, LagIs, FifoAssumption
  <2>2. head = x % FifoSize /\ tail = y % FifoSize
    BY DEF Holds, Place
  <2> HIDE DEF x, y
  <2>3. ((y % FifoSize) - (x % FifoSize)) % FifoSize = y - x
    BY <2>1, RemainderMinus
  <2> QED
    BY <2>1, <2>2, <2>3 DEF Length
<1>3. \A k \in 0..(Length - 1) : b + k \in b..(seq - 1) /\ (head + k) % FifoSize = Place(b + k)
  <2> SUFFICES ASSUME NEW k \in 0..(Length - 1)
               PROVE  b + k \in b..(seq - 1) /\ (head + k) % FifoSize = Place(b + k)
    OBVIOUS
  <2>1. b + k \in b..(seq - 1) /\ k \in Nat
    BY <1>1, <1>2
  <2> QED
    BY <1>1, <2>1, PlacePlus DEF Holds
<1>4. \A s \in b..(seq - 1) : s \in Nat /\ Place(s) \in Slots
  <2> SUFFICES ASSUME NEW s \in b..(seq - 1) PROVE s \in Nat /\ Place(s) \in Slots
    OBVIOUS
  <2>1. s \in Nat /\ 0 \in Nat
    BY <1>1
  <2> QED
    BY <1>1, <2>1, PlacePlus
<1>5. Live = {Place(s) : s \in b..(seq - 1)}
  <2>1. ASSUME NEW s \in b..(seq - 1) PROVE Place(s) \in Live
    <3>1. s - b \in 0..(Length - 1) /\ b + (s - b) = s
      BY <1>1, <1>2
    <3>2. (head + (s - b)) % FifoSize = Place(s)
      BY <1>3, <3>1
    <3> QED
      BY <3>1, <3>2 DEF Live
  <2>2. ASSUME NEW k \in 0..(Length - 1)
               PROVE (head + k) % FifoSize \in {Place(s) : s \in b..(seq - 1)}
    BY <1>3
  <2> QED
    BY <2>1, <2>2 DEF Live
<1>6. \A s, r \in b..seq : Place(s) = Place(r) => s = r
  <2> SUFFICES ASSUME NEW s \in b..seq, NEW r \in b..seq, Place(s) = Place(r) PROVE s = r
    OBVIOUS
  <2>1. s \in Nat /\ r \in Nat /\ (s <= r => r - s < FifoSize) /\ (r <= s => s - r < FifoSize)
        /\ (s <= r \/ r <= s)
    BY <1>1, FifoAssumption
  <2> QED
    BY <1>1, <2>1, PlacesDiffer
<1> QED
  BY <1>1, <1>2, <1>3, <1>4, <1>5, <1>6

\* When there is room for one more.
LEMMA RoomForOne ==
  ASSUME Typed, NEW b \in Nat, Holds(b)
  PROVE  Next1(tail) = Place(seq + 1) /\ (~IsFull <=> seq + 1 - b < FifoSize)
<1>1. seq \in Nat /\ b <= seq /\ FifoSize \in Nat /\ use \in Uses /\ Lag \in Nat
  BY HeldSlots, LagIs, FifoAssumption DEF Typed
<1>2. Next1(tail) = Place(seq + 1)
  BY <1>1, PlacePlus DEF Next1, Holds
<1>3. ASSUME IsFull, seq + 1 - b < FifoSize PROVE FALSE
  <2> DEFINE c == seq + 1
  <2>1. c \in Nat /\ b <= c /\ c - b < FifoSize /\ c # b
    BY <1>1, <1>3
  <2>2. Place(b) = Place(c)
    BY <1>2, <1>3 DEF IsFull, Holds
  <2> HIDE DEF c
  <2> QED
    BY <1>1, <2>1, <2>2, PlacesDiffer
<1>4. ASSUME ~(seq + 1 - b < FifoSize) PROVE IsFull
  <2>1. seq - b < FifoSize
    BY DEF Holds
  <2>2. (seq + 1) + Lag = (b + Lag) + FifoSize /\ b + Lag \in Nat
    BY <1>1, <1>4, <2>1
  <2>3. Place(seq + 1) = Place(b)
    BY <2>2, FullTurn DEF Place
  <2> QED
    BY <1>2, <2>3 DEF IsFull, Holds
<1> QED
  BY <1>2, <1>3, <1>4

LEMMA PushHolds ==
  ASSUME Typed, NEW b \in Nat, Holds(b), PushList, use' = use, written' = written
  PROVE  /\ Holds(b)'
         /\ PutInTime(b) /\ seq - written <= NBuf /\ b = FirstKept => PutInTime(b)'
<1>1. /\ tail' = Next1(tail) /\ head' = head /\ seq' = seq + 1 /\ ~IsFull
      /\ cnt' = [cnt EXCEPT ![tail] = 1] /\ entry' = [entry EXCEPT ![tail] = seq]
  BY DEF PushList
<1>2. seq \in Nat /\ written \in Nat /\ b <= seq /\ Lag \in Nat /\ Lag' = Lag
  BY HeldSlots, LagIs DEF Typed, Lag
<1>3. \A s : Place(s)' = Place(s)
  BY <1>2 DEF Place
<1>4. tail' = Place(seq + 1) /\ head' = Place(b)
  BY <1>1, RoomForOne DEF Holds
<1>5. tail \in Slots /\ tail = Place(seq)
  BY DEF Holds, Typed, FifoType
<1>6. entry'[Place(seq)] = seq /\ cnt'[Place(seq)] = 1
  BY <1>1, <1>5 DEF Typed, FifoType
<1>7. ASSUME NEW s \in b..(seq - 1)
      PROVE  entry'[Place(s)] = entry[Place(s)] /\ cnt'[Place(s)] = cnt[Place(s)]
  <2>1. Place(s) # Place(seq) /\ Place(s) \in Slots
    <3>1. s \in b..seq /\ seq \in b..seq /\ s # seq
      BY <1>2
    <3> QED
      BY <3>1, HeldSlots
  <2> QED
    BY <1>1, <1>5, <2>1 DEF Typed, FifoType
<1>8. \A s \in b..(seq' - 1) : s = seq \/ s \in b..(seq - 1)
  BY <1>1, <1>2
<1>9. Holds(b)'
  <2>1. \A s \in b..(seq' - 1) :
          entry'[Place(s)] = s /\ (s > written' => cnt'[Place(s)] = 1)
    BY <1>6, <1>7, <1>8 DEF Holds
  <2>2. b <= written' + 1 /\ written' < seq' /\ seq' - b < FifoSize /\ use'.first <= b
    BY <1>1, <1>2, RoomForOne DEF Holds
  <2>3. tail' = Place(seq)'
    BY <1>1, <1>2, <1>4 DEF Place
  <2> QED
    BY <1>3, <1>4, <2>1, <2>2, <2>3 DEF Holds
<1>10. ASSUME PutInTime(b), seq - written <= NBuf, b = FirstKept PROVE PutInTime(b)'
  <2>1. FirstKept' = FirstKept
    BY <1>2 DEF FirstKept
  <2>2. b <= FirstKept' /\ Emptied(b)' /\ seq' - 1 - written' <= NBuf
    BY <1>1, <1>2, <1>10, <2>1 DEF Emptied, PutInTime
  <2>3. \A s \in b..(seq' - 1) : cnt'[Place(s)] = IF s + Lag > written THEN 1 ELSE 0
    <3>1. seq + Lag > written
      BY <1>2 DEF Holds
    <3> QED
      BY <1>6, <1>7, <1>8, <1>10, <3>1 DEF PutInTime
  <2> QED
    BY <1>2, <1>3, <2>2, <2>3 DEF PutInTime
<1> QED
  BY <1>9, <1>10

\* A flush puts the self pins of the entries whose seq after the lag is closed, once.
LEMMA HitInTime ==
  ASSUME Typed, Roomy, NEW b \in Nat, Holds(b), PutInTime(b), b = FirstKept, NEW s \in b..(seq - 1)
  PROVE  s + Lag > written /\ Hits(Place(s)) = IF s + Lag > seq - 1 THEN 0 ELSE 1
<1> DEFINE e == s + Lag
<1>1. /\ seq \in Nat /\ written \in Nat /\ NBuf \in Nat /\ FifoSize \in Nat /\ Lag \in Nat
      /\ s \in Nat /\ use.first \in Nat /\ Lag + NBuf < FifoSize /\ seq - 1 - written <= NBuf
  BY HeldSlots, LagIs, UseType, FifoAssumption DEF Typed, Roomy, PutInTime
<1>2. e \in Nat /\ e > written /\ use.first <= e /\ e <= seq - 1 + Lag
  BY <1>1 DEF Holds, FirstKept
<1>3. Place(s) \in Live /\ Place(s) = e % FifoSize /\ Place(s) \in Slots
  BY HeldSlots DEF Place
<1> HIDE DEF e
<1>4. ASSUME NEW r \in WriteDone, SlotOf(r) = Place(s) PROVE r = e
  <2>1. r \in Nat /\ r <= seq - 1 /\ r > seq - 1 - NBuf
    BY <1>1 DEF WriteDone
  <2>2. r % FifoSize = e % FifoSize
    BY <1>3, <1>4, FifoAssumption DEF SlotOf, Slots, NoSlot
  <2>3. (e <= r => r - e < FifoSize) /\ (r <= e => e - r < FifoSize) /\ (e <= r \/ r <= e)
    BY <1>1, <1>2, <2>1
  <2> QED
    BY <1>2, <2>1, <2>2, <2>3, RemaindersDiffer
<1>5. CASE e > seq - 1
  <2>1. ASSUME NEW r \in WriteDone PROVE SlotOf(r) # Place(s)
    <3>1. r <= seq - 1 /\ r \in Nat
      BY <1>1 DEF WriteDone
    <3> QED
      BY <1>1, <1>2, <1>4, <1>5, <3>1
  <2>2. {r \in WriteDone : SlotOf(r) = Place(s)} = {}
    BY <2>1
  <2> QED
    BY <1>2, <1>5, <2>2, FS_EmptySet DEF Hits, e
<1>6. CASE ~(e > seq - 1)
  <2>1. e \in WriteDone /\ SlotOf(e) = Place(s)
    BY <1>1, <1>2, <1>3, <1>6 DEF WriteDone, SlotOf
  <2>2. {r \in WriteDone : SlotOf(r) = Place(s)} = {e}
    BY <1>4, <2>1
  <2> QED
    BY <1>2, <1>6, <2>2, FS_Singleton DEF Hits, e
<1> QED
  BY <1>5, <1>6

\* The released lists at the front are those up to the first that is kept.
LEMMA DrainsTo ==
  ASSUME Typed, NEW b \in Nat, Holds(b), PutInTime(b), NEW k, Released(k) PROVE b + k = FirstKept
<1>1. /\ Length = seq - b /\ seq \in Nat /\ b <= seq /\ written \in Nat /\ Lag \in Nat
      /\ \A j \in 0..(Length - 1) : b + j \in b..(seq - 1) /\ (head + j) % FifoSize = Place(b + j)
  BY HeldSlots, LagIs DEF Typed
<1>2. \A j \in 0..(Length - 1) : cnt[(head + j) % FifoSize] = IF b + j + Lag > written THEN 1 ELSE 0
  BY <1>1 DEF PutInTime
<1>3. k \in 0..Length /\ b <= FirstKept /\ use.first <= b /\ use.first \in Nat /\ written < seq
  BY UseType DEF Released, PutInTime, Holds, Typed
<1>4. FirstKept \in Nat /\ FirstKept <= seq
  BY <1>1, <1>3 DEF FirstKept
<1>5. ASSUME b + k < FirstKept PROVE FALSE
  <2>1. k \in 0..(Length - 1) /\ k < Length /\ ~(b + k + Lag > written)
    BY <1>1, <1>3, <1>4, <1>5 DEF FirstKept
  <2>2. cnt[(head + k) % FifoSize] = 0
    BY <1>2, <2>1
  <2> QED
    BY <2>1, <2>2 DEF Released
<1>6. ASSUME b + k > FirstKept PROVE FALSE
  <2> DEFINE j == FirstKept - b
  <2>1. j \in 0..(k - 1) /\ j \in 0..(Length - 1) /\ b + j = FirstKept
    BY <1>1, <1>3, <1>4, <1>6
  <2>2. FirstKept + Lag > written
    BY <1>1, <1>3 DEF FirstKept
  <2> HIDE DEF j
  <2>3. cnt[(head + j) % FifoSize] = 1
    BY <1>2, <2>1, <2>2
  <2> QED
    BY <2>1, <2>3 DEF Released
<1> QED
  BY <1>1, <1>3, <1>4, <1>5, <1>6

LEMMA DrainableReleased == ASSUME Typed PROVE Released(Drainable)
BY DrainableIs DEF Typed, FifoType, Released

\* The tasks that rest have nothing to say.
LEMMA OnlyThisTask ==
  ASSUME Typed, Filled, OneCall, use.serial, NEW t \in Tasks, Step(t), Alone(t), Cycles(t)'
  PROVE  /\ \A u \in Tasks : Cycles(u)'
         /\ \A u \in Tasks \ {t} : pc[u] = "idle" /\ pc'[u] = "idle"
<1>1. ASSUME NEW u \in Tasks \ {t} PROVE pc[u] = "idle" /\ pc'[u] = "idle" /\ Cycles(u)'
  <2>1. ~Busy(u) /\ Cycles(u) /\ pc'[u] = pc[u] /\ op'[u] = op[u]
    BY OthersRest DEF Filled, Alone
  <2>2. pc[u] = "idle"
    BY <2>1 DEF Busy, Cycles
  <2> QED
    BY <2>1, <2>2 DEF Cycles
<1> QED
  BY <1>1

LEMMA HoldsStays ==
  ASSUME NEW b \in Nat, Holds(b), UNCHANGED <<use, head, tail, cnt, entry, seq, written>>
  PROVE  /\ Holds(b)' /\ FirstKept' = FirstKept /\ (Roomy' <=> Roomy)
         /\ PutInTime(b) /\ Emptied(b)' => PutInTime(b)'
<1>1. Lag' = Lag
  BY DEF Lag
<1>2. \A s : Place(s)' = Place(s)
  BY <1>1 DEF Place
<1>3. head' = Place(b)' /\ tail' = Place(seq)'
  BY <1>1 DEF Place, Holds
<1>4. FirstKept' = FirstKept
  BY <1>1 DEF FirstKept
<1>5. Roomy' <=> Roomy
  BY <1>1 DEF Roomy
<1> QED
  BY <1>1, <1>2, <1>3, <1>4, <1>5 DEF Holds, PutInTime

\* A step that leaves the lists alone.
LEMMA ListsRest ==
  ASSUME Typed, Filled, OneCall, use.serial, NEW t \in Tasks, Step(t), Alone(t), Cycles(t)',
         UNCHANGED <<head, tail, cnt, entry, unflushed, seq, written>>,
         pc[t] \in {"scan", "compute", "drain"} =>
           \/ pc'[t] \in {"scan", "compute", "drain"}
           \/ \A b \in Nat : Holds(b) /\ PutInTime(b) => b = FirstKept
  PROVE  Filled'
<1>1. use' = use /\ (\A u \in Tasks : Cycles(u)') /\ \A u \in Tasks \ {t} : pc[u] = "idle"
  BY OnlyThisTask DEF Alone
<1>2. PICK b \in Nat : Holds(b) /\ (Roomy => PutInTime(b))
  BY DEF Filled
<1>3. Holds(b)' /\ FirstKept' = FirstKept /\ (Roomy' <=> Roomy)
      /\ (PutInTime(b) /\ Emptied(b)' => PutInTime(b)')
  BY <1>1, <1>2, HoldsStays
<1>4. ASSUME PutInTime(b) PROVE Emptied(b)'
  <2>1. CASE b = FirstKept
    BY <1>3, <2>1 DEF Emptied
  <2>2. CASE b # FirstKept
    <3>1. PICK u \in Tasks : pc[u] \in {"scan", "compute", "drain"}
      BY <1>4, <2>2 DEF PutInTime, Emptied, Draining
    <3>2. u = t
      BY <1>1, <3>1
    <3>3. pc'[t] \in {"scan", "compute", "drain"}
      BY <1>2, <1>4, <2>2, <3>1, <3>2
    <3> QED
      BY <3>3 DEF Emptied, Draining
  <2> QED
    BY <2>1, <2>2
<1>5. NoLinks'
  BY DEF Filled, NoLinks
<1> QED
  BY <1>1, <1>2, <1>3, <1>4, <1>5 DEF Filled

\* With nobody busy all released lists have left the FIFO.
LEMMA AtRest ==
  ASSUME Filled, \A u \in Tasks : pc[u] \notin {"scan", "compute", "drain"}
  PROVE  \E b \in Nat : Holds(b) /\ (Roomy => PutInTime(b) /\ b = FirstKept)
BY DEF Filled, PutInTime, Emptied, Draining

\* Without room the FIFO may fill, and the journal is poisoned.
LEMMA OpenFilled ==
  ASSUME Typed, EntriesOnly, OneCall, Filled, NEW t \in Tasks, Step(t), Alone(t),
         OpenEntry(t, "idle"), pc[t] \in {"idle", "open"}, written' = written, op' = op,
         seq - 1 - written < NBuf
  PROVE  Lives'
<1>1. \A u \in Tasks \ {t} : ~Busy(u)
  BY OthersRest DEF EntriesOnly
<1>2. PICK b \in Nat : Holds(b) /\ (Roomy => PutInTime(b) /\ b = FirstKept)
  <2>1. \A u \in Tasks : pc[u] \notin {"scan", "compute", "drain"}
    BY <1>1 DEF Busy
  <2> QED
    BY <2>1, AtRest
<1>3. /\ use' = use /\ seq \in Nat /\ written \in Nat /\ NBuf \in Nat /\ FifoSize \in Nat
      /\ Lag \in Nat /\ Lag' = Lag
  BY <1>2, HeldSlots, LagIs, FifoAssumption DEF Alone, Typed, Lag
<1>4. ~Poisoned
  BY DEF Poisoned, Filled, Cycles
<1>5. CASE IsFull
  <2>1. pc'[t] = "poisoned"
    BY <1>5 DEF OpenEntry, Goto, Typed, TaskType
  <2>2. ~Roomy
    <3>1. ASSUME Roomy PROVE seq + 1 - b < FifoSize
      <4>1. b >= written + 1 - Lag
        BY <1>2, <1>3, <3>1, UseType DEF FirstKept, Typed
      <4> QED
        BY <1>2, <1>3, <3>1, <4>1 DEF Roomy
    <3> QED
      BY <1>2, <1>5, <3>1, RoomForOne
  <2> QED
    BY <1>3, <2>1, <2>2 DEF Lives, Poisoned, Roomy
<1>6. CASE ~IsFull
  <2>1. PushList /\ Goto(t, "idle")
    BY <1>4, <1>6 DEF OpenEntry
  <2>2. Holds(b)' /\ (Roomy' => PutInTime(b)')
    <3>1. Roomy' <=> Roomy
      BY <1>3 DEF Roomy
    <3>2. seq - written <= NBuf
      BY <1>3
    <3> QED
      BY <1>2, <1>3, <2>1, <3>1, <3>2, PushHolds
  <2>3. pc'[t] = "idle" /\ op'[t].back = "idle"
    BY <2>1 DEF Goto, Typed, TaskType, Filled, Cycles
  <2>4. \A u \in Tasks : Cycles(u)'
    <3>1. Cycles(t)'
      BY <2>3 DEF Cycles
    <3> QED
      BY <3>1, OnlyThisTask DEF EntriesOnly
  <2>5. NoLinks'
    <3>1. unflushed' = [unflushed EXCEPT ![tail] = [ty \in Types |-> <<>>]] /\ tail \in Slots
      BY <2>1 DEF PushList, Typed, FifoType
    <3> QED
      BY <3>1 DEF Filled, NoLinks, Typed, FifoType
  <2> QED
    BY <2>2, <2>4, <2>5 DEF Lives, Filled
<1> QED
  BY <1>5, <1>6

LEMMA PutFilled ==
  ASSUME Typed, EntriesOnly, OneCall, Filled, NEW f \in use.flushers, f \in Tasks,
         Step(f), Alone(f), PutSelfPins(f)
  PROVE  Filled'
<1>1. /\ pc[f] = "idle"
      /\ cnt' = [i \in Slots |-> cnt[i] - Hits(i)]
      /\ written' = seq - 1
      /\ fl' = [fl EXCEPT ![f] = [NoFlush EXCEPT !.mode = "write", !.target = seq]]
      /\ Goto(f, "scan")
      /\ UNCHANGED <<head, tail, unflushed, entry, seq, op>>
  BY DEF PutSelfPins
<1>2. use' = use /\ \A u \in Tasks \ {f} : ~Busy(u)
  BY OthersRest DEF EntriesOnly, Alone
<1>3. PICK b \in Nat : Holds(b) /\ (Roomy => PutInTime(b) /\ b = FirstKept)
  <2>1. \A u \in Tasks : pc[u] \notin {"scan", "compute", "drain"}
    BY <1>1, <1>2 DEF Busy
  <2> QED
    BY <2>1, AtRest
<1>4. seq \in Nat /\ written \in Nat /\ b <= seq /\ Lag \in Nat /\ Lag' = Lag
      /\ use.first \in Nat /\ NBuf \in Nat
  BY <1>2, <1>3, HeldSlots, LagIs, UseType, FifoAssumption DEF Typed, Lag
<1>5. \A s : Place(s)' = Place(s)
  BY <1>4 DEF Place
<1>6. pc'[f] = "scan" /\ op'[f].back = "idle"
  BY <1>1 DEF Goto, Typed, TaskType, Filled, Cycles
<1>7. Holds(b)'
  <2>1. \A s \in b..(seq' - 1) : entry'[Place(s)] = s /\ ~(s > written')
    BY <1>1, <1>3, <1>4 DEF Holds
  <2>2. use'.first <= b /\ b <= written' + 1 /\ written' < seq' /\ seq' - b < FifoSize
    BY <1>1, <1>2, <1>3, <1>4 DEF Holds
  <2>3. head' = Place(b)' /\ tail' = Place(seq)'
    BY <1>1, <1>3, <1>4 DEF Holds, Place
  <2> QED
    BY <1>1, <1>5, <2>1, <2>2, <2>3 DEF Holds
<1>8. ASSUME Roomy PROVE PutInTime(b)'
  <2>1. b <= FirstKept'
    BY <1>1, <1>2, <1>3, <1>4, <1>8 DEF FirstKept, Holds
  <2>2. seq' - 1 - written' <= NBuf /\ Emptied(b)'
    BY <1>1, <1>4, <1>6 DEF Emptied, Draining
  <2>3. ASSUME NEW s \in b..(seq - 1)
        PROVE  cnt'[Place(s)] = IF s + Lag > written' THEN 1 ELSE 0
    <3>1. s + Lag > written /\ Hits(Place(s)) = IF s + Lag > seq - 1 THEN 0 ELSE 1
      BY <1>3, <1>8, HitInTime
    <3>2. cnt[Place(s)] = 1 /\ Place(s) \in Slots
      BY <1>3, <1>8, <3>1, HeldSlots DEF PutInTime
    <3>3. cnt'[Place(s)] = cnt[Place(s)] - Hits(Place(s))
      BY <1>1, <3>2
    <3>4. cnt'[Place(s)] = IF s + Lag > seq - 1 THEN 1 ELSE 0
      <4> DEFINE h == Hits(Place(s))
      <4>1. h = 0 \/ h = 1
        BY <3>1
      <4> HIDE DEF h
      <4>2. cnt'[Place(s)] = 1 - h /\ h = IF s + Lag > seq - 1 THEN 0 ELSE 1
        BY <3>1, <3>2, <3>3 DEF h
      <4> QED
        BY <4>1, <4>2
    <3> QED
      BY <1>1, <3>4
  <2> QED
    BY <1>1, <1>4, <1>5, <2>1, <2>2, <2>3 DEF PutInTime
<1>9. Roomy' <=> Roomy
  BY <1>4 DEF Roomy
<1>10. \A u \in Tasks : Cycles(u)'
  <2>1. Cycles(f)'
    BY <1>1, <1>6 DEF Cycles
  <2> QED
    BY <2>1, OnlyThisTask DEF EntriesOnly
<1>11. NoLinks'
  BY <1>1 DEF Filled, NoLinks
<1> QED
  BY <1>7, <1>8, <1>9, <1>10, <1>11 DEF Filled

LEMMA ComputeFilled ==
  ASSUME Typed, EntriesOnly, OneCall, Filled, NEW t \in Tasks, Step(t), Alone(t), Compute(t)
  PROVE  Filled'
<1>1. /\ pc[t] = "compute" /\ n' = [n EXCEPT ![t] = Drainable]
      /\ IF Drainable = 0 THEN Finish(t) ELSE Goto(t, "drain") /\ UNCHANGED op
      /\ UNCHANGED <<head, tail, cnt, entry, unflushed, seq, written>>
  BY DEF Compute, fifoVars, seqVars
<1>2. Released(Drainable)
  BY DrainableReleased
<1>3. CASE Drainable = 0
  <2>1. pc'[t] = op[t].back /\ op'[t] = NoOp
    BY <1>1, <1>3 DEF Finish, Goto, Typed, TaskType
  <2>2. Cycles(t)'
    BY <1>1, <2>1 DEF Filled, Cycles, NoOp
  <2>3. ASSUME NEW c \in Nat, Holds(c), PutInTime(c) PROVE c = FirstKept
    BY <1>2, <1>3, <2>3, DrainsTo
  <2> QED
    BY <1>1, <2>2, <2>3, ListsRest DEF EntriesOnly
<1>4. CASE Drainable # 0
  <2>1. PICK k : k = Drainable
    OBVIOUS
  <2>2. pc'[t] = "drain" /\ op' = op /\ n'[t] = k /\ Length' = Length
    BY <1>1, <1>4, <2>1 DEF Goto, Typed, TaskType, Length
  <2>3. Released(k)'
    BY <1>1, <1>2, <2>1, <2>2 DEF Released
  <2>4. Cycles(t)'
    <3>1. op[t].back = "open" => written' = seq' - 1
      BY <1>1 DEF Filled, Cycles
    <3>2. op[t].back \in {"idle", "open"}
      BY DEF Filled, Cycles
    <3>3. Released(n[t])'
      BY <2>2, <2>3
    <3> QED
      BY <2>2, <3>1, <3>2, <3>3 DEF Cycles
  <2> QED
    BY <1>1, <2>2, <2>4, ListsRest DEF EntriesOnly
<1> QED
  BY <1>3, <1>4

LEMMA DrainFilled ==
  ASSUME Typed, EntriesOnly, OneCall, Filled, NEW t \in Tasks, Step(t), Alone(t), Drain(t)
  PROVE  Filled'
<1>1. PICK k : k = n[t] /\ pc[t] = "drain" /\ Released(k)
  BY DEF Drain, Filled, Cycles
<1>2. PICK b \in Nat : Holds(b) /\ (Roomy => PutInTime(b))
  BY DEF Filled
<1>3. /\ Length = seq - b /\ seq \in Nat /\ written \in Nat /\ Length \in Nat /\ b <= seq
      /\ k \in 0..Length /\ use \in Uses
      /\ \A j \in 0..(Length - 1) : b + j \in b..(seq - 1) /\ (head + j) % FifoSize = Place(b + j)
  BY <1>1, <1>2, HeldSlots DEF Released, Typed
<1>4. UNCHANGED <<tail, cnt, entry, seq, written, op, use>> /\ pc'[t] = "advance"
  BY DEF Drain, Goto, seqVars, Alone, Typed, TaskType
<1>5. head' = (head + k) % FifoSize
  BY <1>1, <1>3 DEF Drain
<1>6. PICK c \in Nat : c = b + k /\ b <= c /\ c <= seq
  BY <1>3
<1>7. head' = Place(c)
  <2>1. (Place(b) + k) % FifoSize = Place(b + k)
    BY <1>3, PlacePlus
  <2> QED
    BY <1>2, <1>5, <1>6, <2>1 DEF Holds
<1>8. Lag' = Lag /\ \A s : Place(s)' = Place(s)
  BY <1>4 DEF Lag, Place
<1>9. c <= written + 1
  <2>1. CASE k = 0
    BY <1>2, <1>6, <2>1 DEF Holds
  <2>2. CASE k # 0
    <3>1. k - 1 \in 0..(k - 1) /\ k - 1 \in 0..(Length - 1) /\ b + (k - 1) = c - 1
      BY <1>3, <1>6, <2>2
    <3>2. c - 1 \in b..(seq - 1) /\ cnt[Place(c - 1)] = 0
      <4>1. cnt[(head + (k - 1)) % FifoSize] = 0
        BY <1>1, <3>1 DEF Released
      <4>2. b + (k - 1) \in b..(seq - 1) /\ (head + (k - 1)) % FifoSize = Place(b + (k - 1))
        BY <1>3, <3>1
      <4> QED
        BY <3>1, <4>1, <4>2
    <3>3. ~(c - 1 > written)
      BY <1>2, <3>2 DEF Holds
    <3> QED
      BY <1>3, <1>6, <3>3
  <2> QED
    BY <2>1, <2>2
<1>10. \A s \in c..(seq - 1) : s \in b..(seq - 1)
  BY <1>3, <1>6
<1>11. Holds(c)'
  <2>1. use.first <= c /\ seq - c < FifoSize /\ written < seq
    BY <1>2, <1>3, <1>6, UseType, FifoAssumption DEF Holds
  <2>2. head' = Place(c)' /\ tail' = Place(seq)'
    BY <1>2, <1>4, <1>7, <1>8 DEF Place, Holds
  <2>3. \A s \in c..(seq - 1) : entry[Place(s)] = s /\ (s > written => cnt[Place(s)] = 1)
    BY <1>2, <1>10 DEF Holds
  <2> QED
    BY <1>4, <1>6, <1>8, <1>9, <2>1, <2>2, <2>3 DEF Holds
<1>12. ASSUME Roomy PROVE PutInTime(c)'
  <2>1. c = FirstKept
    BY <1>1, <1>2, <1>6, <1>12, DrainsTo
  <2>2. FirstKept' = FirstKept
    BY <1>4, <1>8 DEF FirstKept
  <2>3. \A s \in c..(seq - 1) : cnt[Place(s)] = IF s + Lag > written THEN 1 ELSE 0
    BY <1>2, <1>10, <1>12 DEF PutInTime
  <2>4. c <= FirstKept' /\ Emptied(c)' /\ seq - 1 - written <= NBuf
    BY <1>2, <1>6, <1>12, <2>1, <2>2 DEF Emptied, PutInTime
  <2> QED
    BY <1>4, <1>8, <2>3, <2>4 DEF PutInTime
<1>13. Roomy' <=> Roomy
  BY <1>8 DEF Roomy
<1>14. NoLinks'
  <2> DEFINE gone == {(head + j) % FifoSize : j \in 0..((IF n[t] <= Length THEN n[t]
      ELSE Length) - 1)}
  <2>1. unflushed' = [i \in Slots |-> IF i \in gone THEN [ty \in Types |-> <<>>] ELSE unflushed[i]]
    BY DEF Drain
  <2> HIDE DEF gone
  <2> QED
    BY <2>1 DEF Filled, NoLinks
<1>15. \A u \in Tasks : Cycles(u)'
  <2>1. Cycles(t)'
    BY <1>1, <1>4 DEF Filled, Cycles
  <2> QED
    BY <2>1, OnlyThisTask DEF EntriesOnly
<1> QED
  BY <1>6, <1>11, <1>12, <1>13, <1>14, <1>15 DEF Filled

LEMMA AdvanceFilled ==
  ASSUME Typed, EntriesOnly, OneCall, Filled, NEW t \in Tasks, Step(t), Alone(t), Advance(t)
  PROVE  Filled'
<1>1. pc[t] = "advance" /\ Finish(t)
      /\ UNCHANGED <<head, tail, cnt, entry, unflushed, seq, written>>
  BY DEF Advance, fifoVars
<1>2. pc'[t] = op[t].back /\ op'[t] = NoOp
  BY <1>1 DEF Finish, Goto, Typed, TaskType
<1>3. Cycles(t)'
  BY <1>1, <1>2 DEF Filled, Cycles, NoOp
<1> QED
  BY <1>1, <1>3, ListsRest DEF EntriesOnly

LEMMA ScanEndsFilled ==
  ASSUME Typed, EntriesOnly, OneCall, Filled, NEW f \in use.flushers, f \in Tasks, Step(f),
         Alone(f), ScanEnds(f)
  PROVE  Filled'
<1>1. /\ pc[f] = "scan" /\ Goto(f, "compute")
      /\ op' = [op EXCEPT ![f] = [NoOp EXCEPT !.back = IF fl[f].mode = "write" THEN "open"
         ELSE "idle"]]
      /\ UNCHANGED <<head, tail, cnt, entry, unflushed, seq, written>>
  BY DEF ScanEnds, fifoVars, seqVars
<1>2. pc'[f] = "compute" /\ op'[f].back = IF fl[f].mode = "write" THEN "open" ELSE "idle"
  BY <1>1 DEF Goto, NoOp, Typed, TaskType
<1>3. Cycles(f)'
  BY <1>1, <1>2 DEF Filled, Cycles
<1> QED
  BY <1>1, <1>2, <1>3, ListsRest DEF EntriesOnly

LEMMA StartFilled ==
  ASSUME Typed, EntriesOnly, OneCall, Filled, NEW f \in use.flushers, f \in Tasks, Step(f),
         Alone(f), StartReclaim(f)
  PROVE  Filled'
<1>1. PICK target \in use.first..(seq - 1) :
        /\ pc[f] = "idle" /\ Goto(f, "scan") /\ op' = op
        /\ fl' = [fl EXCEPT ![f] = [NoFlush EXCEPT !.mode = "reclaim", !.target = target]]
        /\ UNCHANGED <<head, tail, cnt, entry, unflushed, seq, written>>
  BY DEF StartReclaim, fifoVars, seqVars
<1>2. pc'[f] = "scan" /\ fl'[f].mode = "reclaim"
  BY <1>1, UseType DEF Goto, NoFlush, Typed, TaskType
<1>3. Cycles(f)'
  BY <1>1, <1>2 DEF Filled, Cycles
<1> QED
  BY <1>1, <1>2, <1>3, ListsRest DEF EntriesOnly

LEMMA FilledNext ==
  ASSUME Typed, EntriesOnly, OneCall, Filled, Next PROVE Lives'
<1>1. PICK t \in Tasks : Alone(t) /\ Step(t)
  BY StepOf
<1>2. ~CallAction(t)
  BY DEF CallAction, PinSet, PinAdd, PinUpdate, PinCopy, PinDrop, PinFlush, EntriesOnly
<1>3. CASE CallStep(t)
  <2>1. Compute(t) \/ Drain(t) \/ Advance(t)
    BY <1>3 DEF CallStep, WaitOver, ReadSeqs, Retry, Section, SectionBlocks, SectionResumes, Filled,
       Cycles
  <2> QED
    BY <1>1, <2>1, ComputeFilled, DrainFilled, AdvanceFilled DEF Lives
<1>4. CASE Cycle(t)
  <2>1. pc[t] = "idle" /\ OpenEntry(t, "idle") /\ written' = written /\ op' = op
        /\ seq - 1 - written < NBuf
    BY <1>4 DEF Cycle, BufferFree
  <2> QED
    BY <1>1, <2>1, OpenFilled
<1>5. CASE t \in use.flushers /\ FlusherStep(t)
  <2>1. ~ScanFinds(t)
    <3>1. \A i \in Slots : Stopping(i) = {}
      BY DEF Stopping, Occupied, Filled, NoLinks
    <3>2. ASSUME NEW s \in disk..fl[t].target, SlotOf(s) # NoSlot PROVE Stopping(SlotOf(s)) = {}
      <4>1. s \in Nat
        BY UseType DEF Typed, SeqType, TaskType, Flush
      <4>2. SlotOf(s) \in Slots
        BY <3>2, <4>1, FifoTypes DEF Typed, FifoType
      <4> QED
        BY <3>1, <4>2
    <3>3. Candidates(fl[t].target) = {}
      BY <3>2 DEF Candidates
    <3> QED
      BY <3>3 DEF ScanFinds
  <2>2. CASE OpenNext(t)
    <3>1. /\ pc[t] = "open" /\ OpenEntry(t, "idle")
          /\ written' = written /\ op' = op /\ written = seq - 1
      BY <2>2 DEF OpenNext, Filled, Cycles
    <3>2. seq - 1 - written < NBuf
      BY <3>1, FifoAssumption DEF Typed, SeqType
    <3> QED
      BY <1>1, <3>1, <3>2, OpenFilled
  <2>3. CASE PutSelfPins(t) \/ StartReclaim(t) \/ ScanEnds(t)
    BY <1>1, <1>5, <2>3, PutFilled, StartFilled, ScanEndsFilled DEF Lives
  <2> QED
    BY <1>5, <2>1, <2>2, <2>3 DEF FlusherStep, FlushStep, ScanResumes, CallbackStarts,
       CallbackDrops, CallbackLeaves, CallbackEnds, MoveToFlushed, ListIsGone, Filled, Cycles
<1> QED
  BY <1>1, <1>2, <1>3, <1>4, <1>5 DEF Step

LEMMA FilledInit == EntriesOnly /\ Init => Filled
<1> SUFFICES ASSUME EntriesOnly, Init PROVE Filled
  OBVIOUS
<1> DEFINE b == use.first
<1>1. /\ b \in Nat /\ FifoSize \in Nat /\ FifoSize >= 2 /\ NBuf >= 2 /\ NBuf \in Nat
      /\ Lag \in Nat /\ Place(b) = 0 /\ use \in Uses
  BY UseType, LagIs, FifoAssumption DEF Init
<1>2. head = 0 /\ tail = 1 /\ seq = b + 1 /\ written = b - 1
  BY DEF Init
<1>3. Place(b + 1) = 1
  <2>1. (Place(b) + 1) % FifoSize = Place(b + 1)
    BY <1>1, PlacePlus
  <2>2. 1 \in 0..(FifoSize - 1) /\ Place(b) + 1 = 1
    BY <1>1
  <2>3. 1 % FifoSize = 1
    BY <2>2, SmallRemainder
  <2> QED
    BY ONLY <2>1, <2>2, <2>3
<1>4. 0 \in Slots /\ cnt[0] = 1 /\ entry[0] = b
  BY <1>1 DEF Init, Slots
<1>5. b..(seq - 1) = {b}
  BY <1>1, <1>2
<1>6. Holds(b)
  <2>1. use.first <= b /\ b <= written + 1 /\ written < seq /\ seq - b < FifoSize
    BY <1>1, <1>2
  <2>2. head = Place(b) /\ tail = Place(seq)
    BY <1>1, <1>2, <1>3
  <2>3. \A s \in b..(seq - 1) : entry[Place(s)] = s /\ (s > written => cnt[Place(s)] = 1)
    BY <1>1, <1>4, <1>5
  <2> QED
    BY <1>1, <2>1, <2>2, <2>3 DEF Holds
<1>7. PutInTime(b)
  <2>1. b + Lag > written /\ FirstKept = b /\ seq - 1 - written <= NBuf
    BY <1>1, <1>2 DEF FirstKept
  <2> QED
    BY <1>1, <1>4, <1>5, <2>1 DEF PutInTime, Emptied
<1>8. NoLinks
  BY DEF Init, NoLinks
<1>9. \A t \in Tasks : Cycles(t)
  BY DEF Init, NoOp, Cycles
<1> QED
  BY <1>1, <1>6, <1>7, <1>8, <1>9 DEF Filled

LEMMA LivesStutters == Lives /\ UNCHANGED vars => Lives'
<1> SUFFICES ASSUME Lives, UNCHANGED vars PROVE Lives'
  OBVIOUS
<1>1. UNCHANGED <<use, head, tail, cnt, entry, unflushed, seq, written, pc, op, n, fl>>
  BY DEF vars, fifoVars, seqVars, taskVars
<1>2. CASE Poisoned /\ ~Roomy
  BY <1>1, <1>2 DEF Lives, Poisoned, Roomy, Lag
<1>3. CASE Filled
  <2>1. \A t \in Tasks : Cycles(t)'
    BY <1>1, <1>3 DEF Filled, Cycles, Released, Length
  <2>2. \A b : Emptied(b)' <=> Emptied(b)
    <3>1. FirstKept' = FirstKept
      BY <1>1 DEF FirstKept, Lag
    <3> QED
      BY <1>1, <3>1 DEF Emptied, Draining
  <2>3. \A b : PutInTime(b) => Emptied(b)
    BY DEF PutInTime
  <2>4. \E b \in Nat : Holds(b)' /\ (Roomy' => PutInTime(b)')
    BY <1>1, <1>3, <2>2, <2>3, HoldsStays DEF Filled
  <2> QED
    BY <1>1, <1>3, <2>1, <2>4 DEF Lives, Filled, NoLinks
<1> QED
  BY <1>2, <1>3 DEF Lives

LEMMA WrittenFirst ==
  ASSUME Typed, Lives PROVE (Roomy => ~Poisoned) /\ UnwrittenIsKept
<1>1. Filled => ~Poisoned
  BY DEF Poisoned, Filled, Cycles
<1>2. ASSUME Filled, NEW s \in (written + 1)..(seq - 1) PROVE \E i \in Live : entry[i] = s
  <2>1. PICK b \in Nat : Holds(b)
    BY <1>2 DEF Filled
  <2>2. s \in b..(seq - 1)
    BY <2>1, HeldSlots DEF Holds
  <2>3. Place(s) \in Live /\ entry[Place(s)] = s
    BY <2>1, <2>2, HeldSlots DEF Holds
  <2> QED
    BY <2>3
<1> QED
  BY <1>1, <1>2 DEF Lives, UnwrittenIsKept

LEMMA LivesAlways == Spec => [](Typed /\ (EntriesOnly => OneCall /\ Lives))
<1> DEFINE Inv == Typed /\ (EntriesOnly => OneCall /\ Lives)
<1>1. Init => Inv
  <2>1. Init => OneCall
    BY DEF Init, OneCall, Busy
  <2> QED
    BY <2>1, TypedInit, FilledInit DEF Lives
<1>2. Inv /\ [Next]_vars => Inv'
  <2>1. ASSUME Inv, Next PROVE Inv'
    <3>1. PICK t \in Tasks : Alone(t) /\ Step(t)
      BY <2>1, StepOf
    <3>2. use' = use /\ Typed'
      BY <2>1, StepOf, TypedNext
    <3>3. EntriesOnly' <=> EntriesOnly
      BY <3>2 DEF EntriesOnly
    <3>4. ASSUME EntriesOnly PROVE OneCall'
      BY <2>1, <3>1, <3>4, OneCallStays DEF EntriesOnly
    <3>5. ASSUME EntriesOnly PROVE Lives'
      <4>1. CASE Filled
        BY <2>1, <3>5, <4>1, FilledNext
      <4>2. CASE Poisoned /\ ~Roomy
        <5>1. Poisoned'
          BY <2>1, <4>2, PoisonLasts
        <5>2. Roomy' <=> Roomy
          BY <3>2 DEF Roomy, Lag
        <5> QED
          BY <4>2, <5>1, <5>2 DEF Lives
      <4> QED
        BY <2>1, <3>5, <4>1, <4>2 DEF Lives
    <3> QED
      BY <3>2, <3>3, <3>4, <3>5
  <2>2. ASSUME Inv, UNCHANGED vars PROVE Inv'
    <3>1. UNCHANGED <<use, pc>>
      BY <2>2 DEF vars, taskVars
    <3> QED
      BY <2>2, <3>1, TypedStutters, LivesStutters DEF EntriesOnly, OneCall, Busy
  <2> QED
    BY <2>1, <2>2
<1> QED
  BY <1>1, <1>2, PTL DEF Spec

\* Without pins a journal whose lag leaves room for the entries that are not yet written
\* never fills its FIFO, whatever its first seq, when calls are made one at a time: a list
\* is released Lag entries after its own has been written, and the flush that releases it
\* drains it.
THEOREM EntriesNeverFill == Spec => [](use.serial => EntriesDrain)
<1> DEFINE Inv == Typed /\ (EntriesOnly => OneCall /\ Lives)
<1>1. Inv => (use.serial => EntriesDrain)
  BY WrittenFirst DEF EntriesDrain, EntriesOnly, FifoHasRoom, Roomy
<1>2. Spec => []Inv
  BY LivesAlways
<1> QED
  BY <1>1, <1>2, PTL

\* Without pins no entry leaves the FIFO before bch2_journal_flush has written it, whatever
\* the first seq of the journal, also when lists are released with the wrong entry: a flush
\* writes every closed entry before it puts a self pin.  (Calls one at a time, and until
\* journal_entry_open finds the FIFO full.)
THEOREM WrittenBeforeDrained == Spec => [](EntriesOnly => UnwrittenIsKept)
<1> DEFINE Inv == Typed /\ (EntriesOnly => OneCall /\ Lives)
<1>1. Inv => (EntriesOnly => UnwrittenIsKept)
  BY WrittenFirst
<1>2. Spec => []Inv
  BY LivesAlways
<1> QED
  BY <1>1, <1>2, PTL
=============================================================================
