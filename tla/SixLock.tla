------------------------------ MODULE SixLock ------------------------------
(***************************************************************************)
(* One six lock of a btree node (volmount-core/src/lock/six.rs), with its  *)
(* wait fifo (lock/wait_fifo.rs), in the mode without per-cpu readers.     *)
(*                                                                         *)
(* The atomic state word is one variable per field; every atomic operation *)
(* on it is a step of its own, but a section under wait_lock is one step,  *)
(* and so is an operation on the word with the owner fields that are       *)
(* written next to it.  Spinning repeats a try and is not a step.          *)
(* lock_read, lock_intent and lock_write pass trans_start_time 0, so that  *)
(* the oldest waiter is the one in the first slot.                         *)
(***************************************************************************)
EXTENDS Integers, FiniteSets

CONSTANTS
  Threads,
  Uses,        \* the ways in which the threads may use the lock
  FifoSize,    \* slots of the wait fifo
  MaxSeq,      \* bound of the model: write locks taken
  CntSize,     \* bound of the model: read locks begun; THREAD_READ_CNT wraps
               \*   here, and at 2^32 in the code
  NoThread

Types == {"read", "intent", "write"}

\* One way to use the lock: the types each thread asks for and how often it may
\* hold one; whether threads wait or only try, upgrade and downgrade, relock;
\* in which threads park returns without an unpark, and which threads
\* read-lock other six locks as well.
Use == [wants : [Threads -> SUBSET Types], hold : Nat \ {0},
        slow : BOOLEAN, shifts : BOOLEAN, relocks : BOOLEAN,
        spurious : SUBSET Threads, elsewhere : SUBSET Threads]

ASSUME ThreadAssumption == IsFiniteSet(Threads) /\ NoThread \notin Threads
ASSUME UseAssumption == Uses # {} /\ \A u \in Uses : u \in Use
ASSUME BoundAssumption ==
  FifoSize \in Nat \ {0} /\ MaxSeq \in Nat /\ CntSize \in Nat \ {0}

NoSeq == -1

VARIABLES
  use,                    \* chosen at the start
  readers, intent, wbit,  \* the state word: read count, INTENT_BIT, WRITE_BIT,
  waiting,                \*   and the WAITING bits
  seq,
  iowner, irec,           \* intent_owner, intent_recurse
  wowner, wrec,           \* write_owner, write_recurse
  fifo, nextFree,         \* WaitFifo: the thread in each slot, the hint
  cnt,                    \* THREAD_READ_CNT of each thread
  pc, want,               \* where a thread is, and the type it asks for
  flag,                   \* lock_acquired_flag of the waiter
  token,                  \* the token of thread::park
  snap                    \* the seq a thread has noted for a relock

(* Observers, never read by the actions' conditions on the lock. *)
VARIABLES
  held,                   \* how often each thread holds each type
  other,                  \* read locks held on other six locks
  stale                   \* another thread has written since snap

wordVars  == <<readers, intent, wbit, waiting>>
ownerVars == <<iowner, irec, wowner, wrec>>
fifoVars  == <<fifo, nextFree>>
waitVars  == <<pc, want, flag, token>>
seqVars   == <<seq, snap, stale>>
vars      == <<use, wordVars, ownerVars, fifoVars, cnt, waitVars, seqVars, held, other>>

Slots == 0..(FifoSize - 1)

Goto(t, where) == pc' = [pc EXCEPT ![t] = where]
CallerHas(t, ty) == held' = [held EXCEPT ![t][ty] = @ + 1]

\* Whoever takes the write lock makes the seqs that others have noted stale.
MarkWritten(t, ty) ==
  stale' = IF ty = "write" THEN [u \in Threads |-> stale[u] \/ u # t] ELSE stale

Has(t, ty) == CallerHas(t, ty) /\ MarkWritten(t, ty)

-----------------------------------------------------------------------------
(* The tries: the condition, and what a try that succeeds does to the lock. *)

ReadOpen == ~wbit /\ "write" \notin waiting

TryRead(t) ==
  /\ ReadOpen
  /\ readers' = readers + 1
  /\ cnt' = [cnt EXCEPT ![t] = (@ + 1) % CntSize]
  /\ UNCHANGED <<intent, wbit, ownerVars>>

\* Wrong: a writer does not keep others from the intent lock.
IntentOpenToWriter == ~intent

IntentOpen == ~intent /\ ~wbit

TryIntent(t) ==
  /\ IF iowner = t THEN irec' = irec + 1 /\ UNCHANGED <<intent, iowner>>
     ELSE IntentOpen /\ intent' = TRUE /\ iowner' = t /\ UNCHANGED irec
  /\ UNCHANGED <<readers, wbit, wowner, wrec, cnt>>

CanTryIntent(t) == iowner = t \/ IntentOpen

\* The readers that are not this thread's own, as the code reckons them: its
\* counter knows how many read locks the thread holds, but not on which lock.
OtherReaders(t) == IF readers > cnt[t] THEN readers - cnt[t] ELSE 0

\* Wrong: readers are not looked at.
NoReadersAsked(t) == TRUE

WriteOpen(t) == OtherReaders(t) = 0

CanTryWrite(t) == IF wbit THEN wowner = t ELSE ~intent /\ WriteOpen(t)

TryWrite(t) ==
  /\ CanTryWrite(t)
  /\ IF wbit THEN wrec' = wrec + 1 /\ UNCHANGED <<wbit, wowner>>
     ELSE wbit' = TRUE /\ wowner' = t /\ UNCHANGED wrec
  /\ UNCHANGED <<readers, intent, iowner, irec, cnt>>

\* try_lock_write_preset: WRITE_BIT is set already, by whomever.
TryPreset(t) ==
  /\ WriteOpen(t)
  /\ wowner' = t
  /\ UNCHANGED <<readers, intent, wbit, iowner, irec, wrec, cnt>>

Can(t, ty) == CASE ty = "read" -> ReadOpen [] ty = "intent" -> CanTryIntent(t)
                [] ty = "write" -> CanTryWrite(t)
CanSlow(t, ty) == IF ty = "write" THEN WriteOpen(t) ELSE Can(t, ty)

Take(t, ty) == \/ ty = "read" /\ TryRead(t)
               \/ ty = "intent" /\ TryIntent(t)
               \/ ty = "write" /\ TryWrite(t)
TakeSlow(t, ty) == IF ty = "write" THEN TryPreset(t) ELSE Take(t, ty)

-----------------------------------------------------------------------------
(* Callers.  A thread that holds a read lock does not wait for it again.   *)

Room(t, ty) == ty \in use.wants[t] /\ held[t][ty] < use.hold
               /\ (ty = "write" => seq < MaxSeq) /\ (ty = "read" => readers < CntSize)

\* lock_*, try_lock_*: the try succeeds.
Lock(t) == \E ty \in Types :
  /\ pc[t] = "idle" /\ Room(t, ty)
  /\ Take(t, ty)
  /\ Has(t, ty)
  /\ UNCHANGED <<waiting, fifoVars, waitVars, seq, snap, other>>

\* A thread that holds nothing of this lock may wait.
Free(t) == held[t] = [ty \in Types |-> 0]

\* lock_*: the tries have failed.
EnterSlow(t) == \E ty \in Types :
  /\ use.slow /\ pc[t] = "idle" /\ Room(t, ty) /\ Free(t)
  /\ ~Can(t, ty)
  /\ want' = [want EXCEPT ![t] = ty]
  /\ flag' = [flag EXCEPT ![t] = FALSE]
  /\ Goto(t, IF ty = "write" THEN "preset" ELSE "push")
  /\ UNCHANGED <<wordVars, ownerVars, fifoVars, cnt, token, seqVars, held, other>>

\* fetch_or of WRITE_BIT and WAITING_WRITE_BIT.
Preset(t) ==
  /\ pc[t] = "preset"
  /\ wbit' = TRUE /\ waiting' = waiting \cup {"write"}
  /\ Goto(t, "presettry")
  /\ UNCHANGED <<readers, intent, ownerVars, fifoVars, cnt, want, flag, token, seqVars,
                 held, other>>

PresetTry(t) ==
  /\ pc[t] = "presettry"
  /\ IF WriteOpen(t)
     THEN /\ TryPreset(t)
          /\ waiting' = waiting \ {"write"}
          /\ Has(t, "write")
          /\ Goto(t, "idle")
     ELSE Goto(t, "push") /\ UNCHANGED <<wordVars, ownerVars, cnt, held, stale>>
  /\ UNCHANGED <<fifoVars, want, flag, token, seq, snap, other>>

EmptySlots == {i \in Slots : fifo[i] = NoThread}

\* WaitFifo::push: the first empty slot from the hint on.
PushSlot == CHOOSE i \in EmptySlots : \A j \in EmptySlots :
  (i - nextFree) % FifoSize <= (j - nextFree) % FifoSize

\* Wrong: what is tried after the WAITING bit was set is not looked at.
PushUntried(t) ==
  LET ty == want[t] IN
  /\ pc[t] = "push"
  /\ waiting' = waiting \cup {ty}
  /\ EmptySlots # {}
  /\ fifo' = [fifo EXCEPT ![PushSlot] = t]
  /\ nextFree' = (PushSlot + 1) % FifoSize
  /\ Goto(t, "parked")
  /\ UNCHANGED <<readers, intent, wbit, ownerVars, cnt, held, stale,
                 want, flag, token, seq, snap, other>>

\* push_waiter_with_recheck and what lock_slowpath does with its result.  A
\* read lock is counted by try_lock_read and once more by the caller.
Push(t) ==
  LET ty == want[t] IN
  /\ pc[t] = "push"
  /\ IF CanSlow(t, ty)
     THEN /\ \/ /\ ty # "read"
                /\ TakeSlow(t, ty)
             \/ /\ ty = "read"
                /\ readers' = readers + 1
                /\ cnt' = [cnt EXCEPT ![t] = (@ + 2) % CntSize]
                /\ UNCHANGED <<intent, wbit, ownerVars>>
          /\ waiting' = waiting \ {ty}
          /\ Has(t, ty)
          /\ Goto(t, "idle")
          /\ UNCHANGED fifoVars
     ELSE /\ IF EmptySlots = {} THEN waiting' = waiting \ {ty} /\ UNCHANGED fifoVars
             ELSE /\ waiting' = waiting \cup {ty}
                  /\ fifo' = [fifo EXCEPT ![PushSlot] = t]
                  /\ nextFree' = (PushSlot + 1) % FifoSize
          /\ Goto(t, "parked")
          /\ UNCHANGED <<readers, intent, wbit, ownerVars, cnt, held, stale>>
  /\ UNCHANGED <<want, flag, token, seq, snap, other>>

\* park returns; the flag is read.
Unpark(t) ==
  /\ pc[t] = "parked" /\ (token[t] \/ t \in use.spurious)
  /\ token' = [token EXCEPT ![t] = FALSE]
  /\ IF flag[t]
     THEN /\ Goto(t, "leave")
          /\ cnt' = IF want[t] = "read" THEN [cnt EXCEPT ![t] = (@ + 1) % CntSize] ELSE cnt
     ELSE Goto(t, "woken") /\ UNCHANGED cnt
  /\ UNCHANGED <<wordVars, ownerVars, fifoVars, want, flag, seqVars, held, other>>

\* Without the flag the waiter tries for itself, and counts a read lock twice.
WokenTry(t) ==
  LET ty == want[t] IN
  /\ pc[t] = "woken"
  /\ IF CanSlow(t, ty)
     THEN /\ \/ ty # "read" /\ TakeSlow(t, ty)
             \/ /\ ty = "read"
                /\ readers' = readers + 1
                /\ cnt' = [cnt EXCEPT ![t] = (@ + 2) % CntSize]
                /\ UNCHANGED <<intent, wbit, ownerVars>>
          /\ Goto(t, "leave")
     ELSE Goto(t, "parked") /\ UNCHANGED <<readers, intent, wbit, ownerVars, cnt>>
  /\ UNCHANGED <<waiting, fifoVars, want, flag, token, seqVars, held, other>>

Without(t) == [i \in Slots |-> IF fifo[i] = t THEN NoThread ELSE fifo[i]]
NobodyIn(f) == \A i \in Slots : f[i] = NoThread

\* remove_self_from_fifo, then the caller has the lock.
Leave(t) ==
  /\ pc[t] = "leave"
  /\ fifo' = Without(t)
  /\ waiting' = IF NobodyIn(fifo') THEN {} ELSE waiting
  /\ Has(t, want[t])
  /\ Goto(t, "idle")
  /\ UNCHANGED <<readers, intent, wbit, ownerVars, nextFree, cnt, want, flag, token,
                 seq, snap, other>>

-----------------------------------------------------------------------------
(* Unlock, and the wakeup that follows it.                                 *)

\* A thread goes on to wake waiters of a type.
WakeNext(t, ty) == Goto(t, "wake") /\ want' = [want EXCEPT ![t] = ty]

\* unlock_read, unlock_intent, and unlock_write up to the seq.  Of a lock that
\* was upgraded, downgrade_write_to_intent does what unlock_write does.
Release(t, ty) ==
  /\ \/ /\ ty = "read"
        /\ readers' = readers - 1
        /\ cnt' = [cnt EXCEPT ![t] = (@ - 1) % CntSize]
        /\ WakeNext(t, "write")
        /\ UNCHANGED <<intent, ownerVars, seq>>
     \/ /\ ty = "intent" /\ irec > 0
        /\ irec' = irec - 1
        /\ Goto(t, "idle")
        /\ UNCHANGED <<readers, intent, iowner, wowner, wrec, cnt, seq, want>>
     \/ /\ ty = "intent" /\ irec = 0
        /\ iowner' = NoThread /\ intent' = FALSE
        /\ WakeNext(t, "intent")
        /\ UNCHANGED <<readers, irec, wowner, wrec, cnt, seq>>
     \/ /\ ty = "write" /\ wrec > 0
        /\ wrec' = wrec - 1
        /\ Goto(t, "idle")
        /\ UNCHANGED <<readers, intent, iowner, irec, wowner, cnt, seq, want>>
     \/ /\ ty = "write" /\ wrec = 0
        /\ wowner' = NoThread /\ seq' = seq + 1
        /\ Goto(t, "wclear")
        /\ UNCHANGED <<readers, intent, iowner, irec, wrec, cnt, want>>
  /\ UNCHANGED <<wbit, waiting, fifoVars, flag, token, snap, stale, other>>

Unlock(t) == \E ty \in Types :
  /\ pc[t] = "idle" /\ held[t][ty] > 0
  /\ Release(t, ty)
  /\ held' = [held EXCEPT ![t][ty] = @ - 1]

\* A thread gives back what it has not returned to its caller: the relock came
\* too late.
Undo(t) == pc[t] = "undo" /\ Release(t, want[t]) /\ UNCHANGED held

\* The rest of unlock_write.
ClearWrite(t) ==
  /\ pc[t] = "wclear"
  /\ wbit' = FALSE
  /\ WakeNext(t, "read")
  /\ UNCHANGED <<readers, intent, waiting, ownerVars, fifoVars, cnt, flag, token, seqVars,
                 held, other>>

\* The state word after the unlock says whether there is anyone to wake.
Wake(t) ==
  /\ pc[t] = "wake"
  /\ Goto(t, IF want[t] \in waiting /\ (want[t] = "write" => readers = 0)
             THEN "waking" ELSE "idle")
  /\ UNCHANGED <<wordVars, ownerVars, fifoVars, cnt, want, flag, token, seqVars, held, other>>

Queued(ty) == {i \in Slots : fifo[i] # NoThread /\ want[fifo[i]] = ty}

\* Wrong: the waiters are unparked but not told that they have the lock.
HandUntold(I) ==
  /\ fifo' = [i \in Slots |-> IF i \in I THEN NoThread ELSE fifo[i]]
  /\ token' = [u \in Threads |-> token[u] \/ \E i \in I : fifo[i] = u]
  /\ UNCHANGED flag

\* The waiters in slots I get the lock: out of the fifo, flag, unpark.
HandTo(I) ==
  LET served == {fifo[i] : i \in I} IN
  /\ fifo' = [i \in Slots |-> IF i \in I THEN NoThread ELSE fifo[i]]
  /\ flag' = [u \in Threads |-> flag[u] \/ u \in served]
  /\ token' = [u \in Threads |-> token[u] \/ u \in served]

\* Under wait_lock.  All readers get the lock whoever holds it; a writer only
\* without readers, an intent waiter only without another intent lock.
Waking(t) ==
  LET ty == want[t]  Q == Queued(ty)
      oldest == {i \in Q : \A j \in Q : i <= j} IN
  /\ pc[t] = "waking"
  /\ Goto(t, "idle")
  /\ IF ty \notin waiting THEN UNCHANGED <<wordVars, ownerVars, fifo, flag, token>>
     ELSE \/ /\ ty = "read"
             /\ readers' = readers + Cardinality(Q)
             /\ HandTo(Q)
             /\ waiting' = waiting \ {"read"}
             /\ UNCHANGED <<intent, wbit, ownerVars>>
          \/ /\ ty # "read"
             /\ IF Q # {} /\ (ty = "write" => readers = 0) /\ (ty = "intent" => ~intent)
                THEN LET u == fifo[CHOOSE i \in oldest : TRUE] IN
                     /\ HandTo(oldest)
                     /\ waiting' = IF Q = oldest THEN waiting \ {ty} ELSE waiting
                     /\ intent' = (intent \/ ty = "intent")
                     /\ iowner' = IF ty = "intent" THEN u ELSE iowner
                     /\ wowner' = IF ty = "write" THEN u ELSE wowner
                ELSE /\ waiting' = IF Q = {} THEN waiting \ {ty} ELSE waiting
                     /\ UNCHANGED <<intent, iowner, wowner, fifo, flag, token>>
             /\ UNCHANGED <<readers, wbit, irec, wrec>>
  /\ UNCHANGED <<nextFree, cnt, want, seqVars, held, other>>

-----------------------------------------------------------------------------
(* Upgrade, downgrade, relock, and what the same threads do to other locks. *)

UpgradeToWrite(t) ==
  /\ use.shifts /\ pc[t] = "idle" /\ held[t].intent > 0 /\ Room(t, "write")
  /\ readers = 0 /\ ~wbit
  /\ wbit' = TRUE /\ wowner' = t
  /\ Has(t, "write")
  /\ UNCHANGED <<readers, intent, waiting, iowner, irec, wrec, fifoVars, cnt, waitVars, seq,
                 snap, other>>

\* downgrade_intent_to_read: first the read lock, with which others see both bits; then
\* the intent lock is free, and nobody is woken.  THREAD_READ_CNT is the thread's own,
\* so that counting it with the first step is the same.
DowngradeToRead(t) ==
  /\ use.shifts /\ pc[t] = "idle" /\ held[t].intent = 1 /\ Room(t, "read")
  /\ readers' = readers + 1 /\ cnt' = [cnt EXCEPT ![t] = (@ + 1) % CntSize]
  /\ CallerHas(t, "read")
  /\ Goto(t, "downgrade")
  /\ UNCHANGED <<intent, wbit, waiting, ownerVars, fifoVars, want, flag, token, seqVars, other>>

DowngradeEnd(t) ==
  /\ pc[t] = "downgrade"
  /\ intent' = FALSE /\ iowner' = NoThread
  /\ held' = [held EXCEPT ![t].intent = @ - 1]
  /\ Goto(t, "idle")
  /\ UNCHANGED <<readers, wbit, waiting, irec, wowner, wrec, fifoVars, cnt, want, flag, token,
                 seqVars, other>>

\* Wrong: the thread's count keeps the read lock that has become an intent lock.
UpgradeUncounted(t) ==
  /\ use.shifts /\ pc[t] = "idle" /\ held[t].read > 0 /\ Room(t, "intent")
  /\ IntentOpen /\ readers > 0
  /\ readers' = readers - 1
  /\ intent' = TRUE /\ iowner' = t
  /\ held' = [held EXCEPT ![t].intent = @ + 1, ![t].read = @ - 1]
  /\ UNCHANGED <<wbit, waiting, irec, wowner, wrec, fifoVars, cnt, waitVars, seqVars, other>>

UpgradeToIntent(t) ==
  /\ use.shifts /\ pc[t] = "idle" /\ held[t].read > 0 /\ Room(t, "intent")
  /\ IntentOpen /\ readers > 0
  /\ readers' = readers - 1 /\ cnt' = [cnt EXCEPT ![t] = (@ - 1) % CntSize]
  /\ intent' = TRUE /\ iowner' = t
  /\ held' = [held EXCEPT ![t].intent = @ + 1, ![t].read = @ - 1]
  /\ UNCHANGED <<wbit, waiting, irec, wowner, wrec, fifoVars, waitVars, seqVars, other>>

\* A thread that holds the lock notes the seq.
Remember(t) ==
  /\ use.relocks /\ pc[t] = "idle" /\ ~Free(t) /\ (snap[t] # seq \/ stale[t])
  /\ snap' = [snap EXCEPT ![t] = seq]
  /\ stale' = [stale EXCEPT ![t] = FALSE]
  /\ UNCHANGED <<wordVars, ownerVars, fifoVars, cnt, waitVars, seq, held, other>>

\* relock_ip, in its three steps.
RelockCheck(t) == \E ty \in Types :
  /\ use.relocks /\ pc[t] = "idle" /\ snap[t] = seq /\ Free(t) /\ Room(t, ty)
  /\ Goto(t, "relock") /\ want' = [want EXCEPT ![t] = ty]
  /\ UNCHANGED <<wordVars, ownerVars, fifoVars, cnt, flag, token, seqVars, held, other>>

RelockTry(t) ==
  /\ pc[t] = "relock"
  /\ IF Can(t, want[t]) THEN Take(t, want[t]) /\ Goto(t, "recheck")
     ELSE Goto(t, "idle") /\ UNCHANGED <<readers, intent, wbit, ownerVars, cnt>>
  /\ UNCHANGED <<waiting, fifoVars, want, flag, token, seqVars, held, other>>

\* Wrong: the seq is not read again under the lock.
RecheckTrusts(t) ==
  /\ pc[t] = "recheck"
  /\ Has(t, want[t]) /\ Goto(t, "idle")
  /\ UNCHANGED <<wordVars, ownerVars, fifoVars, cnt, want, flag, token, seq, snap, other>>

Recheck(t) ==
  /\ pc[t] = "recheck"
  /\ IF seq = snap[t] THEN Has(t, want[t]) /\ Goto(t, "idle")
     ELSE Goto(t, "undo") /\ UNCHANGED <<held, stale>>
  /\ UNCHANGED <<wordVars, ownerVars, fifoVars, cnt, want, flag, token, seq, snap, other>>

ReadElsewhere(t) ==
  /\ t \in use.elsewhere /\ pc[t] = "idle" /\ other[t] < use.hold
  /\ other' = [other EXCEPT ![t] = @ + 1]
  /\ cnt' = [cnt EXCEPT ![t] = (@ + 1) % CntSize]
  /\ UNCHANGED <<wordVars, ownerVars, fifoVars, waitVars, seqVars, held>>

UnlockElsewhere(t) ==
  /\ pc[t] = "idle" /\ other[t] > 0
  /\ other' = [other EXCEPT ![t] = @ - 1]
  /\ cnt' = [cnt EXCEPT ![t] = (@ - 1) % CntSize]
  /\ UNCHANGED <<wordVars, ownerVars, fifoVars, waitVars, seqVars, held>>

-----------------------------------------------------------------------------
Init ==
  /\ use \in Uses
  /\ readers = 0 /\ intent = FALSE /\ wbit = FALSE /\ waiting = {} /\ seq = 0
  /\ iowner = NoThread /\ irec = 0 /\ wowner = NoThread /\ wrec = 0
  /\ fifo = [i \in Slots |-> NoThread] /\ nextFree = 0
  /\ cnt = [t \in Threads |-> 0]
  /\ pc = [t \in Threads |-> "idle"] /\ want = [t \in Threads |-> "read"]
  /\ flag = [t \in Threads |-> FALSE] /\ token = flag
  /\ snap = [t \in Threads |-> NoSeq] /\ stale = flag
  /\ held = [t \in Threads |-> [ty \in Types |-> 0]] /\ other = cnt

Waits(t) == Preset(t) \/ PresetTry(t) \/ Push(t) \/ Unpark(t) \/ WokenTry(t) \/ Leave(t)
Wakes(t) == ClearWrite(t) \/ Wake(t) \/ Waking(t) \/ Undo(t)
Rises(t) == UpgradeToWrite(t) \/ DowngradeToRead(t) \/ DowngradeEnd(t) \/ UpgradeToIntent(t)
Again(t) == Remember(t) \/ RelockCheck(t) \/ RelockTry(t) \/ Recheck(t)

Next == UNCHANGED use /\ \E t \in Threads :
  \/ Lock(t) \/ EnterSlow(t) \/ Waits(t)
  \/ Unlock(t) \/ Wakes(t) \/ Rises(t) \/ Again(t)
  \/ ReadElsewhere(t) \/ UnlockElsewhere(t)

Spec == Init /\ [][Next]_vars

\* A call that was begun goes on, and a thread unlocks what it holds.
FairSpec == Spec /\ \A t \in Threads :
  /\ WF_vars(Waits(t) /\ UNCHANGED use)
  /\ WF_vars((Wakes(t) \/ DowngradeEnd(t)) /\ UNCHANGED use)
  /\ WF_vars(Unlock(t) /\ UNCHANGED use)

-----------------------------------------------------------------------------
TypeOK ==
  /\ use \in Uses
  /\ readers \in Nat /\ intent \in BOOLEAN /\ wbit \in BOOLEAN /\ waiting \subseteq Types
  /\ seq \in Nat /\ irec \in Nat /\ wrec \in Nat
  /\ iowner \in Threads \cup {NoThread} /\ wowner \in Threads \cup {NoThread}
  /\ fifo \in [Slots -> Threads \cup {NoThread}] /\ nextFree \in Slots
  /\ cnt \in [Threads -> Nat]
  /\ want \in [Threads -> Types]
  /\ pc \in [Threads -> {"idle", "preset", "presettry", "push", "parked", "woken", "leave",
                         "undo", "wclear", "wake", "waking", "relock", "recheck", "downgrade"}]
  /\ flag \in [Threads -> BOOLEAN] /\ token \in [Threads -> BOOLEAN]
  /\ stale \in [Threads -> BOOLEAN] /\ snap \in [Threads -> Nat \cup {NoSeq}]
  /\ held \in [Threads -> [Types -> Nat]] /\ other \in [Threads -> Nat]

\* lock_conflicts, and the header of six.rs: intent locks exclude each other, a
\* write lock excludes everything.
Conflicts(a, b) == a = "write" \/ b = "write" \/ (a = "intent" /\ b = "intent")

\* Two threads never hold types of this lock that conflict, whichever way each
\* got its own: a try, an upgrade, a relock, the slow path or a handoff.
MutualExclusion == \A t, u \in Threads : t # u =>
  \A a, b \in Types : held[t][a] > 0 /\ held[u][b] > 0 => ~Conflicts(a, b)

\* What try_lock_write subtracts for the thread itself is what it really holds:
\* THREAD_READ_CNT counts each read lock of the thread once.  (Not so with the
\* slow path.)
ReadCntIsHeld ==
  /\ TypeOK
  /\ \A t \in Threads :
       pc[t] = "idle" /\ ~use.slow => cnt[t] = held[t].read + other[t]

\* When no call runs and every lock was given back, the lock is free for all:
\* no reader is counted, no bit is left, nobody owns it.
FreeAtRest == (\A t \in Threads : pc[t] = "idle" /\ Free(t)) =>
  /\ readers = 0 /\ ~intent /\ ~wbit
  /\ iowner = NoThread /\ wowner = NoThread /\ irec = 0 /\ wrec = 0

\* No count is left behind or lost, whatever fails half-way: neither the thread's nor
\* the lock's.
CountsHeld == ReadCntIsHeld /\ FreeAtRest

\* relock_ip returns true only if no other thread has had the write lock since
\* the seq was noted.
RelockSound == [][\A t \in Threads :
  pc[t] = "recheck" /\ held'[t] # held[t] => ~stale[t]]_vars

\* A waiter that sleeps and has not been handed the lock is in the fifo, where
\* the next unlock looks for it.
SleeperIsQueued == \A t \in Threads :
  pc[t] = "parked" /\ ~flag[t] => \E i \in Slots : fifo[i] = t

Asking(t) == pc[t] \in {"preset", "push"}
Users     == {t \in Threads : use.wants[t] # {}}

\* The types of which an unlock wakes the waiters (wakeup_lock_type): of a write lock
\* only the readers.
Wakens == [read |-> {"write"}, intent |-> {"intent"}, write |-> {"read"}]

\* When two threads use the lock, who enters the slow path gets it, as long as the
\* holder gives it back, and as long as the other thread takes only locks whose
\* unlock wakes this one.  (That leaves out a writer and a thread that waits to write
\* or for the intent lock; a downgrade, which wakes nobody; and three threads, since
\* push_waiter_with_recheck clears the WAITING bit of whoever else waits for the same
\* type.)
Woken == \A t, u \in Users : t # u => \A a \in use.wants[t], b \in use.wants[u] :
  Conflicts(a, b) => a \in Wakens[b]

WaiterServed == Cardinality(Users) <= 2 /\ Woken /\ ~use.shifts =>
  \A t \in Threads : Asking(t) ~> held[t][want[t]] > 0
=============================================================================
