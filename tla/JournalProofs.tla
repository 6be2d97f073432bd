--------------------------- MODULE JournalProofs ----------------------------
(***************************************************************************)
(* Theorems about Journal, for every value of the constants: its types;    *)
(* its safety in the use the program makes of it when all of its parts     *)
(* work (the counts are exact, only committed records reach the device, a  *)
(* flush that returned Ok has made its records durable, and the journal    *)
(* implements DurableLog); and what holds with one flusher whatever fails: *)
(* commits that leave their reservation behind, a device that refuses      *)
(* writes, the slow path and stop, until an entry is opened over one that  *)
(* was not drained.                                                        *)
(***************************************************************************)
EXTENDS Journal, FiniteSetTheorems, TLAPS

\* What TypeOK needs to be inductive.
ControlInv ==
  /\ \A t \in Threads :
       /\ tpc[t] \in Outstanding => res[t].rec \in Records /\ res[t].len \in ReqSizes
       /\ tpc[t] \in {"lock", "cycle", "rotate", "retry"} => res[t].len \in ReqSizes
       /\ tpc[t] \in {"lock", "cycle"} => tries[t] > 0
  /\ \A f \in Flushers : fpc[f] = "write" => cur[f] < NBuf

TypeInv == TypeOK /\ ControlInv

-----------------------------------------------------------------------------
USE DEF Buffers, Records, Closed, Outstanding

LEMMA Consts ==
  /\ NBuf \in Nat /\ NBuf >= 2 /\ BufSize \in Nat /\ BufSize > 0
  /\ CountMax \in Nat /\ CountMax > 0 /\ MaxRec \in Nat /\ MaxSeq \in Nat
  /\ ReqSizes \subseteq 1..BufSize
BY BufAssumption, BoundAssumption

\* NextIdx is a buffer.
LEMMA NextIdxType == ASSUME idx \in Buffers PROVE NextIdx \in Buffers
BY Consts DEF NextIdx

\* The word and the reservation after a successful try_reserve.
LEMMA ReserveTypes ==
  ASSUME TypeInv, NEW t \in Threads, NEW n \in ReqSizes, Reserve(t, n)
  PROVE  /\ WordType'
         /\ res' \in [Threads -> Reservations] /\ tpc' \in [Threads -> ThreadPC]
         /\ nrec' \in 0..MaxRec
         /\ res'[t].rec \in Records /\ res'[t].len = n
         /\ tpc'[t] = "reserved"
         /\ \A u \in Threads \ {t} : res'[u] = res[u] /\ tpc'[u] = tpc[u]
<1> DEFINE r == [rec |-> nrec + 1, idx |-> idx, off |-> offset, len |-> n]
<1>1. /\ offset \in 0..Closed /\ idx \in Buffers /\ count \in [Buffers -> 0..CountMax]
      /\ nrec \in 0..MaxRec /\ n \in 1..BufSize
      /\ res \in [Threads -> Reservations] /\ tpc \in [Threads -> ThreadPC]
  BY Consts DEF TypeInv, TypeOK, WordType, TaskType, RecordType
<1>2. /\ offset + n <= BufSize /\ count[idx] < CountMax /\ nrec < MaxRec
      /\ offset' = offset + n /\ count' = [count EXCEPT ![idx] = @ + 1] /\ idx' = idx
      /\ nrec' = nrec + 1 /\ res' = [res EXCEPT ![t] = r]
      /\ tpc' = [tpc EXCEPT ![t] = "reserved"]
  BY DEF Reserve, Fits, TakeSpace, Goto
<1>3. count[idx] + 1 \in 0..CountMax
  BY <1>1, <1>2, Consts
<1>4. WordType'
  BY <1>1, <1>2, <1>3, Consts DEF WordType
<1>5. r \in Reservations
  BY <1>1, <1>2, Consts DEF Reservations
<1>6. res' \in [Threads -> Reservations] /\ tpc' \in [Threads -> ThreadPC]
  <2> HIDE DEF r
  <2> QED
    BY <1>1, <1>2, <1>5 DEF ThreadPC
<1> QED
  BY <1>1, <1>2, <1>4, <1>6, Consts

\* ... and after journal_entry_open has found a buffer.
LEMMA OpenTypes ==
  ASSUME TypeInv, OpenEntry
  PROVE  WordType' /\ BufType'
<1>1. NextIdx \in Buffers
  BY NextIdxType DEF TypeInv, TypeOK, WordType
<1>2. WordType'
  BY <1>1, Consts DEF TypeInv, TypeOK, WordType, OpenEntry
<1>3. BufType'
  BY <1>1, Consts DEF TypeInv, TypeOK, BufType, OpenEntry, BufStates
<1> QED
  BY <1>2, <1>3

\* Every step preserves TypeInv.
LEMMA TypeStep == TypeInv /\ [Next]_vars => TypeInv'
<1> SUFFICES ASSUME TypeInv, [Next]_vars PROVE TypeInv'
  OBVIOUS
<1> USE Consts, NextIdxType DEF wordVars, bufVars, resVars, flVars, devVars, obsVars, Goto, GotoF, TypeInv, TypeOK
<1>1. ASSUME NEW t \in Threads, NEW n \in ReqSizes, ReserveFast(t, n)
      PROVE TypeInv'
  <2>1. WordType'
    BY <1>1, ReserveTypes DEF ReserveFast
  <2>2. TaskType'
    BY <1>1, ReserveTypes DEF TaskType, ReserveFast
  <2>3. RecordType'
    BY <1>1, ReserveTypes DEF RecordType, ReserveFast
  <2>4. ControlInv'
    BY <1>1, ReserveTypes DEF ControlInv, ReserveFast
  <2>5. BufType' /\ FlushType'
    BY <1>1 DEF BufType, FlushType, ReserveFast
  <2> QED
    BY <2>1, <2>2, <2>3, <2>4, <2>5
<1>2. ASSUME NEW t \in Threads, NEW n \in ReqSizes, ReserveSlow(t, n)
      PROVE TypeInv'
  <2>1. TaskType'
    BY <1>2 DEF TaskType, Reservations, ThreadPC, ReserveSlow, NoRes
  <2>2. ControlInv'
    BY <1>2 DEF ControlInv, TaskType, FlushType, ReserveSlow, NoRes, ThreadPC, FlushPC
  <2>3. WordType' /\ BufType' /\ FlushType' /\ RecordType'
    BY <1>2 DEF WordType, BufType, FlushType, RecordType, ReserveSlow, NoRes
  <2> QED
    BY <2>1, <2>2, <2>3
<1>3. ASSUME NEW t \in Threads, ReadSeq(t)
      PROVE TypeInv'
  <2>1. TaskType'
    BY <1>3 DEF TaskType, Reservations, ThreadPC, BufType, ReadSeq
  <2>2. ControlInv'
    BY <1>3 DEF ControlInv, TaskType, FlushType, ReadSeq, ThreadPC, FlushPC
  <2>3. WordType' /\ BufType' /\ FlushType' /\ RecordType'
    BY <1>3 DEF WordType, BufType, FlushType, RecordType, ReadSeq
  <2> QED
    BY <2>1, <2>2, <2>3
<1>4. ASSUME NEW t \in Threads, CommitFails(t)
      PROVE TypeInv'
  <2>1. TaskType'
    BY <1>4 DEF TaskType, Reservations, ThreadPC, CommitFails
  <2>2. ControlInv'
    BY <1>4 DEF ControlInv, TaskType, FlushType, CommitFails, ThreadPC, FlushPC
  <2>3. WordType' /\ BufType' /\ FlushType' /\ RecordType'
    BY <1>4 DEF WordType, BufType, FlushType, RecordType, CommitFails
  <2> QED
    BY <2>1, <2>2, <2>3
<1>5. ASSUME NEW t \in Threads, AddEntry(t)
      PROVE TypeInv'
  <2>1. BufType'
    <3>1. PlacedBy(t) \in Placed /\ res[t].idx \in Buffers
      BY <1>5 DEF TaskType, Reservations, ControlInv, AddEntry, PlacedBy, Placed
    <3> QED
      BY <1>5, <3>1 DEF BufType, AddEntry
  <2>2. TaskType'
    BY <1>5 DEF TaskType, Reservations, ThreadPC, AddEntry, PlacedBy, Placed
  <2>3. ControlInv'
    BY <1>5 DEF ControlInv, TaskType, FlushType, AddEntry, PlacedBy, Placed, ThreadPC, FlushPC
  <2>4. WordType' /\ FlushType' /\ RecordType'
    BY <1>5 DEF WordType, FlushType, RecordType, AddEntry, PlacedBy, Placed
  <2> QED
    BY <2>1, <2>2, <2>3, <2>4
<1>6. ASSUME NEW t \in Threads, Put(t)
      PROVE TypeInv'
  <2>1. WordType'
    <3>1. \A j \in Buffers :
            (IF count[j] = 0 THEN CountMax ELSE count[j] - 1) \in 0..CountMax
      BY DEF WordType
    <3> QED
      BY <1>6, <3>1 DEF WordType, Put, ReleaseCount
  <2>2. TaskType'
    BY <1>6 DEF TaskType, Reservations, ThreadPC, Put, ReleaseCount
  <2>3. RecordType'
    BY <1>6 DEF RecordType, TaskType, Reservations, ControlInv, Put, ReleaseCount
  <2>4. ControlInv'
    BY <1>6 DEF ControlInv, TaskType, FlushType, Put, ReleaseCount, ThreadPC, FlushPC
  <2>5. BufType' /\ FlushType'
    BY <1>6 DEF BufType, FlushType, Put, ReleaseCount
  <2> QED
    BY <2>1, <2>2, <2>3, <2>4, <2>5
<1>7. ASSUME NEW t \in Threads, PutCheck(t)
      PROVE TypeInv'
  <2>1. TaskType'
    BY <1>7 DEF TaskType, Reservations, ThreadPC, PutCheck
  <2>2. ControlInv'
    BY <1>7 DEF ControlInv, TaskType, FlushType, PutCheck, ThreadPC, FlushPC
  <2>3. WordType' /\ BufType' /\ FlushType' /\ RecordType'
    BY <1>7 DEF WordType, BufType, FlushType, RecordType, PutCheck
  <2> QED
    BY <2>1, <2>2, <2>3
<1>8. ASSUME NEW t \in Threads, PutSubmit(t)
      PROVE TypeInv'
  <2>1. BufType'
    BY <1>8 DEF BufType, TaskType, Reservations, PutSubmit, BufStates
  <2>2. TaskType'
    BY <1>8 DEF TaskType, Reservations, ThreadPC, PutSubmit, BufStates
  <2>3. ControlInv'
    BY <1>8 DEF ControlInv, TaskType, FlushType, PutSubmit, BufStates, ThreadPC, FlushPC
  <2>4. WordType' /\ FlushType' /\ RecordType'
    BY <1>8 DEF WordType, FlushType, RecordType, PutSubmit, BufStates
  <2> QED
    BY <2>1, <2>2, <2>3, <2>4
<1>9. ASSUME NEW t \in Threads, SlowLock(t)
      PROVE TypeInv'
  <2>1. TaskType'
    BY <1>9 DEF TaskType, Reservations, ThreadPC, SlowLock
  <2>2. ControlInv'
    BY <1>9 DEF ControlInv, TaskType, FlushType, SlowLock, ThreadPC, FlushPC
  <2>3. WordType' /\ BufType' /\ FlushType' /\ RecordType'
    BY <1>9 DEF WordType, BufType, FlushType, RecordType, SlowLock
  <2> QED
    BY <2>1, <2>2, <2>3
<1>10. ASSUME NEW t \in Threads, CycleClose(t)
      PROVE TypeInv'
  <2>1. WordType'
    BY <1>10 DEF WordType, CycleClose, CloseEntry
  <2>2. TaskType'
    BY <1>10 DEF TaskType, Reservations, ThreadPC, ControlInv, CycleClose, CloseEntry
  <2>3. ControlInv'
    BY <1>10 DEF ControlInv, TaskType, FlushType, CycleClose, CloseEntry, ThreadPC, FlushPC
  <2>4. BufType' /\ FlushType' /\ RecordType'
    BY <1>10 DEF BufType, FlushType, RecordType, CycleClose, CloseEntry
  <2> QED
    BY <2>1, <2>2, <2>3, <2>4
<1>11. ASSUME NEW t \in Threads, CycleNoBucket(t)
      PROVE TypeInv'
  <2>1. TaskType'
    BY <1>11 DEF TaskType, Reservations, ThreadPC, CycleNoBucket, Overflow
  <2>2. ControlInv'
    BY <1>11 DEF ControlInv, TaskType, FlushType, CycleNoBucket, Overflow, ThreadPC, FlushPC
  <2>3. WordType' /\ BufType' /\ FlushType' /\ RecordType'
    BY <1>11 DEF WordType, BufType, FlushType, RecordType, CycleNoBucket, Overflow
  <2> QED
    BY <2>1, <2>2, <2>3
<1>12. ASSUME NEW t \in Threads, CycleOpen(t)
      PROVE TypeInv'
  <2>1. WordType' /\ BufType'
    <3>1. CASE OpenEntry
      BY <3>1, OpenTypes
    <3>2. CASE OpenPanics
      BY <3>2 DEF OpenPanics, WordType, BufType
    <3> QED
      BY <1>12, <3>1, <3>2 DEF CycleOpen
  <2>2. TaskType'
    BY <1>12 DEF TaskType, Reservations, ThreadPC, CycleOpen, OpenEntry, OpenPanics, BufStates
  <2>3. ControlInv'
    BY <1>12 DEF ControlInv, TaskType, FlushType, CycleOpen, OpenEntry, OpenPanics, BufStates, ThreadPC, FlushPC
  <2>4. FlushType' /\ RecordType'
    BY <1>12 DEF FlushType, RecordType, CycleOpen, OpenEntry, OpenPanics, BufStates
  <2> QED
    BY <2>1, <2>2, <2>3, <2>4
<1>13. ASSUME NEW t \in Threads, SlowReserve(t)
      PROVE TypeInv'
  <2>0. res[t].len \in ReqSizes /\ Reserve(t, res[t].len)
    BY <1>13 DEF ControlInv, SlowReserve
  <2>1. WordType'
    BY <1>13, <2>0, ReserveTypes
  <2>2. TaskType'
    BY <1>13, <2>0, ReserveTypes DEF TaskType, SlowReserve
  <2>3. RecordType'
    BY <1>13, <2>0, ReserveTypes DEF RecordType, SlowReserve
  <2>4. ControlInv'
    BY <1>13, <2>0, ReserveTypes DEF ControlInv, SlowReserve
  <2>5. BufType' /\ FlushType'
    BY <1>13 DEF BufType, FlushType, SlowReserve
  <2> QED
    BY <2>1, <2>2, <2>3, <2>4, <2>5
<1>14. ASSUME NEW t \in Threads, SlowRetry(t)
      PROVE TypeInv'
  <2>1. TaskType'
    BY <1>14 DEF TaskType, Reservations, ThreadPC, SlowRetry, Overflow
  <2>2. ControlInv'
    BY <1>14 DEF ControlInv, TaskType, FlushType, SlowRetry, Overflow, ThreadPC, FlushPC
  <2>3. WordType' /\ BufType' /\ FlushType' /\ RecordType'
    BY <1>14 DEF WordType, BufType, FlushType, RecordType, SlowRetry, Overflow
  <2> QED
    BY <2>1, <2>2, <2>3
<1>15. ASSUME NEW f \in Flushers, NEW stop \in BOOLEAN, FlushStart(f, stop)
      PROVE TypeInv'
  <2>1. FlushType'
    BY <1>15 DEF FlushType, FlushPC, WordType, RecordType, FlushStart, BeginFlush, Jobs
  <2>2. ControlInv'
    BY <1>15 DEF ControlInv, TaskType, FlushType, FlushStart, BeginFlush, Jobs, ThreadPC, FlushPC
  <2>3. WordType' /\ BufType' /\ TaskType' /\ RecordType'
    BY <1>15 DEF WordType, BufType, TaskType, RecordType, FlushStart, BeginFlush, Jobs
  <2> QED
    BY <2>1, <2>2, <2>3
<1>16. ASSUME NEW f \in Flushers, FlushClose(f)
      PROVE TypeInv'
  <2>1. WordType'
    BY <1>16 DEF WordType, FlushClose, CloseEntry
  <2>2. FlushType'
    BY <1>16 DEF FlushType, FlushPC, WordType, FlushClose, CloseEntry
  <2>3. ControlInv'
    BY <1>16 DEF ControlInv, TaskType, FlushType, FlushClose, CloseEntry, ThreadPC, FlushPC
  <2>4. BufType' /\ TaskType' /\ RecordType'
    BY <1>16 DEF BufType, TaskType, RecordType, FlushClose, CloseEntry
  <2> QED
    BY <2>1, <2>2, <2>3, <2>4
<1>17. ASSUME NEW f \in Flushers, FlushDrain(f)
      PROVE TypeInv'
  <2>1. BufType'
    BY <1>17 DEF BufType, FlushType, Jobs, FlushDrain, SetDataEnd, Min2
  <2>2. FlushType'
    BY <1>17 DEF FlushType, FlushPC, FlushDrain, SetDataEnd, Min2
  <2>3. ControlInv'
    BY <1>17 DEF ControlInv, TaskType, FlushType, FlushDrain, SetDataEnd, Min2, ThreadPC, FlushPC
  <2>4. WordType' /\ TaskType' /\ RecordType'
    BY <1>17 DEF WordType, TaskType, RecordType, FlushDrain, SetDataEnd, Min2
  <2> QED
    BY <2>1, <2>2, <2>3, <2>4
<1>18. ASSUME NEW f \in Flushers, FlushClosing(f)
      PROVE TypeInv'
  <2>1. BufType'
    BY <1>18 DEF BufType, FlushClosing, Advance, BufStates
  <2>2. FlushType'
    BY <1>18 DEF FlushType, FlushPC, FlushClosing, Advance, BufStates
  <2>3. ControlInv'
    BY <1>18 DEF ControlInv, TaskType, FlushType, FlushClosing, Advance, BufStates, ThreadPC, FlushPC
  <2>4. WordType' /\ TaskType' /\ RecordType'
    BY <1>18 DEF WordType, TaskType, RecordType, FlushClosing, Advance, BufStates
  <2> QED
    BY <2>1, <2>2, <2>3, <2>4
<1>19. ASSUME NEW f \in Flushers, FlushSubmit(f)
      PROVE TypeInv'
  <2>1. BufType'
    BY <1>19 DEF BufType, FlushSubmit, Advance, BufStates
  <2>2. FlushType'
    BY <1>19 DEF FlushType, FlushPC, FlushSubmit, Advance, BufStates
  <2>3. ControlInv'
    BY <1>19 DEF ControlInv, TaskType, FlushType, FlushSubmit, Advance, BufStates, ThreadPC, FlushPC
  <2>4. WordType' /\ TaskType' /\ RecordType'
    BY <1>19 DEF WordType, TaskType, RecordType, FlushSubmit, Advance, BufStates
  <2> QED
    BY <2>1, <2>2, <2>3, <2>4
<1>20. ASSUME NEW f \in Flushers, FlushSkip(f)
      PROVE TypeInv'
  <2>1. FlushType'
    BY <1>20 DEF FlushType, FlushPC, FlushSkip
  <2>2. ControlInv'
    BY <1>20 DEF ControlInv, TaskType, FlushType, FlushSkip, ThreadPC, FlushPC
  <2>3. WordType' /\ BufType' /\ TaskType' /\ RecordType'
    BY <1>20 DEF WordType, BufType, TaskType, RecordType, FlushSkip
  <2> QED
    BY <2>1, <2>2, <2>3
<1>21. ASSUME NEW f \in Flushers, FlushPrep(f)
      PROVE TypeInv'
  <2>1. BufType'
    BY <1>21 DEF BufType, FlushType, FlushPrep, Captured, BufStates, Placed
  <2>2. FlushType'
    BY <1>21, SMTT(30) DEF FlushType, FlushPC, BufType, FlushPrep, Captured, BufStates, Placed
  <2>3. RecordType'
    <3>1. {p.rec : p \in data[cur[f]]} \subseteq Records
      BY <1>21 DEF BufType, FlushType, FlushPrep, Placed
    <3> QED
      BY <1>21, <3>1 DEF RecordType, FlushPrep
  <2>4. ControlInv'
    BY <1>21 DEF ControlInv, TaskType, FlushType, FlushPrep, Captured, BufStates, Placed, ThreadPC, FlushPC
  <2>5. WordType' /\ TaskType'
    BY <1>21 DEF WordType, TaskType, FlushPrep, Captured, BufStates, Placed
  <2> QED
    BY <2>1, <2>2, <2>3, <2>4, <2>5
<1>22. ASSUME NEW f \in Flushers, FlushWrite(f)
      PROVE TypeInv'
  <2>1. FlushType'
    BY <1>22 DEF FlushType, FlushPC, ControlInv, FlushWrite
  <2>2. RecordType'
    BY <1>22 DEF RecordType, FlushType, FlushWrite
  <2>3. ControlInv'
    BY <1>22 DEF ControlInv, TaskType, FlushType, FlushWrite, ThreadPC, FlushPC
  <2>4. WordType' /\ BufType' /\ TaskType'
    BY <1>22 DEF WordType, BufType, TaskType, FlushWrite
  <2> QED
    BY <2>1, <2>2, <2>3, <2>4
<1>23. ASSUME NEW f \in Flushers, FlushWriteFails(f)
      PROVE TypeInv'
  <2>1. FlushType'
    BY <1>23 DEF FlushType, FlushPC, FlushWriteFails
  <2>2. RecordType'
    BY <1>23 DEF RecordType, FlushType, FlushWriteFails
  <2>3. ControlInv'
    BY <1>23 DEF ControlInv, TaskType, FlushType, FlushWriteFails, ThreadPC, FlushPC
  <2>4. WordType' /\ BufType' /\ TaskType'
    BY <1>23 DEF WordType, BufType, TaskType, FlushWriteFails
  <2> QED
    BY <2>1, <2>2, <2>3, <2>4
<1>24. ASSUME NEW f \in Flushers, FlushSync(f)
      PROVE TypeInv'
  <2>1. FlushType'
    BY <1>24 DEF FlushType, FlushPC, FlushSync, AtSync
  <2>2. RecordType'
    BY <1>24 DEF RecordType, FlushSync, AtSync
  <2>3. ControlInv'
    BY <1>24 DEF ControlInv, TaskType, FlushType, FlushSync, AtSync, ThreadPC, FlushPC
  <2>4. WordType' /\ BufType' /\ TaskType'
    BY <1>24 DEF WordType, BufType, TaskType, FlushSync, AtSync
  <2> QED
    BY <2>1, <2>2, <2>3, <2>4
<1>25. ASSUME NEW f \in Flushers, FlushSyncFails(f)
      PROVE TypeInv'
  <2>1. FlushType'
    BY <1>25 DEF FlushType, FlushPC, FlushSyncFails, AtSync
  <2>2. ControlInv'
    BY <1>25 DEF ControlInv, TaskType, FlushType, FlushSyncFails, AtSync, ThreadPC, FlushPC
  <2>3. WordType' /\ BufType' /\ TaskType' /\ RecordType'
    BY <1>25 DEF WordType, BufType, TaskType, RecordType, FlushSyncFails, AtSync
  <2> QED
    BY <2>1, <2>2, <2>3
<1>26. ASSUME NEW f \in Flushers, FlushOpen(f)
      PROVE TypeInv'
  <2>1. WordType'
    BY <1>26 DEF WordType, FlushOpen, OpenEntry, BufStates, Jobs
  <2>2. BufType'
    BY <1>26 DEF BufType, WordType, FlushOpen, OpenEntry, BufStates, Jobs
  <2>3. FlushType'
    BY <1>26 DEF FlushType, FlushPC, Jobs, FlushOpen, OpenEntry, BufStates
  <2>4. RecordType'
    BY <1>26 DEF RecordType, FlushType, Jobs, FlushOpen, OpenEntry, BufStates
  <2>5. ControlInv'
    BY <1>26 DEF ControlInv, TaskType, FlushType, FlushOpen, OpenEntry, BufStates, Jobs, ThreadPC, FlushPC
  <2>6. TaskType'
    BY <1>26 DEF TaskType, FlushOpen, OpenEntry, BufStates, Jobs
  <2> QED
    BY <2>1, <2>2, <2>3, <2>4, <2>5, <2>6
<1>27. ASSUME NEW f \in Flushers, StopOpen(f)
      PROVE TypeInv'
  <2>1. WordType'
    BY <1>27 DEF WordType, StopOpen, OpenEntry, BufStates
  <2>2. BufType'
    BY <1>27 DEF BufType, WordType, StopOpen, OpenEntry, BufStates
  <2>3. FlushType'
    BY <1>27 DEF FlushType, FlushPC, StopOpen, OpenEntry, BufStates
  <2>4. ControlInv'
    BY <1>27 DEF ControlInv, TaskType, FlushType, StopOpen, OpenEntry, BufStates, ThreadPC, FlushPC
  <2>5. TaskType' /\ RecordType'
    BY <1>27 DEF TaskType, RecordType, StopOpen, OpenEntry, BufStates
  <2> QED
    BY <2>1, <2>2, <2>3, <2>4, <2>5
<1>28. ASSUME NEW f \in Flushers, FlushPanics(f)
      PROVE TypeInv'
  <2>1. BufType'
    BY <1>28 DEF BufType, FlushPanics, OpenPanics
  <2>2. FlushType'
    BY <1>28 DEF FlushType, FlushPC, FlushPanics, OpenPanics
  <2>3. ControlInv'
    BY <1>28 DEF ControlInv, TaskType, FlushType, FlushPanics, OpenPanics, ThreadPC, FlushPC
  <2>4. WordType' /\ TaskType' /\ RecordType'
    BY <1>28 DEF WordType, TaskType, RecordType, FlushPanics, OpenPanics
  <2> QED
    BY <2>1, <2>2, <2>3, <2>4
<1>29. ASSUME NEW f \in Flushers, StopFlush(f)
      PROVE TypeInv'
  <2>1. FlushType'
    BY <1>29 DEF FlushType, FlushPC, WordType, RecordType, StopFlush, BeginFlush, Jobs
  <2>2. ControlInv'
    BY <1>29 DEF ControlInv, TaskType, FlushType, StopFlush, BeginFlush, Jobs, ThreadPC, FlushPC
  <2>3. WordType' /\ BufType' /\ TaskType' /\ RecordType'
    BY <1>29 DEF WordType, BufType, TaskType, RecordType, StopFlush, BeginFlush, Jobs
  <2> QED
    BY <2>1, <2>2, <2>3
<1>30. CASE UNCHANGED vars
  BY <1>30 DEF vars, WordType, BufType, TaskType, FlushType, RecordType, ControlInv
<1> QED
  BY <1>1, <1>2, <1>3, <1>4, <1>5, <1>6, <1>7, <1>8, <1>9, <1>10, <1>11, <1>12, <1>13, <1>14, <1>15, <1>16, <1>17, <1>18, <1>19, <1>20, <1>21, <1>22, <1>23, <1>24, <1>25, <1>26, <1>27, <1>28, <1>29, <1>30 DEF Next, ThreadStep, FlushStep

LEMMA TypeInit == Init => TypeInv
<1> SUFFICES ASSUME Init PROVE TypeInv
  OBVIOUS
<1>1. WordType /\ BufType /\ TaskType /\ FlushType
  BY Consts DEF Init, WordType, BufType, TaskType, FlushType, BufStates, ThreadPC, FlushPC,
                Reservations, Jobs, NoRes
<1>2. RecordType
  <2>1. lapped \in BOOLEAN
    BY DEF Init
  <2>2. nrec \in 0..MaxRec
    BY Consts DEF Init
  <2> QED
    BY <2>1, <2>2 DEF Init, RecordType
<1>3. ControlInv
  BY Consts DEF Init, ControlInv
<1> QED
  BY <1>1, <1>2, <1>3 DEF TypeInv, TypeOK

\* Every reachable state of the journal is type correct, with any number of
\* tasks, buffers and records, and with failures.
THEOREM TypeCorrect == Spec => []TypeOK
<1>1. Init => TypeInv
  BY TypeInit
<1>2. TypeInv /\ [Next]_vars => TypeInv'
  BY TypeStep
<1>3. TypeInv => TypeOK
  BY DEF TypeInv
<1> QED
  BY <1>1, <1>2, <1>3, PTL DEF Spec

-----------------------------------------------------------------------------
HIDE DEF Buffers, Records, Closed, Outstanding

\* At most one task flushes at a time, reservations use the fast path, and
\* neither the device nor a commit fails: volmountd holds its volume lock
\* around trans_commit and around the flush of stop_volume.
OneFlusher ==
  /\ \A f, g \in Flushers : f = g
  /\ ~UseSlowpath /\ ~UseStop /\ ~WriteErrors /\ ~CommitErrors

\* The part of a flush in which the open buffer still has to be captured.
Unprepared(f) ==
  \/ fpc[f] \in {"idle", "close", "drain", "closing", "submit"}
  \/ fpc[f] = "prep" /\ cur[f] <= idx
  \/ fpc[f] = "write" /\ cur[f] < idx

\* What the phase of the flush says about the word and the open buffer.
PhaseInv(f) ==
  /\ ~job[f].stop
  /\ fpc[f] \in {"idle", "close", "drain", "closing", "submit", "prep",
                 "write", "open", "panicked"}
  /\ fpc[f] \notin {"idle", "panicked"} => job[f].old = idx
  /\ IF fpc[f] \in {"idle", "close"} THEN offset <= BufSize ELSE offset = Closed
  /\ fpc[f] = "drain" => fin[f] <= BufSize
  /\ fpc[f] # "write" => cap[f] = {}
  /\ fpc[f] \in {"idle", "close", "drain", "closing"} =>
       bstate[idx] \in {"Accepting", "WriteSubmitted"}
  /\ fpc[f] = "submit" => bstate[idx] \in {"Closing", "WriteSubmitted"}
  /\ Unprepared(f) /\ fpc[f] \in {"prep", "write"} => bstate[idx] = "WriteSubmitted"

\* Reservations are held in the open buffer only, before the drain is over,
\* inside what is or will be its data_end.
HolderInv ==
  \A t \in Threads : tpc[t] \in Outstanding =>
    /\ res[t].idx = idx
    /\ tpc[t] = "filled" => PlacedBy(t) \in data[idx]
    /\ res[t].off + res[t].len <= offset
    /\ \A f \in Flushers :
         /\ fpc[f] \in {"idle", "close", "drain"}
         /\ fpc[f] = "drain" => res[t].off + res[t].len <= fin[f]

\* Where the open entry ends, as far as the flush knows.
EndOf(f) ==
  IF fpc[f] \in {"idle", "close"} THEN offset
  ELSE IF fpc[f] = "drain" THEN fin[f] ELSE dataEnd[idx]

InOpen(f, r) == \E p \in data[idx] : p.rec = r /\ p.off + p.len <= EndOf(f)

\* Every committed record is on the device, on its way, or in the part of the
\* open buffer that this or the next flush will capture.
CommittedInv(f) ==
  \A r \in committed : r \in disk \/ r \in cap[f] \/ (Unprepared(f) /\ InOpen(f, r))

\* Conversely a record that lies in a buffer is committed or about to be.
DataInv ==
  \A i \in Buffers : \A p \in data[i] :
    \/ p.rec \in committed
    \/ \E t \in Threads : tpc[t] = "filled" /\ res[t].rec = p.rec

AckInv ==
  /\ acked \subseteq durable
  /\ durable \subseteq disk
  /\ disk \subseteq committed
  /\ \A f \in Flushers :
       /\ cap[f] \subseteq committed
       /\ job[f].snap \subseteq committed
       /\ fpc[f] = "open" => job[f].snap \subseteq durable

FastOnly ==
  \A t \in Threads : tpc[t] \in {"idle", "reserved", "held", "filled", "check", "submit"}

JournalInv ==
  /\ TypeInv
  /\ FastOnly
  /\ CountIsOutstanding
  /\ \A f \in Flushers : PhaseInv(f)
  /\ \A f \in Flushers : CommittedInv(f)
  /\ HolderInv
  /\ DataInv
  /\ AckInv

-----------------------------------------------------------------------------
USE DEF Outstanding

\* The steps that OneFlusher leaves.
FastNext ==
  \/ \E t \in Threads :
       \/ \E n \in ReqSizes : ReserveFast(t, n)
       \/ ReadSeq(t) \/ AddEntry(t) \/ Put(t) \/ PutCheck(t) \/ PutSubmit(t)
  \/ \E f \in Flushers :
       \/ FlushStart(f, FALSE) \/ FlushClose(f) \/ FlushDrain(f) \/ FlushClosing(f)
       \/ FlushSubmit(f) \/ FlushSkip(f) \/ FlushPrep(f) \/ FlushWrite(f)
       \/ FlushSync(f) \/ FlushOpen(f) \/ FlushPanics(f)
  \/ UNCHANGED vars

LEMMA FastSteps ==
  ASSUME OneFlusher, JournalInv, [Next]_vars PROVE FastNext
BY DEF OneFlusher, JournalInv, FastOnly, PhaseInv, Next, ThreadStep, FlushStep,
   CommitFails, ReserveSlow, SlowLock, CycleClose, CycleNoBucket, CycleOpen,
   SlowReserve, SlowRetry, FlushWriteFails, FlushSyncFails, StopOpen, StopFlush,
   FastNext

\* The holders of a buffer are finitely many, and a count of 0 says that there
\* is none: what wait_for_pending_drain relies on.
LEMMA HoldersFinite ==
  ASSUME NEW i \in Buffers PROVE IsFiniteSet(Holders(i))
BY ThreadAssumption, FS_Subset DEF Holders

\* Offsets and lengths are numbers.
LEMMA ResNat ==
  ASSUME TypeInv, NEW t \in Threads PROVE res[t].off \in Nat /\ res[t].len \in Nat
<1>1. res[t] \in Reservations
  BY DEF TypeInv, TypeOK, TaskType
<1>2. res[t].off \in 0..BufSize /\ res[t].len \in ReqSizes \cup {0}
  BY <1>1 DEF Reservations
<1>3. \A x \in (0..BufSize) \cup ReqSizes \cup {0} : x \in Nat
  BY Consts
<1> QED
  BY <1>2, <1>3

LEMMA PlacedNat ==
  ASSUME TypeInv, NEW i \in Buffers, NEW p \in data[i]
  PROVE  p.off \in Nat /\ p.len \in Nat
<1>1. p \in Placed
  BY DEF TypeInv, TypeOK, BufType
<1>2. p.off \in 0..BufSize /\ p.len \in ReqSizes
  BY <1>1 DEF Placed
<1>3. \A x \in (0..BufSize) \cup ReqSizes : x \in Nat
  BY Consts
<1> QED
  BY <1>2, <1>3

LEMMA DrainedMeansFree ==
  ASSUME CountIsOutstanding, NEW i \in Buffers, count[i] = 0
  PROVE  \A t \in Threads : tpc[t] \in Outstanding => res[t].idx # i
<1>1. Cardinality(Holders(i)) = 0 /\ IsFiniteSet(Holders(i))
  BY HoldersFinite DEF CountIsOutstanding
<1>2. Holders(i) = {}
  BY <1>1, FS_EmptySet
<1> QED
  BY <1>2 DEF Holders

\* The phases of the flush.
LEMMA PhaseStep ==
  ASSUME OneFlusher, JournalInv, FastNext PROVE (\A h \in Flushers : PhaseInv(h))'
<1> USE Consts, NextIdxType DEF JournalInv, TypeInv, TypeOK, wordVars, bufVars, resVars,
      flVars, devVars, obsVars, Goto, GotoF
<1>1. ASSUME NEW t \in Threads, NEW n \in ReqSizes, ReserveFast(t, n)
      PROVE (\A h \in Flushers : PhaseInv(h))'
  <2> USE DEF Buffers, Closed, Records
  <2>1. n \in 1..BufSize /\ offset + n <= BufSize /\ offset' = offset + n
    BY <1>1 DEF ReserveFast, Reserve, Fits, TakeSpace
  <2>2. UNCHANGED <<idx, bstate, fpc, job, fin, cur, cap>>
    BY <1>1 DEF ReserveFast, Reserve, TakeSpace
  <2>3. \A f \in Flushers : fpc[f] \in {"idle", "close"}
    BY <2>1 DEF PhaseInv, WordType
  <2> QED
    BY <2>1, <2>2, <2>3 DEF PhaseInv, Unprepared, WordType
<1>2. ASSUME NEW t \in Threads, ReadSeq(t)
      PROVE (\A h \in Flushers : PhaseInv(h))'
  BY <1>2 DEF OneFlusher, PhaseInv, Unprepared, WordType, BufType, FlushType, TaskType, ReadSeq
<1>3. ASSUME NEW t \in Threads, AddEntry(t)
      PROVE (\A h \in Flushers : PhaseInv(h))'
  BY <1>3 DEF OneFlusher, PhaseInv, Unprepared, WordType, BufType, FlushType, TaskType, AddEntry
<1>4. ASSUME NEW t \in Threads, Put(t)
      PROVE (\A h \in Flushers : PhaseInv(h))'
  BY <1>4 DEF OneFlusher, PhaseInv, Unprepared, WordType, BufType, FlushType, TaskType, Put, ReleaseCount
<1>5. ASSUME NEW t \in Threads, PutCheck(t)
      PROVE (\A h \in Flushers : PhaseInv(h))'
  BY <1>5 DEF OneFlusher, PhaseInv, Unprepared, WordType, BufType, FlushType, TaskType, PutCheck
<1>6. ASSUME NEW t \in Threads, PutSubmit(t)
      PROVE (\A h \in Flushers : PhaseInv(h))'
  BY <1>6 DEF OneFlusher, PhaseInv, Unprepared, WordType, BufType, FlushType, TaskType, PutSubmit
<1>7. ASSUME NEW f \in Flushers, FlushStart(f, FALSE)
      PROVE (\A h \in Flushers : PhaseInv(h))'
  BY <1>7 DEF OneFlusher, PhaseInv, Unprepared, WordType, BufType, FlushType, TaskType, FlushStart, BeginFlush
<1>8. ASSUME NEW f \in Flushers, FlushClose(f)
      PROVE (\A h \in Flushers : PhaseInv(h))'
  BY <1>8 DEF OneFlusher, PhaseInv, Unprepared, WordType, BufType, FlushType, TaskType, FlushClose, CloseEntry
<1>9. ASSUME NEW f \in Flushers, FlushDrain(f)
      PROVE (\A h \in Flushers : PhaseInv(h))'
  BY <1>9 DEF OneFlusher, PhaseInv, Unprepared, WordType, BufType, FlushType, TaskType, FlushDrain, SetDataEnd
<1>10. ASSUME NEW f \in Flushers, FlushClosing(f)
      PROVE (\A h \in Flushers : PhaseInv(h))'
  BY <1>10 DEF OneFlusher, PhaseInv, Unprepared, WordType, BufType, FlushType, TaskType, FlushClosing, Advance
<1>11. ASSUME NEW f \in Flushers, FlushSubmit(f)
      PROVE (\A h \in Flushers : PhaseInv(h))'
  BY <1>11 DEF OneFlusher, PhaseInv, Unprepared, WordType, BufType, FlushType, TaskType, FlushSubmit, Advance
<1>12. ASSUME NEW f \in Flushers, FlushSkip(f)
      PROVE (\A h \in Flushers : PhaseInv(h))'
  <2> USE DEF Buffers, Closed, Records
  <2> USE DEF WordType, FlushType
  <2>1. /\ \A g \in Flushers : g = f
        /\ fpc[f] = "prep" /\ cur[f] \in 0..NBuf /\ cur'[f] = cur[f] + 1
        /\ bstate[cur[f]] # "WriteSubmitted"
        /\ UNCHANGED <<offset, idx, bstate, fpc, job, fin, cap>>
    BY <1>12 DEF OneFlusher, FlushSkip
  <2>2. cur'[f] <= idx => cur[f] <= idx
    BY <2>1
  <2> QED
    BY <2>1, <2>2 DEF PhaseInv, Unprepared
<1>13. ASSUME NEW f \in Flushers, FlushPrep(f)
      PROVE (\A h \in Flushers : PhaseInv(h))'
  <2> USE DEF Buffers, Closed, Records
  <2> USE DEF WordType, FlushType, BufType
  <2>1. /\ \A g \in Flushers : g = f
        /\ fpc[f] = "prep" /\ cur[f] \in Buffers /\ fpc'[f] = "write"
        /\ bstate' = [bstate EXCEPT ![cur[f]] = "WriteDone"]
        /\ UNCHANGED <<offset, idx, job, fin, cur>>
    BY <1>13 DEF OneFlusher, FlushPrep
  <2>2. cur[f] < idx => cur[f] # idx /\ cur[f] <= idx
    <3>1. \A i, j \in Buffers : i < j => i # j /\ i <= j
      BY Consts
    <3> QED
      BY <2>1, <3>1
  <2>3. cur[f] # idx => bstate'[idx] = bstate[idx]
    BY <2>1
  <2> QED
    BY <2>1, <2>2, <2>3 DEF PhaseInv, Unprepared
<1>14. ASSUME NEW f \in Flushers, FlushWrite(f)
      PROVE (\A h \in Flushers : PhaseInv(h))'
  <2> USE DEF Buffers, Closed, Records
  <2> USE DEF WordType, FlushType
  <2>1. /\ \A g \in Flushers : g = f
        /\ fpc[f] = "write" /\ cur[f] \in 0..NBuf /\ cur'[f] = cur[f] + 1
        /\ fpc'[f] = "prep" /\ cap'[f] = {}
        /\ UNCHANGED <<offset, idx, bstate, job, fin>>
    BY <1>14 DEF OneFlusher, FlushWrite
  <2>2. cur'[f] <= idx => cur[f] < idx
    BY <2>1
  <2> QED
    BY <2>1, <2>2 DEF PhaseInv, Unprepared
<1>15. ASSUME NEW f \in Flushers, FlushSync(f)
      PROVE (\A h \in Flushers : PhaseInv(h))'
  BY <1>15 DEF OneFlusher, PhaseInv, Unprepared, WordType, BufType, FlushType, TaskType, FlushSync, AtSync
<1>16. ASSUME NEW f \in Flushers, FlushOpen(f)
      PROVE (\A h \in Flushers : PhaseInv(h))'
  BY <1>16 DEF OneFlusher, PhaseInv, Unprepared, WordType, BufType, FlushType, TaskType, FlushOpen, OpenEntry
<1>17. ASSUME NEW f \in Flushers, FlushPanics(f)
      PROVE (\A h \in Flushers : PhaseInv(h))'
  BY <1>17 DEF OneFlusher, PhaseInv, Unprepared, WordType, BufType, FlushType, TaskType, FlushPanics, OpenPanics
<1>18. CASE UNCHANGED vars
  BY <1>18 DEF OneFlusher, PhaseInv, Unprepared, WordType, BufType, FlushType, TaskType, vars
<1> QED
  BY <1>1, <1>2, <1>3, <1>4, <1>5, <1>6, <1>7, <1>8, <1>9, <1>10, <1>11, <1>12, <1>13, <1>14, <1>15, <1>16, <1>17, <1>18 DEF FastNext

\* Reservations stay inside the open entry.
LEMMA HolderStep ==
  ASSUME OneFlusher, JournalInv, FastNext PROVE HolderInv'
<1> USE Consts, NextIdxType DEF JournalInv, TypeInv, TypeOK, wordVars, bufVars, resVars,
      flVars, devVars, obsVars, Goto, GotoF
<1>1. ASSUME NEW t \in Threads, NEW n \in ReqSizes, ReserveFast(t, n)
      PROVE HolderInv'
  <2> USE DEF Buffers, Closed, Records
  <2>1. /\ n \in 1..BufSize /\ offset + n <= BufSize /\ offset' = offset + n
        /\ res' = [res EXCEPT ![t] = [rec |-> nrec + 1, idx |-> idx,
                                      off |-> offset, len |-> n]]
        /\ tpc' = [tpc EXCEPT ![t] = "reserved"]
        /\ UNCHANGED <<idx, data, rseq, fpc, fin>>
    BY <1>1 DEF ReserveFast, Reserve, Fits, TakeSpace
  <2>2. \A f \in Flushers : fpc[f] \in {"idle", "close"}
    BY <2>1 DEF PhaseInv, WordType
  <2>3. /\ res'[t].idx = idx /\ res'[t].off = offset /\ res'[t].len = n
        /\ tpc'[t] = "reserved"
        /\ \A u \in Threads \ {t} : res'[u] = res[u] /\ tpc'[u] = tpc[u]
    BY <2>1 DEF TaskType
  <2>4. \A u \in Threads : res[u].off \in Nat /\ res[u].len \in Nat
    BY ResNat
  <2>5. \A u \in Threads \ {t} : tpc[u] \in Outstanding =>
          /\ res[u].idx = idx /\ (tpc[u] = "filled" => PlacedBy(u) \in data[idx])
          /\ PlacedBy(u)' = PlacedBy(u)
          /\ res[u].off + res[u].len <= offset'
    <3> TAKE u \in Threads \ {t}
    <3> DEFINE e == res[u].off + res[u].len
    <3>1. tpc[u] \in Outstanding => e <= offset /\ res[u].idx = idx
            /\ (tpc[u] = "filled" => PlacedBy(u) \in data[idx])
      BY DEF HolderInv
    <3>2. e \in Nat
      BY <2>4
    <3>3. PlacedBy(u)' = PlacedBy(u)
      BY <2>1, <2>3 DEF PlacedBy
    <3>4. e <= offset => e <= offset'
      <4> HIDE DEF e
      <4> QED
        BY <2>1, <3>2 DEF WordType
    <3> QED
      BY <3>1, <3>3, <3>4
  <2> QED
    BY <2>1, <2>2, <2>3, <2>5 DEF HolderInv, WordType
<1>2. ASSUME NEW t \in Threads, ReadSeq(t)
      PROVE HolderInv'
  BY <1>2 DEF HolderInv, PhaseInv, PlacedBy, Reservations, WordType, BufType, FlushType, TaskType, ReadSeq
<1>3. ASSUME NEW t \in Threads, AddEntry(t)
      PROVE HolderInv'
  BY <1>3 DEF HolderInv, PhaseInv, PlacedBy, Reservations, WordType, BufType, FlushType, TaskType, AddEntry
<1>4. ASSUME NEW t \in Threads, Put(t)
      PROVE HolderInv'
  BY <1>4 DEF HolderInv, PhaseInv, PlacedBy, Reservations, WordType, BufType, FlushType, TaskType, Put, ReleaseCount
<1>5. ASSUME NEW t \in Threads, PutCheck(t)
      PROVE HolderInv'
  BY <1>5 DEF HolderInv, PhaseInv, PlacedBy, Reservations, WordType, BufType, FlushType, TaskType, PutCheck
<1>6. ASSUME NEW t \in Threads, PutSubmit(t)
      PROVE HolderInv'
  BY <1>6 DEF HolderInv, PhaseInv, PlacedBy, Reservations, WordType, BufType, FlushType, TaskType, PutSubmit
<1>7. ASSUME NEW f \in Flushers, FlushStart(f, FALSE)
      PROVE HolderInv'
  BY <1>7 DEF HolderInv, PhaseInv, PlacedBy, Reservations, WordType, BufType, FlushType, TaskType, FlushStart, BeginFlush
<1>8. ASSUME NEW f \in Flushers, FlushClose(f)
      PROVE HolderInv'
  <2> USE DEF Buffers, Closed, Records
  <2>1. /\ \A g \in Flushers : g = f
        /\ fpc[f] = "close" /\ offset' = Closed /\ fin'[f] = offset
        /\ fpc'[f] = "drain"
        /\ UNCHANGED <<idx, data, rseq, res, tpc>>
    BY <1>8 DEF OneFlusher, FlushClose, CloseEntry, FlushType
  <2>2. offset <= BufSize
    BY <2>1 DEF PhaseInv
  <2>3. ASSUME NEW u \in Threads, tpc[u] \in Outstanding
        PROVE  /\ res[u].idx = idx
               /\ tpc[u] = "filled" => PlacedBy(u) \in data[idx]
               /\ res[u].off + res[u].len <= offset
    BY <2>3 DEF HolderInv
  <2>4. ASSUME NEW u \in Threads PROVE PlacedBy(u)' = PlacedBy(u)
    BY <2>1 DEF PlacedBy
  <2>5. offset <= Closed
    BY <2>2 DEF WordType
  <2>6. \A u \in Threads : res[u].off \in Nat /\ res[u].len \in Nat
    BY ResNat
  <2>7. \A u \in Threads : tpc[u] \in Outstanding => res[u].off + res[u].len <= Closed
    BY <2>2, <2>3, <2>5, <2>6 DEF WordType
  <2> QED
    BY <2>1, <2>3, <2>4, <2>7 DEF HolderInv
<1>9. ASSUME NEW f \in Flushers, FlushDrain(f)
      PROVE HolderInv'
  <2> USE DEF Buffers, Closed, Records
  <2>1. fpc[f] = "drain" /\ job[f].old = idx /\ count[idx] = 0
    BY <1>9 DEF FlushDrain, PhaseInv
  <2>2. \A t \in Threads : tpc[t] \notin Outstanding
    BY <2>1, DrainedMeansFree DEF HolderInv, WordType
  <2> QED
    BY <1>9, <2>2 DEF HolderInv, FlushDrain, SetDataEnd
<1>10. ASSUME NEW f \in Flushers, FlushClosing(f)
      PROVE HolderInv'
  BY <1>10 DEF HolderInv, PhaseInv, PlacedBy, Reservations, WordType, BufType, FlushType, TaskType, FlushClosing, Advance
<1>11. ASSUME NEW f \in Flushers, FlushSubmit(f)
      PROVE HolderInv'
  BY <1>11 DEF HolderInv, PhaseInv, PlacedBy, Reservations, WordType, BufType, FlushType, TaskType, FlushSubmit, Advance
<1>12. ASSUME NEW f \in Flushers, FlushSkip(f)
      PROVE HolderInv'
  BY <1>12 DEF HolderInv, PhaseInv, PlacedBy, Reservations, WordType, BufType, FlushType, TaskType, FlushSkip
<1>13. ASSUME NEW f \in Flushers, FlushPrep(f)
      PROVE HolderInv'
  BY <1>13 DEF HolderInv, PhaseInv, PlacedBy, Reservations, WordType, BufType, FlushType, TaskType, FlushPrep
<1>14. ASSUME NEW f \in Flushers, FlushWrite(f)
      PROVE HolderInv'
  BY <1>14 DEF HolderInv, PhaseInv, PlacedBy, Reservations, WordType, BufType, FlushType, TaskType, FlushWrite
<1>15. ASSUME NEW f \in Flushers, FlushSync(f)
      PROVE HolderInv'
  BY <1>15 DEF HolderInv, PhaseInv, PlacedBy, Reservations, WordType, BufType, FlushType, TaskType, FlushSync, AtSync
<1>16. ASSUME NEW f \in Flushers, FlushOpen(f)
      PROVE HolderInv'
  BY <1>16 DEF HolderInv, PhaseInv, PlacedBy, Reservations, WordType, BufType, FlushType, TaskType, FlushOpen, OpenEntry
<1>17. ASSUME NEW f \in Flushers, FlushPanics(f)
      PROVE HolderInv'
  BY <1>17 DEF HolderInv, PhaseInv, PlacedBy, Reservations, WordType, BufType, FlushType, TaskType, FlushPanics, OpenPanics
<1>18. CASE UNCHANGED vars
  BY <1>18 DEF HolderInv, PhaseInv, PlacedBy, Reservations, WordType, BufType, FlushType, TaskType, vars
<1> QED
  BY <1>1, <1>2, <1>3, <1>4, <1>5, <1>6, <1>7, <1>8, <1>9, <1>10, <1>11, <1>12, <1>13, <1>14, <1>15, <1>16, <1>17, <1>18 DEF FastNext

\* The counts are exact.
LEMMA CountStep ==
  ASSUME OneFlusher, JournalInv, FastNext PROVE CountIsOutstanding'
<1> USE Consts, NextIdxType DEF JournalInv, TypeInv, TypeOK, wordVars, bufVars, resVars,
      flVars, devVars, obsVars, Goto, GotoF
<1>1. ASSUME NEW t \in Threads, NEW n \in ReqSizes, ReserveFast(t, n)
      PROVE CountIsOutstanding'
  <2> USE DEF Buffers, Closed, Records
  <2>1. /\ count[idx] < CountMax /\ count' = [count EXCEPT ![idx] = @ + 1]
        /\ tpc[t] = "idle" /\ tpc' = [tpc EXCEPT ![t] = "reserved"]
        /\ res' = [res EXCEPT ![t] = [rec |-> nrec + 1, idx |-> idx,
                                      off |-> offset, len |-> n]]
    BY <1>1 DEF ReserveFast, Reserve, Fits, TakeSpace
  <2>2. \A i \in Buffers : Holders(i)' = IF i = idx THEN Holders(i) \cup {t} ELSE Holders(i)
    BY <2>1 DEF Holders, TaskType
  <2>3. t \notin Holders(idx)
    BY <2>1 DEF Holders
  <2>4. Cardinality(Holders(idx) \cup {t}) = Cardinality(Holders(idx)) + 1
    BY <2>3, HoldersFinite, FS_AddElement DEF WordType
  <2> QED
    BY <2>1, <2>2, <2>4 DEF CountIsOutstanding, WordType
<1>2. ASSUME NEW t \in Threads, ReadSeq(t)
      PROVE CountIsOutstanding'
  BY <1>2 DEF CountIsOutstanding, Holders, HolderInv, PhaseInv, WordType, TaskType, ReadSeq
<1>3. ASSUME NEW t \in Threads, AddEntry(t)
      PROVE CountIsOutstanding'
  BY <1>3 DEF CountIsOutstanding, Holders, HolderInv, PhaseInv, WordType, TaskType, AddEntry
<1>4. ASSUME NEW t \in Threads, Put(t)
      PROVE CountIsOutstanding'
  <2> USE DEF Buffers, Closed, Records
  <2> DEFINE i == res[t].idx
  <2>1. /\ tpc[t] = "filled" /\ tpc'[t] \in {"check", "idle"} /\ i \in Buffers
        /\ \A u \in Threads \ {t} : tpc'[u] = tpc[u]
        /\ res' = res
    BY <1>4 DEF Put, TaskType, Reservations
  <2>2. t \in Holders(i)
    BY <2>1 DEF Holders
  <2>3. Cardinality(Holders(i) \ {t}) = Cardinality(Holders(i)) - 1
    BY <2>1, <2>2, HoldersFinite, FS_RemoveElement
  <2>4. count[i] \in Nat /\ count[i] # 0
    <3>1. Holders(i) # {} /\ IsFiniteSet(Holders(i))
      BY <2>1, <2>2, HoldersFinite
    <3> QED
      BY <2>1, <3>1, FS_EmptySet DEF CountIsOutstanding, WordType
  <2>5. \A j \in Buffers : count'[j] = IF j = i THEN count[j] - 1 ELSE count[j]
    <3>1. \A j \in Buffers : j > i => i \in i..(j - 1)
      BY <2>1
    <3> QED
      BY <1>4, <2>1, <2>4, <3>1 DEF Put, ReleaseCount
  <2>6. \A j \in Buffers : Holders(j)' = IF j = i THEN Holders(j) \ {t} ELSE Holders(j)
    BY <2>1 DEF Holders
  <2> QED
    BY <2>1, <2>3, <2>5, <2>6 DEF CountIsOutstanding
<1>5. ASSUME NEW t \in Threads, PutCheck(t)
      PROVE CountIsOutstanding'
  BY <1>5 DEF CountIsOutstanding, Holders, HolderInv, PhaseInv, WordType, TaskType, PutCheck
<1>6. ASSUME NEW t \in Threads, PutSubmit(t)
      PROVE CountIsOutstanding'
  BY <1>6 DEF CountIsOutstanding, Holders, HolderInv, PhaseInv, WordType, TaskType, PutSubmit
<1>7. ASSUME NEW f \in Flushers, FlushStart(f, FALSE)
      PROVE CountIsOutstanding'
  BY <1>7 DEF CountIsOutstanding, Holders, HolderInv, PhaseInv, WordType, TaskType, FlushStart, BeginFlush
<1>8. ASSUME NEW f \in Flushers, FlushClose(f)
      PROVE CountIsOutstanding'
  BY <1>8 DEF CountIsOutstanding, Holders, HolderInv, PhaseInv, WordType, TaskType, FlushClose, CloseEntry
<1>9. ASSUME NEW f \in Flushers, FlushDrain(f)
      PROVE CountIsOutstanding'
  BY <1>9 DEF CountIsOutstanding, Holders, HolderInv, PhaseInv, WordType, TaskType, FlushDrain, SetDataEnd
<1>10. ASSUME NEW f \in Flushers, FlushClosing(f)
      PROVE CountIsOutstanding'
  BY <1>10 DEF CountIsOutstanding, Holders, HolderInv, PhaseInv, WordType, TaskType, FlushClosing, Advance
<1>11. ASSUME NEW f \in Flushers, FlushSubmit(f)
      PROVE CountIsOutstanding'
  BY <1>11 DEF CountIsOutstanding, Holders, HolderInv, PhaseInv, WordType, TaskType, FlushSubmit, Advance
<1>12. ASSUME NEW f \in Flushers, FlushSkip(f)
      PROVE CountIsOutstanding'
  BY <1>12 DEF CountIsOutstanding, Holders, HolderInv, PhaseInv, WordType, TaskType, FlushSkip
<1>13. ASSUME NEW f \in Flushers, FlushPrep(f)
      PROVE CountIsOutstanding'
  BY <1>13 DEF CountIsOutstanding, Holders, HolderInv, PhaseInv, WordType, TaskType, FlushPrep
<1>14. ASSUME NEW f \in Flushers, FlushWrite(f)
      PROVE CountIsOutstanding'
  BY <1>14 DEF CountIsOutstanding, Holders, HolderInv, PhaseInv, WordType, TaskType, FlushWrite
<1>15. ASSUME NEW f \in Flushers, FlushSync(f)
      PROVE CountIsOutstanding'
  BY <1>15 DEF CountIsOutstanding, Holders, HolderInv, PhaseInv, WordType, TaskType, FlushSync, AtSync
<1>16. ASSUME NEW f \in Flushers, FlushOpen(f)
      PROVE CountIsOutstanding'
  <2> USE DEF Buffers, Closed, Records
  <2>1. \A t \in Threads : tpc[t] \notin Outstanding
    BY <1>16 DEF FlushOpen, HolderInv
  <2>2. \A i \in Buffers : Holders(i) = {} /\ Holders(i)' = {}
    BY <1>16, <2>1 DEF Holders, FlushOpen
  <2>3. \A i \in Buffers : count[i] = 0 /\ count'[i] = 0
    BY <1>16, <2>2, FS_EmptySet DEF CountIsOutstanding, FlushOpen, OpenEntry, WordType
  <2> QED
    BY <2>2, <2>3, FS_EmptySet DEF CountIsOutstanding
<1>17. ASSUME NEW f \in Flushers, FlushPanics(f)
      PROVE CountIsOutstanding'
  BY <1>17 DEF CountIsOutstanding, Holders, HolderInv, PhaseInv, WordType, TaskType, FlushPanics, OpenPanics
<1>18. CASE UNCHANGED vars
  BY <1>18 DEF CountIsOutstanding, Holders, HolderInv, PhaseInv, WordType, TaskType, vars
<1> QED
  BY <1>1, <1>2, <1>3, <1>4, <1>5, <1>6, <1>7, <1>8, <1>9, <1>10, <1>11, <1>12, <1>13, <1>14, <1>15, <1>16, <1>17, <1>18 DEF FastNext

\* Committed records are not lost.
LEMMA CommittedStep ==
  ASSUME OneFlusher, JournalInv, FastNext PROVE (\A h \in Flushers : CommittedInv(h))'
<1> USE Consts, NextIdxType DEF JournalInv, TypeInv, TypeOK, wordVars, bufVars, resVars,
      flVars, devVars, obsVars, Goto, GotoF
<1>1. ASSUME NEW t \in Threads, NEW n \in ReqSizes, ReserveFast(t, n)
      PROVE (\A h \in Flushers : CommittedInv(h))'
  <2> USE DEF Buffers, Closed, Records
  <2>1. /\ n \in 1..BufSize /\ offset + n <= BufSize /\ offset' = offset + n
        /\ UNCHANGED <<idx, data, dataEnd, fpc, fin, cur, cap, disk, committed>>
    BY <1>1 DEF ReserveFast, Reserve, Fits, TakeSpace
  <2>2. \A f \in Flushers : fpc[f] \in {"idle", "close"}
    BY <2>1 DEF PhaseInv, WordType
  <2>3. \A p \in data[idx] : p.off \in Nat /\ p.len \in Nat
    BY PlacedNat DEF WordType
  <2>4. \A p \in data[idx] : p.off + p.len <= offset => p.off + p.len <= offset'
    BY <2>1, <2>3 DEF WordType
  <2> QED
    BY <2>1, <2>2, <2>4 DEF CommittedInv, InOpen, EndOf, Unprepared
<1>2. ASSUME NEW t \in Threads, ReadSeq(t)
      PROVE (\A h \in Flushers : CommittedInv(h))'
  BY <1>2 DEF OneFlusher, CommittedInv, InOpen, EndOf, Unprepared, HolderInv, PhaseInv, WordType, BufType, FlushType, TaskType, ReadSeq
<1>3. ASSUME NEW t \in Threads, AddEntry(t)
      PROVE (\A h \in Flushers : CommittedInv(h))'
  BY <1>3 DEF OneFlusher, CommittedInv, InOpen, EndOf, Unprepared, HolderInv, PhaseInv, WordType, BufType, FlushType, TaskType, AddEntry
<1>4. ASSUME NEW t \in Threads, Put(t)
      PROVE (\A h \in Flushers : CommittedInv(h))'
  <2> USE DEF Buffers, Closed, Records
  <2>1. /\ tpc[t] = "filled" /\ committed' = committed \cup {res[t].rec}
        /\ UNCHANGED <<offset, idx, data, dataEnd, fpc, fin, cur, cap, disk>>
    BY <1>4 DEF Put, ReleaseCount
  <2>2. /\ PlacedBy(t) \in data[idx]
        /\ PlacedBy(t).rec = res[t].rec
        /\ PlacedBy(t).off + PlacedBy(t).len = res[t].off + res[t].len
    BY <2>1 DEF HolderInv, PlacedBy
  <2>3. \A f \in Flushers : Unprepared(f) /\ InOpen(f, res[t].rec)
    BY <2>1, <2>2 DEF HolderInv, Unprepared, InOpen, EndOf
  <2> QED
    BY <2>1, <2>3 DEF CommittedInv, InOpen, EndOf, Unprepared
<1>5. ASSUME NEW t \in Threads, PutCheck(t)
      PROVE (\A h \in Flushers : CommittedInv(h))'
  BY <1>5 DEF OneFlusher, CommittedInv, InOpen, EndOf, Unprepared, HolderInv, PhaseInv, WordType, BufType, FlushType, TaskType, PutCheck
<1>6. ASSUME NEW t \in Threads, PutSubmit(t)
      PROVE (\A h \in Flushers : CommittedInv(h))'
  BY <1>6 DEF OneFlusher, CommittedInv, InOpen, EndOf, Unprepared, HolderInv, PhaseInv, WordType, BufType, FlushType, TaskType, PutSubmit
<1>7. ASSUME NEW f \in Flushers, FlushStart(f, FALSE)
      PROVE (\A h \in Flushers : CommittedInv(h))'
  BY <1>7 DEF OneFlusher, CommittedInv, InOpen, EndOf, Unprepared, HolderInv, PhaseInv, WordType, BufType, FlushType, TaskType, FlushStart, BeginFlush
<1>8. ASSUME NEW f \in Flushers, FlushClose(f)
      PROVE (\A h \in Flushers : CommittedInv(h))'
  BY <1>8 DEF OneFlusher, CommittedInv, InOpen, EndOf, Unprepared, HolderInv, PhaseInv, WordType, BufType, FlushType, TaskType, FlushClose, CloseEntry
<1>9. ASSUME NEW f \in Flushers, FlushDrain(f)
      PROVE (\A h \in Flushers : CommittedInv(h))'
  <2> USE DEF Buffers, Closed, Records
  <2>1. /\ \A g \in Flushers : g = f
        /\ fpc[f] = "drain" /\ fpc'[f] = "closing"
        /\ fin[f] \in 0..BufSize /\ job[f].old = idx
        /\ UNCHANGED <<offset, idx, data, fin, cur, cap, disk, committed>>
    BY <1>9 DEF OneFlusher, FlushDrain, SetDataEnd, PhaseInv, FlushType
  <2>2. dataEnd'[idx] = fin[f]
    BY <1>9, <2>1 DEF FlushDrain, SetDataEnd, Min2, BufType, WordType
  <2> QED
    BY <2>1, <2>2 DEF CommittedInv, InOpen, EndOf, Unprepared
<1>10. ASSUME NEW f \in Flushers, FlushClosing(f)
      PROVE (\A h \in Flushers : CommittedInv(h))'
  BY <1>10 DEF OneFlusher, CommittedInv, InOpen, EndOf, Unprepared, HolderInv, PhaseInv, WordType, BufType, FlushType, TaskType, FlushClosing, Advance
<1>11. ASSUME NEW f \in Flushers, FlushSubmit(f)
      PROVE (\A h \in Flushers : CommittedInv(h))'
  <2> USE DEF Buffers, Closed, Records
  <2>1. /\ \A g \in Flushers : g = f
        /\ fpc[f] = "submit" /\ fpc'[f] = "prep" /\ cur'[f] = 0 /\ 0 <= idx
        /\ UNCHANGED <<offset, idx, data, dataEnd, fin, cap, disk, committed>>
    BY <1>11 DEF OneFlusher, FlushSubmit, FlushType, WordType
  <2> QED
    BY <2>1 DEF CommittedInv, InOpen, EndOf, Unprepared
<1>12. ASSUME NEW f \in Flushers, FlushSkip(f)
      PROVE (\A h \in Flushers : CommittedInv(h))'
  <2> USE DEF Buffers, Closed, Records
  <2>1. /\ \A g \in Flushers : g = f
        /\ fpc[f] = "prep" /\ cur[f] \in 0..NBuf /\ cur'[f] = cur[f] + 1
        /\ bstate[cur[f]] # "WriteSubmitted"
        /\ UNCHANGED <<offset, idx, data, dataEnd, fpc, fin, cap, disk, committed>>
    BY <1>12 DEF OneFlusher, FlushSkip, FlushType
  <2>2. cur[f] <= idx => cur'[f] <= idx
    BY <2>1 DEF PhaseInv, Unprepared, WordType
  <2> QED
    BY <2>1, <2>2 DEF CommittedInv, InOpen, EndOf, Unprepared
<1>13. ASSUME NEW f \in Flushers, FlushPrep(f)
      PROVE (\A h \in Flushers : CommittedInv(h))'
  <2> USE DEF Buffers, Closed, Records
  <2>1. /\ \A g \in Flushers : g = f
        /\ fpc[f] = "prep" /\ cur[f] \in 0..NBuf /\ fpc'[f] = "write"
        /\ cap[f] = {} /\ cap'[f] = Captured(cur[f])
        /\ UNCHANGED <<offset, idx, data, dataEnd, fin, cur, disk, committed>>
    BY <1>13 DEF OneFlusher, FlushPrep, FlushType, PhaseInv
  <2>2. \A r : cur[f] = idx /\ InOpen(f, r) => r \in cap'[f]
    BY <2>1 DEF InOpen, EndOf, Captured
  <2>3. cur[f] <= idx => cur[f] = idx \/ cur[f] < idx
    BY <2>1 DEF WordType
  <2> QED
    BY <2>1, <2>2, <2>3 DEF CommittedInv, InOpen, EndOf, Unprepared
<1>14. ASSUME NEW f \in Flushers, FlushWrite(f)
      PROVE (\A h \in Flushers : CommittedInv(h))'
  <2> USE DEF Buffers, Closed, Records
  <2>1. /\ \A g \in Flushers : g = f
        /\ fpc[f] = "write" /\ cur[f] \in 0..NBuf /\ cur'[f] = cur[f] + 1
        /\ fpc'[f] = "prep" /\ disk' = disk \cup cap[f]
        /\ UNCHANGED <<offset, idx, data, dataEnd, fin, committed>>
    BY <1>14 DEF OneFlusher, FlushWrite, FlushType
  <2>2. cur[f] < idx => cur'[f] <= idx
    BY <2>1 DEF WordType
  <2> QED
    BY <2>1, <2>2 DEF CommittedInv, InOpen, EndOf, Unprepared
<1>15. ASSUME NEW f \in Flushers, FlushSync(f)
      PROVE (\A h \in Flushers : CommittedInv(h))'
  <2> USE DEF Buffers, Closed, Records
  <2>1. /\ \A g \in Flushers : g = f
        /\ fpc[f] = "prep" /\ cur[f] = NBuf /\ cap[f] = {}
        /\ fpc'[f] = "open" /\ durable' = disk
        /\ UNCHANGED <<idx, data, cap, job, disk, committed, acked>>
    BY <1>15 DEF OneFlusher, FlushSync, AtSync, PhaseInv, FlushType
  <2>2. ~Unprepared(f)
    BY <2>1 DEF Unprepared, WordType
  <2>3. committed \subseteq disk
    BY <2>1, <2>2 DEF CommittedInv
  <2> QED
    BY <2>1, <2>3 DEF CommittedInv
<1>16. ASSUME NEW f \in Flushers, FlushOpen(f)
      PROVE (\A h \in Flushers : CommittedInv(h))'
  BY <1>16 DEF OneFlusher, CommittedInv, InOpen, EndOf, Unprepared, HolderInv, PhaseInv, WordType, BufType, FlushType, TaskType, FlushOpen, OpenEntry
<1>17. ASSUME NEW f \in Flushers, FlushPanics(f)
      PROVE (\A h \in Flushers : CommittedInv(h))'
  BY <1>17 DEF OneFlusher, CommittedInv, InOpen, EndOf, Unprepared, HolderInv, PhaseInv, WordType, BufType, FlushType, TaskType, FlushPanics, OpenPanics
<1>18. CASE UNCHANGED vars
  BY <1>18 DEF OneFlusher, CommittedInv, InOpen, EndOf, Unprepared, HolderInv, PhaseInv, WordType, BufType, FlushType, TaskType, vars
<1> QED
  BY <1>1, <1>2, <1>3, <1>4, <1>5, <1>6, <1>7, <1>8, <1>9, <1>10, <1>11, <1>12, <1>13, <1>14, <1>15, <1>16, <1>17, <1>18 DEF FastNext

\* Records in buffers are committed or about to be.
LEMMA DataStep ==
  ASSUME OneFlusher, JournalInv, FastNext PROVE DataInv'
<1> USE Consts, NextIdxType DEF JournalInv, TypeInv, TypeOK, wordVars, bufVars, resVars,
      flVars, devVars, obsVars, Goto, GotoF
<1>1. ASSUME NEW t \in Threads, NEW n \in ReqSizes, ReserveFast(t, n)
      PROVE DataInv'
  BY <1>1 DEF DataInv, HolderInv, WordType, BufType, TaskType, ReserveFast, Reserve, TakeSpace, Fits
<1>2. ASSUME NEW t \in Threads, ReadSeq(t)
      PROVE DataInv'
  BY <1>2 DEF DataInv, HolderInv, WordType, BufType, TaskType, ReadSeq
<1>3. ASSUME NEW t \in Threads, AddEntry(t)
      PROVE DataInv'
  <2> USE DEF Buffers, Closed, Records
  <2>1. /\ tpc'[t] = "filled" /\ tpc[t] = "held" /\ res[t].idx \in Buffers
        /\ data' = [data EXCEPT ![res[t].idx] = @ \cup {PlacedBy(t)}]
        /\ UNCHANGED <<res, committed>>
        /\ \A u \in Threads \ {t} : tpc'[u] = tpc[u]
    BY <1>3 DEF AddEntry, TaskType, Reservations
  <2>2. PlacedBy(t).rec = res[t].rec
    BY DEF PlacedBy
  <2>3. \A i \in Buffers : \A p \in data'[i] : p \in data[i] \/ p = PlacedBy(t)
    BY <2>1 DEF BufType
  <2> QED
    BY <2>1, <2>2, <2>3 DEF DataInv
<1>4. ASSUME NEW t \in Threads, Put(t)
      PROVE DataInv'
  BY <1>4 DEF DataInv, HolderInv, WordType, BufType, TaskType, Put, ReleaseCount
<1>5. ASSUME NEW t \in Threads, PutCheck(t)
      PROVE DataInv'
  BY <1>5 DEF DataInv, HolderInv, WordType, BufType, TaskType, PutCheck
<1>6. ASSUME NEW t \in Threads, PutSubmit(t)
      PROVE DataInv'
  BY <1>6 DEF DataInv, HolderInv, WordType, BufType, TaskType, PutSubmit
<1>7. ASSUME NEW f \in Flushers, FlushStart(f, FALSE)
      PROVE DataInv'
  BY <1>7 DEF DataInv, HolderInv, WordType, BufType, TaskType, FlushStart, BeginFlush
<1>8. ASSUME NEW f \in Flushers, FlushClose(f)
      PROVE DataInv'
  BY <1>8 DEF DataInv, HolderInv, WordType, BufType, TaskType, FlushClose, CloseEntry
<1>9. ASSUME NEW f \in Flushers, FlushDrain(f)
      PROVE DataInv'
  BY <1>9 DEF DataInv, HolderInv, WordType, BufType, TaskType, FlushDrain, SetDataEnd
<1>10. ASSUME NEW f \in Flushers, FlushClosing(f)
      PROVE DataInv'
  BY <1>10 DEF DataInv, HolderInv, WordType, BufType, TaskType, FlushClosing, Advance
<1>11. ASSUME NEW f \in Flushers, FlushSubmit(f)
      PROVE DataInv'
  BY <1>11 DEF DataInv, HolderInv, WordType, BufType, TaskType, FlushSubmit, Advance
<1>12. ASSUME NEW f \in Flushers, FlushSkip(f)
      PROVE DataInv'
  BY <1>12 DEF DataInv, HolderInv, WordType, BufType, TaskType, FlushSkip
<1>13. ASSUME NEW f \in Flushers, FlushPrep(f)
      PROVE DataInv'
  BY <1>13 DEF DataInv, HolderInv, WordType, BufType, TaskType, FlushPrep
<1>14. ASSUME NEW f \in Flushers, FlushWrite(f)
      PROVE DataInv'
  BY <1>14 DEF DataInv, HolderInv, WordType, BufType, TaskType, FlushWrite
<1>15. ASSUME NEW f \in Flushers, FlushSync(f)
      PROVE DataInv'
  BY <1>15 DEF DataInv, HolderInv, WordType, BufType, TaskType, FlushSync, AtSync
<1>16. ASSUME NEW f \in Flushers, FlushOpen(f)
      PROVE DataInv'
  BY <1>16 DEF DataInv, HolderInv, WordType, BufType, TaskType, FlushOpen, OpenEntry
<1>17. ASSUME NEW f \in Flushers, FlushPanics(f)
      PROVE DataInv'
  BY <1>17 DEF DataInv, HolderInv, WordType, BufType, TaskType, FlushPanics, OpenPanics
<1>18. CASE UNCHANGED vars
  BY <1>18 DEF DataInv, HolderInv, WordType, BufType, TaskType, vars
<1> QED
  BY <1>1, <1>2, <1>3, <1>4, <1>5, <1>6, <1>7, <1>8, <1>9, <1>10, <1>11, <1>12, <1>13, <1>14, <1>15, <1>16, <1>17, <1>18 DEF FastNext

\* Acknowledged records are durable.
LEMMA AckStep ==
  ASSUME OneFlusher, JournalInv, FastNext PROVE AckInv'
<1> USE Consts, NextIdxType DEF JournalInv, TypeInv, TypeOK, wordVars, bufVars, resVars,
      flVars, devVars, obsVars, Goto, GotoF
<1>1. ASSUME NEW t \in Threads, NEW n \in ReqSizes, ReserveFast(t, n)
      PROVE AckInv'
  BY <1>1 DEF OneFlusher, AckInv, PhaseInv, CommittedInv, DataInv, HolderInv, WordType, BufType, FlushType, TaskType, ReserveFast, Reserve, TakeSpace, Fits
<1>2. ASSUME NEW t \in Threads, ReadSeq(t)
      PROVE AckInv'
  BY <1>2 DEF OneFlusher, AckInv, PhaseInv, CommittedInv, DataInv, HolderInv, WordType, BufType, FlushType, TaskType, ReadSeq
<1>3. ASSUME NEW t \in Threads, AddEntry(t)
      PROVE AckInv'
  BY <1>3 DEF OneFlusher, AckInv, PhaseInv, CommittedInv, DataInv, HolderInv, WordType, BufType, FlushType, TaskType, AddEntry
<1>4. ASSUME NEW t \in Threads, Put(t)
      PROVE AckInv'
  BY <1>4 DEF OneFlusher, AckInv, PhaseInv, CommittedInv, DataInv, HolderInv, WordType, BufType, FlushType, TaskType, Put, ReleaseCount
<1>5. ASSUME NEW t \in Threads, PutCheck(t)
      PROVE AckInv'
  BY <1>5 DEF OneFlusher, AckInv, PhaseInv, CommittedInv, DataInv, HolderInv, WordType, BufType, FlushType, TaskType, PutCheck
<1>6. ASSUME NEW t \in Threads, PutSubmit(t)
      PROVE AckInv'
  BY <1>6 DEF OneFlusher, AckInv, PhaseInv, CommittedInv, DataInv, HolderInv, WordType, BufType, FlushType, TaskType, PutSubmit
<1>7. ASSUME NEW f \in Flushers, FlushStart(f, FALSE)
      PROVE AckInv'
  BY <1>7 DEF OneFlusher, AckInv, PhaseInv, CommittedInv, DataInv, HolderInv, WordType, BufType, FlushType, TaskType, FlushStart, BeginFlush
<1>8. ASSUME NEW f \in Flushers, FlushClose(f)
      PROVE AckInv'
  BY <1>8 DEF OneFlusher, AckInv, PhaseInv, CommittedInv, DataInv, HolderInv, WordType, BufType, FlushType, TaskType, FlushClose, CloseEntry
<1>9. ASSUME NEW f \in Flushers, FlushDrain(f)
      PROVE AckInv'
  BY <1>9 DEF OneFlusher, AckInv, PhaseInv, CommittedInv, DataInv, HolderInv, WordType, BufType, FlushType, TaskType, FlushDrain, SetDataEnd
<1>10. ASSUME NEW f \in Flushers, FlushClosing(f)
      PROVE AckInv'
  BY <1>10 DEF OneFlusher, AckInv, PhaseInv, CommittedInv, DataInv, HolderInv, WordType, BufType, FlushType, TaskType, FlushClosing, Advance
<1>11. ASSUME NEW f \in Flushers, FlushSubmit(f)
      PROVE AckInv'
  BY <1>11 DEF OneFlusher, AckInv, PhaseInv, CommittedInv, DataInv, HolderInv, WordType, BufType, FlushType, TaskType, FlushSubmit, Advance
<1>12. ASSUME NEW f \in Flushers, FlushSkip(f)
      PROVE AckInv'
  BY <1>12 DEF OneFlusher, AckInv, PhaseInv, CommittedInv, DataInv, HolderInv, WordType, BufType, FlushType, TaskType, FlushSkip
<1>13. ASSUME NEW f \in Flushers, FlushPrep(f)
      PROVE AckInv'
  <2> USE DEF Buffers, Closed, Records
  <2>1. /\ \A g \in Flushers : g = f
        /\ fpc[f] = "prep" /\ cur[f] \in Buffers /\ fpc'[f] = "write"
        /\ cap'[f] = Captured(cur[f])
        /\ UNCHANGED <<job, disk, durable, committed, acked>>
    BY <1>13 DEF OneFlusher, FlushPrep, FlushType
  <2>2. \A t \in Threads : tpc[t] # "filled"
    BY <2>1 DEF HolderInv
  <2>3. Captured(cur[f]) \subseteq committed
    BY <2>1, <2>2 DEF Captured, DataInv
  <2> QED
    BY <2>1, <2>3 DEF AckInv
<1>14. ASSUME NEW f \in Flushers, FlushWrite(f)
      PROVE AckInv'
  BY <1>14 DEF OneFlusher, AckInv, PhaseInv, CommittedInv, DataInv, HolderInv, WordType, BufType, FlushType, TaskType, FlushWrite
<1>15. ASSUME NEW f \in Flushers, FlushSync(f)
      PROVE AckInv'
  <2> USE DEF Buffers, Closed, Records
  <2>1. /\ \A g \in Flushers : g = f
        /\ fpc[f] = "prep" /\ cur[f] = NBuf /\ cap[f] = {}
        /\ fpc'[f] = "open" /\ durable' = disk
        /\ UNCHANGED <<idx, data, cap, job, disk, committed, acked>>
    BY <1>15 DEF OneFlusher, FlushSync, AtSync, PhaseInv, FlushType
  <2>2. ~Unprepared(f)
    BY <2>1 DEF Unprepared, WordType
  <2>3. committed \subseteq disk
    BY <2>1, <2>2 DEF CommittedInv
  <2> QED
    BY <2>1, <2>3 DEF AckInv
<1>16. ASSUME NEW f \in Flushers, FlushOpen(f)
      PROVE AckInv'
  BY <1>16 DEF OneFlusher, AckInv, PhaseInv, CommittedInv, DataInv, HolderInv, WordType, BufType, FlushType, TaskType, FlushOpen, OpenEntry
<1>17. ASSUME NEW f \in Flushers, FlushPanics(f)
      PROVE AckInv'
  BY <1>17 DEF OneFlusher, AckInv, PhaseInv, CommittedInv, DataInv, HolderInv, WordType, BufType, FlushType, TaskType, FlushPanics, OpenPanics
<1>18. CASE UNCHANGED vars
  BY <1>18 DEF OneFlusher, AckInv, PhaseInv, CommittedInv, DataInv, HolderInv, WordType, BufType, FlushType, TaskType, vars
<1> QED
  BY <1>1, <1>2, <1>3, <1>4, <1>5, <1>6, <1>7, <1>8, <1>9, <1>10, <1>11, <1>12, <1>13, <1>14, <1>15, <1>16, <1>17, <1>18 DEF FastNext

-----------------------------------------------------------------------------
\* JournalInv holds in the first state ...
LEMMA JournalInit == ASSUME OneFlusher, Init PROVE JournalInv
<1> USE Consts DEF Buffers, Closed, Records
<1>1. TypeInv
  BY TypeInit
<1>2. 1 \in Buffers /\ 0 \in Buffers
  OBVIOUS
<1>3. CountIsOutstanding
  <2>1. \A i \in Buffers : Holders(i) = {}
    BY DEF Init, Holders
  <2> QED
    BY <2>1, FS_EmptySet DEF CountIsOutstanding, Init
<1>4. \A f \in Flushers : PhaseInv(f)
  BY <1>2 DEF Init, PhaseInv, Unprepared
<1> QED
  BY <1>1, <1>3, <1>4 DEF Init, JournalInv, FastOnly, CommittedInv, HolderInv, DataInv, AckInv

\* ... and is preserved by every step.
LEMMA JournalStep ==
  ASSUME OneFlusher, JournalInv, [Next]_vars PROVE JournalInv'
<1>1. FastNext
  BY FastSteps
<1>2. TypeInv'
  BY TypeStep DEF JournalInv
<1>3. FastOnly'
  BY <1>1 DEF FastNext, FastOnly, JournalInv, TypeInv, TypeOK, TaskType, Goto, vars,
     resVars, ReserveFast, Reserve, ReadSeq, AddEntry, Put, PutCheck, PutSubmit,
     FlushStart, BeginFlush, FlushClose, FlushDrain, SetDataEnd, FlushClosing,
     FlushSubmit, FlushSkip, FlushPrep, FlushWrite, FlushSync, FlushOpen, FlushPanics
<1> QED
  BY <1>1, <1>2, <1>3, PhaseStep, HolderStep, CountStep, CommittedStep, DataStep,
     AckStep DEF JournalInv

THEOREM JournalInvariant == ASSUME OneFlusher PROVE Spec => []JournalInv
<1>1. Init => JournalInv
  BY JournalInit
<1>2. JournalInv /\ [Next]_vars => JournalInv'
  BY JournalStep
<1> QED
  BY <1>1, <1>2, PTL DEF Spec

\* The count of every buffer is exactly the number of reservations held in it.
THEOREM CountsAreExact == ASSUME OneFlusher PROVE Spec => []CountIsOutstanding
<1>1. JournalInv => CountIsOutstanding
  BY DEF JournalInv
<1> QED
  BY <1>1, JournalInvariant, PTL

\* A flush that has returned Ok has made durable every record whose put came
\* before it.
THEOREM Durability == ASSUME OneFlusher PROVE Spec => []AckedDurable
<1>1. JournalInv => AckedDurable
  BY DEF JournalInv, AckInv, AckedDurable
<1> QED
  BY <1>1, JournalInvariant, PTL

\* The journal implements the log: putting a record back commits it, a write
\* that the device persists or backend.flush() makes it durable, and the end of
\* a flush acknowledges it.
THEOREM ImplementsLog == ASSUME OneFlusher PROVE Spec => LogSpec
<1>1. Init => Log!Init
  BY DEF Init, Log!Init
<1>2. JournalInv /\ JournalInv' /\ [Next]_vars => [Log!Next]_Log!logVars
  <2> SUFFICES ASSUME JournalInv, JournalInv', [Next]_vars, ~UNCHANGED Log!logVars
               PROVE  Log!Next
    OBVIOUS
  <2> USE DEF wordVars, bufVars, resVars, flVars, devVars, obsVars, Log!logVars
  <2>1. FastNext
    BY FastSteps
  <2>2. ASSUME NEW t \in Threads, Put(t) PROVE Log!Next
    <3>1. res[t].rec \in Records
      BY <2>2 DEF JournalInv, TypeInv, ControlInv, Put, Outstanding
    <3>2. committed' = committed \cup {res[t].rec} /\ UNCHANGED <<durable, acked>>
      BY <2>2 DEF Put
    <3>3. Log!Commit(res[t].rec)
      BY <3>2 DEF Log!Commit
    <3> QED
      BY <3>1, <3>3 DEF Log!Next
  <2>3. ASSUME NEW f \in Flushers, FlushWrite(f) \/ FlushSync(f) PROVE Log!Next
    <3>1. durable \subseteq durable' /\ UNCHANGED <<committed, acked>>
      BY <2>3 DEF FlushWrite, FlushSync, JournalInv, AckInv
    <3>2. durable' \subseteq committed
      BY <3>1 DEF JournalInv, AckInv
    <3> QED
      BY <3>1, <3>2 DEF Log!Persist, Log!Next
  <2>4. ASSUME NEW f \in Flushers, FlushOpen(f) PROVE Log!Next
    <3>1. acked \subseteq acked' /\ UNCHANGED <<committed, durable>>
      BY <2>4 DEF FlushOpen
    <3>2. acked' \subseteq durable
      BY <3>1 DEF JournalInv, AckInv
    <3> QED
      BY <3>1, <3>2 DEF Log!Ack, Log!Next
  <2> QED
    BY <2>1, <2>2, <2>3, <2>4 DEF FastNext, vars, ReserveFast, Reserve, ReadSeq,
       AddEntry, PutCheck, PutSubmit, FlushStart, BeginFlush, FlushClose, FlushDrain,
       SetDataEnd, FlushClosing, FlushSubmit, FlushSkip, FlushPrep, FlushPanics
<1> QED
  BY <1>1, <1>2, JournalInvariant, PTL DEF Spec, LogSpec, Log!Spec

-----------------------------------------------------------------------------
(* The journal that fails. *)

HIDE DEF Outstanding

SingleFlusher == \A f, g \in Flushers : f = g

Apart(p, q) == p.off + p.len <= q.off \/ q.off + q.len <= p.off

\* A task that has its place and has not filled it.
Pending(t) == tpc[t] \in {"reserved", "held"}

\* The writers are in the open buffer, and it counts them.
WriterInv ==
  /\ \A t \in Threads : tpc[t] \in Outstanding => res[t].idx = idx
  /\ \A i \in Buffers : count[i] >= Cardinality(Holders(i))

\* From the drain to the next entry the open buffer is closed and has no writer.
FlusherInv(f) ==
  /\ fpc[f] # "again"
  /\ fpc[f] \notin {"idle", "meta", "panicked"} => job[f].old = idx
  /\ fpc[f] \notin {"idle", "close", "meta", "panicked"} => offset = Closed
  /\ fpc[f] \notin {"idle", "close", "drain", "meta", "panicked"} =>
       \A t \in Threads : tpc[t] \notin Outstanding

\* What is written, or about to be, was committed.
DeviceInv == disk \subseteq committed /\ \A f \in Flushers : cap[f] \subseteq committed

\* Records carry the seq of their entry, and so do the tasks about to add one.
SeqInv ==
  /\ \A i \in Buffers : \A p \in data[i] : p.seq = bseq[i]
  /\ \A t \in Threads : tpc[t] = "held" => rseq[t] = bseq[idx]

\* Places given out are apart, and what is given next lies behind all of them.
ApartInv ==
  /\ \A i \in Buffers : \A p, q \in data[i] : p # q => Apart(p, q)
  /\ \A t \in Threads : Pending(t) => \A p \in data[idx] : Apart(res[t], p)
  /\ \A t, u \in Threads : t # u /\ Pending(t) /\ Pending(u) => Apart(res[t], res[u])
  /\ offset <= BufSize =>
       /\ \A p \in data[idx] : p.off + p.len <= offset
       /\ \A t \in Threads : Pending(t) => res[t].off + res[t].len <= offset

FaultInv ==
  WriterInv /\ (\A f \in Flushers : FlusherInv(f)) /\ DataInv /\ DeviceInv /\ SeqInv /\ ApartInv

-----------------------------------------------------------------------------
USE DEF Pending, Outstanding

NewPlace(t, n) ==
  /\ tpc[t] \notin Outstanding /\ Reserve(t, n)
  /\ UNCHANGED <<bufVars, rseq, flVars, devVars, committed>>

\* A step that gives no place, fills none, puts none back and opens no entry.
Still ==
  /\ UNCHANGED <<idx, count, bseq, data, rseq, committed>>
  /\ offset' \in {offset, Closed}
  /\ \A t \in Threads :
       /\ tpc'[t] \in Outstanding => tpc'[t] = tpc[t] /\ res'[t] = res[t]
       /\ tpc[t] = "filled" => tpc'[t] = "filled"

\* The steps as far as the buffers and the places in them are concerned.
LEMMA Kinds ==
  ASSUME TypeInv, FaultInv, [Next]_vars, ~lapped'
  PROVE  \/ Still
         \/ \E t \in Threads : \/ \E n \in ReqSizes : NewPlace(t, n)
                               \/ ReadSeq(t) \/ AddEntry(t) \/ Put(t)
         \/ \E f \in Flushers : FlushOpen(f)
<1> USE DEF TypeInv, TypeOK, TaskType, WordType, wordVars, bufVars, resVars, flVars, devVars,
       obsVars, Goto, GotoF, Still, Outstanding
<1>1. ASSUME NEW t \in Threads, NEW n \in ReqSizes, ReserveFast(t, n) PROVE NewPlace(t, n)
  BY <1>1 DEF ReserveFast, NewPlace
<1>2. ASSUME NEW t \in Threads, SlowReserve(t) PROVE \E n \in ReqSizes : NewPlace(t, n)
  BY <1>2 DEF SlowReserve, NewPlace, ControlInv
<1>3. ASSUME NEW t \in Threads, NEW n \in ReqSizes, ReserveSlow(t, n) PROVE Still
  BY <1>3 DEF ReserveSlow
<1>4. ASSUME NEW t \in Threads,
             CommitFails(t) \/ PutCheck(t) \/ PutSubmit(t) \/ SlowLock(t) \/ CycleClose(t)
             \/ CycleNoBucket(t) \/ SlowRetry(t)
      PROVE  Still
  BY <1>4 DEF CommitFails, PutCheck, PutSubmit, SlowLock, CycleClose, CloseEntry,
     CycleNoBucket, SlowRetry, Overflow
<1>5. ASSUME NEW t \in Threads, CycleOpen(t) PROVE FALSE
  BY <1>5 DEF CycleOpen
<1>6. ASSUME NEW f \in Flushers, StopOpen(f) \/ StopFlush(f) PROVE FALSE
  BY <1>6 DEF StopOpen, StopFlush, FaultInv, FlusherInv
<1>7. ASSUME NEW f \in Flushers, NEW s \in BOOLEAN, FlushStart(f, s) PROVE Still
  BY <1>7 DEF FlushStart, BeginFlush
<1>8. ASSUME NEW f \in Flushers,
             FlushClose(f) \/ FlushDrain(f) \/ FlushClosing(f) \/ FlushSubmit(f)
             \/ FlushSkip(f) \/ FlushPrep(f) \/ FlushWrite(f) \/ FlushWriteFails(f)
             \/ FlushSync(f) \/ FlushSyncFails(f) \/ FlushPanics(f)
      PROVE  Still
  BY <1>8 DEF FlushClose, CloseEntry, FlushDrain, SetDataEnd, FlushClosing, FlushSubmit,
     FlushSkip, FlushPrep, FlushWrite, FlushWriteFails, FlushSync, FlushSyncFails,
     FlushPanics, OpenPanics
<1>9. CASE UNCHANGED vars
  BY <1>9 DEF vars
<1> QED
  BY <1>1, <1>2, <1>3, <1>4, <1>5, <1>6, <1>7, <1>8, <1>9 DEF Next, ThreadStep, FlushStep

\* A drained buffer has no writer.
LEMMA NoWriter ==
  ASSUME TypeInv, WriterInv, count[idx] = 0
  PROVE  \A t \in Threads : tpc[t] \notin Outstanding
<1>1. idx \in Buffers /\ IsFiniteSet(Holders(idx))
  BY HoldersFinite DEF TypeInv, TypeOK, WordType
<1>2. Cardinality(Holders(idx)) = 0
  BY <1>1, FS_CardinalityType DEF WriterInv
<1>3. Holders(idx) = {}
  BY <1>1, <1>2, FS_EmptySet
<1> QED
  BY <1>3 DEF Holders, WriterInv

\* The flush, one step after another.
LEMMA FlusherStep ==
  ASSUME SingleFlusher, TypeInv, FaultInv, [Next]_vars, ~lapped'
  PROVE  (\A h \in Flushers : FlusherInv(h))' /\ DeviceInv'
<1> USE DEF TypeInv, TypeOK, TaskType, WordType, FlushType, wordVars, bufVars, resVars,
       flVars, devVars, obsVars, Goto, GotoF, FlusherInv, DeviceInv
<1>0. WriterInv /\ DeviceInv /\ \A f \in Flushers : FlusherInv(f)
  BY DEF FaultInv
<1>1. ASSUME UNCHANGED <<flVars, devVars, idx>>, committed \subseteq committed',
             offset' \in {offset, Closed},
             \A t \in Threads : tpc'[t] \in Outstanding => tpc[t] \in Outstanding
      PROVE  (\A h \in Flushers : FlusherInv(h))' /\ DeviceInv'
  BY <1>0, <1>1
<1>2. ASSUME NEW t \in Threads, NEW n \in ReqSizes, NewPlace(t, n)
      PROVE  (\A h \in Flushers : FlusherInv(h))' /\ DeviceInv'
  <2>1. offset # Closed
    BY <1>2, Consts DEF NewPlace, Reserve, Fits, Closed
  <2> QED
    BY <1>0, <1>2, <2>1 DEF NewPlace, Reserve, TakeSpace
<1>3. ASSUME NEW t \in Threads, ThreadStep(t) \/ \E n \in ReqSizes : ReserveSlow(t, n)
      PROVE  (\A h \in Flushers : FlusherInv(h))' /\ DeviceInv'
  <2>1. CASE SlowReserve(t)
    BY <2>1, <1>2 DEF SlowReserve, NewPlace, ControlInv, Outstanding
  <2>2. CASE ~SlowReserve(t)
    BY <2>2, <1>1, <1>3 DEF ThreadStep, ReserveSlow, ReadSeq, CommitFails, AddEntry, Put,
       ReleaseCount, PutCheck, PutSubmit, SlowLock, CycleClose, CloseEntry, CycleNoBucket,
       CycleOpen, SlowRetry, Overflow, Outstanding
  <2> QED
    BY <2>1, <2>2
<1>4. ASSUME NEW f \in Flushers, NEW s \in BOOLEAN, FlushStart(f, s)
      PROVE  (\A h \in Flushers : FlusherInv(h))' /\ DeviceInv'
  BY <1>0, <1>4 DEF FlushStart, BeginFlush
<1>5. ASSUME NEW f \in Flushers, FlushClose(f)
      PROVE  (\A h \in Flushers : FlusherInv(h))' /\ DeviceInv'
  BY <1>0, <1>5 DEF FlushClose, CloseEntry, SingleFlusher
<1>6. ASSUME NEW f \in Flushers, FlushDrain(f)
      PROVE  (\A h \in Flushers : FlusherInv(h))' /\ DeviceInv'
  <2>1. \A t \in Threads : tpc[t] \notin Outstanding
    BY <1>0, <1>6, NoWriter DEF FlushDrain
  <2> QED
    BY <1>0, <1>6, <2>1 DEF FlushDrain, SetDataEnd
<1>7. ASSUME NEW f \in Flushers, FlushPrep(f)
      PROVE  (\A h \in Flushers : FlusherInv(h))' /\ DeviceInv'
  <2>0. cur[f] \in Buffers
    <3>1. cur[f] \in 0..NBuf /\ cur[f] < NBuf
      BY <1>7 DEF FlushPrep
    <3> QED
      BY <3>1, Consts DEF Buffers
  <2>1. cur[f] \in Buffers /\ \A t \in Threads : tpc[t] # "filled"
    BY <1>0, <1>7, <2>0 DEF FlushPrep, Outstanding
  <2>2. Captured(cur[f]) \subseteq committed
    BY <2>1 DEF Captured, DataInv, FaultInv
  <2> QED
    BY <1>0, <1>7, <2>2 DEF FlushPrep
<1>8. ASSUME NEW f \in Flushers,
             FlushClosing(f) \/ FlushSubmit(f) \/ FlushSkip(f) \/ FlushWrite(f)
             \/ FlushWriteFails(f) \/ FlushSync(f) \/ FlushSyncFails(f) \/ FlushPanics(f)
      PROVE  (\A h \in Flushers : FlusherInv(h))' /\ DeviceInv'
  BY <1>0, <1>8 DEF FlushClosing, FlushSubmit, FlushSkip, FlushWrite, FlushWriteFails,
     FlushSync, FlushSyncFails, AtSync, FlushPanics, OpenPanics
<1>9. ASSUME NEW f \in Flushers, FlushOpen(f)
      PROVE  (\A h \in Flushers : FlusherInv(h))' /\ DeviceInv'
  BY <1>0, <1>9 DEF FlushOpen, SingleFlusher
<1>10. ASSUME NEW f \in Flushers, StopOpen(f) \/ StopFlush(f) PROVE FALSE
  BY <1>0, <1>10 DEF StopOpen, StopFlush
<1>11. CASE UNCHANGED vars
  BY <1>0, <1>11 DEF vars
<1>12. ASSUME NEW t \in Threads, NEW n \in ReqSizes, ReserveFast(t, n)
       PROVE  (\A h \in Flushers : FlusherInv(h))' /\ DeviceInv'
  BY <1>12, <1>2 DEF ReserveFast, NewPlace, Outstanding
<1> QED
  BY <1>3, <1>4, <1>5, <1>6, <1>7, <1>8, <1>9, <1>10, <1>11, <1>12 DEF Next, FlushStep

\* The writers and the counts.
LEMMA WriterStep ==
  ASSUME TypeInv, FaultInv, [Next]_vars, ~lapped' PROVE WriterInv'
<1> USE DEF TypeInv, TypeOK, TaskType, WordType, wordVars, bufVars, resVars, flVars, devVars,
       Goto, Outstanding
<1>0. /\ idx \in Buffers
      /\ \A i \in Buffers : /\ IsFiniteSet(Holders(i)) /\ Cardinality(Holders(i)) \in Nat
                            /\ count[i] \in Nat /\ count[i] >= Cardinality(Holders(i))
      /\ \A t \in Threads : tpc[t] \in Outstanding => res[t].idx = idx
  BY HoldersFinite, FS_CardinalityType, Consts DEF FaultInv, WriterInv
<1>1. CASE Still
  <2>1. \A i \in Buffers : Holders(i)' \in SUBSET Holders(i)
    BY <1>1 DEF Still, Holders
  <2>2. \A i \in Buffers : /\ Cardinality(Holders(i)') <= Cardinality(Holders(i))
                           /\ Cardinality(Holders(i)') \in Nat
    BY <1>0, <2>1, FS_Subset, FS_CardinalityType
  <2>3. \A i \in Buffers : count'[i] >= Cardinality(Holders(i)')
    BY <1>0, <1>1, <2>2 DEF Still
  <2> QED
    BY <1>0, <1>1, <2>3 DEF Still, WriterInv
<1>2. ASSUME NEW t \in Threads, NEW n \in ReqSizes, NewPlace(t, n) PROVE WriterInv'
  <2>1. /\ count' = [count EXCEPT ![idx] = @ + 1] /\ idx' = idx
        /\ tpc[t] \notin Outstanding /\ tpc' = [tpc EXCEPT ![t] = "reserved"]
        /\ res' = [res EXCEPT ![t] = [rec |-> nrec + 1, idx |-> idx,
                                      off |-> offset, len |-> n]]
    BY <1>2 DEF NewPlace, Reserve, TakeSpace
  <2>2. \A i \in Buffers : Holders(i)' = IF i = idx THEN Holders(i) \cup {t} ELSE Holders(i)
    BY <2>1 DEF Holders
  <2>3. Cardinality(Holders(idx) \cup {t}) = Cardinality(Holders(idx)) + 1
    BY <1>0, <2>1, FS_AddElement DEF Holders
  <2>4. \A i \in Buffers : count'[i] >= Cardinality(Holders(i)')
    <3> TAKE i \in Buffers
    <3>1. CASE i = idx
      <4>1. Holders(i)' = Holders(i) \cup {t}
        BY <3>1, <2>2
      <4>2. Cardinality(Holders(i)') = Cardinality(Holders(i)) + 1
        BY <3>1, <4>1, <2>3
      <4>3. count'[i] = count[i] + 1
        BY <3>1, <1>0, <2>1
      <4> QED
        BY <1>0, <4>2, <4>3
    <3>2. CASE i # idx
      BY <3>2, <1>0, <2>1, <2>2
    <3> QED
      BY <3>1, <3>2
  <2> QED
    BY <1>0, <2>1, <2>4 DEF WriterInv
<1>3. ASSUME NEW t \in Threads, ReadSeq(t) \/ AddEntry(t) PROVE WriterInv'
  <2>1. UNCHANGED <<idx, count, res>>
        /\ \A u \in Threads : tpc'[u] \in Outstanding <=> tpc[u] \in Outstanding
    BY <1>3 DEF ReadSeq, AddEntry
  <2>2. \A i \in Buffers : Holders(i)' = Holders(i)
    BY <2>1 DEF Holders
  <2> QED
    BY <1>0, <2>1, <2>2 DEF WriterInv
<1>4. ASSUME NEW t \in Threads, Put(t) PROVE WriterInv'
  <2>1. /\ tpc[t] = "filled" /\ tpc'[t] \in {"check", "idle"} /\ res[t].idx = idx
        /\ \A u \in Threads \ {t} : tpc'[u] = tpc[u]
        /\ UNCHANGED <<idx, res>>
    BY <1>0, <1>4 DEF Put, ReleaseCount
  <2>2. t \in Holders(idx)
    BY <2>1 DEF Holders
  <2>3. Cardinality(Holders(idx) \ {t}) = Cardinality(Holders(idx)) - 1
    BY <1>0, <2>2, FS_RemoveElement
  <2>4. count[idx] # 0
    <3>1. Cardinality(Holders(idx)) # 0
      BY <1>0, <2>2, FS_EmptySet
    <3> QED
      BY <1>0, <3>1
  <2>5. \A j \in Buffers : count'[j] = IF j = idx THEN count[j] - 1 ELSE count[j]
    <3>1. \A j \in Buffers : j > idx => idx \in idx..(j - 1)
      BY <1>0, Consts DEF Buffers
    <3>2. \A j \in Buffers : ~(j > idx) /\ j >= idx => j = idx
      BY <1>0, Consts DEF Buffers
    <3> QED
      BY <1>0, <1>4, <2>1, <2>4, <3>1, <3>2 DEF Put, ReleaseCount, Buffers
  <2>6. \A j \in Buffers : Holders(j)' = IF j = idx THEN Holders(j) \ {t} ELSE Holders(j)
    BY <2>1 DEF Holders
  <2>7. \A i \in Buffers : count'[i] >= Cardinality(Holders(i)')
    <3> TAKE i \in Buffers
    <3>1. CASE i = idx
      BY <3>1, <1>0, <2>3, <2>5, <2>6
    <3>2. CASE i # idx
      BY <3>2, <1>0, <2>5, <2>6
    <3> QED
      BY <3>1, <3>2
  <2> QED
    BY <1>0, <2>1, <2>7 DEF WriterInv
<1>5. ASSUME NEW f \in Flushers, FlushOpen(f) PROVE WriterInv'
  <2>1. \A t \in Threads : tpc'[t] \notin Outstanding
    BY <1>5 DEF FlushOpen, FaultInv, FlusherInv
  <2>2. \A i \in Buffers : Holders(i)' = {}
    BY <2>1 DEF Holders
  <2>3. \A i \in Buffers : count'[i] \in Nat
    BY <1>0, <1>5 DEF FlushOpen, OpenEntry
  <2> QED
    BY <2>1, <2>2, <2>3, FS_EmptySet DEF WriterInv
<1> QED
  BY <1>1, <1>2, <1>3, <1>4, <1>5, Kinds

\* What lies in the buffers.
LEMMA ContentStep ==
  ASSUME TypeInv, FaultInv, [Next]_vars, ~lapped' PROVE DataInv' /\ SeqInv'
<1> USE DEF TypeInv, TypeOK, TaskType, WordType, BufType, wordVars, bufVars, resVars, flVars,
       devVars, obsVars, Goto, Outstanding
<1>0. DataInv /\ SeqInv /\ \A t \in Threads : tpc[t] \in Outstanding => res[t].idx = idx
  BY DEF FaultInv, WriterInv
<1>1. CASE Still
  BY <1>0, <1>1 DEF Still, DataInv, SeqInv
<1>2. ASSUME NEW t \in Threads, NEW n \in ReqSizes, NewPlace(t, n) PROVE DataInv' /\ SeqInv'
  <2>1. /\ UNCHANGED <<idx, bseq, data, rseq, committed>>
        /\ tpc[t] \notin Outstanding /\ tpc'[t] = "reserved"
        /\ \A u \in Threads \ {t} : tpc'[u] = tpc[u] /\ res'[u] = res[u]
    BY <1>2 DEF NewPlace, Reserve, TakeSpace
  <2> QED
    BY <1>0, <2>1 DEF DataInv, SeqInv
<1>3. ASSUME NEW t \in Threads, ReadSeq(t) PROVE DataInv' /\ SeqInv'
  <2>1. /\ tpc[t] = "reserved" /\ tpc'[t] = "held" /\ rseq'[t] = bseq[res[t].idx]
        /\ \A u \in Threads \ {t} : tpc'[u] = tpc[u] /\ rseq'[u] = rseq[u]
        /\ UNCHANGED <<idx, bseq, data, res, committed>>
    BY <1>3 DEF ReadSeq
  <2> QED
    BY <1>0, <2>1 DEF DataInv, SeqInv
<1>4. ASSUME NEW t \in Threads, AddEntry(t) PROVE DataInv' /\ SeqInv'
  <2>1. /\ tpc[t] = "held" /\ tpc'[t] = "filled"
        /\ \A u \in Threads \ {t} : tpc'[u] = tpc[u]
        /\ data' = [data EXCEPT ![res[t].idx] = @ \cup {PlacedBy(t)}]
        /\ res[t].idx = idx /\ idx \in Buffers
        /\ UNCHANGED <<idx, bseq, res, rseq, committed>>
    BY <1>0, <1>4 DEF AddEntry
  <2>2. PlacedBy(t).rec = res[t].rec /\ PlacedBy(t).seq = bseq[idx]
    BY <1>0, <2>1 DEF PlacedBy, SeqInv
  <2>3. \A i \in Buffers : \A p \in data'[i] : p \in data[i] \/ (i = idx /\ p = PlacedBy(t))
    BY <2>1
  <2> QED
    BY <1>0, <2>1, <2>2, <2>3 DEF DataInv, SeqInv
<1>5. ASSUME NEW t \in Threads, Put(t) PROVE DataInv' /\ SeqInv'
  BY <1>0, <1>5 DEF Put, ReleaseCount, DataInv, SeqInv
<1>6. ASSUME NEW f \in Flushers, FlushOpen(f) PROVE DataInv' /\ SeqInv'
  <2>1. \A t \in Threads : tpc[t] \notin Outstanding
    BY <1>6 DEF FlushOpen, FaultInv, FlusherInv
  <2>2. \A i \in Buffers : IF i = NextIdx THEN data'[i] = {}
                           ELSE data'[i] = data[i] /\ bseq'[i] = bseq[i]
    BY <1>6, NextIdxType DEF FlushOpen, OpenEntry
  <2> QED
    BY <1>0, <1>6, <2>1, <2>2 DEF FlushOpen, DataInv, SeqInv
<1> QED
  BY <1>1, <1>2, <1>3, <1>4, <1>5, <1>6, Kinds

\* The places.
LEMMA ApartStep ==
  ASSUME TypeInv, FaultInv, [Next]_vars, ~lapped' PROVE ApartInv'
<1> USE DEF wordVars, bufVars, resVars, flVars, devVars, Goto
<1>0. /\ ApartInv /\ idx \in Buffers
      /\ \A t \in Threads : tpc[t] \in Outstanding => res[t].idx = idx
  BY DEF FaultInv, WriterInv, TypeInv, TypeOK, WordType
<1>1. CASE Still
  <2>1. /\ offset' <= BufSize => offset' = offset
        /\ \A t \in Threads : Pending(t)' => Pending(t) /\ res'[t] = res[t]
        /\ UNCHANGED <<idx, data>>
    BY <1>1, Consts DEF Still, Outstanding, Closed
  <2> QED
    BY <1>0, <2>1 DEF ApartInv, Apart
<1>2. ASSUME NEW t \in Threads, NEW n \in ReqSizes, NewPlace(t, n) PROVE ApartInv'
  <2> DEFINE r == [rec |-> nrec + 1, idx |-> idx, off |-> offset, len |-> n]
  <2>1. /\ offset + n <= BufSize /\ offset' = offset + n
        /\ tpc[t] \notin Outstanding /\ res'[t] = r
        /\ \A u \in Threads \ {t} : tpc'[u] = tpc[u] /\ res'[u] = res[u]
        /\ UNCHANGED <<idx, data>>
    BY <1>2 DEF NewPlace, Reserve, Fits, TakeSpace, TypeInv, TypeOK, TaskType
  <2>2. offset \in Nat /\ n \in Nat /\ BufSize \in Nat /\ offset <= BufSize
    BY <2>1, Consts DEF TypeInv, TypeOK, WordType
  <2>3. res'[t].off = offset /\ res'[t].len = n
    BY <2>1
  <2> HIDE DEF r
  <2>4. \A u \in Threads : res[u].off \in Nat /\ res[u].len \in Nat
    BY ResNat
  <2>5. \A p \in data[idx] : p.off \in Nat /\ p.len \in Nat
    BY <1>0, PlacedNat
  <2>6. \A p \in data[idx] : p.off + p.len <= offset /\ p.off + p.len <= offset'
    BY <1>0, <2>1, <2>2, <2>5 DEF ApartInv
  <2>7. \A u \in Threads \ {t} :
          Pending(u) => res[u].off + res[u].len <= offset /\ res[u].off + res[u].len <= offset'
    BY <1>0, <2>1, <2>2, <2>4 DEF ApartInv
  <2>8. \A u \in Threads : Pending(u)' => \A p \in data[idx] : Apart(res'[u], p)
    BY <1>0, <2>1, <2>3, <2>6 DEF ApartInv, Apart
  <2>9. \A u, v \in Threads : u # v /\ Pending(u)' /\ Pending(v)' => Apart(res'[u], res'[v])
    <3> SUFFICES ASSUME NEW u \in Threads, NEW v \in Threads, u # v, Pending(u)', Pending(v)'
                 PROVE  Apart(res'[u], res'[v])
      OBVIOUS
    <3>1. CASE u = t
      BY <3>1, <2>1, <2>3, <2>7 DEF Apart
    <3>2. CASE v = t
      BY <3>2, <2>1, <2>3, <2>7 DEF Apart
    <3>3. CASE u # t /\ v # t
      BY <3>3, <1>0, <2>1 DEF ApartInv
    <3> QED
      BY <3>1, <3>2, <3>3
  <2>10. \A u \in Threads : Pending(u)' => res'[u].off + res'[u].len <= offset'
    BY <2>1, <2>2, <2>3, <2>7
  <2> QED
    BY <1>0, <2>1, <2>6, <2>8, <2>9, <2>10 DEF ApartInv, Apart
<1>3. ASSUME NEW t \in Threads, ReadSeq(t) \/ Put(t) PROVE ApartInv'
  <2>1. /\ UNCHANGED <<offset, idx, data, res>>
        /\ \A u \in Threads : Pending(u)' => Pending(u)
    BY <1>3 DEF ReadSeq, Put, ReleaseCount, TypeInv, TypeOK, TaskType
  <2> QED
    BY <1>0, <2>1 DEF ApartInv, Apart
<1>4. ASSUME NEW t \in Threads, AddEntry(t) PROVE ApartInv'
  <2> DEFINE new == PlacedBy(t)
  <2>1. /\ tpc[t] = "held" /\ tpc'[t] = "filled" /\ res[t].idx = idx
        /\ data' = [data EXCEPT ![idx] = @ \cup {new}]
        /\ \A u \in Threads \ {t} : tpc'[u] = tpc[u]
        /\ UNCHANGED <<offset, idx, res>>
    BY <1>0, <1>4 DEF AddEntry, Outstanding, TypeInv, TypeOK, TaskType
  <2>2. new.off = res[t].off /\ new.len = res[t].len
    BY DEF PlacedBy
  <2> HIDE DEF new
  <2>3. /\ \A i \in Buffers \ {idx} : data'[i] = data[i]
        /\ data'[idx] = data[idx] \cup {new}
    BY <1>0, <2>1 DEF TypeInv, TypeOK, BufType
  <2>4. \A p \in data[idx] : Apart(new, p) /\ Apart(p, new)
    BY <1>0, <2>1, <2>2 DEF ApartInv, Apart
  <2>5. \A i \in Buffers : \A p, q \in data'[i] : p # q => Apart(p, q)
    <3> SUFFICES ASSUME NEW i \in Buffers, NEW p \in data'[i], NEW q \in data'[i], p # q
                 PROVE  Apart(p, q)
      OBVIOUS
    <3>1. CASE i # idx
      BY <3>1, <1>0, <2>3 DEF ApartInv
    <3>2. CASE i = idx
      BY <3>2, <1>0, <2>3, <2>4 DEF ApartInv
    <3> QED
      BY <3>1, <3>2
  <2>6. \A u \in Threads : Pending(u)' => u # t /\ Pending(u)
    BY <2>1
  <2>7. \A u \in Threads : Pending(u)' => \A p \in data'[idx] : Apart(res[u], p)
    <3>1. \A u \in Threads \ {t} : Pending(u) => Apart(res[u], new)
      BY <1>0, <2>1, <2>2 DEF ApartInv, Apart
    <3> QED
      BY <1>0, <2>3, <2>6, <3>1 DEF ApartInv
  <2>8. offset <= BufSize =>
          /\ \A p \in data'[idx] : p.off + p.len <= offset
          /\ \A u \in Threads : Pending(u)' => res[u].off + res[u].len <= offset
    BY <1>0, <2>1, <2>2, <2>3, <2>6 DEF ApartInv
  <2>9. \A u, v \in Threads : u # v /\ Pending(u)' /\ Pending(v)' => Apart(res[u], res[v])
    BY <1>0, <2>6 DEF ApartInv
  <2> QED
    BY <2>1, <2>5, <2>7, <2>8, <2>9 DEF ApartInv, Apart
<1>5. ASSUME NEW f \in Flushers, FlushOpen(f) PROVE ApartInv'
  <2>1. /\ \A t \in Threads : ~Pending(t)
        /\ idx' = NextIdx /\ NextIdx \in Buffers
        /\ data' = [data EXCEPT ![NextIdx] = {}] /\ tpc' = tpc
    BY <1>0, <1>5, NextIdxType DEF FlushOpen, OpenEntry, FaultInv, FlusherInv, Outstanding
  <2>2. \A i \in Buffers : data'[i] = IF i = NextIdx THEN {} ELSE data[i]
    BY <2>1 DEF TypeInv, TypeOK, BufType
  <2>3. \A i \in Buffers : \A p, q \in data'[i] : p # q => Apart(p, q)
    BY <1>0, <2>2 DEF ApartInv
  <2> QED
    BY <2>1, <2>2, <2>3 DEF ApartInv, Apart
<1> QED
  BY <1>1, <1>2, <1>3, <1>4, <1>5, Kinds

-----------------------------------------------------------------------------
\* TypeInv and, until an entry is lapped, FaultInv.
LEMMA FaultInvariant == ASSUME SingleFlusher PROVE Spec => [](TypeInv /\ (lapped \/ FaultInv))
<1>1. Init => TypeInv /\ FaultInv
  <2> SUFFICES ASSUME Init PROVE FaultInv
    BY TypeInit
  <2>1. \A t \in Threads : tpc[t] \notin Outstanding
    BY DEF Init, Outstanding
  <2>2. WriterInv
    <3>1. \A i \in Buffers : Holders(i) = {} /\ count[i] = 0
      BY <2>1 DEF Init, Holders
    <3> QED
      BY <2>1, <3>1, FS_EmptySet DEF WriterInv
  <2>3. DataInv /\ DeviceInv /\ SeqInv /\ ApartInv
    <3>1. 1 \in Buffers
      BY Consts DEF Buffers
    <3> QED
      BY <3>1 DEF Init, DataInv, DeviceInv, SeqInv, ApartInv
  <2>4. \A f \in Flushers : FlusherInv(f)
    BY DEF Init, FlusherInv
  <2> QED
    BY <2>2, <2>3, <2>4 DEF FaultInv
<1>2. TypeInv /\ (lapped \/ FaultInv) /\ [Next]_vars => (TypeInv /\ (lapped \/ FaultInv))'
  <2> SUFFICES ASSUME TypeInv, lapped \/ FaultInv, [Next]_vars, ~lapped' PROVE FaultInv'
    BY TypeStep
  <2>1. ~lapped
    BY DEF Next, ThreadStep, FlushStep, vars, obsVars, ReserveFast, ReserveSlow, ReadSeq,
       CommitFails, AddEntry, Put, PutCheck, PutSubmit, SlowLock, CycleClose, CycleNoBucket,
       CycleOpen, SlowReserve, SlowRetry, FlushStart, BeginFlush, FlushClose, FlushDrain,
       SetDataEnd, FlushClosing, FlushSubmit, FlushSkip, FlushPrep, FlushWrite,
       FlushWriteFails, FlushSync, FlushSyncFails, FlushOpen, StopOpen, FlushPanics, StopFlush
  <2> QED
    BY <2>1, FlusherStep, WriterStep, ContentStep, ApartStep DEF FaultInv
<1> QED
  BY <1>1, <1>2, PTL DEF Spec

\* Whatever fails, a buffer whose count has come down to zero has no writer:
\* the drain of a flush is never too short (wait_for_pending_drain).
THEOREM DrainNeverShort == ASSUME SingleFlusher PROVE Spec => []DrainIsSafe
<1>1. TypeInv /\ (lapped \/ FaultInv) => DrainIsSafe
  BY DEF FaultInv, WriterInv, DrainIsSafe
<1> QED
  BY <1>1, FaultInvariant, PTL

\* Whatever fails, no half-written record reaches the device.
THEOREM OnlyCommitted == ASSUME SingleFlusher PROVE Spec => []OnlyCommittedOnDisk
<1>1. TypeInv /\ (lapped \/ FaultInv) => OnlyCommittedOnDisk
  BY DEF FaultInv, DeviceInv, OnlyCommittedOnDisk
<1> QED
  BY <1>1, FaultInvariant, PTL

\* Whatever fails, records never overlap and each carries the seq of the entry
\* it lies in (journal_res_get_fast reads buf.seq after its CAS).
THEOREM EntriesConsistent == ASSUME SingleFlusher PROVE Spec => []EntryConsistent
<1>1. TypeInv /\ (lapped \/ FaultInv) => EntryConsistent
  BY DEF FaultInv, SeqInv, ApartInv, Apart, EntryConsistent
<1> QED
  BY <1>1, FaultInvariant, PTL

-----------------------------------------------------------------------------
\* The buffer after that of entry s is the one of entry s + 1.
LEMMA NextOfSeq ==
  ASSUME NEW s \in Nat, s >= 1 PROVE (((s - 1) % NBuf) + 1) % NBuf = s % NBuf
<1> DEFINE n == NBuf
           q == (s - 1) \div n
           r == (s - 1) % n
<1>1. n \in Nat /\ n >= 2 /\ s - 1 \in Nat
  BY Consts
<1> HIDE DEF n
<1>2. r \in 0..(n - 1) /\ q \in Nat /\ s - 1 = n * q + r
  BY <1>1
<1> HIDE DEF q, r
<1>3. \A a \in Nat : \A b \in 0..(n - 1) : (n * a + b) % n = b
  BY <1>1
<1>4. CASE r + 1 < n
  <2>1. r + 1 \in 0..(n - 1) /\ s = n * q + (r + 1) /\ n * 0 + (r + 1) = r + 1
    BY <1>1, <1>2, <1>4
  <2>2. s % n = r + 1 /\ (r + 1) % n = r + 1
    BY <1>2, <1>3, <2>1
  <2> QED
    BY <2>2 DEF n, r
<1>5. CASE r + 1 = n
  <2>1. q + 1 \in Nat /\ n * (q + 1) = n * q + n /\ n * 1 = n
    BY <1>1, <1>2
  <2>2. s = n * (q + 1) + 0 /\ r + 1 = n * 1 + 0
    BY <1>1, <1>2, <1>5, <2>1
  <2>3. 0 \in 0..(n - 1)
    BY <1>1
  <2>4. s % n = 0 /\ (r + 1) % n = 0
    BY <1>1, <1>3, <2>1, <2>2, <2>3
  <2> QED
    BY <2>4 DEF n, r
<1> QED
  BY <1>1, <1>2, <1>4, <1>5

\* As long as nobody has panicked, the open buffer is the one its seq says and
\* no other buffer is ahead of it, with any number of flushers and whatever
\* fails (find_free_buf, journal_entry_open).
THEOREM OpenBufferFollowsSeq == Spec => []IdxFollowsSeq
<1> DEFINE Inv == TypeInv /\ seq >= 2 /\ IdxFollowsSeq
<1>1. Init => Inv
  <2> SUFFICES ASSUME Init PROVE Inv
    OBVIOUS
  <2>1. (2 - 1) % NBuf = 1 /\ 1 \in Buffers
    <3>1. \A m \in Nat : m >= 2 => 1 % m = 1
      OBVIOUS
    <3> QED
      BY <3>1, Consts DEF Buffers
  <2> QED
    BY <2>1, TypeInit DEF Init, IdxFollowsSeq
<1>2. Inv /\ [Next]_vars => Inv'
  <2> SUFFICES ASSUME Inv, [Next]_vars PROVE seq' >= 2 /\ IdxFollowsSeq'
    BY TypeStep
  <2> USE DEF wordVars, bufVars, resVars, flVars, obsVars, Goto, GotoF
  <2>0. /\ seq \in Nat /\ seq >= 2 /\ IdxFollowsSeq /\ idx \in Buffers
        /\ bseq \in [Buffers -> Nat] /\ tpc \in [Threads -> ThreadPC]
        /\ fpc \in [Flushers -> FlushPC]
    BY DEF TypeInv, TypeOK, WordType, BufType, TaskType, FlushType
  <2>1. ASSUME OpenEntry PROVE seq' >= 2 /\ IdxFollowsSeq'
    <3>1. /\ idx = (seq - 1) % NBuf /\ bseq[idx] = seq - 1
          /\ \A i \in Buffers : bseq[i] < seq
      BY <2>0, <2>1 DEF OpenEntry, IdxFollowsSeq, NoPanic
    <3>2. NextIdx = seq % NBuf /\ NextIdx \in Buffers
      BY <2>0, <3>1, NextOfSeq, NextIdxType DEF NextIdx
    <3>3. /\ idx' = NextIdx /\ seq' = seq + 1 /\ seq' - 1 = seq
          /\ bseq'[NextIdx] = seq
          /\ \A i \in Buffers \ {NextIdx} : bseq'[i] = bseq[i]
      BY <2>0, <2>1, <3>2 DEF OpenEntry
    <3> QED
      BY <2>0, <3>1, <3>2, <3>3 DEF IdxFollowsSeq
  <2>2. ASSUME UNCHANGED <<idx, bseq, seq>>, Poisoned => Poisoned'
        PROVE  seq' >= 2 /\ IdxFollowsSeq'
    BY <2>0, <2>2 DEF IdxFollowsSeq, NoPanic
  <2>3. ASSUME Poisoned', seq' \in {seq, seq + 1} PROVE seq' >= 2 /\ IdxFollowsSeq'
    BY <2>0, <2>3 DEF IdxFollowsSeq, NoPanic
  <2>4. ASSUME NEW t \in Threads, CycleOpen(t) PROVE seq' >= 2 /\ IdxFollowsSeq'
    <3>1. CASE OpenEntry
      BY <2>1, <3>1
    <3>2. CASE OpenPanics /\ Goto(t, "panicked")
      BY <2>0, <2>3, <3>2 DEF OpenPanics, Poisoned, ThreadPanicked
    <3> QED
      BY <2>4, <3>1, <3>2 DEF CycleOpen
  <2>5. ASSUME NEW f \in Flushers, FlushOpen(f) \/ StopOpen(f)
        PROVE  seq' >= 2 /\ IdxFollowsSeq'
    BY <2>1, <2>5 DEF FlushOpen, StopOpen
  <2>6. ASSUME NEW f \in Flushers, FlushPanics(f) PROVE seq' >= 2 /\ IdxFollowsSeq'
    BY <2>0, <2>3, <2>6 DEF FlushPanics, OpenPanics, Poisoned
  <2>7. ASSUME NEW t \in Threads, ~CycleOpen(t),
               ThreadStep(t) \/ \E n \in ReqSizes : ReserveFast(t, n) \/ ReserveSlow(t, n)
        PROVE  seq' >= 2 /\ IdxFollowsSeq'
    <3>1. UNCHANGED <<idx, bseq, seq, fpc>>
      BY <2>7 DEF ThreadStep, ReserveFast, Reserve, TakeSpace, ReserveSlow, ReadSeq,
         CommitFails, AddEntry, Put, ReleaseCount, PutCheck, PutSubmit, SlowLock, CycleClose,
         CloseEntry, CycleNoBucket, SlowReserve, SlowRetry
    <3>2. \A u \in Threads : tpc[u] = "panicked" => tpc'[u] = "panicked"
      BY <2>0, <2>7 DEF ThreadStep, ReserveFast, Reserve, ReserveSlow, ReadSeq, CommitFails,
         AddEntry, Put, PutCheck, PutSubmit, SlowLock, CycleClose, CycleNoBucket,
         SlowReserve, SlowRetry, Overflow
    <3> QED
      BY <2>2, <3>1, <3>2 DEF Poisoned, ThreadPanicked
  <2>8. ASSUME NEW f \in Flushers, ~FlushOpen(f), ~StopOpen(f), ~FlushPanics(f),
               FlushStep(f) \/ \E s \in BOOLEAN : FlushStart(f, s)
        PROVE  seq' >= 2 /\ IdxFollowsSeq'
    <3>1. UNCHANGED <<idx, bseq, seq, tpc>>
      BY <2>8 DEF FlushStep, FlushStart, BeginFlush, FlushClose, CloseEntry, FlushDrain,
         SetDataEnd, FlushClosing, FlushSubmit, FlushSkip, FlushPrep, FlushWrite,
         FlushWriteFails, FlushSync, FlushSyncFails, StopFlush
    <3>2. \A g \in Flushers : fpc[g] = "panicked" => fpc'[g] = "panicked"
      BY <2>0, <2>8 DEF FlushStep, FlushStart, BeginFlush, FlushClose, FlushDrain,
         SetDataEnd, FlushClosing, FlushSubmit, FlushSkip, FlushPrep, FlushWrite,
         FlushWriteFails, FlushSync, FlushSyncFails, AtSync, StopFlush
    <3> QED
      BY <2>2, <3>1, <3>2 DEF Poisoned, ThreadPanicked
  <2>9. CASE UNCHANGED vars
    BY <2>2, <2>9 DEF vars, Poisoned, ThreadPanicked
  <2> QED
    BY <2>4, <2>5, <2>6, <2>7, <2>8, <2>9 DEF Next
<1>3. Inv => IdxFollowsSeq
  OBVIOUS
<1> QED
  BY <1>1, <1>2, <1>3, PTL DEF Spec

-----------------------------------------------------------------------------
Covers(p, x) == p.off <= x /\ x < p.off + p.len

\* A place of the open buffer that is filled, or will be before its drain ends.
Given(x) ==
  \/ \E p \in data[idx] : Covers(p, x)
  \/ \E t \in Threads : Pending(t) /\ Covers(res[t], x)

\* All places before the offset were given; the flush keeps this for the offset
\* it has noted; once the buffer is drained all of them are filled.
CoverInv ==
  /\ offset <= BufSize => \A x \in Nat : x < offset => Given(x)
  /\ \A f \in Flushers : fpc[f] = "drain" => \A x \in Nat : x < fin[f] => Given(x)
  /\ \A i \in Buffers : \A x \in Nat : x < dataEnd[i] => \E p \in data[i] : Covers(p, x)

-----------------------------------------------------------------------------
USE DEF Pending, Outstanding

\* A step by which no place is given or filled and no entry closed or opened.
Quiet ==
  /\ UNCHANGED <<offset, idx, dataEnd, data, res>>
  /\ \A t \in Threads : Pending(t) => Pending(t)'
  /\ \A f \in Flushers : fpc'[f] = "drain" => fpc[f] = "drain" /\ fin'[f] = fin[f]

LEMMA QuietSteps ==
  ASSUME OneFlusher, JournalInv, FastNext
  PROVE  \/ Quiet
         \/ \E t \in Threads : AddEntry(t) \/ \E n \in ReqSizes : ReserveFast(t, n)
         \/ \E f \in Flushers : FlushClose(f) \/ FlushDrain(f) \/ FlushOpen(f)
<1> USE DEF JournalInv, TypeInv, TypeOK, TaskType, FlushType, wordVars, bufVars, resVars,
       flVars, devVars, obsVars, Goto, GotoF, Quiet
<1>1. ASSUME NEW t \in Threads, ReadSeq(t) \/ Put(t) \/ PutCheck(t) \/ PutSubmit(t)
      PROVE  Quiet
  BY <1>1 DEF ReadSeq, Put, PutCheck, PutSubmit, ReleaseCount
<1>2. ASSUME NEW f \in Flushers,
             FlushStart(f, FALSE) \/ FlushClosing(f) \/ FlushSubmit(f) \/ FlushSkip(f)
             \/ FlushPrep(f) \/ FlushWrite(f) \/ FlushSync(f) \/ FlushPanics(f)
      PROVE  Quiet
  BY <1>2 DEF FlushStart, BeginFlush, FlushClosing, FlushSubmit, FlushSkip, FlushPrep,
     FlushWrite, FlushSync, FlushPanics, OpenPanics
<1>3. CASE UNCHANGED vars
  BY <1>3 DEF vars
<1> QED
  BY <1>1, <1>2, <1>3 DEF FastNext

LEMMA CoverStep ==
  ASSUME OneFlusher, JournalInv, CoverInv, [Next]_vars PROVE CoverInv'
<1> USE DEF JournalInv
<1>1. CASE Quiet
  <2>1. \A x : Given(x) => Given(x)'
    BY <1>1 DEF Quiet, Given, Covers
  <2> QED
    BY <1>1, <2>1 DEF Quiet, CoverInv, Covers
<1>2. ASSUME NEW t \in Threads, NEW n \in ReqSizes, ReserveFast(t, n) PROVE CoverInv'
  <2> DEFINE r == [rec |-> nrec + 1, idx |-> idx, off |-> offset, len |-> n]
  <2>1. /\ offset + n <= BufSize /\ offset' = offset + n
        /\ tpc[t] = "idle" /\ res'[t] = r /\ tpc'[t] = "reserved"
        /\ \A u \in Threads \ {t} : res'[u] = res[u] /\ tpc'[u] = tpc[u]
        /\ UNCHANGED <<idx, dataEnd, data, fpc, fin>>
    BY <1>2 DEF ReserveFast, Reserve, Fits, TakeSpace, Goto, bufVars, flVars, TypeInv,
       TypeOK, TaskType
  <2>2. offset \in Nat /\ n \in Nat /\ offset <= BufSize
    BY <2>1, Consts DEF TypeInv, TypeOK, WordType
  <2>3. res'[t].off = offset /\ res'[t].len = n
    BY <2>1
  <2> HIDE DEF r
  <2>4. \A x \in Nat : Given(x) => Given(x)'
    BY <2>1 DEF Given, Covers
  <2>5. \A x \in Nat : x < offset' => Given(x)'
    <3> SUFFICES ASSUME NEW x \in Nat, x < offset' PROVE Given(x)'
      OBVIOUS
    <3>1. CASE x < offset
      BY <3>1, <2>2, <2>4 DEF CoverInv
    <3>2. CASE ~(x < offset)
      <4>1. Covers(res'[t], x)
        BY <3>2, <2>1, <2>2, <2>3 DEF Covers
      <4> QED
        BY <4>1, <2>1 DEF Given, Covers
    <3> QED
      BY <3>1, <3>2
  <2>6. \A f \in Flushers : fpc'[f] = "drain" => \A x \in Nat : x < fin'[f] => Given(x)'
    BY <2>1, <2>4 DEF CoverInv
  <2> QED
    BY <2>1, <2>5, <2>6 DEF CoverInv, Covers
<1>3. ASSUME NEW t \in Threads, AddEntry(t) PROVE CoverInv'
  <2> DEFINE new == PlacedBy(t)
  <2>1. /\ tpc[t] = "held" /\ tpc'[t] = "filled"
        /\ data' = [data EXCEPT ![res[t].idx] = @ \cup {new}]
        /\ \A u \in Threads \ {t} : tpc'[u] = tpc[u]
        /\ UNCHANGED <<offset, idx, dataEnd, res, fpc, fin>>
    BY <1>3 DEF AddEntry, Goto, wordVars, flVars, TypeInv, TypeOK, TaskType
  <2>2. new.off = res[t].off /\ new.len = res[t].len
    BY DEF PlacedBy
  <2> HIDE DEF new
  <2>3. res[t].idx = idx /\ idx \in Buffers
    BY <2>1 DEF HolderInv, TypeInv, TypeOK, WordType
  <2>4. /\ \A i \in Buffers : data[i] \subseteq data'[i]
        /\ data'[idx] = data[idx] \cup {new}
    BY <2>1, <2>3 DEF TypeInv, TypeOK, BufType
  <2>5. \A x : Given(x) => Given(x)'
    <3> SUFFICES ASSUME NEW x, Given(x) PROVE Given(x)'
      OBVIOUS
    <3>1. CASE \E p \in data[idx] : Covers(p, x)
      BY <3>1, <2>1, <2>4 DEF Given, Covers
    <3>2. ASSUME NEW u \in Threads, Pending(u), Covers(res[u], x) PROVE Given(x)'
      <4>1. CASE u = t
        BY <4>1, <3>2, <2>1, <2>2, <2>4 DEF Given, Covers
      <4>2. CASE u # t
        BY <4>2, <3>2, <2>1 DEF Given, Covers
      <4> QED
        BY <4>1, <4>2
    <3> QED
      BY <3>1, <3>2 DEF Given
  <2> QED
    BY <2>1, <2>4, <2>5 DEF CoverInv, Covers
<1>4. ASSUME NEW f \in Flushers, FlushClose(f) PROVE CoverInv'
  <2>1. /\ fpc[f] = "close" /\ fin'[f] = offset /\ offset' = Closed
        /\ \A g \in Flushers : g = f
        /\ UNCHANGED <<idx, dataEnd, data, res, tpc>>
    BY <1>4 DEF OneFlusher, FlushClose, CloseEntry, bufVars, resVars, TypeInv, TypeOK, FlushType
  <2>2. offset <= BufSize /\ ~(offset' <= BufSize)
    BY <2>1, Consts DEF PhaseInv, Closed
  <2>3. \A x : Given(x) => Given(x)'
    BY <2>1 DEF Given, Covers
  <2> QED
    BY <2>1, <2>2, <2>3 DEF CoverInv, Covers
<1>5. ASSUME NEW f \in Flushers, FlushDrain(f) PROVE CoverInv'
  <2>1. /\ fpc[f] = "drain" /\ job[f].old = idx /\ count[idx] = 0 /\ fin[f] <= BufSize
        /\ idx \in Buffers /\ fin[f] \in Nat
    BY <1>5, Consts DEF FlushDrain, PhaseInv, TypeInv, TypeOK, WordType, FlushType
  <2>2. /\ dataEnd' = [dataEnd EXCEPT ![idx] = fin[f]]
        /\ fpc'[f] = "closing" /\ \A g \in Flushers : g = f
        /\ UNCHANGED <<offset, idx, data, res, tpc>>
    BY <1>5, <2>1, Consts DEF FlushDrain, SetDataEnd, Min2, GotoF, OneFlusher, wordVars,
       resVars, TypeInv, TypeOK, FlushType
  <2>3. \A t \in Threads : ~Pending(t)
    BY <2>1, DrainedMeansFree DEF HolderInv
  <2>4. \A x \in Nat : x < fin[f] => \E p \in data[idx] : Covers(p, x)
    BY <2>1, <2>3 DEF CoverInv, Given
  <2>5. /\ \A i \in Buffers \ {idx} : dataEnd'[i] = dataEnd[i]
        /\ dataEnd'[idx] = fin[f]
    BY <2>1, <2>2 DEF TypeInv, TypeOK, BufType
  <2>6. \A i \in Buffers : \A x \in Nat : x < dataEnd'[i] => \E p \in data[i] : Covers(p, x)
    <3> SUFFICES ASSUME NEW i \in Buffers, NEW x \in Nat, x < dataEnd'[i]
                 PROVE  \E p \in data[i] : Covers(p, x)
      OBVIOUS
    <3>1. CASE i = idx
      BY <3>1, <2>4, <2>5
    <3>2. CASE i # idx
      BY <3>2, <2>5 DEF CoverInv
    <3> QED
      BY <3>1, <3>2
  <2>7. \A x : Given(x) => Given(x)'
    BY <2>2 DEF Given, Covers
  <2> QED
    BY <2>2, <2>6, <2>7 DEF CoverInv, Covers
<1>6. ASSUME NEW f \in Flushers, FlushOpen(f) PROVE CoverInv'
  <2>1. /\ \A g \in Flushers : fpc'[g] # "drain"
        /\ offset' = 0 /\ NextIdx \in Buffers
        /\ data' = [data EXCEPT ![NextIdx] = {}]
        /\ dataEnd' = [dataEnd EXCEPT ![NextIdx] = 0]
    BY <1>6, NextIdxType DEF FlushOpen, OpenEntry, GotoF, OneFlusher, TypeInv, TypeOK,
       WordType, FlushType
  <2>2. /\ dataEnd'[NextIdx] = 0
        /\ \A i \in Buffers \ {NextIdx} : data'[i] = data[i] /\ dataEnd'[i] = dataEnd[i]
    BY <2>1 DEF TypeInv, TypeOK, BufType
  <2>3. \A i \in Buffers : \A x \in Nat :
          x < dataEnd'[i] => \E p \in data'[i] : Covers(p, x)
    <3> SUFFICES ASSUME NEW i \in Buffers, NEW x \in Nat, x < dataEnd'[i]
                 PROVE  \E p \in data'[i] : Covers(p, x)
      OBVIOUS
    <3>1. i # NextIdx
      BY <2>2
    <3> QED
      BY <3>1, <2>2 DEF CoverInv
  <2>4. \A x \in Nat : ~(x < offset')
    BY <2>1
  <2> QED
    BY <2>1, <2>3, <2>4 DEF CoverInv, Covers
<1> QED
  BY <1>1, <1>2, <1>3, <1>4, <1>5, <1>6, FastSteps, QuietSteps

\* What is submitted to the device has no hole below data_end, at which a
\* reader would stop (FlushDrain: data_end is set when the drain is over).
THEOREM NothingLeftOut == ASSUME OneFlusher PROVE Spec => []NoHoles
<1>1. Init => CoverInv
  BY Consts DEF Init, CoverInv, Buffers
<1>2. JournalInv /\ CoverInv /\ [Next]_vars => CoverInv'
  BY CoverStep
<1>3. JournalInv /\ CoverInv => NoHoles
  <2> SUFFICES ASSUME JournalInv, CoverInv, NEW i \in Buffers,
                      NEW x \in 0..(dataEnd[i] - 1)
               PROVE  \E p \in data[i] : p.off <= x /\ x < p.off + p.len
    BY DEF NoHoles
  <2>1. dataEnd[i] \in Nat
    BY Consts DEF JournalInv, TypeInv, TypeOK, BufType
  <2>2. x \in Nat /\ x < dataEnd[i]
    BY <2>1
  <2> QED
    BY <2>2 DEF CoverInv, Covers
<1> QED
  BY <1>1, <1>2, <1>3, JournalInvariant, PTL DEF Spec
=============================================================================
