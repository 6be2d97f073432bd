------------------------------- MODULE Journal -------------------------------
(***************************************************************************)
(* The in-memory half of the write-ahead journal: the packed reservation   *)
(* word, the ring of journal buffers, and the flush that turns buffers     *)
(* into blocks on the device (volmount-core/src/journal/types.rs).         *)
(*                                                                         *)
(* Threads are the tasks that append records (journal_res_get, add_entry,  *)
(* journal_res_put); Flushers are the tasks that may run                   *)
(* bch2_journal_flush.  A record is a number; its bytes, its checksum and  *)
(* the block layout are left out, its place in the buffer is kept.         *)
(* Refusals that change nothing (journal_error, the watermark) are steps   *)
(* that are not taken.                                                     *)
(***************************************************************************)
EXTENDS Naturals, FiniteSets

CONSTANTS
  Threads,       \* tasks that reserve space and append records
  Flushers,      \* tasks that may be inside bch2_journal_flush
  NBuf,          \* JOURNAL_STATE_BUF_NR
  BufSize,       \* BUF_SIZE_U64S, the capacity of one buffer
  CountMax,      \* BUF_COUNT_MAX, the largest per-buffer count
  ReqSizes,      \* sizes that a reservation may ask for
  MaxSeq,        \* bound of the model: entries opened
  MaxRec,        \* bound of the model: records appended
  WriteErrors,   \* TRUE: write_block may fail
  UseSlowpath,   \* TRUE: threads call journal_res_get, not only the fast path
  UseStop,       \* TRUE: flushers may call bch2_fs_journal_stop
  CommitErrors,  \* TRUE: trans_commit may fail after it has reserved space
  NoThread

ASSUME ThreadAssumption == IsFiniteSet(Threads) /\ NoThread \notin Threads
ASSUME BufAssumption ==
  /\ NBuf \in Nat /\ NBuf >= 2
  /\ BufSize \in Nat \ {0}
  /\ CountMax \in Nat \ {0}
  /\ ReqSizes \subseteq 1..BufSize
ASSUME BoundAssumption == MaxSeq \in Nat /\ MaxRec \in Nat
ASSUME SwitchAssumption ==
  {WriteErrors, UseSlowpath, UseStop, CommitErrors} \subseteq BOOLEAN

VARIABLES
  offset,     \* the reservation word: cur_entry_offset,
  idx,        \*   idx,
  count,      \*   and the count of every buffer
  bstate,     \* JournalBuf: state,
  bseq,       \*   seq,
  dataEnd,    \*   data_end,
  data,       \*   and the records that lie in data
  seq,        \* Journal.seq: the sequence number the next entry gets
  slow,       \* holder of slowpath_lock, or NoThread
  tpc,        \* where each appending task is
  res,        \* the place it reserved: record, buffer, offset, length
  rseq,       \* JournalRes.seq
  tries,      \* cycles the slow path has left
  fpc,        \* where each flushing task is
  job,        \* the flush: old_idx, and the records it has to persist
  fin,        \*   final_off
  cur,        \*   idx of write_bufs_to_bucket
  cap,        \*   buf_data
  disk,       \* records written to the device
  durable     \* records that backend.flush() has made durable

(***************************************************************************)
(* Observer variables: they are never read by the actions.                 *)
(***************************************************************************)
VARIABLES
  nrec,       \* records reserved so far: the last record number given out
  committed,  \* records whose journal_res_put has run
  lapped,     \* an entry was opened over one that no flush had drained
  acked       \* records that a flush which returned Ok had to persist

wordVars == <<offset, idx, count>>
bufVars  == <<bstate, bseq, dataEnd, data>>
resVars  == <<slow, tpc, res, rseq, tries>>
flVars   == <<fpc, job, fin, cur, cap>>
devVars  == <<disk, durable>>
obsVars  == <<nrec, committed, lapped, acked>>
vars     == <<offset, idx, count, bstate, bseq, dataEnd, data, seq, slow, tpc,
              res, rseq, tries, fpc, job, fin, cur, cap, disk, durable,
              nrec, committed, lapped, acked>>

Buffers   == 0..(NBuf - 1)
Closed    == BufSize + 1      \* any offset no request fits behind
Records   == 1..MaxRec
BufStates == {"Free", "Accepting", "Closing", "WriteSubmitted", "WriteDone"}
Placed    == [rec : Records, off : 0..BufSize, len : ReqSizes, seq : Nat]

-----------------------------------------------------------------------------
(* The reservation word. *)

\* Wrong: the room left in the buffer is not looked at.
FitsAnywhere(n) == count[idx] < CountMax

\* Does a request of n u64s succeed in try_reserve?
Fits(n) == offset + n <= BufSize /\ count[idx] < CountMax

\* The successful CAS of try_reserve.
TakeSpace(n) ==
  /\ offset' = offset + n
  /\ count' = [count EXCEPT ![idx] = @ + 1]
  /\ idx' = idx

\* close_entry: only the offset changes, idx and the counts stay.
CloseEntry == offset' = Closed /\ UNCHANGED <<idx, count>>

\* release: fetch_sub on the count of buffer i.  The counts are fields of one
\* integer, so that a count of 0 borrows from the counts above it.
ReleaseCount(i) ==
  /\ count' = [j \in Buffers |->
       IF j >= i /\ \A k \in i..(j - 1) : count[k] = 0
       THEN IF count[j] = 0 THEN CountMax ELSE count[j] - 1
       ELSE count[j]]
  /\ UNCHANGED <<offset, idx>>

-----------------------------------------------------------------------------
(* Buffers. *)

\* Wrong: the first buffer that can be reused, not the next one.
FirstFreeIdx ==
  LET free == {i \in Buffers : bstate[i] \in {"Free", "WriteDone"}} IN
  IF free = {} THEN idx ELSE CHOOSE i \in free : \A j \in free : i <= j

\* The buffer journal_entry_open moves to.
NextIdx == (idx + 1) % NBuf

\* find_free_buf's assertion on that buffer.
NextIsFree == bstate[NextIdx] \in {"Free", "WriteDone"}

\* A panic inside journal_entry_open happens with the in_flight mutex held.
ThreadPanicked == \E t \in Threads : tpc[t] = "panicked"
Poisoned == ThreadPanicked \/ \E f \in Flushers : fpc[f] = "panicked"

\* journal_entry_open after find_free_buf: the buffer is reset, the word is
\* switched to it and its count cleared.
OpenEntry ==
  /\ NextIsFree /\ ~Poisoned
  /\ seq' = seq + 1
  /\ bstate' = [bstate EXCEPT ![NextIdx] = "Accepting"]
  /\ bseq' = [bseq EXCEPT ![NextIdx] = seq]
  /\ dataEnd' = [dataEnd EXCEPT ![NextIdx] = 0]
  /\ data' = [data EXCEPT ![NextIdx] = {}]
  /\ offset' = 0
  /\ idx' = NextIdx
  /\ count' = [count EXCEPT ![NextIdx] = 0]

\* journal_entry_open when the assertion fails, after seq was advanced, or
\* when the in_flight mutex was poisoned by an earlier failure.
OpenPanics ==
  /\ ~NextIsFree \/ Poisoned
  /\ seq' = IF Poisoned THEN seq ELSE seq + 1
  /\ UNCHANGED <<wordVars, bufVars>>

\* Records a write of buffer i puts on the device: data[..data_end].
Captured(i) == {p.rec : p \in {q \in data[i] : q.off + q.len <= dataEnd[i]}}

Min2(a, b) == IF a <= b THEN a ELSE b

-----------------------------------------------------------------------------
(* An appending task: journal_res_get, add_entry, journal_res_put.          *)

NoRes == [rec |-> 0, idx |-> 0, off |-> 0, len |-> 0]

Outstanding == {"reserved", "held", "filled"}

Goto(t, pc)  == tpc' = [tpc EXCEPT ![t] = pc]
GotoF(f, pc) == fpc' = [fpc EXCEPT ![f] = pc]

Reserve(t, n) ==
  /\ Fits(n)
  /\ nrec < MaxRec
  /\ TakeSpace(n)
  /\ nrec' = nrec + 1
  /\ res' = [res EXCEPT ![t] = [rec |-> nrec + 1, idx |-> idx, off |-> offset, len |-> n]]
  /\ Goto(t, "reserved")

\* The fast path: one CAS on the word.
ReserveFast(t, n) ==
  /\ tpc[t] = "idle"
  /\ Reserve(t, n)
  /\ UNCHANGED <<bufVars, seq, slow, rseq, tries, flVars, devVars,
                 committed, lapped, acked>>

\* Wrong: the counter, which is already the seq of the next entry.
ReadSeqOfCounter(t) ==
  /\ tpc[t] = "reserved"
  /\ rseq' = [rseq EXCEPT ![t] = seq]
  /\ Goto(t, "held")
  /\ UNCHANGED <<wordVars, bufVars, seq, slow, res, tries, flVars, devVars, obsVars>>

\* The entry's seq is read from the buffer after the CAS.
ReadSeq(t) ==
  /\ tpc[t] = "reserved"
  /\ rseq' = [rseq EXCEPT ![t] = bseq[res[t].idx]]
  /\ Goto(t, "held")
  /\ UNCHANGED <<wordVars, bufVars, seq, slow, res, tries, flVars, devVars, obsVars>>

\* commit_with_engine or serialize_padded fails between the reservation and
\* journal_res_put: trans_commit returns with `?` and the count stays.
CommitFails(t) ==
  /\ CommitErrors
  /\ tpc[t] = "held"
  /\ Goto(t, "idle")
  /\ UNCHANGED <<wordVars, bufVars, seq, slow, res, rseq, tries, flVars, devVars, obsVars>>

PlacedBy(t) ==
  [rec |-> res[t].rec, off |-> res[t].off, len |-> res[t].len, seq |-> rseq[t]]

AddEntry(t) ==
  /\ tpc[t] = "held"
  /\ data' = [data EXCEPT ![res[t].idx] = @ \cup {PlacedBy(t)}]
  /\ Goto(t, "filled")
  /\ UNCHANGED <<wordVars, bstate, bseq, dataEnd, seq, slow, res, rseq, tries,
                 flVars, devVars, obsVars>>

\* Wrong: the reservation is never given back.
PutNoRelease(t) ==
  /\ tpc[t] = "filled"
  /\ committed' = committed \cup {res[t].rec}
  /\ Goto(t, "idle")
  /\ UNCHANGED <<wordVars, bufVars, seq, slow, res, rseq, tries, flVars, devVars,
                 nrec, lapped, acked>>

\* journal_res_put: the decrement; the last one out looks at the buffer.
Put(t) ==
  /\ tpc[t] = "filled"
  /\ ReleaseCount(res[t].idx)
  /\ committed' = committed \cup {res[t].rec}
  /\ Goto(t, IF count[res[t].idx] = 1 THEN "check" ELSE "idle")
  /\ UNCHANGED <<bufVars, seq, slow, res, rseq, tries, flVars, devVars,
                 nrec, lapped, acked>>

PutCheck(t) ==
  /\ tpc[t] = "check"
  /\ Goto(t, IF bstate[res[t].idx] = "Closing" THEN "submit" ELSE "idle")
  /\ UNCHANGED <<wordVars, bufVars, seq, slow, res, rseq, tries, flVars, devVars, obsVars>>

PutSubmit(t) ==
  /\ tpc[t] = "submit"
  /\ bstate' = [bstate EXCEPT ![res[t].idx] = "WriteSubmitted"]
  /\ Goto(t, "idle")
  /\ UNCHANGED <<wordVars, bseq, dataEnd, data, seq, slow, res, rseq, tries,
                 flVars, devVars, obsVars>>

-----------------------------------------------------------------------------
(* journal_res_get_slowpath, under slowpath_lock: cycle and retry, spin and *)
(* retry (in_flight is never emptied, so the spin always runs to its end),  *)
(* reclaim, cycle and retry, Overflow.  Whether the next bucket is dirty,   *)
(* and what the pin callbacks of the reclaim step do, is external here.     *)

\* The fast path failed; the lock is taken later, with no second look.
ReserveSlow(t, n) ==
  /\ UseSlowpath
  /\ tpc[t] = "idle"
  /\ ~Fits(n)
  /\ nrec < MaxRec
  /\ res' = [res EXCEPT ![t] = [NoRes EXCEPT !.len = n]]
  /\ tries' = [tries EXCEPT ![t] = 2]
  /\ Goto(t, "lock")
  /\ UNCHANGED <<wordVars, bufVars, seq, slow, rseq, flVars, devVars, obsVars>>

Overflow(t) == Goto(t, "idle") /\ slow' = NoThread

\* A task that panics in the slow path poisons slowpath_lock for the others.
SlowLock(t) ==
  /\ tpc[t] = "lock"
  /\ slow = NoThread
  /\ IF ThreadPanicked THEN Goto(t, "panicked") /\ slow' = slow
                       ELSE Goto(t, "cycle") /\ slow' = t
  /\ UNCHANGED <<wordVars, bufVars, seq, res, rseq, tries, flVars, devVars, obsVars>>

CycleClose(t) ==
  /\ tpc[t] = "cycle"
  /\ seq <= MaxSeq
  /\ CloseEntry
  /\ tries' = [tries EXCEPT ![t] = @ - 1]
  /\ Goto(t, "rotate")
  /\ UNCHANGED <<bufVars, seq, slow, res, rseq, flVars, devVars, obsVars>>

\* journal_cycle_locked finds the next bucket dirty: closed, not reopened.
CycleNoBucket(t) ==
  /\ tpc[t] = "rotate"
  /\ IF tries[t] = 0 THEN Overflow(t) ELSE Goto(t, "retry") /\ slow' = slow
  /\ UNCHANGED <<wordVars, bufVars, seq, res, rseq, tries, flVars, devVars, obsVars>>

CycleOpen(t) ==
  /\ tpc[t] = "rotate"
  /\ \/ OpenEntry  /\ Goto(t, "retry") /\ slow' = slow
     \/ OpenPanics /\ Goto(t, "panicked") /\ slow' = NoThread
  /\ lapped' = TRUE
  /\ UNCHANGED <<res, rseq, tries, flVars, devVars, nrec, committed, acked>>

SlowReserve(t) ==
  /\ tpc[t] = "retry"
  /\ Reserve(t, res[t].len)
  /\ slow' = NoThread
  /\ UNCHANGED <<bufVars, seq, rseq, tries, flVars, devVars, committed, lapped, acked>>

SlowRetry(t) ==
  /\ tpc[t] = "retry"
  /\ ~Fits(res[t].len)
  /\ IF tries[t] = 0 THEN Overflow(t) ELSE Goto(t, "cycle") /\ slow' = slow
  /\ UNCHANGED <<wordVars, bufVars, seq, res, rseq, tries, flVars, devVars, obsVars>>

-----------------------------------------------------------------------------
(* bch2_journal_flush and bch2_fs_journal_stop.                             *)

BeginFlush(f, stop) ==
  /\ job' = [job EXCEPT ![f] = [old |-> idx, snap |-> committed, stop |-> stop]]
  /\ GotoF(f, "close")
  /\ UNCHANGED <<wordVars, bufVars, seq, resVars, fin, cur, cap, devVars, obsVars>>

FlushStart(f, stop) ==
  /\ fpc[f] = "idle"
  /\ seq <= MaxSeq
  /\ BeginFlush(f, stop)

\* Wrong: the offset is read but the entry stays open.
FlushNoClose(f) ==
  /\ fpc[f] = "close"
  /\ fin' = [fin EXCEPT ![f] = offset]
  /\ GotoF(f, "drain")
  /\ UNCHANGED <<wordVars, bufVars, seq, resVars, job, cur, cap, devVars, obsVars>>

\* journal_entry_close returns the offset it found.
FlushClose(f) ==
  /\ fpc[f] = "close"
  /\ CloseEntry
  /\ fin' = [fin EXCEPT ![f] = offset]
  /\ GotoF(f, "drain")
  /\ UNCHANGED <<bufVars, seq, resVars, job, cur, cap, devVars, obsVars>>

SetDataEnd(f) ==
  /\ dataEnd' = [dataEnd EXCEPT ![job[f].old] = Min2(fin[f], BufSize)]
  /\ GotoF(f, "closing")
  /\ UNCHANGED <<wordVars, bstate, bseq, data, seq, resVars, job, fin, cur, cap,
                 devVars, obsVars>>

\* Wrong: data_end is set without waiting for the reservations.
FlushNoDrain(f) == fpc[f] = "drain" /\ SetDataEnd(f)

\* wait_for_pending_drain, then data_end.
FlushDrain(f) ==
  /\ fpc[f] = "drain"
  /\ count[job[f].old] = 0
  /\ SetDataEnd(f)

\* Every buffer in state a moves to state b.
Advance(a, b) ==
  bstate' = [i \in Buffers |-> IF bstate[i] = a THEN b ELSE bstate[i]]

FlushClosing(f) ==
  /\ fpc[f] = "closing"
  /\ Advance("Accepting", "Closing")
  /\ GotoF(f, "submit")
  /\ UNCHANGED <<wordVars, bseq, dataEnd, data, seq, resVars, job, fin, cur, cap,
                 devVars, obsVars>>

FlushSubmit(f) ==
  /\ fpc[f] = "submit"
  /\ Advance("Closing", "WriteSubmitted")
  /\ cur' = [cur EXCEPT ![f] = 0]
  /\ GotoF(f, "prep")
  /\ UNCHANGED <<wordVars, bseq, dataEnd, data, seq, resVars, job, fin, cap,
                 devVars, obsVars>>

\* write_bufs_to_bucket passes over the buffers that are not WriteSubmitted.
FlushSkip(f) ==
  /\ fpc[f] = "prep"
  /\ cur[f] < NBuf
  /\ bstate[cur[f]] # "WriteSubmitted"
  /\ cur' = [cur EXCEPT ![f] = @ + 1]
  /\ UNCHANGED <<wordVars, bufVars, seq, resVars, fpc, job, fin, cap, devVars, obsVars>>

\* For the others the data are copied, the write-done callbacks run and the
\* state is set before the device is asked.
FlushPrep(f) ==
  /\ fpc[f] = "prep"
  /\ cur[f] < NBuf
  /\ bstate[cur[f]] = "WriteSubmitted"
  /\ bstate' = [bstate EXCEPT ![cur[f]] = "WriteDone"]
  /\ cap' = [cap EXCEPT ![f] = Captured(cur[f])]
  /\ GotoF(f, "write")
  /\ UNCHANGED <<wordVars, bseq, dataEnd, data, seq, resVars, job, fin, cur,
                 devVars, obsVars>>

\* bch2_journal_write: the blocks; with must_flush the device is flushed too,
\* and it may always write back its cache by itself.
FlushWrite(f) ==
  /\ fpc[f] = "write"
  /\ disk' = disk \cup cap[f]
  /\ durable' \in {durable, disk'}
  /\ cap' = [cap EXCEPT ![f] = {}]
  /\ cur' = [cur EXCEPT ![f] = @ + 1]
  /\ GotoF(f, "prep")
  /\ UNCHANGED <<wordVars, bufVars, seq, resVars, job, fin, obsVars>>

\* write_block fails, or rotate_or_reclaim finds no bucket: `?` leaves with
\* the entry closed and the buffer WriteDone; some blocks may be written.
FlushWriteFails(f) ==
  /\ WriteErrors
  /\ fpc[f] = "write"
  /\ \E S \in SUBSET cap[f] : disk' = disk \cup S
  /\ cap' = [cap EXCEPT ![f] = {}]
  /\ GotoF(f, "idle")
  /\ UNCHANGED <<wordVars, bufVars, seq, resVars, job, fin, cur, durable, obsVars>>

AtSync(f) == fpc[f] = "prep" /\ cur[f] = NBuf

\* Wrong: the device is not asked to persist what was written.
FlushNoSync(f) ==
  /\ AtSync(f)
  /\ GotoF(f, "open")
  /\ UNCHANGED <<wordVars, bufVars, seq, resVars, job, fin, cur, cap, devVars, obsVars>>

\* backend.flush() at the end of the flush.
FlushSync(f) ==
  /\ AtSync(f)
  /\ durable' = disk
  /\ GotoF(f, "open")
  /\ UNCHANGED <<wordVars, bufVars, seq, resVars, job, fin, cur, cap, disk, obsVars>>

FlushSyncFails(f) ==
  /\ WriteErrors
  /\ AtSync(f)
  /\ GotoF(f, "idle")
  /\ UNCHANGED <<wordVars, bufVars, seq, resVars, job, fin, cur, cap, devVars, obsVars>>

\* The next entry is opened and the flush returns Ok; in the first half of
\* bch2_fs_journal_stop one more entry is opened afterwards.
FlushOpen(f) ==
  /\ fpc[f] = "open"
  /\ OpenEntry
  /\ acked' = acked \cup job[f].snap
  /\ GotoF(f, IF job[f].stop THEN "meta" ELSE "idle")
  /\ UNCHANGED <<resVars, job, fin, cur, cap, devVars, nrec, committed, lapped>>

StopOpen(f) ==
  /\ fpc[f] = "meta"
  /\ OpenEntry
  /\ GotoF(f, "again")
  /\ lapped' = TRUE
  /\ UNCHANGED <<resVars, job, fin, cur, cap, devVars, nrec, committed, acked>>

FlushPanics(f) ==
  /\ fpc[f] \in {"open", "meta"}
  /\ OpenPanics
  /\ GotoF(f, "panicked")
  /\ UNCHANGED <<resVars, job, fin, cur, cap, devVars, obsVars>>

\* ... and the second flush of bch2_fs_journal_stop begins.
StopFlush(f) == fpc[f] = "again" /\ BeginFlush(f, FALSE)

-----------------------------------------------------------------------------
\* Journal::new: seq starts at 1 and the first entry is opened in buffer 1.
Init ==
  /\ offset = 0 /\ idx = 1 /\ count = [i \in Buffers |-> 0]
  /\ bstate = [i \in Buffers |-> IF i = 1 THEN "Accepting" ELSE "Free"]
  /\ bseq = [i \in Buffers |-> IF i = 1 THEN 1 ELSE 0]
  /\ dataEnd = [i \in Buffers |-> 0]
  /\ data = [i \in Buffers |-> {}]
  /\ seq = 2
  /\ slow = NoThread
  /\ tpc = [t \in Threads |-> "idle"]
  /\ res = [t \in Threads |-> NoRes]
  /\ rseq = [t \in Threads |-> 0]
  /\ tries = [t \in Threads |-> 0]
  /\ fpc = [f \in Flushers |-> "idle"]
  /\ job = [f \in Flushers |-> [old |-> 0, snap |-> {}, stop |-> FALSE]]
  /\ fin = [f \in Flushers |-> 0]
  /\ cur = [f \in Flushers |-> 0]
  /\ cap = [f \in Flushers |-> {}]
  /\ disk = {} /\ durable = {}
  /\ nrec = 0 /\ committed = {} /\ lapped = FALSE /\ acked = {}

\* The steps a task takes without waiting for a caller.
ThreadStep(t) ==
  \/ ReadSeq(t) \/ CommitFails(t) \/ AddEntry(t)
  \/ Put(t) \/ PutCheck(t) \/ PutSubmit(t)
  \/ SlowLock(t) \/ CycleClose(t) \/ CycleNoBucket(t) \/ CycleOpen(t)
  \/ SlowReserve(t) \/ SlowRetry(t)

FlushStep(f) ==
  \/ FlushClose(f) \/ FlushDrain(f) \/ FlushClosing(f) \/ FlushSubmit(f)
  \/ FlushSkip(f) \/ FlushPrep(f) \/ FlushWrite(f) \/ FlushWriteFails(f)
  \/ FlushSync(f) \/ FlushSyncFails(f) \/ FlushOpen(f)
  \/ StopOpen(f) \/ FlushPanics(f) \/ StopFlush(f)

Next ==
  \/ \E t \in Threads :
       \/ \E n \in ReqSizes : ReserveFast(t, n) \/ ReserveSlow(t, n)
       \/ ThreadStep(t)
  \/ \E f \in Flushers :
       \/ FlushStart(f, FALSE) \/ (UseStop /\ FlushStart(f, TRUE))
       \/ FlushStep(f)

Spec == Init /\ [][Next]_vars

\* Every task that has begun keeps being scheduled.
Fairness ==
  /\ \A t \in Threads : WF_vars(ThreadStep(t))
  /\ \A f \in Flushers : WF_vars(FlushStep(f))

FairSpec == Spec /\ Fairness

-----------------------------------------------------------------------------
(* Properties. *)

ThreadPC == {"idle", "reserved", "held", "filled", "check", "submit", "lock",
             "cycle", "rotate", "retry", "panicked"}
FlushPC  == {"idle", "close", "drain", "closing", "submit", "prep", "write",
             "open", "meta", "again", "panicked"}


Reservations == [rec : 0..MaxRec, idx : Buffers, off : 0..BufSize, len : ReqSizes \cup {0}]
Jobs == [old : Buffers, snap : SUBSET Records, stop : BOOLEAN]

WordType == offset \in 0..Closed /\ idx \in Buffers /\ count \in [Buffers -> 0..CountMax]
BufType ==
  /\ bstate \in [Buffers -> BufStates] /\ bseq \in [Buffers -> Nat]
  /\ dataEnd \in [Buffers -> 0..BufSize] /\ data \in [Buffers -> SUBSET Placed]
  /\ seq \in Nat
TaskType ==
  /\ slow \in Threads \cup {NoThread}
  /\ tpc \in [Threads -> ThreadPC] /\ res \in [Threads -> Reservations]
  /\ rseq \in [Threads -> Nat] /\ tries \in [Threads -> 0..2]
FlushType ==
  /\ fpc \in [Flushers -> FlushPC] /\ job \in [Flushers -> Jobs]
  /\ fin \in [Flushers -> 0..Closed] /\ cur \in [Flushers -> 0..NBuf]
  /\ cap \in [Flushers -> SUBSET Records]
RecordType ==
  /\ disk \subseteq Records /\ durable \subseteq Records /\ nrec \in 0..MaxRec
  /\ committed \subseteq Records /\ lapped \in BOOLEAN /\ acked \subseteq Records

\* The type invariant.
TypeOK == WordType /\ BufType /\ TaskType /\ FlushType /\ RecordType

\* The tasks that hold a reservation in buffer i.
Holders(i) == {t \in Threads : tpc[t] \in Outstanding /\ res[t].idx = i}

\* The count of every buffer is the number of reservations held in it, so that
\* a drained buffer has no writer and no put borrows from the next field
\* (JournalResState::try_reserve, release, open_entry, wait_for_pending_drain).
CountIsOutstanding ==
  \A i \in Buffers : count[i] = Cardinality(Holders(i))

\* Even when commits fail and leak their reservation, a buffer whose count has
\* come down to zero has no writer: the drain of a flush is never too short.
\* (Not so once an entry was opened over one that was not drained: its buffer
\* comes round again and its count is cleared under the writers.)
DrainIsSafe == ~lapped =>
  \A i \in Buffers : count[i] >= Cardinality(Holders(i))

\* Nor does anything but what its writer has put back reach the device: no
\* half-written record (add_entry before journal_res_put, drain before write).
OnlyCommittedOnDisk == ~lapped => disk \subseteq committed

\* A record that a flush had to persist is durable once the flush has returned
\* Ok: one flush persists everything appended before it
\* (bch2_journal_flush, "one flush persists the data of all buffers").
AckedDurable == acked \subseteq durable

\* What is handed to the device has no hole: below data_end of a submitted
\* buffer every u64 belongs to a record that was filled in.  A hole is a zero
\* block, and bch2_journal_read stops at the first one.
NoHoles ==
  \A i \in Buffers : bstate[i] = "WriteSubmitted" =>
    \A x \in 0..(dataEnd[i] - 1) :
      \E p \in data[i] : p.off <= x /\ x < p.off + p.len

\* Two records never share a place in a buffer, and a record carries the seq
\* of the entry it lies in (journal_res_get_fast reads buf.seq after the CAS).
EntryConsistent == ~lapped =>
  \A i \in Buffers : \A p \in data[i] :
    /\ p.seq = bseq[i]
    /\ \A q \in data[i] : p # q => p.off + p.len <= q.off \/ q.off + q.len <= p.off

\* journal_entry_open never meets a buffer that is still in use
\* (the assertion of find_free_buf).
NoPanic == ~Poisoned

\* The open buffer is the one its seq says, as bcachefs' BUG_ON in
\* find_free_buf asks, and no other buffer is ahead of it.
IdxFollowsSeq ==
  NoPanic => /\ idx = (seq - 1) % NBuf
             /\ bseq[idx] = seq - 1
             /\ \A i \in Buffers \ {idx} : bseq[i] < seq - 1

\* A buffer goes through its states in the documented order: Free, Accepting,
\* Closing, WriteSubmitted, WriteDone, and from WriteDone back to Free.
NextStates(s) ==
  CASE s = "Free"           -> {"Accepting"}
    [] s = "Accepting"      -> {"Closing"}
    [] s = "Closing"        -> {"WriteSubmitted"}
    [] s = "WriteSubmitted" -> {"WriteDone"}
    [] s = "WriteDone"      -> {"Free", "Accepting"}
BufLifecycle ==
  [][\A i \in Buffers : bstate'[i] # bstate[i] =>
       bstate'[i] \in NextStates(bstate[i])]_vars

\* A flush that has begun ends: the tasks that hold reservations put them back
\* and the spin of wait_for_pending_drain is left.
FlushEnds ==
  \A f \in Flushers : fpc[f] # "idle" ~> fpc[f] \in {"idle", "panicked"}

\* What the journal promises to its users: see DurableLog.
Log == INSTANCE DurableLog WITH
         Records <- Records, committed <- committed, durable <- durable, acked <- acked
LogSpec == Log!Spec
==============================================================================
