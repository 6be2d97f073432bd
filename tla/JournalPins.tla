---------------------------- MODULE JournalPins ----------------------------
(***************************************************************************)
(* Journal pins: the FIFO of pin lists, the pins of btree nodes and key    *)
(* cache entries, the loop that flushes them, and last_seq_ondisk          *)
(* (volmount-core/src/journal/reclaim.rs and the end of                    *)
(* bch2_journal_flush in journal/types.rs).                                *)
(*                                                                         *)
(* A task is inside one call at a time.  A section under the lock of a pin *)
(* list is one step, unless it has to wait for pin.flush, the lock of the  *)
(* callback: then the pin list stays locked.  The two locks of pin_set are *)
(* taken together, the code takes them in the order of the entries.        *)
(* The walk of journal_get_next_pin over the lists is one step.            *)
(***************************************************************************)
EXTENDS Integers, Sequences, FiniteSets

CONSTANTS
  Workers,      \* tasks that set, copy and drop pins
  Flushers,     \* tasks that flush the journal or reclaim
  Pins,
  NTypes,
  FifoSize,     \* PIN_FIFO_SIZE
  NBuf,         \* JOURNAL_STATE_BUF_NR
  Uses,         \* the ways in which a journal may be used
  NoPin, NoTask

\* One way to use a journal.  first and disk are the seq of the entry that is
\* opened first and last_seq_ondisk: 1 and 0 in Journal::new, what the
\* superblock holds in from_superblock.
Use == [workers : SUBSET Workers, flushers : SUBSET Flushers, pins : SUBSET Pins,
        type : [Pins -> 1..NTypes],  \* the place in JOURNAL_PIN_FLUSH_ORDER
        first : Nat \ {0}, disk : Nat,
        last : Nat,                  \* bound of the model: the last entry opened
        writes : BOOLEAN,            \* bch2_journal_flush is called, not only reclaim
        rearm : SUBSET BOOLEAN,      \* flush_fn.is_some() of pin_set
        callbacks : SUBSET {"drop", "keep", "error"},  \* what a callback may do
        serial : BOOLEAN]            \* calls are made under one lock

ASSUME FifoAssumption == FifoSize \in Nat /\ FifoSize >= 2 /\ NBuf \in 2..FifoSize
ASSUME PinAssumption == IsFiniteSet(Pins) /\ NoPin \notin Pins /\ NTypes \in Nat \ {0}
ASSUME TaskAssumption == NoTask \notin Workers \cup Flushers
ASSUME UseAssumption == Uses # {} /\ \A u \in Uses : u \in Use

VARIABLE use    \* chosen at the start

VARIABLES
  head, tail,   \* PinListFifo
  cnt,          \* JournalEntryPinList: count,
  unflushed,    \*   the lists of pins by type,
  flushed,      \*   the pins whose callback has run,
  lock,         \*   and who holds its lock
  seq,          \* Journal.seq: the seq the next entry gets
  disk,         \* last_seq_ondisk
  written,      \* the last entry that bch2_journal_flush has written
  pseq,         \* JournalEntryPin: seq,
  hasFn,        \*   is there a callback,
  cbLock,       \*   and who holds pin.flush
  fip,          \* flush_in_progress
  fipDropped,   \* flush_in_progress_dropped
  pc, op,       \* where a task is, and the call it makes
  n,            \* entries that it is about to drain
  fl            \* a flusher: target, the pin it flushes, its seq, the result

(* Observers, never read by the actions. *)
VARIABLES
  entry,        \* the entry a slot of the FIFO was pushed for
  puts          \* how often pin_put has hit that slot since

fifoVars == <<head, tail, cnt, unflushed, flushed, lock, entry, puts>>
pinVars  == <<pseq, hasFn, cbLock>>
fipVars  == <<fip, fipDropped>>
seqVars  == <<seq, disk, written>>
taskVars == <<pc, op, n, fl>>
vars     == <<use, fifoVars, pinVars, fipVars, seqVars, taskVars>>

Tasks   == Workers \cup Flushers
Slots   == 0..(FifoSize - 1)
NoSlot  == -1
Types   == 1..NTypes
NoOp    == [kind |-> "none", pin |-> NoPin, src |-> NoPin, seq |-> 0, old |-> 0,
            fn |-> FALSE, new |-> NoSlot, from |-> NoSlot, back |-> "idle"]
NoFlush == [mode |-> "none", target |-> 0, pin |-> NoPin, seq |-> 0, ok |-> TRUE]

-----------------------------------------------------------------------------
(* PinListFifo. *)

Next1(i)  == (i + 1) % FifoSize
IsFull    == Next1(tail) = head
Length    == (tail - head) % FifoSize
Live      == {(head + k) % FifoSize : k \in 0..(Length - 1)}

\* entry_for_seq: by position only, a list does not know its entry.
SlotOf(s) == LET i == s % FifoSize IN IF i \in Live THEN i ELSE NoSlot

\* Wrong: one list is taken without looking at its count.
DrainableOrOne == IF Length = 0 THEN 0 ELSE 1

\* drainable_front_count_zero: how many lists at the front are released.
Drainable ==
  LET Zero(k) == \A j \in 0..(k - 1) : cnt[(head + j) % FifoSize] = 0
  IN  CHOOSE k \in 0..Length : Zero(k) /\ (k = Length \/ ~Zero(k + 1))

\* Link::remove takes a pin off whatever list it is linked into.
Without(list, p) ==
  LET kept[k \in 0..Len(list)] ==
        IF k = 0 THEN <<>>
        ELSE IF list[k] = p THEN kept[k - 1] ELSE Append(kept[k - 1], list[k])
  IN  kept[Len(list)]
Unlink(p) ==
  [u |-> [i \in Slots |-> [ty \in Types |-> Without(unflushed[i][ty], p)]],
   f |-> [i \in Slots |-> Without(flushed[i], p)]]

Members(list) == {list[k] : k \in 1..Len(list)}
Links(p) ==
  {l \in Live \X Types : p \in Members(unflushed[l[1]][l[2]])}
    \cup {<<i, 0>> : i \in {j \in Live : p \in Members(flushed[j])}}

Active(p) == pseq[p] # 0

Goto(t, where) == pc' = [pc EXCEPT ![t] = where]

\* The calls of one volume are made under the daemon's lock.
MayStart(t) == use.serial => \A u \in Tasks \ {t} : pc[u] \in {"idle", "panicked", "poisoned"}

-----------------------------------------------------------------------------
(* pin_set, pin_add, pin_update, pin_copy, pin_drop: what the caller asks. *)

\* A caller holds a reservation in the entry it pins, which is not written
\* before the reservation is returned.
Pinnable == (written + 1)..(seq - 1)

Call(t, o, where) ==
  /\ pc[t] = "idle" /\ MayStart(t)
  /\ op' = [op EXCEPT ![t] = o]
  /\ Goto(t, where)
  /\ UNCHANGED <<fifoVars, pinVars, fipVars, seqVars, n, fl>>

PinSet(t) == \E p \in use.pins, s \in Pinnable, f \in use.rearm :
  Call(t, [NoOp EXCEPT !.kind = "set", !.pin = p, !.seq = s, !.fn = f], "read")

PinAdd(t) == \E p \in use.pins, s \in Pinnable, f \in use.rearm :
  /\ ~Active(p) \/ pseq[p] > s
  /\ Call(t, [NoOp EXCEPT !.kind = "set", !.pin = p, !.seq = s, !.fn = f], "read")

PinUpdate(t) == \E p \in use.pins, s \in Pinnable, f \in use.rearm :
  /\ ~Active(p) \/ pseq[p] < s
  /\ Call(t, [NoOp EXCEPT !.kind = "set", !.pin = p, !.seq = s, !.fn = f], "read")

PinCopy(t) == \E p, q \in use.pins, f \in use.rearm :
  /\ p # q /\ Active(q)
  /\ Call(t, [NoOp EXCEPT !.kind = "copy", !.pin = p, !.src = q, !.fn = f], "read")

PinDrop(t) == \E p \in use.pins :
  /\ Active(p)
  /\ Call(t, [NoOp EXCEPT !.kind = "drop", !.pin = p], "read")

\* bch2_journal_pin_flush asks that the pin is not active.
PinFlush(t) == \E p \in use.pins :
  /\ ~Active(p) /\ fip = p
  /\ Call(t, [NoOp EXCEPT !.kind = "flush", !.pin = p], "wait")

WaitOver(t) ==
  /\ pc[t] = "wait" /\ fip # op[t].pin
  /\ Goto(t, "idle")
  /\ op' = [op EXCEPT ![t] = NoOp]
  /\ UNCHANGED <<fifoVars, pinVars, fipVars, seqVars, n, fl>>

-----------------------------------------------------------------------------
(* The retry loop of pin_set, pin_copy and pin_drop.                       *)

Finish(t) ==
  /\ Goto(t, op[t].back)
  /\ op' = [op EXCEPT ![t] = NoOp]

\* The loads at the head of the loop: the seqs, and the lists they stand for.
\* journal_seq_pin panics when the list is not in the FIFO, maybe_seq_pin
\* returns None.
ReadSeqs(t) ==
  LET o == op[t]
      target == IF o.kind = "copy" THEN pseq[o.src] ELSE o.seq
      old == pseq[o.pin]
      new == IF o.kind = "drop" THEN SlotOf(old) ELSE SlotOf(target)
  IN /\ pc[t] = "read"
     /\ \/ /\ (o.kind = "copy" /\ target = 0) \/ (o.kind = "drop" /\ old = 0)
           /\ Finish(t)
        \/ /\ ~((o.kind = "copy" /\ target = 0) \/ (o.kind = "drop" /\ old = 0))
           /\ IF new = NoSlot
              THEN Goto(t, "panicked") /\ UNCHANGED op
              ELSE /\ Goto(t, "lock")
                   /\ op' = [op EXCEPT ![t].seq = target, ![t].old = old,
                        ![t].new = IF o.kind = "drop" THEN NoSlot ELSE new,
                        ![t].from = IF old = 0 THEN NoSlot ELSE SlotOf(old)]
     /\ UNCHANGED <<fifoVars, pinVars, fipVars, seqVars, n, fl>>

Wanted(t)  == {op[t].from, op[t].new} \ {NoSlot}
CanLock(t) == \A i \in Wanted(t) : lock[i] = NoTask

\* After the locks are taken: has a pin moved since its seq was read?
Raced(t) == \/ pseq[op[t].pin] # op[t].old
            \/ op[t].kind = "copy" /\ pseq[op[t].src] # op[t].seq

Retry(t) ==
  /\ pc[t] = "lock" /\ CanLock(t) /\ Raced(t)
  /\ Goto(t, "read")
  /\ UNCHANGED <<fifoVars, pinVars, fipVars, seqVars, op, n, fl>>

\* Does journal_pin_drop_locked take the pin off its list?  Not when the pin
\* is not active or its list has left the FIFO.
Drops(t) == Active(op[t].pin) /\ op[t].from # NoSlot

\* What journal_pin_drop_locked returns: the list at the front was released.
Releases(t) ==
  Drops(t) /\ cnt[op[t].from] = 1 /\ op[t].from = SlotOf(disk)

\* count after journal_pin_drop_locked and the fetch_add of pin_set_locked.
NewCount(t) == [i \in Slots |->
  cnt[i] - (IF Drops(t) /\ i = op[t].from THEN 1 ELSE 0)
         + (IF op[t].kind # "drop" /\ i = op[t].new THEN 1 ELSE 0)]

NoteDropped(t) ==
  /\ fipDropped' = (fipDropped \/ (Drops(t) /\ fip = op[t].pin))
  /\ UNCHANGED fip

\* Wrong: the pin is not unlinked before it is linked again.
MoveLinked(t, append) ==
  /\ UNCHANGED flushed
  /\ unflushed' = IF append
       THEN [unflushed EXCEPT ![op[t].new][use.type[op[t].pin]] = Append(@, op[t].pin)]
       ELSE unflushed

\* The lists after the section: the pin is off its old list and, unless it is
\* dropped or pin_set_locked still waits for pin.flush, at the end of the new.
Move(t, append) ==
  LET o == op[t]
      without == IF Drops(t) THEN Unlink(o.pin) ELSE [u |-> unflushed, f |-> flushed]
  IN /\ flushed' = without.f
     /\ unflushed' = IF append
          THEN [without.u EXCEPT ![o.new][use.type[o.pin]] = Append(@, o.pin)]
          ELSE without.u

\* The end of a section: the drop or the set may have released the front.
EndSection(t, released) ==
  IF released THEN Goto(t, "compute") /\ UNCHANGED op ELSE Finish(t)

\* The whole section under the locks.
Section(t) ==
  LET o == op[t] IN
  /\ pc[t] = "lock" /\ CanLock(t) /\ ~Raced(t)
  /\ o.fn => cbLock[o.pin] = NoTask
  /\ NoteDropped(t)
  /\ Move(t, o.kind # "drop")
  /\ cnt' = NewCount(t)
  /\ pseq' = [pseq EXCEPT ![o.pin] = IF o.kind = "drop" THEN 0 ELSE o.seq]
  /\ hasFn' = [hasFn EXCEPT ![o.pin] = @ \/ o.fn]
  /\ EndSection(t, Releases(t))
  /\ UNCHANGED <<head, tail, lock, entry, puts, cbLock, seqVars, n, fl>>

\* journal_pin_set_locked waits for pin.flush with the lists locked.
SectionBlocks(t) ==
  LET o == op[t] IN
  /\ pc[t] = "lock" /\ CanLock(t) /\ ~Raced(t)
  /\ o.fn /\ cbLock[o.pin] # NoTask
  /\ NoteDropped(t)
  /\ Move(t, FALSE)
  /\ cnt' = NewCount(t)
  /\ pseq' = [pseq EXCEPT ![o.pin] = o.seq]
  /\ lock' = [i \in Slots |-> IF i \in Wanted(t) THEN t ELSE lock[i]]
  /\ n' = [n EXCEPT ![t] = IF Releases(t) THEN 1 ELSE 0]
  /\ Goto(t, "blocked")
  /\ UNCHANGED <<head, tail, entry, puts, hasFn, cbLock, seqVars, op, fl>>

SectionResumes(t) ==
  LET o == op[t] IN
  /\ pc[t] = "blocked" /\ cbLock[o.pin] = NoTask
  /\ hasFn' = [hasFn EXCEPT ![o.pin] = TRUE]
  /\ unflushed' = [unflushed EXCEPT ![o.new][use.type[o.pin]] = Append(@, o.pin)]
  /\ lock' = [i \in Slots |-> IF lock[i] = t THEN NoTask ELSE lock[i]]
  /\ EndSection(t, n[t] = 1)
  /\ UNCHANGED <<head, tail, cnt, flushed, entry, puts, pseq, cbLock, fipVars,
                 seqVars, n, fl>>

-----------------------------------------------------------------------------
(* bch2_journal_maybe_update_last_seq takes no lock. *)

Compute(t) ==
  /\ pc[t] = "compute"
  /\ n' = [n EXCEPT ![t] = Drainable]
  /\ IF Drainable = 0 THEN Finish(t) ELSE Goto(t, "drain") /\ UNCHANGED op
  /\ UNCHANGED <<fifoVars, pinVars, fipVars, seqVars, fl>>

Drain(t) ==
  LET k == IF n[t] <= Length THEN n[t] ELSE Length
      gone == {(head + j) % FifoSize : j \in 0..(k - 1)}
  IN /\ pc[t] = "drain"
     /\ head' = (head + k) % FifoSize
     /\ unflushed' = [i \in Slots |-> IF i \in gone THEN [ty \in Types |-> <<>>]
                                      ELSE unflushed[i]]
     /\ flushed' = [i \in Slots |-> IF i \in gone THEN <<>> ELSE flushed[i]]
     /\ Goto(t, "advance")
     /\ UNCHANGED <<tail, cnt, lock, entry, puts, pinVars, fipVars, seqVars, op, n, fl>>

\* Wrong: one entry is counted, however many were drained.
AdvanceByOne(t) ==
  /\ pc[t] = "advance"
  /\ disk' = disk + 1
  /\ n' = [n EXCEPT ![t] = 0]
  /\ Finish(t)
  /\ UNCHANGED <<fifoVars, pinVars, fipVars, seq, written, fl>>

Advance(t) ==
  /\ pc[t] = "advance"
  /\ disk' = disk + n[t]
  /\ n' = [n EXCEPT ![t] = 0]
  /\ Finish(t)
  /\ UNCHANGED <<fifoVars, pinVars, fipVars, seq, written, fl>>

-----------------------------------------------------------------------------
(* Entries. *)

\* journal_entry_open pushes a list with the self pin; it panics when there
\* is no room.
PushList ==
  /\ ~IsFull
  /\ tail' = Next1(tail)
  /\ cnt' = [cnt EXCEPT ![tail] = 1]
  /\ unflushed' = [unflushed EXCEPT ![tail] = [ty \in Types |-> <<>>]]
  /\ flushed' = [flushed EXCEPT ![tail] = <<>>]
  /\ lock' = [lock EXCEPT ![tail] = NoTask]
  /\ entry' = [entry EXCEPT ![tail] = seq]
  /\ puts' = [puts EXCEPT ![tail] = 0]
  /\ seq' = seq + 1
  /\ UNCHANGED head

\* The buffers that are not written yet have to leave one free.
BufferFree == seq - 1 - written < NBuf

\* A panic in journal_entry_open poisons the in_flight mutex, so that every
\* later call panics as well.
Poisoned == \E t \in Tasks : pc[t] = "poisoned"

OpenEntry(t, where) ==
  IF IsFull \/ Poisoned
  THEN /\ Goto(t, "poisoned")
       /\ seq' = IF Poisoned THEN seq ELSE seq + 1
       /\ UNCHANGED fifoVars
  ELSE PushList /\ Goto(t, where)

\* A task whose entry is full closes it and opens the next.
Cycle(t) ==
  /\ pc[t] = "idle" /\ MayStart(t) /\ seq < use.last /\ BufferFree
  /\ OpenEntry(t, "idle")
  /\ UNCHANGED <<pinVars, fipVars, disk, written, op, n, fl>>

-----------------------------------------------------------------------------
(* bch2_journal_flush from the point where the device has been flushed. *)

\* No caller that holds a reservation is inside a call (wait_for_pending_drain).
Drained == \A t \in Workers : op[t].kind # "set"

\* The entries whose buffer is in state WriteDone: a buffer keeps that state
\* until it is used again.
WriteDone == {s \in use.first..(seq - 1) : s > seq - 1 - NBuf}

\* Wrong: only the entry that was open is released.
HitsOpen(i) == IF i = SlotOf(seq - 1) THEN 1 ELSE 0

Hits(i) == Cardinality({s \in WriteDone : SlotOf(s) = i})

\* pin_put for each of them.
PutSelfPins(f) ==
  /\ pc[f] = "idle" /\ MayStart(f) /\ use.writes /\ Drained
  /\ cnt' = [i \in Slots |-> cnt[i] - Hits(i)]
  /\ puts' = [i \in Slots |-> puts[i] + Hits(i)]
  /\ written' = seq - 1
  /\ fl' = [fl EXCEPT ![f] = [NoFlush EXCEPT !.mode = "write", !.target = seq]]
  /\ Goto(f, "scan")
  /\ UNCHANGED <<head, tail, unflushed, flushed, lock, entry, pinVars, fipVars,
                 seq, disk, op, n>>

\* __bch2_journal_reclaim and bch2_journal_flush_pins flush without writing;
\* the target of a caller is any entry.
StartReclaim(f) == \E target \in use.first..(seq - 1) :
  /\ pc[f] = "idle" /\ MayStart(f)
  /\ fl' = [fl EXCEPT ![f] = [NoFlush EXCEPT !.mode = "reclaim", !.target = target]]
  /\ Goto(f, "scan")
  /\ UNCHANGED <<fifoVars, pinVars, fipVars, seqVars, op, n>>

\* After the callbacks bch2_journal_flush opens the next entry.
OpenNext(f) ==
  /\ pc[f] = "open" /\ seq < use.last
  /\ fl' = [fl EXCEPT ![f] = NoFlush]
  /\ OpenEntry(f, "idle")
  /\ UNCHANGED <<pinVars, fipVars, disk, written, op, n>>

-----------------------------------------------------------------------------
(* journal_flush_pins. *)

\* The pins of a list that journal_get_next_pin looks at: the first of every
\* type.  It takes pin.flush of each, in the order of the types, and skips a
\* pin without a callback.
Front(i, ty) == unflushed[i][ty][1]
Occupied(i)  == {ty \in Types : unflushed[i][ty] # <<>>}
Stops(i, ty) == LET p == Front(i, ty) IN cbLock[p] # NoTask \/ hasFn[p]
Stopping(i)  == {ty \in Occupied(i) : Stops(i, ty)}

\* The entries, by the seq the walk gives them, at which it stops.
Candidates(target) ==
  {s \in disk..target : SlotOf(s) # NoSlot /\ Stopping(SlotOf(s)) # {}}

Least(S) == CHOOSE x \in S : \A y \in S : x <= y

ListsFree(from, to) == \A s \in from..to : SlotOf(s) # NoSlot => lock[SlotOf(s)] = NoTask

\* The walk finds no pin: update_last_seq comes next, or nothing after an
\* error of a callback in reclaim.
ScanEnds(f) ==
  /\ pc[f] = "scan"
  /\ Candidates(fl[f].target) = {}
  /\ ListsFree(disk, fl[f].target)
  /\ Goto(f, "compute")
  /\ op' = [op EXCEPT ![f] = [NoOp EXCEPT !.back =
              IF fl[f].mode = "write" THEN "open" ELSE "idle"]]
  /\ UNCHANGED <<fifoVars, pinVars, fipVars, seqVars, n, fl>>

Choose(f, p, s) ==
  /\ fip' = p /\ fipDropped' = FALSE
  /\ fl' = [fl EXCEPT ![f].pin = p, ![f].seq = s, ![f].ok = TRUE]
  /\ Goto(f, "callback")

ScanFinds(f) ==
  /\ pc[f] = "scan"
  /\ Candidates(fl[f].target) # {}
  /\ LET s == Least(Candidates(fl[f].target))
         i == SlotOf(s)
         ty == Least(Stopping(i))
         p == Front(i, ty)
     IN /\ ListsFree(disk, s)
        /\ IF cbLock[p] = NoTask
           THEN Choose(f, p, s) /\ UNCHANGED lock
           ELSE /\ lock' = [lock EXCEPT ![i] = f]
                /\ fl' = [fl EXCEPT ![f].pin = p, ![f].seq = s]
                /\ Goto(f, "scanblocked")
                /\ UNCHANGED fipVars
  /\ UNCHANGED <<head, tail, cnt, unflushed, flushed, entry, puts, pinVars,
                 seqVars, op, n>>

\* The callback of that pin is over: the walk goes on with its list locked.
ScanResumes(f) ==
  LET p == fl[f].pin IN
  /\ pc[f] = "scanblocked" /\ cbLock[p] = NoTask
  /\ lock' = [i \in Slots |-> IF lock[i] = f THEN NoTask ELSE lock[i]]
  /\ IF hasFn[p] THEN Choose(f, p, fl[f].seq)
     ELSE Goto(f, "scan") /\ UNCHANGED <<fipVars, fl>>
  /\ UNCHANGED <<head, tail, cnt, unflushed, flushed, entry, puts, pinVars,
                 seqVars, op, n>>

\* Wrong: flush_in_progress is cleared before the callback has run.
CallbackStartsCleared(f) ==
  /\ pc[f] = "callback" /\ cbLock[fl[f].pin] = NoTask
  /\ cbLock' = [cbLock EXCEPT ![fl[f].pin] = f]
  /\ fip' = NoPin
  /\ Goto(f, "running")
  /\ UNCHANGED <<fifoVars, pseq, hasFn, fipDropped, seqVars, op, n, fl>>

\* The callback runs with pin.flush held and the list unlocked.
CallbackStarts(f) ==
  /\ pc[f] = "callback" /\ cbLock[fl[f].pin] = NoTask
  /\ cbLock' = [cbLock EXCEPT ![fl[f].pin] = f]
  /\ Goto(f, "running")
  /\ UNCHANGED <<fifoVars, pseq, hasFn, fipVars, seqVars, op, n, fl>>

\* The callback of a btree node, when its write succeeded, drops the pin if it
\* still has the seq that the walk gave.
CallbackDrops(f) ==
  LET p == fl[f].pin IN
  /\ pc[f] = "running" /\ "drop" \in use.callbacks /\ pseq[p] = fl[f].seq
  /\ op' = [op EXCEPT ![f] = [NoOp EXCEPT !.kind = "drop", !.pin = p, !.back = "ran"]]
  /\ Goto(f, "read")
  /\ UNCHANGED <<fifoVars, pinVars, fipVars, seqVars, n, fl>>

\* The callback leaves the pin: the pin has moved, it belongs to the key
\* cache, or the write failed.
CallbackLeaves(f) == \E ok \in BOOLEAN :
  /\ pc[f] = "running"
  /\ IF ok THEN "keep" \in use.callbacks \/ ("drop" \in use.callbacks /\ pseq[fl[f].pin] # fl[f].seq)
     ELSE "error" \in use.callbacks
  /\ fl' = [fl EXCEPT ![f].ok = ok]
  /\ Goto(f, "ran")
  /\ UNCHANGED <<fifoVars, pinVars, fipVars, seqVars, op, n>>

CallbackEnds(f) ==
  /\ pc[f] = "ran"
  /\ cbLock' = [cbLock EXCEPT ![fl[f].pin] = NoTask]
  /\ Goto(f, "ranout")
  /\ UNCHANGED <<fifoVars, pseq, hasFn, fipVars, seqVars, op, n, fl>>

AfterPin(f) ==
  IF fl[f].ok THEN Goto(f, "scan") /\ UNCHANGED op
  ELSE IF fl[f].mode = "write"
       THEN /\ Goto(f, "compute")
            /\ op' = [op EXCEPT ![f] = [NoOp EXCEPT !.back = "open"]]
       ELSE Goto(f, "idle") /\ UNCHANGED op

\* Wrong: an error is returned before flush_in_progress is cleared.
ReturnFirst(f) ==
  LET p == fl[f].pin
      i == SlotOf(fl[f].seq)
  IN /\ pc[f] = "ranout" /\ i # NoSlot /\ lock[i] = NoTask
     /\ IF fipDropped \/ ~fl[f].ok THEN UNCHANGED <<unflushed, flushed>>
        ELSE /\ unflushed' = Unlink(p).u
             /\ flushed' = [Unlink(p).f EXCEPT ![i] = Append(@, p)]
     /\ IF fl[f].ok THEN fip' = NoPin /\ fipDropped' = FALSE ELSE UNCHANGED fipVars
     /\ AfterPin(f)
     /\ UNCHANGED <<head, tail, cnt, lock, entry, puts, pinVars, seqVars, n, fl>>

\* Back under the lock of the list: a pin that was not dropped goes to the
\* flushed list.
MoveToFlushed(f) ==
  LET p == fl[f].pin
      i == SlotOf(fl[f].seq)
  IN /\ pc[f] = "ranout" /\ i # NoSlot /\ lock[i] = NoTask
     /\ IF fipDropped THEN UNCHANGED <<unflushed, flushed>>
        ELSE /\ unflushed' = Unlink(p).u
             /\ flushed' = [Unlink(p).f EXCEPT ![i] = Append(@, p)]
     /\ fip' = NoPin /\ fipDropped' = FALSE
     /\ AfterPin(f)
     /\ UNCHANGED <<head, tail, cnt, lock, entry, puts, pinVars, seqVars, n, fl>>

\* The list has left the FIFO in the meantime: nothing is done.
ListIsGone(f) ==
  /\ pc[f] = "ranout" /\ SlotOf(fl[f].seq) = NoSlot
  /\ AfterPin(f)
  /\ UNCHANGED <<fifoVars, pinVars, fipVars, seqVars, n, fl>>

-----------------------------------------------------------------------------

Init ==
  /\ use \in Uses
  /\ head = 0 /\ tail = 1
  /\ cnt = [i \in Slots |-> IF i = 0 THEN 1 ELSE 0]
  /\ unflushed = [i \in Slots |-> [ty \in Types |-> <<>>]]
  /\ flushed = [i \in Slots |-> <<>>]
  /\ lock = [i \in Slots |-> NoTask]
  /\ entry = [i \in Slots |-> IF i = 0 THEN use.first ELSE 0]
  /\ puts = [i \in Slots |-> 0]
  /\ seq = use.first + 1 /\ disk = use.disk /\ written = use.first - 1
  /\ pseq = [p \in Pins |-> 0]
  /\ hasFn \in {h \in [Pins -> BOOLEAN] : \A p \in Pins \ use.pins : ~h[p]}
  /\ cbLock = [p \in Pins |-> NoTask]
  /\ fip = NoPin /\ fipDropped = FALSE
  /\ pc = [t \in Tasks |-> "idle"]
  /\ op = [t \in Tasks |-> NoOp]
  /\ n = [t \in Tasks |-> 0]
  /\ fl = [f \in Flushers |-> NoFlush]

WorkerStep(t) ==
  \/ PinSet(t) \/ PinAdd(t) \/ PinUpdate(t) \/ PinCopy(t) \/ PinDrop(t)
  \/ PinFlush(t) \/ Cycle(t)

CallStep(t) ==
  \/ WaitOver(t)
  \/ ReadSeqs(t) \/ Retry(t) \/ Section(t) \/ SectionBlocks(t) \/ SectionResumes(t)
  \/ Compute(t) \/ Drain(t) \/ Advance(t)

FlushStep(f) ==
  \/ ScanEnds(f) \/ ScanFinds(f) \/ ScanResumes(f)
  \/ CallbackStarts(f) \/ CallbackDrops(f) \/ CallbackLeaves(f) \/ CallbackEnds(f)
  \/ MoveToFlushed(f) \/ ListIsGone(f) \/ OpenNext(f)

Next ==
  /\ UNCHANGED use
  /\ \/ \E t \in use.workers : WorkerStep(t)
     \/ \E t \in Tasks : CallStep(t)
     \/ \E f \in use.flushers : PutSelfPins(f) \/ StartReclaim(f) \/ FlushStep(f)

Spec == Init /\ [][Next]_vars

\* A call that has begun goes on: threads are scheduled, and std mutexes are
\* handed over in the end.  Nothing makes a task begin a call.
FairSpec == /\ Spec
            /\ \A t \in Workers : WF_vars(CallStep(t) /\ UNCHANGED use)
            /\ \A f \in Flushers : WF_vars((CallStep(f) \/ FlushStep(f)) /\ UNCHANGED use)

-----------------------------------------------------------------------------
(* Properties. *)

Where == {"idle", "read", "lock", "blocked", "compute", "drain", "advance", "wait",
          "scan", "scanblocked", "callback", "running", "ran", "ranout", "open",
          "panicked", "poisoned"}

\* Every variable has its type.
TypeOK ==
  /\ use \in Uses
  /\ head \in Slots /\ tail \in Slots
  /\ cnt \in [Slots -> Int] /\ puts \in [Slots -> Nat] /\ entry \in [Slots -> Nat]
  /\ \A i \in Slots : flushed[i] \in Seq(Pins) /\ \A ty \in Types : unflushed[i][ty] \in Seq(Pins)
  /\ lock \in [Slots -> Tasks \cup {NoTask}]
  /\ seq \in Nat /\ disk \in Nat /\ written \in Nat
  /\ pseq \in [Pins -> Nat] /\ hasFn \in [Pins -> BOOLEAN]
  /\ cbLock \in [Pins -> Tasks \cup {NoTask}]
  /\ fip \in Pins \cup {NoPin} /\ fipDropped \in BOOLEAN
  /\ pc \in [Tasks -> Where] /\ n \in [Tasks -> Nat]

\* A pin that pin_set_locked is about to append.
Moving(p) == \E t \in Tasks : pc[t] = "blocked" /\ op[t].pin = p

\* An active pin is linked into exactly one list, that of its seq, and an
\* inactive pin into none: however pin_set, pin_copy and pin_drop race with
\* each other and with the callback of journal_flush_pins.  (Only as long as the
\* front is not drained under a pin, which a restored journal does.)
PinIsLinkedOnce == use.disk = 0 => \A p \in Pins :
  /\ Cardinality(Links(p)) = IF Active(p) /\ ~Moving(p) THEN 1 ELSE 0
  /\ \A l \in Links(p) : l[1] = pseq[p] % FifoSize

\* The count of a list is its self pin and its linked pins, less the
\* pin_puts that have hit it.
CountIsLinks ==
  /\ TypeOK
  /\ use.disk = 0 => \A i \in Live :
       cnt[i] = 1 - puts[i]
         + Cardinality({p \in Pins : \E l \in Links(p) : l[1] = i})
         + Cardinality({p \in Pins : Moving(p) /\ pseq[p] % FifoSize = i})

\* The lists, their counts and the seqs of the pins agree, however the calls on pins
\* race: what decides when an entry may be released.
ListsSound == PinIsLinkedOnce /\ CountIsLinks

InCallback(p) == \E f \in Flushers :
  fl[f].pin = p /\ (pc[f] \in {"callback", "running", "ran"} \/ cbLock[p] = f)

\* bch2_journal_pin_flush returns only when no callback runs on the pin, or
\* is about to ("pin 不再被 flush"): its owner may free it.
FlushWaitIsOver == [][\A t \in Workers :
  (pc[t] = "wait" /\ pc'[t] = "idle") => ~InCallback(op[t].pin)]_vars

\* Whoever waits gets on, also when callbacks fail or keep their pins: a task in
\* bch2_journal_pin_flush, and one that waits for pin.flush while it keeps the list of
\* a pin locked.
Waits == {"wait", "blocked", "scanblocked"}
WaitersGetOn == \A t \in Tasks : (pc[t] \in Waits) ~> (pc[t] \notin Waits)

\* No entry leaves the FIFO before bch2_journal_flush has written it.
UnwrittenIsKept == ~Poisoned => \A s \in (written + 1)..(seq - 1) :
  \E i \in Live : entry[i] = s

\* Between two updates last_seq_ondisk stands for the front of the FIFO: the
\* test of journal_pin_drop_locked depends on it.
LastSeqIsFront ==
  (\A t \in Tasks : pc[t] # "advance") => disk % FifoSize = head

\* Only lists that are entirely released are drained: the list of an active
\* pin stays in the FIFO.
PinnedIsKept == \A p \in Pins : Active(p) => SlotOf(pseq[p]) # NoSlot

\* The FIFO has room for the next entry ("journal entries cycled too fast").
FifoHasRoom == ~Poisoned

\* A list is pushed at tail and found by its seq.  The first entry has slot 0, so that
\* the list of an entry is released when the entry Lag after it has been written.
Lag == (FifoSize - (use.first % FifoSize)) % FifoSize

\* It has room when entries alone fill it, whatever the first seq, unless the lag and
\* the entries not yet written fill the FIFO by themselves (as after Journal::new,
\* where the lag is one less than the size): however flushes, reclaims and tasks that
\* cycle entries follow each other.
EntriesDrain == use.pins = {} /\ Lag + NBuf < FifoSize => FifoHasRoom

\* A caller that holds a reservation in an entry can pin it.
EntryCanBePinned == \A t \in Workers :
  op[t].kind = "set" /\ pc[t] = "panicked" => op[t].seq <= written

\* Only the pins of a list can be flushed for it: the walk returns the seq of
\* the pin it returns.
WalkGivesPinSeq == \A f \in Flushers :
  pc[f] = "callback" /\ Active(fl[f].pin) /\ ~fipDropped => pseq[fl[f].pin] = fl[f].seq

\* flush_in_progress is cleared when the flush of the pin is over.
ProgressIsCleared ==
  fip # NoPin => \E f \in Flushers : pc[f] # "idle" /\ fl[f].pin = fip

\* Nobody waits for pin.flush with a list locked whose lock the callback needs.
NoLockCycle == \A t \in Tasks, f \in Flushers :
  ~(/\ \/ pc[t] = "blocked" /\ cbLock[op[t].pin] = f
       \/ t \in Flushers /\ pc[t] = "scanblocked" /\ cbLock[fl[t].pin] = f
    /\ pc[f] = "lock" /\ \E i \in Wanted(f) : lock[i] = t)
=============================================================================
