# A specification of volmount

volmount is a copy-on-write btree storage engine in Rust, built after bcachefs:
a write-ahead journal, btrees with six-locks and transactions, a bucket
allocator, snapshots and subvolumes, a daemon and an NBD server.  This directory
holds TLA+ models of its concurrent and crash-sensitive parts, the TLC runs that
check them on small instances, and proofs checked by TLAPS.

All paths below are under `src/crates/volmount-core/src` unless they say otherwise.

## 1. The system

| Component | State it keeps | Operations | What is hard | What makes it correct |
|---|---|---|---|---|
| Journal buffers (`journal/types.rs`) | packed 64-bit reservation word, four buffers, `seq`, `in_flight` | reserve (CAS), add_entry, put, flush, cycle, stop | lock-free counts, close/drain/write in separate steps, two locks, panics while a mutex is held | what an Ok flush covered is durable; only finished records are written; counts are exact |
| Journal pins and space (`journal/reclaim.rs`, `journal/types.rs`) | pin FIFO, one list per open entry; buckets with `bucket_seq`, `dirty_idx`, `dirty_idx_ondisk`, `last_seq_ondisk` | pin_set/add/update/copy/drop, flush_pins, reclaim, rotate, blacklist | index arithmetic of the FIFO, callbacks run without the lock, dropping a pin while it is being flushed | nothing pinned is trimmed; reclaim makes progress; a bucket is reused only when its entries are no longer needed |
| Jset format and validation (`journal/jset.rs`, `journal/validate.rs`) | none | encode, decode, checksum, validate | malformed blocks | decode is the inverse of encode |
| Journal replay (`journal/replay.rs`, `recovery/overlay.rs`) | replayed set, overlay | read, sort, dedup, replay | order of entries, blacklist, a crash in between | the last update of a key wins, and replay is idempotent |
| Six locks (`lock/six.rs`, `lock/wait_fifo.rs`) | one atomic state word, seq, owners, 16 wait slots | try/lock/unlock for read, intent, write; upgrade, downgrade, relock | lost wakeups, handoff, preset of the write bit | a writer is alone; a waiter is woken |
| Deadlock detector (`lock/deadlock.rs`) | wait graph | add/remove edge, detect | depth limit | a cycle is found |
| Btree transactions (`btree/transaction.rs`, `btree/iter.rs`) | paths, held locks, sequence numbers, updates | lock paths, unlock, relock, upgrade, restart, commit | locks dropped and retaken; seq checked later | a committed transaction saw what it locked |
| Btree key cache (`btree/key_cache.rs`) | slots with dirty flag and journal pin | find, insert, insert_key_cached, invalidate, collect, mark_clean | the flush reads values first and marks slots clean later | an acknowledged update reaches the btree |
| Write buffer (`btree/write_buffer.rs`) | `inc` and `flushing` lists | key_to_wb, flush, must_wait | two lists, errors in the middle of a flush | each key reaches the btree with its last value, once |
| Btree nodes and cache (`btree/node.rs`, `btree/cache.rs`, `btree/io.rs`, `btree/writeback.rs`) | bsets, node flags, dirty lists | insert, split, merge, sort, read, write, evict | flags changed by readers, writers and the reclaimer | a dirty node is written before it is dropped |
| Btree GC and interior updates (`btree/gc.rs`, `btree/interior.rs`, `btree/update.rs`) | node pointers, bucket marks | split/merge roots, mark and sweep | partially applied updates | pointers always lead to written nodes |
| Allocator (`alloc/`) | bucket states, open buckets, write points, reservations | alloc, open, close, free, reserve, background discard | buckets owned by several holders, generations | no bucket is handed out twice |
| Snapshots and subvolumes (`snap/`, `subvol/`) | snapshot forest, subvolume table | create, delete, ancestor tests, cleanup | deletion while children live | ancestor tests agree with the tree |
| Recovery (`recovery/`) | pass bits, persisted progress | run, rewind, retry, persist | crash between passes; progress on disk, effects in memory | a mounted volume has run every pass it needs |
| Volume (`volume/mod.rs`) | lifecycle state, allocator, engine | start, stop, write/read/delete extent, subvolumes | state changes from several tasks, errors half-way | no operation outside Rw; no leaked bucket |
| Superblock and block devices (`storage/`, `block_device/`) | superblock copies, file/S3/sparse backends | read, write, flush | torn writes | the newest valid copy is used |
| Daemon (`crates/volmountd/src`) | open volumes behind a tokio RwLock, their directories | create, clone, delete, list, info, mount, umount, the changes of a volume, shutdown | names are checked and used many awaits apart, clients that go away, a shutdown among requests | an answered change is kept; the open volume of a name is the one in its directory |
| NBD server (`crates/volmount-nbd/src`) | exports behind a tokio RwLock, connections | handshake, read, write, flush | a guard is held while a client is asked | replies match requests; nobody waits for ever |
| CLI (`crates/volmount/src`) | none | commands | - | - |

A commit (`BtreeTrans::trans_commit`) reserves journal space, flushes the dirty
key cache with the entry's seq, applies its updates to the btree, fills the
reservation and returns it.  The daemon's handlers are tasks of tokio that share the map of
volumes and the exports; it serialises commits and stop with one lock per volume; inside the engine several tasks may hold reservations, pins and
six-locks at once.  Reclaim runs callbacks that write nodes and drop pins.  On
start, recovery reads the journal, replays it and rebuilds what is only in memory.
A stop writes the nodes of the btrees, but the superblock keeps naming the first roots
(section 7): a volume that is opened again has the trees of its creation and what the
journal brings back, and only the calls on extents are journaled.  The models of the
allocator, of the snapshots and of the daemon take it from there.

## 2. Modules

| Module | What it is |
|---|---|
| `DurableLog` | what a write-ahead log promises: commit, persist, acknowledge |
| `Journal` | reservations, buffers, flush and stop of the journal; implements `DurableLog` |
| `JournalProofs` | theorems about `Journal`: types, the journal that works, its refinement; its layout, the journal that fails |
| `JournalPins` | the pin FIFO, the pins, the loop that flushes them, `last_seq_ondisk` |
| `JournalPinsProofs` | theorems about `JournalPins`: the wait for a callback, lists and counts, the front, entries that drain |
| `SixLock` | one six lock with its wait fifo |
| `SixLockProofs` | theorems about `SixLock`: exclusion, the counts, relock, the queue |
| `BtreeNode` | one btree node: its sets, insert, delete, compaction, split, absorption, the ways of reading; pure operators |
| `Btree` | one tree over `BtreeNode`: insert, delete, splits and merges up to the root, load, presplit |
| `BtreeProofs` | theorems about `Btree` and its nodes: the routing, what was acknowledged, the ways of reading |
| `Alloc` | buckets, free lists, open buckets, the Alloc btree and its callers in the volume |
| `AllocProofs` | theorems about `Alloc`: owners, accounts, what the search finds |
| `Snapshots` | the snapshot forest and the subvolumes: creation, deletion, clean-up, the check at mount |
| `SnapshotsProofs` | theorems about `Snapshots`: subvolumes and snapshots, parents of subvolumes, deletion |
| `Recovery` | the life of a volume over writes, crashes, clean stops and mounts, with the pass scheduler |
| `RecoveryProofs` | theorems about `Recovery`: the scheduler, and what a read shows of what was written |
| `Daemon` | the HTTP handlers, the operations on volumes, NBD connections and main with its shutdown |
| `DaemonProofs` | theorems about `Daemon`: its RwLock, types and the map; the changes that were answered |
| `MCJournal`, `MCJournalPins`, `MCSixLock`, `MCBtree`, `MCAlloc`, `MCSnapshots`, `MCRecovery`, `MCDaemon` | instances for TLC |

**Journal.**  The reservation word is the variables `offset`, `idx` and `count`;
one CAS or `fetch_sub` on it is one step.  A `JournalBuf` is `bstate`, `bseq`,
`dataEnd`, `data`.  A task of `Threads` runs `journal_res_get` (`ReserveFast`,
then `ReadSeq`, because the seq of the entry is read after the CAS; or
`ReserveSlow` ... `SlowRetry` under `slowpath_lock`), `add_entry` and
`journal_res_put` (`Put`, `PutCheck`, `PutSubmit`: decrement, look at the state,
set it, three steps as in the code).  `CommitFails` is the `?` in `trans_commit`
between reservation and put.  A task of `Flushers` runs `bch2_journal_flush` from
`FlushStart` to `FlushOpen`, one action per point at which others may come in
between; `StopOpen` and `StopFlush` are the rest of `bch2_fs_journal_stop`.  The
assertion of `find_free_buf` fails inside the `in_flight` mutex: `OpenPanics`, after
which everybody who needs that mutex panics too (`Poisoned`).  A record is a number
with a place in the buffer; bytes, checksums and blocks are left out.  The decrement
of a zero count borrows from the fields above it, as the packed integer does
(`ReleaseCount`).

**JournalPins.**  `head`, `tail`, `cnt`, `unflushed`, `flushed` are the
`PinListFifo`; lists are found by position only (`SlotOf`), as in `entry_for_seq`.
A section under the lock of a list is one step, unless it must wait for
`pin.flush`; then the list stays locked (`SectionBlocks`, `SectionResumes`).
`maybe_update_last_seq` takes no lock, and is three steps (`Compute`, `Drain`,
`Advance`).  The callback runs between `CallbackStarts` and `CallbackEnds` with
`pin.flush` held; the callback of a btree node drops the pin, others leave it, and
either may fail.  Two locks of `pin_set` are taken in one step, and the walk of
`journal_get_next_pin` is one step; both make fewer interleavings than the code has.

**SixLock.**  The state word is one variable per field; each atomic operation on it
is a step, a section under `wait_lock` is one step, and a downgrade is two, since the
read count goes up before the intent bit comes down (`DowngradeToRead`, `DowngradeEnd`).
`Lock` is a try that succeeds,
`EnterSlow` ... `Leave` are `lock_slowpath`, `Unlock` ... `Waking` are an unlock and
the wakeup after it.  `held` is an observer: what each caller believes it holds.
`cnt` is `THREAD_READ_CNT`, one counter per thread for all six locks, so that read
locks on other locks appear too (`ReadElsewhere`).  `thread::park` has a token, and in the
threads of `spurious` it may return without one.

In `JournalPins`, `SixLock` and `Daemon` the ways in which callers may use the component are
records of the constant `Uses`; one is chosen by `Init` and kept in `use`.  The
records that are checked, with what each stands for, are in the MC modules.

**BtreeNode, Btree.**  A node is its two sets of entries in use: `base`, compacted and
sorted, perhaps with an aux array, and `inc`, which grows at byte `at`; `white` and
`count` are `whiteout_count` and `key_count`, which do not follow from the sets (a
tombstone is not counted), and so both are kept.  An entry is a position and a value;
sizes are in bytes, because `FreeStart`, `ShouldSplit`, `Underfull` and `CanAbsorb`
compare bytes.  A tree is the root, its depth, the cache by address, and whether the
root came from a block and is referred to from the cache as well, which decides what
`Arc::get_mut` gives.  Each call is made with the engine held mutably and is one
step: descend (`PathTo`), change the leaf, compact or split it, carry the routing
entry up (`InsertRoute`), or merge with a neighbour (`TryMerge`), the parents
(`Cascade`) and the root (`Collapse`).  What the code does in a loop or by recursion
along the path is a recursive function of the level.  The path has the address `Root`
at its top, so that the root is a parent like the others; it is not in the cache.
`Scripts` are trees built by calls before
the first state, so that a few calls reach splits and merges at depth 2.

**Alloc.**  `al` is the allocator in memory, `info` the Alloc btree, `extents` and
`meta` who has which bucket; `op` is where the one task that holds the volume
stands.  `AllocBucket` is `allocate_bucket_inner` with its two passes over the
groups, the hint, the reserve of the watermark and the pool; a bucket popped while
the pool is full is dropped from its list, as in the code.  Writing and deleting an
extent are two steps each, since the commit in the middle may fail.  `journal` are the
buckets of the journal, which `create_volume` allocates before the first roots are
written.  `Mount` is a stop or a crash and the mount after it: a new allocator that
nothing sets up, the Alloc btree as it was at the creation (`Created`), in which the
first mount marks the superblock and the journal (`Marked`), and of the extents those
the journal brings back.  `mounted` remembers that there was one.

**Snapshots.**  `node` is the Snapshots btree as its latest versions, `sv` the
Subvolumes btree.  `IsAncestorBtree` and `IsAncestorTable` are the two tests the
code has, walked as the code walks them; the random skip list is a choice over all
outcomes.  `FixChildren` and `Collected` are `bch2_delete_dead_snapshots`,
`NodeDelete` the deletion of an inner node, `Checked` what `bch2_check_snapshots`
writes back, in every order of its hash map (`CheckedAll`), unless it gives up
(`Takes`).  `first` says which of the two first trees the volume has, that of
`create_volume` or that of `bch2_initialize_subvolumes`.  What is done to an open
volume is in its memory only: `Mount` starts a new engine on the first trees
(`FirstNode`, `FirstSv`), with the counter of subvolumes at 1.  `line` is an observer:
the ancestors each node was created under.

**Recovery.**  `disk` is what survives: the superblock's pass number, clean flag and
last seq, the block of its root pointer with the node in it, the journal's blocks.  `LoopHead`, `RunPass` and
`EndRound` are `bch2_run_recovery_passes`, one pass per step, so that a crash falls
between any two; `Stable` maps the runtime order to the numbers the superblock
keeps.  `Mount` is `init_volume` up to the passes, `Finish` its last write;
`StopFlush` and `StopWrite` are `stop_volume`; `Redirected` is its look for the new
block of the root, which never finds it (section 7).  The passes that replay and the one
that opens the overlay change data, the others succeed or fail.  A value is the
number of its write, so that newer is greater.

**Daemon.**  `dirs` and `files` are what the daemon finds on disk: the directory of a
name and the file in it, which outlives its name as long as somebody has it open.
`vols` are the `Volume` objects, `blocks` and `exports` the two maps, `locks` the two
`tokio::sync::RwLock`s around them, which serve in the order of arrival.  A handler is
a task with a place (`pc`); an action is the code from one await at which others
matter to the next: `CreateCheck`, `CreateOpen`, `CreateWrite`, `Insert` are
`create_volume` and what `handle_create_volume` does after it, and so on.  Awaits
between which nothing shared is looked at are one action (the directory is made in
`CreateOpen`, `CloneCopy` opens and copies), so that there are fewer interleavings
than in the code; `DeleteStop` is one action because the volume it stops is its own.  What a change does is to
add its task to `mem` of the volume; `stop_volume` is two actions, since it holds
`inner` while it writes: its second action writes, as `nodes` of the file, what the
first has read.  The superblock keeps the roots it had, so that no root leads to these
nodes, and a volume that is opened later starts with an empty `mem`.  The five
changing requests are one (`Change`), and so are the three that only read the
volume (`Look`).  `met`, `late`, `stopped` and `acked` are observers.

## 3. Runs

| Run | Question | Bounds |
|---|---|---|
| `journal_flush` | do two tasks and one flush work together: exact counts, no holes, durable when acknowledged, `DurableLog` implemented, each flush ends? | 3 buffers and entries up to seq 4, so that the ring turns once; 3 records of size 1 or 2 in buffers of 3, so that buffers fill, are left half full, and refuse; a count of at most 2 so that it is reached |
| `journal_faults` | what survives commits that fail, a device that fails, the slow path and stop together? | 2 buffers, so that the ring is short enough for `find_free_buf` to panic; 2 records |
| `journal_slowpath` | (violated) is a record that went through the slow path durable after an Ok flush? | 1 task, 1 flush |
| `btree_sound` | does a key stay where the routing leads, does an acknowledged value stay, do the ways of reading agree? | positions 1..12, a node of 160 bytes (4 entries with aux, 5 without), so that four calls split or merge twice and climb to the root; 4 trees to start from: empty, a full leaf, depth 2, depth 2 about to shrink; any 4 calls |
| `alloc_sound` | has each bucket one owner until the first mount, do counters, lists, states, pool and, until then, the Alloc btree agree, is any bucket lost? | 2 groups of 3 buckets; 3 open buckets, so that the pool fills before the device; reserves of 1 and 0; 1 journal bucket, 1 node, 2 addresses; mounts without limit |
| `snap_sound` | do both ancestor tests keep to the forest as it was created, do subvolumes and snapshots stay matched, does the dead stay dead while the volume is open, would the check of a mount keep what is in memory? | 6 ids, 3 subvolumes, a bitmap of 2 bits, so that tests walk by skips, bits and parents; 1 mount, 1 clean-up, 3 deletions |
| `recov_sound` | what does a mount promise of what was written, and does it end? | 2 keys; writes, mounts, crashes and failing passes of (4,1,1,none), (3,2,2,none), (2,2,1,replay), (1,1,1,three passes), (0,2,0,one pass); 2 entries skipped after a crash instead of 64; 3 failures |
| `pins_safe` | is a pin in one list only, is each count right, is `last_seq_ondisk` in step, is nothing drained too early, do entries drain? | FIFO of 4, 2 buffers, 2 pins, 2 tasks, 1 flusher; restored journals start at seq 12, without pins also at 11 and 10, with `last_seq_ondisk` 4 |
| `pins_live` | does whoever waits for a pin or for `pin.flush` get on? | 1 task, 1 or 2 flushers |
| `pins_full` | (violated) has the FIFO of a fresh journal room for the next entry? | no pin, 1 flusher |
| `six_sound` | do holders never conflict, is nobody forgotten, are counts and relock right? | up to 3 threads, 2 where service is asked for; 2 write locks; a thread holds a type at most twice |
| `daemon_sound` | is an answered change kept, does the map of open volumes follow the directories, does everybody end? | 12 uses of three requests each, at any time or never, on two names, with and without a volume at the start, some with clients that go away and one NBD connection; the signal at any moment |

`journal_faults` speaks of the time before an entry is opened over one that no flush
has drained (`lapped`), which the slow path and stop do: after that the buffer comes
round with its writers still in it, its count is cleared, and neither the drain nor
the contents are safe any more.  What holds always is that `idx` and `seq` do not
drift apart.

The real FIFO has 128 slots.  The first list goes to slot 0, whatever its seq, but a
list is found by the remainder of its seq: between the two lie `Lag` slots, and the list
of an entry is released with the entry `Lag` later.  A journal of `Journal::new` starts
with seq 1 and lags by all slots but one, so that its FIFO fills (run `pins_full`; uses
`Fresh`, `Race`).  The superblock of a restored journal may hold any seq: `Restart` and
`NoPins` start in step (the image of `last_seq` 384 and `last_seq_ondisk` 128), the two
uses of `Lagging` one slot and two slots off.  `EntriesDrain` is asked of every first
seq that leaves room, `Lag + NBuf < FifoSize`, and with two slots off there is none.  In
the daemon no btree is attached to a journal (`set_journal` is called in tests only), so
that `NoPins` and `Lagging` are what it runs.  `ListsSound` is asked where the front is not
drained under a pin, see section 7.  `Restart` stops (`last` 15) before the slots come
round, after which a pin that outlived its list does harm (section 7); `NoPins` and `Lagging` go on
(`last` 24) until they have.

`ListsSound` is `PinIsLinkedOnce` and `CountIsLinks`; `CountsHeld` of `SixLock` is
`ReadCntIsHeld` and `FreeAtRest`.

`six_sound` is asked of uses in which the code is right: one writer that waits, with
any number of readers; reads of other locks only in threads that do not want to write.
`WaiterServed` is about two threads that neither upgrade nor downgrade, and of which
each takes only locks whose unlock wakes the other (`Woken`): a reader and a writer, or
two threads for the intent lock.  A writer and a thread for the intent lock are no such
pair, since an unlock of the write lock wakes readers only.  Section 7 lists the
others.  Two
threads that wait for the write lock at a time are among them, although the header
of `six.rs` says that a write lock excludes everything.

Deadlock is checked in the journal runs, where `Finished` marks the states in which
the bounds are used up.  The pin and lock models stop when their bounds do, and
there liveness properties look for tasks that are stuck.

`btree_sound` asks of `get_entry` only what holds: it agrees with the leaf as long as
no tombstone stands behind the first `key_count` entries (section 7).  A deleted
position may show its newest value again, never an older one.  `OneOwner` and
`ReadBack`, the part of `Accounts` that is about the Alloc btree, end with the first
mount, since the allocator that goes on then does not know what is in use (section 7);
the rest of `Accounts` and `FreeIsFound`, which are about the allocator itself, go on.
The properties of `snap_sound` are about the trees in memory: `NoResurrection` is about
steps of an open volume, since a mount goes back to the first trees and what was
deleted lives again.  `CheckKeeps` asks what the check of a mount would make of any tree
that operations can leave, though as long as no stop saves them it only meets the
first.  `SubvolsAgree` is `SubvolBackRef` and `NoOrphan`.  `recov_sound`
leaves out of `ReplayKeeps` what recovery is built to drop (`Dropped`): all records of
an entry but the first, the last entries before an unclean stop, and those below a
blacklist; what is left must be shown, or something newer.  `WritesAreRead` is asked of
volumes that are new or whose mount has replayed: after another mount the overlay
stays in front of the tree (`restore_progress`, section 7).  Because a clean stop saves
no tree of depth 0, each mount starts from the first root and from what it replays.

`daemon_sound` takes the pairs of requests of which one changes what the other looks
at, with a third that looks, changes or joins in.  More requests add longer queues for the same locks; the third is what
finds a delete between two makers, or a reader that makes a removed directory anew.
`AckedKept` says that an answered change is in the memory of the open volume, and that
once main has stopped the volume, without an error, it is in the nodes that the stop
wrote.  It does not say that the change can be found again.
Each exclusion in `AckedKept` and `OpenIsOnDisk` is there because the code breaks the
property without it (section 7); what remains must hold for every order.

## 4. Fairness

Weak fairness of the steps of each call that was begun: the tasks are threads
or tokio tasks that keep being scheduled, and the mutexes between them are handed
over in the end.  No fairness makes a caller begin a call.  In `SixLock` a holder
also unlocks in the end (`Unlock`), as every guard does when it is dropped; a thread
is never forced to try.  `FlushEnds` needs tasks that put back what they reserved,
which `CommitFails` breaks: it is checked without that action.  In `Recovery` the steps of
`bch2_run_recovery_passes` and of `init_volume` after it are fair (`FairSpec`): one
task runs them to the end.  `MountEnds` holds even for passes that fail for ever.
In `Daemon` the actions of each
handler, of main and of the listeners are weakly fair, as tokio runs what is ready,
and a client in its NBD handshake chooses or gives up in the end; requests, the
signal, `Disconnect` and `Disc` are not fair.  The assumption about the handshake is
one about clients and not about the code: it has no timeout there (section 7).
The trees, the allocator and the snapshots have no task of their own and no liveness.

## 5. Proofs

**Types** (`JournalProofs`).  For any number of tasks, flushers, buffers and records,
and with every failure enabled, `TypeCorrect`: `Spec => []TypeOK`.  `TypeOK` is not
inductive: that `cap` and `cur` stay in range needs `ControlInv` (a task that waits for
the slow path has a size and a cycle left; a flush that writes is at a buffer).

**The journal that works** (`JournalProofs`).  With one flusher, and
without slow path, stop, commit errors and write errors (assumption `OneFlusher`, the
configuration of `journal_flush`):

- `CountsAreExact`, `Durability`, `NothingLeftOut`: three invariants.
- `ImplementsLog`: each step of the journal is a step of `DurableLog` or changes
  nothing of it.

They follow from `JournalInv`, whose parts need each other: the phase of the flush
fixes the state of the open buffer and whether the entry is closed (`PhaseInv`); a task
that holds a reservation holds it in the open buffer, before the drain is over, at a
place below the offset, or below the offset the flush has noted (`HolderInv`); the
counts are the holders (`CountIsOutstanding`), so that the drain waits for all of them;
a record in a buffer is committed or about to be (`DataInv`); a committed record is on
the device, in the hands of the flush, or in the part of the open buffer that this or
the next flush will capture (`CommittedInv`); and what a flush will acknowledge was
committed when it began and is durable when it ends (`AckInv`).  `AckedDurable` alone
is not inductive, because the flush acknowledges records that it picked up many steps
before.  `NoHoles`, proved last of these, needs `CoverInv`: below the offset every place belongs to a record
or to a reservation that is still held.

**The journal that fails** (`JournalProofs`).  With one flusher (`SingleFlusher`) and
every failure: `DrainNeverShort`, `OnlyCommitted`, `EntriesConsistent`, the three
invariants of `journal_faults` with `~lapped`.  The counts are no longer exact, since a
commit that fails leaks its count; what is left, and inductive, is `FaultInv`: writers
are in the open buffer only, a count is never below the number of its writers, and
from the end of a drain until the next entry opens there is no writer at all.  The
third part is what makes an early drain impossible, and it needs that there is one
flusher: a second one would open the entry in between.

`OpenBufferFollowsSeq` needs no assumption: `IdxFollowsSeq` holds for any number of
flushers and whatever fails, because `find_free_buf` panics before `idx` and `seq` can
drift apart.  It rests on `NextOfSeq`, a fact about remainders.

**Recovery** (`RecoveryProofs`, for any set of passes and any order, assumption
`RetryAssumption`: at least two failures are counted).  `OpenedComplete`: a volume that
is open for writing has run every pass its mount had to run.  `GivenUpOnFailure`:
recovery gives up only on a pass that failed twice.  The second is not inductive, as
the scheduler counts rounds and not failures of a pass: what holds is that in a round
after the first each pass that is still left was tried since the failures were last
forgotten (`TriedAgain`, `RetryInv`).
`WritesAreShown` is the action property `WritesAreRead`: a write is what is read right
after it.  It needs that the overlay which recovery reads through is gone once the
journal was replayed, and so that the pass which opens it cannot fail and be tried
again after the replay (`MayGoRwSucceeds`; `set_may_go_rw.rs` has no failing path).
`ReplayInv` keeps the order of the two passes through every round of the scheduler.
`ReplayIsKept` is `ReplayKeeps`, for any number of writes, flushes, mounts and crashes
(`WritesBounded` only says that the bound of the model is a number).  Three facts carry
it, all in `KeepInv`.  The journal that a mount replays is that of the session which
made the volume: from the end of the first mount on the persisted number is at least
that of the replay and never falls below it again (`Replayable`, `PersistedReplay`;
this is where the stable numbers, which do not grow with the runtime order, could have
gone wrong: pass 1 alone has a greater one, and no mount runs it as its furthest).  In
that journal values rise with the blocks and with the sequence numbers (`LogSound`), so
that what `journal_read` keeps rises too (`ReadOwes`).  And a replay that applies rising
values leaves in each key the one it owes or a newer one, whatever an earlier attempt
that failed had already applied (`AppliedShows`, `ReplayedTree`).  The folds of the model
are taken one step at a time (`SelectedSteps`, `ReadSteps`, `AppliedSteps`).  A mount in
which the replay fails while a later pass succeeds persists the number of that pass, and
the next mount skips the replay: the theorem, like the property, is about mounts that
replay.

**Six lock** (`SixLockProofs`, for any number of threads and any width of the words).
`Exclusion`, `CountsExact` and `RelocksSound` are the invariants `MutualExclusion` and
`CountsHeld` and the action property `RelockSound`, for threads that try, upgrade,
downgrade, relock and unlock, under `NeverWaits`: nobody takes the slow path, who
writes does not also read through another path, and the read counts cannot reach
`CntSize`.  Each of the three is needed, section 7 has what happens without the first
two.  The invariant `TryInv` ties the fields of the state word to what the threads
have, counting what a relock has taken and may give back (`HoldInv`) and, between the two steps of a
downgrade, who holds the intent lock and is counted as a reader already (`DownInv`), and
a noted seq to the writes since (`StaleInv`).  `SleepersAreQueued` is `SleeperIsQueued`, with the
slow path: who sleeps without having been handed the lock is in the fifo.  It needs
`RoomForAll`, a slot for each thread (the fifo of the code has 16); then a thread that
is not in the fifo always finds a slot, by counting (`SlotForThread`).

**The allocator** (`AllocProofs`, for any groups, buckets, sizes of the pool and
addresses, without further assumptions).  `BucketsHaveOneOwner`, `AccountsAgree` and
`FreeIsAlwaysFound` are the three invariants of `alloc_sound`, the first one until the
first mount; `BtreeTellsAll` is `ReadBack`, the part of `Accounts` that ends there
too.  `Sound` is what an
allocator keeps by itself: no bucket twice on a list, only free ones, exact counts, a
pool whose entries are user buckets and differ.  `OneOwner` needs in addition that
what an extent, a node, metadata or the write under way has is in use both in the
allocator and in the Alloc btree, except for the one bucket between the two halves of a
free (`HeldInv`, `OwnInv`, `AgreeInv`).  These hold until the first mount
(`FirstLife`), after which the new allocator gives out what is in use (section 7).  The second pass of
the search goes over the buckets and not over the lists, and would give a free bucket
out while it stays on a list; that it never does is `Listless`: the first pass failed,
so every group it may take from has an empty list.
The two passes, the batches, the reading of the Alloc btree and the rebuilding of the
free lists are folds: a fold has the values it is computed from (`FoldExists`), and what
every step keeps is true of the result (`FoldStays`).  This is proved by least
counterexample, since folds are recursive functions; `RecoveryProofs` and
`SnapshotsProofs` begin with the same lemmas.

**Snapshots and subvolumes** (`SnapshotsProofs`, for any number of ids, subvolumes,
mounts, clean-ups and deletions, without further assumptions).  `SubvolsStayMatched`
and `DeletedStaysDeleted` are the invariant `SubvolsAgree` and the action property
`NoResurrection`, which is about the steps of an open volume.  What each operation on the tree
does is a long fold of rewrites, some of them from versions read before; what the proof
needs of all of them is that the new tree `Follows` the old one: a node that is stored
stays, a mark stays, and a node's subvolume becomes 0 or stays.  With it, creation is
what is left to look at, and there the ids are new (`NextIdIsFresh`: a fresh id is
stored in no tree, and so is not marked).  `SnapInv` adds that what is marked is stored, that a
linked subvolume has a stored node that names no other (`Refers`), and that the parent
of a linked subvolume is linked (`Parented`).  The skips of a node are left of any
type there.

`AncestryIsKept`, `CheckLosesNothing`, `TableFollowsTree` and `Typed` are the invariants
`AncestryKept`, `CheckKeeps` and `TableAgrees` and the type invariant.  Their invariant is `Sound`, of the tree and of
what each id was created under: the recorded ancestors of a node lie above it and are
nested (`Lineage`); its parent is one of them and no living one lies in between
(`Covered`); a bit below the last says just whether the id at that distance is one
(`BitsRight`; the last bit is missing for a parent at that distance, and the code
never asks for it); every skip is on the way up the parents (`Leads`),
and the children that a node names are nodes whose parent it is.  A rewrite keeps all
of it as long as each node keeps its parent and its bits and gets skips and children
of these kinds (`Revised`, `Redone`, `RedoneIsSound`), which is so for deletion,
clean-up, where the effective parent of a node below dead ones is an ancestor
(`EffectiveIs`), and the check that a mount runs, of the first trees or of any others
that it does not give up on, whose third kind of repair is for children that
do not exist (`FixesRevise`).  Removing inner nodes changes parents: its fold keeps
`Sound` except for the skips of those still to be removed, and none of the others'
skips names one of them (`Cleared`, `RemoveSound`).  A new node is below all others
(`NewNodeSound`).  From `Sound`, `BtreeFinds` follows the test on the btree from the
highest id down, and `TableFinds` the two walks of the table.  The walks are recursive
functions over ids whose arguments grow; `ClimbExists` and `ClimbAny` give the functions,
by counting down from `MaxId`, and `FromTheTop` is the induction, for sets.

**Pins** (`JournalPinsProofs`, for any tasks, pins, types of pins and sizes).
`TypesKept`: what a task remembers is of the right kind wherever it is (`Typed`).

- `FlushWaitsForCallback`: with one flusher, `FlushWaitIsOver`.  It needs that
  `flush_in_progress` is the pin whose callback runs or is about to, and that
  `pin.flush` is held by that flusher and nobody else (`CallbackIsKnown`); with a second
  flusher neither is so (section 7).
- `NewListsSound`: with one flusher, in a journal that `Journal::new` makes and until
  its FIFO is full, `ListsSound`, `LastSeqIsFront` and `UnwrittenIsKept`, with calls
  on pins that race.  `Sound` adds what a task remembers
  between reading a seq and moving the pin: the seqs and places are those of entries
  in the FIFO, a task that is blocked with a pin half moved holds the lock of the list
  it goes to, and a pin being flushed keeps the seq of the walk unless a drop was
  noted.  The front of such a journal never moves, because nobody puts the first
  entry's self pin in slot 0; the proof uses it, and it is also what fills the FIFO in
  the run `pins_full`, where `~Poisoned` ends.
- `SerialFrontKept`: with one call at a time, `LastSeqIsFront` where `last_seq_ondisk`
  starts as a multiple of the size.  It needs that no two calls are under way
  (`OneCall`), and that between the drain of *n* lists and the advance by *n* the front
  is ahead by just *n* (`InStep`).
- `EntriesNeverFill` and `WrittenBeforeDrained`: `EntriesDrain` and `UnwrittenIsKept`
  in a journal without pins, as the daemon runs it, with one call at a time, for every
  first seq, every number of buffers and a FIFO of any size, until a full FIFO has
  panicked.  The list of an entry is in the slot `Lag` places after that of its seq
  (`Place`), so that putting the self pin of an entry puts that of the entry `Lag` before it
  (`PutInTime`).
  `Filled` says that for some *b* the FIFO holds the entries from *b* on, each in its
  place, that the self pin of a list is put when the entry `Lag` after its own
  is written and not before, and that a flush leaves nothing behind that was to be put
  (`Holds`, `Emptied`).  Since a flush writes every closed entry before it puts a self
  pin, no list is drained of an entry that is not written, however far the slots are
  off.  `EntriesDrain` says of itself for which first seqs the FIFO has room: `Lag +
  NBuf < FifoSize`, where `NBuf` is 4 in the code and the size 128.  An entry is opened
  only over a buffer that was written, so at most `NBuf` entries are unwritten, and the
  others wait for the `Lag` after them.  With a greater lag the FIFO fills and the
  journal panics, which is all that `Lives` says then.

**The btree** (`BtreeProofs`, for any number of keys, any scripts and calls after
them, and any sizes that `NodeAssumption` allows: entries of a multiple of 8 bytes, aux
elements that are no longer, and a node with room for four entries).
`RoutingIsExact`, `AckedIsKept` and `ReadersAgree` are the three invariants of
`btree_sound`.  None of them is inductive: a live entry is found from the root only if
every node on the way says where the parts below begin, and says nothing else.  That is
`Shape`, which is told by two functions: `W[l][k]` is the node of level *l* that is
responsible for the position *k*, and `D[k]` what the tree holds of it.  The parts of a
level have no gaps (`Convex`), each lies inside one of the level above (`Nested`), each
node of the cache has a part at one level (`Ways`), a routing node has one live entry
for each place where a part of the level below begins and a leaf the entries of its
own part (`Says`); of `D` it is known that it agrees with what the calls answered
(`Agrees`).  `TreeIsSound` says that such functions exist in every state.

The proof goes up in three layers.  *Nodes*: `CompactOK`, `InsertOK`, `SplitOK`,
`DeleteOK`, `AbsorbOK` and `RerouteOK` say what a node says after each operation, and that
it still fits; this is where the sizes matter, since the entry that a split makes room
for must find it (`RoomInHalf`, `FullCanSplit`, `InsertFits`).  *Shapes*: a node that is
replaced (`PutShape`), a split below the root or of it (`SplitShape`,
`RootSplitShape`), a merge (`MergeShape`) and the root that gives way to its only child
(`CollapseOnceOK`) each come with the functions of the tree afterwards.  While a split is
on its way up, one routing entry is missing; `Shape(t, W, D, m, x)` leaves out just the
one of level *m* at *x*, and it is what `RouteStep` keeps until a node takes the entry
(`InsertRouteOK`).  *Calls*: an insert that says so changes `D` at its key
(`TreeInsertOK`), one that fails changes nothing, a delete makes it dead or leaves it
(`TreeDeleteOK`; it leaves it where only the older of two entries could be marked),
load and presplit change nothing (`ReloadedOK`, `PresplitOK`).  The functions along the
path are taken one level at a time (`StepsExist`, `StaysIn`).

**The daemon** (`DaemonProofs`, for any finite set of names and any requests and
connections).  `Typing`: what is open, held, waited for or
stopped exists.  It needs where handlers stand (`TaskInv`: each only where its request
leads it, with a Volume once it changes one) and the discipline of the map's guard
(`MapGuards`, `MainInv`): who holds or awaits it is where the guard is asked for, and
since the RwLock lets a writer in alone, nobody changes the map while main stops the
volumes in it.  The first part of `DaemonProofs` has what that takes of the RwLock: no guest is in it
twice, whoever comes, waits, leaves or stops waiting.

`MapAndDirectory` is the invariant `OpenIsOnDisk`.  Its strengthening `NameFits` adds,
for a name where no delete met a maker, that there are never both at a time, and that
a maker between its look at the directory and the map has the file of that directory.
`ChangesKept` is `AckedKept`.  It needs that files of different names stay apart
(`OwnInv`, with the owner of each file as a witness that grows with the files), that a
name which no delete and no second maker came for has no open volume while one is
made for it, and so keeps the one that its changes went to (`Calm`), and that what
main is writing for the volume it stops is what is in that volume (`KeptInv`).  It is a
theorem about the memory of the open volume and about the nodes `stop_volume` writes,
not about what the next daemon finds: no root leads to these nodes.

The assumptions are needed: section 7 lists what goes wrong without each part.

Only model-checked: liveness, which needs fairness; the lists and the unwritten entries
of a restored journal with pins, where the front does move under pins that stay.

## 6. What is not modelled

*Conversions of data*, which the repository's tests cover and which a model checker
does not reach: bytes, checksums, key packing, blocks and jsets, the copies of the
superblock, the formats of a node on a device, S3, HTTP and NBD framing, the CLI,
configuration.

*Code that nothing outside the tests calls*, so that its behaviour in the program is
that it does not run: the deadlock detector, the write buffer, dirty slots of the key
cache (`insert_entry_cached` is never called with `cached` set), reuse of open buckets,
write points, `GensTracker` and `GcGensBitmap` of `alloc/background.rs`, the filters of
an allocation request; of the six lock `should_sleep`, `lock_restart`,
`trylock_convert`, `lock_increment`, `lock_readers_add` and `lock_wakeup_all`.

*Parts of modelled components.*  Journal: which bucket a block goes to, discards.  Six
lock: per-cpu readers.  Node cache: the LRU and the dirty lists, the shrinker, nodes in
flight; the model keeps below its limits.  Trees: full scans, key counters, iterators,
`min_key` and `max_key`, the records of interior updates; a search in the sorted set is
its result, without the walk over the Eytzinger array that finds it (`Search`), and an
iterator starts at the lower bound of its key, without the special case for `MIN_KEY`,
with which the scans of a whole tree begin (`LowerBound`).  Transactions: the locks of
paths, because the transactions of the volume have none.  Allocator: reservations,
bucket versions, the Freespace btree, a device whose size is no multiple of a group, a
crash between an allocation and its journal entry; the background discard has no
caller, so that `DoTrim` may happen at any time.  Snapshots: tree records, inodes.
Recovery: of most passes only whether they succeed.  Extents of a volume.
Daemon: the status request, volumes on S3, what reads, writes and trims do to a device.

The share of the source that is modelled is small for these reasons, and because a
large part of each file is its tests.

## 7. Where the code differs from its docs

Two of these are runs; the others were met in the same way, and the last column
says how to see each: the constants or the use to change and the property to check,
or the definition of a module that does as the code does.

| Where | What happens | How to see it |
|---|---|---|
| `journal/types.rs` `journal_cycle_locked` | the closed buffer keeps `data_end` 0; the next flush writes nothing of it and returns Ok | run `journal_slowpath` |
| `journal/types.rs` `journal_cycle_locked`, `bch2_fs_journal_stop` | an entry is opened over one that is not drained; the buffer is reused under its writers | `DrainIsSafe` without `~lapped` |
| `bch2_journal_flush` | two flushes at once: one returns Ok before the other has written | `Flushers = {f1, f2}`, `AckedDurable` |
| `write_bufs_to_bucket` | a write error leaves the buffer WriteDone; the next flush skips it and returns Ok | `WriteErrors = TRUE`, `AckedDurable` |
| `journal_res_put` | state read and set in two steps: a written buffer becomes WriteSubmitted again | `BufLifecycle` |
| `write_bufs_to_bucket` | write-done callbacks run before the write (`FlushPrep` comes before `FlushWrite`) | in the order of the code |
| `trans_commit` | `?` between reservation and put: the next flush spins for ever | `CommitErrors = TRUE`, `FlushEnds` |
| `journal/types.rs` `journal_entry_open` | a fresh journal fills its FIFO and panics | run `pins_full` |
| `journal/reclaim.rs` `journal_seq_pin` | a fresh journal panics when the open entry is pinned | `Race` with one task, `EntryCanBePinned` |
| `bch2_journal_flush` | the self pin of an entry is put by each flush while its buffer is WriteDone, so that a pinned list is drained | `Restart` with `first` 4, `disk` 0, `callbacks` {"keep"}, `PinnedIsKept` |
| `maybe_update_last_seq` | two callers drain the same front twice | `NoPins` with two flushers, not serial, `UnwrittenIsKept` |
| `journal_flush_pins` | one `flush_in_progress` for all flushers: a dropped pin stays linked; `pin_flush` returns too early; the field leaks when the list is gone | `Race` with two flushers, `PinIsLinkedOnce`, `FlushWaitIsOver`; `ProgressIsCleared` |
| `journal_pin_set_locked` | a list locked while waiting for `pin.flush`, whose callback waits for the list | `Race` with `rearm` {TRUE}, `NoLockCycle` |
| `journal_get_next_pin` | after a restart the walk returns a pin under another seq | `Restart`, `WalkGivesPinSeq` |
| `lock/six.rs` `lock_slowpath` | a second writer gets the lock while the first has it | a use with two threads that want `write` and `slow` set, `MutualExclusion` |
| `try_lock_write` | read locks on other locks count as this lock's own: a writer passes over a foreign reader | a use with `elsewhere` in a writer, `MutualExclusion` |
| `lock_slowpath` | a read lock taken in the slow path is counted twice in `THREAD_READ_CNT` | `ReadCntIsHeld` for uses with `slow` |
| `unlock_write` | only readers are woken: a thread that a writer kept out of the intent lock sleeps on, though the release "may wake read / intent waiter" ("可能可以唤醒 read / intent waiter") | a writer and a thread for the intent lock, `WaiterServed` without `Woken` |
| `push_waiter_with_recheck` | a successful recheck clears the WAITING bit of others of its type, which are never woken | three threads for the intent lock, `WaiterServed` without the bound of two |
| `lock_slowpath` | the flag is read before the waiter tries for itself: a handoff in between takes the lock twice | `spurious` in an intent thread, `FreeAtRest` |
| `push_waiter_with_recheck` | a waiter that finds the fifo full sleeps in no slot | `FifoSize = 1`, three threads, `SleeperIsQueued` |
| `btree/iter.rs` `advance` | with 16 keys in a leaf a tombstone may wait behind the first `key_count` entries: `get_entry` returns the deleted value, though it "always returns the newest non-deleted entry" (`btree/btree.rs`) | `ReadsAgree` without its premise, a leaf of 16 entries |
| `btree/btree.rs` `get`, `search` | in a leaf that is not compacted they return the oldest entry; `get` keeps it in the key cache, from where `get_entry` then answers | `ReadsAgree` without `n.inc = <<>>` |
| `btree/node.rs` `delete_key` | in a full leaf the oldest entry is marked: a newer one of the position lives on, though delete returned true | `MarkInPlace`; `KeepsAcked` with `found = Dead` for `gone` |
| `btree/btree.rs` `insert_multi` | a leaf more than 3/4 full of versions of one key: split gives None and the insert is refused until something compacts the leaf | `InsertMulti`, `CanSplit` |
| `btree/btree.rs` `for_each`, `count_entries` | a merge puts the survivor's routing entry behind the others of the parent, and the scans walk children by their index: they skip leaves, or leave the order | `Reroute` |
| `btree/btree.rs` `try_merge_node` | the merge of three nodes into two never happens: its third node is the one already taken out | `TryMerge` |
| `btree/btree.rs` `delete_root` | while the cache refers to the root (after each load) nothing is deleted at depth 0 and presplit does nothing | `DeleteRoot`, `Presplit` |
| `btree/btree.rs`, `btree/cache.rs` | a tree of depth 1 or more cannot be saved: `flush_dirty` takes nodes out of the cache, and the load collects `BtreePtr` values only | not modelled; `Reload` asks for depth 0 |
| `btree/cache.rs` | after a delete at depth 1 or more the changed leaf is put on the clean list, so that the next flush skips it; eviction ignores `pin_count` | not modelled |
| `recovery/mod.rs` `restore_progress` | a stable number on the device is read as "this and all smaller ones are complete": later mounts skip the replay and `alloc_read` | `CompleteAt`; `ReplayKeeps` without `replayed` |
| `volume.rs` `stop_volume` | a clean stop does not save a tree of depth 0, though it says it does ("将当前 root pointers 回写到 superblock", "确保 root 节点已落盘"): `flush_dirty` gives the root the id `u64::MAX`, `apply_root_mappings` looks for the address in the root pointer, and the superblock keeps the first root; what the journal does not bring back is gone, without any crash | `Redirected`; `StopSaves` for the uses of `recov_sound`, or for two writes, one mount, no crash and no failing pass |
| `volume.rs` `init_volume` | after a mount the allocator is new and knows no bucket in use: `alloc_read`, of stable number 0, counts as done at every mount, and the marks of `trans_mark_dev_sbs` go to the btree, "so that ordinary allocation does not use" the journal's buckets ("防止普通分配使用"), where no allocation looks; an extent, or a node that a stop writes, is given a bucket of the journal or of another extent | `Mount` in `Alloc`; `JournalIsKept` in place of `OneOwner`, or `OneOwner` without `~mounted` |
| `volume.rs` `apply_root_mappings` | at depth 1 or more the ids of nodes (1, 2, ... in each tree) are looked up as the block addresses of roots (also 1, 2, ...): the root pointer of one tree may be sent to a leaf of another | not modelled; `Recovery` has one tree of depth 0 |
| `volume.rs` `stop_volume` | the blacklist covers entries whose data is nowhere else, those below the seq that the superblock on the device had; the others are replayed by one mount only | `StopFlush`; `StopSaves` |
| `volume.rs` `stop_volume` | a crash between the blacklist and the superblock loses the records it covers | `Dropped` without its second line, `ReplayKeeps` |
| `journal/replay.rs` | of the records with one seq only the first is applied | `Applied`; `Dropped` without its first line |
| `snap/snapshot.rs`, `check_snapshots.rs` | the check of a mount would give up on a volume with a living snapshot under a deleted one, or with a third snapshot of one node; it meets neither as long as no stop saves these trees | `Takes` (`ChainBroken`, `SlotsFull`) |
| `bch2_delete_dead_snapshots` | a second clean-up subtracts the deleted ancestors from the depth again | `MaxCleans = 2`, the depth in `FixChildren` |
| `subvol` counter | after a mount the counter starts at 1 again, and where the first trees hold subvolume 1 a new subvolume takes its id | `Mount` in `Snapshots` with `first = 1` |
| `snap`, `subvol` | what the calls on snapshots and subvolumes change is not journaled and its trees are not saved: after a stop and a mount deleted snapshots live again and new ones are gone | `Mount` in `Snapshots`; `NoResurrection` without `mounts' = mounts` |
| `Volume::delete_subvol` | the children are reparented, then the deletion may be refused | `Reparented`, `DeleteSubvol` |
| `alloc/mod.rs` `allocate_bucket_inner` | a bucket popped while the pool is full is free but on no list; only the scan finds it | `FromList`; mutant `NoScan` |
| `Volume::write_extent` | an open bucket is never put back: after 128 writes the pool is full; an overwrite and a failed write leak the bucket | `WriteCommit`, `WriteError` |
| `trans_commit` | a restart before the commit sets the seq to 0: the tree is not written, the journal is, and the caller gets Ok | not modelled |
| `delete_volume` | it opens the volume a second time and stops that one; the open one is never stopped, and its export stays: a volume created anew under the name is served from the deleted file ("one export is one volume", `volmount-nbd/src/export.rs`) | `DeleteOpen`, `DeleteDir`, `MountLook` |
| `create_volume`, `clone_volume`, `delete_volume` | a create that meets a delete leaves an open volume whose file is removed; a delete that fails half-way, or whose client goes away before the map is cleared, leaves a name that is open without a file | `OpenIsOnDisk` without `"clash"` |
| `create_volume` | two creates of a name both pass the check: the second initialises the file of the first again | `AckedKept` without `"makers"` |
| `create_volume`, `clone_volume` | one that fails, or whose client goes away, leaves a directory that can neither be created nor deleted | `CreateWrite`, `DeleteOpen` |
| `read_volume_superblock`, `list_all_volumes` | to read a volume that is being deleted makes its directory and an empty file anew | `InfoOpen`, `ReadClosed` |
| `main` | a change after the stop of its volume is answered with success and lost; a volume created after the loop over the volumes is not stopped | `AckedKept` without `late` |
| `volmount-nbd/src/server.rs` `handle_connection` | a client that says nothing keeps the guard of the exports: mount and umount wait for it, and then the shutdown | `AllEnd` without fairness of `Choose` |
| `volmount-nbd/src/server.rs` `handle_write` | a write of part of a block is a read and a write without a lock: two connections lose one of two updates; the export is the whole device, superblock included | not modelled |
| `journal_pin_drop_locked` | a pin whose list was drained keeps its seq; once its slot is taken again a drop, which finds the list by its place only, takes the new entry's count to 0, and that entry is drained before it is written | `Restart` with `last` 20, `UnwrittenIsKept` |

## 8. Plan

What is left, in this order, each with its MC module and one run for the uses that
should hold:

1. `NodeCache`: the clean, dirty and freeable lists, eviction and the shrinker, with
   the nodes that are being read or written; a dirty node is written before it is
   dropped.
2. `JournalBuckets`: the four indices of the bucket ring with the discards, composed
   with `JournalPins`; a bucket is reused only when no entry in it is needed.
3. `TransLocks`: the locks of the paths of a transaction over real six locks, restart
   and relock, once transactions of the volume have paths, and the deadlock detector.
4. `KeyCache` with the write buffer, once something writes through them.
5. Extents of a volume over `Alloc` and `Btree`: no bucket is lost when a write fails.

Theorems worth proving next: `ListsSound` and `UnwrittenIsKept` of a restored journal
with pins until its slots come round, and its composition with `Journal`,
whose seqs the pins follow.
