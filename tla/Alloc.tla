------------------------------- MODULE Alloc -------------------------------
(***************************************************************************)
(* The bucket allocator (volmount-core/src/alloc): groups of buckets with  *)
(* a stack of free ones, the pool of open buckets, the Alloc btree and its *)
(* trigger, and the allocator's callers in the volume: creation, writing   *)
(* and deleting an extent, flushing nodes, and a mount after a stop or a   *)
(* crash.                                                                  *)
(*                                                                         *)
(* A mount does not bring the allocator back.  What changes the Alloc      *)
(* btree is not journaled, a clean stop leaves the superblock at the roots *)
(* of the creation (Recovery.Redirected), and recovery takes its first     *)
(* pass, AllocRead, for done (Recovery.Restored), so that the volume goes  *)
(* on with a new allocator.  What is said of owners is therefore said of   *)
(* the life a volume has from its creation to its first mount, `mounted'.  *)
(*                                                                         *)
(* Every allocation is made under `&mut BtreeEngine', so it is one step.   *)
(* The filters of a request (btree bitmap, nocow lock, journal_seq) and    *)
(* reuse of open buckets are off in every request outside the tests and    *)
(* are not modelled; neither are bucket versions and the Freespace btree,  *)
(* which nothing that allocates reads.                                     *)
(***************************************************************************)
EXTENDS Integers, Sequences, SequencesExt, FiniteSets, Functions

CONSTANTS
  NGroups,        \* groups
  GroupSize,      \* buckets of a group
  PoolSize,       \* OPEN_BUCKETS_COUNT, 128 in the code
  Reserve,        \* what Watermark::reserved_buckets keeps back, by watermark
  JournalBuckets, \* bucket_count of Journal::create
  VAddrs,         \* keys of the Extents btree
  MaxMeta,        \* bound of the model: node and metadata allocations
  NoBucket

Groups == 0..(NGroups - 1)
Buckets == Groups \X (0..(GroupSize - 1))

ASSUME ConstantAssumption ==
  /\ NGroups \in Nat \ {0} /\ GroupSize \in Nat \ {0} /\ PoolSize \in Nat
  /\ Reserve \in [{"normal", "btree"} -> Nat] /\ JournalBuckets \in Nat /\ MaxMeta \in Nat
  /\ NoBucket \notin Buckets

VARIABLES
  al,       \* BchAllocator: state of each bucket; of each group the free_list, its
            \* top first, and free_buckets; allocated; hint, modulo NGroups; entry
            \* of each open bucket and the freelist of entries
  info,     \* the Alloc btree, "free" where it has no entry
  extents,  \* the Extents btree: the bucket of each virtual address
  meta,     \* buckets of nodes and of metadata
  journal,  \* buckets of the journal, which the superblock names
  op,       \* where the task that holds the volume stands
  mounted   \* the volume has been mounted since its creation

vars == <<al, info, extents, meta, journal, op, mounted>>

Idle == [pc |-> "idle", bucket |-> NoBucket, vaddr |-> NoBucket]

----------------------------------------------------------------------------
(* BchOpenBuckets *)

IsOpen(a, b) == \E i \in DOMAIN a.entry : a.entry[i] = b

OpenAlloc(a, b) ==
  [a EXCEPT !.entry[Head(a.avail)] = b, !.avail = Tail(@)]

\* lookup and put: the bucket's entry, if it has one.
OpenPut(a, b) ==
  IF ~IsOpen(a, b) THEN a
  ELSE LET i == CHOOSE j \in DOMAIN a.entry : a.entry[j] = b
       IN [a EXCEPT !.entry[i] = NoBucket, !.avail = <<i>> \o @]

NrOpen(a) == PoolSize - Len(a.avail)

----------------------------------------------------------------------------
(* allocate_bucket_inner *)

\* The group has no bucket to spare at this watermark.
Reserved(wm) == IF Reserve[wm] < GroupSize THEN Reserve[wm] ELSE GroupSize - 1
Short(a, g, wm) == a.free[g] <= Reserved(wm) + (NrOpen(a) \div NGroups)

Take(a, b) ==
  [OpenAlloc(a, b) EXCEPT !.state[b] = "user", !.free[b[1]] = @ - 1,
                          !.allocated = @ + 1]

\* First pass: the top of the free list.  A bucket taken off for which there is
\* no open bucket stays free, but is not put back on the list.
FromList(r, g, wm) ==
  IF r.got # NoBucket \/ Short(r.a, g, wm) \/ r.a.list[g] = <<>> THEN r
  ELSE LET b == <<g, Head(r.a.list[g])>>
           popped == [r.a EXCEPT !.list[g] = Tail(@)]
       IN IF popped.avail = <<>> THEN [r EXCEPT !.a = popped]
          ELSE [a |-> Take(popped, b), got |-> b]

\* MUTANT: no second pass.
NoScan(r, g, wm) == r

\* Second pass: the first bucket whose state is free.
FromScan(r, g, wm) ==
  LET free == {b \in Buckets : b[1] = g /\ r.a.state[b] = "free"}
  IN IF r.got # NoBucket \/ Short(r.a, g, wm) \/ free = {} \/ r.a.avail = <<>> THEN r
     ELSE LET b == CHOOSE b \in free : \A c \in free : b[2] <= c[2]
          IN [a |-> Take(r.a, b), got |-> b]

\* priority_value of the watermark's PrioHint.
Prio == [normal |-> 3, btree |-> 2]

AllocBucket(a, wm) ==
  LET start == a.hint + Prio[wm]
      order == [i \in 1..NGroups |-> (start + i - 1) % NGroups]
      none  == [a |-> [a EXCEPT !.hint = (@ + 1) % NGroups], got |-> NoBucket]
      first == FoldLeft(LAMBDA r, g : FromList(r, g, wm), none, order)
  IN FoldLeft(LAMBDA r, g : FromScan(r, g, wm), first, order)

\* bch2_alloc_buckets: the allocations up to the first that fails; those before
\* it are not given back.  bch2_alloc_sectors_start_trans: up to four attempts.
AllocBuckets(a, n, wm) ==
  FoldLeft(LAMBDA r, i : IF r.failed THEN r
                         ELSE LET s == AllocBucket(r.a, wm)
                              IN [a |-> s.a, failed |-> s.got = NoBucket,
                                  got |-> r.got \union ({s.got} \ {NoBucket})],
           [a |-> a, failed |-> FALSE, got |-> {}], [i \in 1..n |-> i])

AllocSectors(a, wm) ==
  FoldLeft(LAMBDA r, i : IF r.got # NoBucket THEN r ELSE AllocBucket(r.a, wm),
           AllocBucket(a, wm), <<1, 2, 3>>)

Recorded(bs, state) == [b \in Buckets |-> IF b \in bs THEN state ELSE info[b]]
Got(r) == {r.got} \ {NoBucket}

----------------------------------------------------------------------------
(* BchAllocator::new and bch2_alloc_read *)

New ==
  [state |-> [b \in Buckets |-> "free"],
   list  |-> [g \in Groups |-> [i \in 1..GroupSize |-> i - 1]],
   free  |-> [g \in Groups |-> GroupSize],
   allocated |-> 0, hint |-> 0,
   entry |-> [i \in 1..PoolSize |-> NoBucket],
   avail |-> [i \in 1..PoolSize |-> i]]

\* The rebuilt list is ascending, so its last bucket is on top.
FreeList(g) ==
  FoldLeft(LAMBDA l, i : IF info[<<g, i>>] = "free" THEN <<i>> \o l ELSE l,
           <<>>, [i \in 1..GroupSize |-> i - 1])

AllocRead ==
  [New EXCEPT !.state = info,
              !.list = [g \in Groups |-> FreeList(g)],
              !.free = [g \in Groups |-> Len(FreeList(g))],
              !.allocated = Cardinality({b \in Buckets : info[b] # "free"})]

----------------------------------------------------------------------------
Init ==
  /\ al = New
  /\ info = [b \in Buckets |-> "free"]
  /\ extents = [v \in VAddrs |-> NoBucket]
  /\ meta = {} /\ journal = {}
  /\ mounted = FALSE
  /\ op = [Idle EXCEPT !.pc = "create"]

\* Journal::create, of a new volume; if it fails there is no volume.
CreateJournal ==
  /\ op.pc = "create"
  /\ LET r == AllocBuckets(al, JournalBuckets, "normal")
     IN /\ al' = r.a
        /\ info' = Recorded(r.got, "user")
        /\ journal' = r.got
        /\ op' = IF r.failed THEN [op EXCEPT !.pc = "failed"] ELSE Idle
  /\ UNCHANGED <<extents, meta, mounted>>

\* write_extent: allocate, ...
WriteAlloc(v) ==
  /\ op = Idle
  /\ LET r == AllocBucket(al, "normal")
     IN /\ al' = r.a
        /\ info' = Recorded(Got(r), "user")
        /\ op' = IF r.got = NoBucket THEN op
                 ELSE [pc |-> "write", bucket |-> r.got, vaddr |-> v]
  /\ UNCHANGED <<extents, meta, journal, mounted>>

\* ... write the block and commit, whose trigger records the bucket.  The bucket
\* the address had before stays allocated.
WriteCommit ==
  /\ op.pc = "write"
  /\ info' = Recorded({op.bucket}, "user")
  /\ extents' = [extents EXCEPT ![op.vaddr] = op.bucket]
  /\ op' = Idle
  /\ UNCHANGED <<al, meta, journal, mounted>>

\* The block cannot be written, or the transaction fails: the bucket stays
\* allocated.
WriteError ==
  /\ op.pc = "write"
  /\ op' = Idle
  /\ UNCHANGED <<al, info, extents, meta, journal, mounted>>

\* delete_extent: the commit, whose trigger records the bucket as free, ...
DeleteCommit(v) ==
  /\ op = Idle /\ extents[v] # NoBucket
  /\ info' = Recorded({extents[v]}, "free")
  /\ extents' = [extents EXCEPT ![v] = NoBucket]
  /\ op' = [pc |-> "free", bucket |-> extents[v], vaddr |-> v]
  /\ UNCHANGED <<al, meta, journal, mounted>>

\* MUTANT: the bucket's entry in the pool is not put.
FreeKeepsOpen ==
  /\ op.pc = "free"
  /\ IF al.state[op.bucket] = "free" THEN UNCHANGED <<al, info>>
     ELSE /\ al' = [al EXCEPT !.state[op.bucket] = "discard"]
          /\ info' = Recorded({op.bucket}, "discard")
  /\ op' = Idle
  /\ UNCHANGED <<extents, meta, journal, mounted>>

\* ... and bch2_bucket_free: the bucket waits for its discard.
BucketFree ==
  /\ op.pc = "free"
  /\ IF al.state[op.bucket] = "free" THEN UNCHANGED <<al, info>>
     ELSE /\ al' = [OpenPut(al, op.bucket) EXCEPT !.state[op.bucket] = "discard"]
          /\ info' = Recorded({op.bucket}, "discard")
  /\ op' = Idle
  /\ UNCHANGED <<extents, meta, journal, mounted>>

\* MUTANT: a discard is done again for a bucket that is free already.
TrimAgain(b) ==
  /\ op = Idle /\ al.state[b] \in {"free", "discard"}
  /\ al' = [al EXCEPT !.state[b] = "free", !.free[b[1]] = @ + 1,
                      !.list[b[1]] = <<b[2]>> \o @, !.allocated = @ - 1]
  /\ info' = Recorded({b}, "free")
  /\ UNCHANGED <<extents, meta, op, journal, mounted>>

\* bch2_bucket_do_trim, called for any bucket.
DoTrim(b) ==
  /\ op = Idle /\ al.state[b] = "discard"
  /\ al' = [al EXCEPT !.state[b] = "free", !.free[b[1]] = @ + 1,
                      !.list[b[1]] = <<b[2]>> \o @, !.allocated = @ - 1]
  /\ info' = Recorded({b}, "free")
  /\ UNCHANGED <<extents, meta, op, journal, mounted>>

\* bch2_open_bucket_put, which the writer of a bucket may call, or not, or twice.
OpenBucketPut(b) ==
  /\ op = Idle /\ b \in Range(extents) \union meta \union journal
  /\ al' = OpenPut(al, b)
  /\ UNCHANGED <<info, extents, meta, op, journal, mounted>>

\* flush_dirty_nodes gives a node a block, write_data_to_blocks gives metadata one.
MetaAlloc(wm) ==
  /\ op = Idle /\ Cardinality(meta) < MaxMeta
  /\ LET r == IF wm = "btree" THEN AllocSectors(al, wm) ELSE AllocBucket(al, wm)
     IN /\ al' = r.a
        /\ info' = Recorded(Got(r), "user")
        /\ meta' = meta \union Got(r)
  /\ UNCHANGED <<extents, op, journal, mounted>>

\* The Alloc btree that the superblock leads to: of all buckets only those of the
\* journal were allocated before the initial roots were written.
Created == [b \in Buckets |-> IF b \in journal THEN "user" ELSE "free"]

\* trans_mark_dev_sbs marks the superblock's bucket and then the journal's, in the
\* btree and not in the allocator.
Marked ==
  [b \in Buckets |-> IF b \in journal THEN "journal"
                     ELSE IF b = <<0, 0>> THEN "sb" ELSE "free"]

\* The volume is stopped, or crashes in the middle of a write or a deletion, and
\* is mounted: init_volume makes a new allocator that nothing sets up.  Recovery
\* marks the superblock and the journal at the first mount; later ones take that
\* pass for done.  The journal brings back some of the extents (that it may bring
\* back an older version of one is left out: no property looks at them); no root
\* leads to the nodes that were flushed.
Mount ==
  /\ op.pc \in {"idle", "write", "free"}
  /\ al' = New
  /\ info' \in {Created} \union (IF mounted THEN {} ELSE {Marked})
  /\ \E kept \in SUBSET VAddrs :
       extents' = [v \in VAddrs |-> IF v \in kept THEN extents[v] ELSE NoBucket]
  /\ meta' = {}
  /\ op' = Idle
  /\ mounted' = TRUE
  /\ UNCHANGED journal

Next ==
  \/ CreateJournal
  \/ \E v \in VAddrs : WriteAlloc(v) \/ DeleteCommit(v)
  \/ WriteCommit
  \/ WriteError
  \/ BucketFree
  \/ \E b \in Buckets : DoTrim(b) \/ OpenBucketPut(b)
  \/ \E wm \in DOMAIN Reserve : MetaAlloc(wm)
  \/ Mount

Spec == Init /\ [][Next]_vars

----------------------------------------------------------------------------
FreeIn(g) == {b \in Buckets : b[1] = g /\ al.state[b] = "free"}

TypeOK ==
  /\ al.state \in [Buckets -> {"free", "user", "discard"}]
  /\ info \in [Buckets -> {"free", "user", "discard", "sb", "journal"}]
  /\ extents \in [VAddrs -> Buckets \union {NoBucket}]
  /\ meta \subseteq Buckets /\ journal \subseteq Buckets
  /\ op.pc \in {"create", "failed", "idle", "write", "free"}
  /\ al.hint \in Groups

\* Until the first mount no bucket is given out while somebody has it: an extent,
\* another extent, the journal, a node, or the write under way.
OneOwner ==
  ~mounted =>
    /\ \A v, w \in VAddrs : v # w /\ extents[v] # NoBucket => extents[v] # extents[w]
    /\ (meta \union journal) \intersect (Range(extents) \union {op.bucket}) = {}
    /\ meta \intersect journal = {}
    /\ op.bucket # NoBucket => op.bucket \notin Range(extents)

\* Until the first mount the Alloc btree, written by allocation, trigger, free and
\* discard, says what the allocator knows: from it bch2_alloc_read would rebuild
\* the states, the counters and lists with every free bucket on them.  While a
\* deletion waits to free its bucket, that one bucket may be free in the btree only.
ReadBack ==
  ~mounted =>
    /\ \A b \in Buckets \ {op.bucket} : AllocRead.state[b] = al.state[b]
    /\ op.pc # "free" =>
         /\ AllocRead.free = al.free /\ AllocRead.allocated = al.allocated
         /\ \A g \in Groups : Range(al.list[g]) \subseteq Range(AllocRead.list[g])

\* docs: recovery marks the journal's buckets so that ordinary allocation does not
\* use them; no extent, no write and no node has a bucket of the journal.  It fails after
\* a mount (README, section 7).
JournalIsKept == journal \intersect (Range(extents) \union {op.bucket} \union meta) = {}

\* The counters, the free lists, the states and the open buckets tell one story:
\* a list holds free buckets, each once; free_buckets and allocated count what the
\* states say; an open bucket is in use and has one entry, and no entry is both
\* taken and on the freelist.  The Alloc btree tells the same (ReadBack).
Accounts ==
  /\ TypeOK
  /\ \A g \in Groups :
       /\ IsInjective(al.list[g])
       /\ \A i \in Range(al.list[g]) : <<g, i>> \in FreeIn(g)
       /\ al.free[g] = Cardinality(FreeIn(g))
  /\ al.allocated = Cardinality({b \in Buckets : al.state[b] # "free"})
  /\ IsInjective(al.avail)
  /\ Range(al.avail) = {i \in DOMAIN al.entry : al.entry[i] = NoBucket}
  /\ \A i \in DOMAIN al.entry : al.entry[i] # NoBucket =>
       /\ al.state[al.entry[i]] = "user"
       /\ \A j \in DOMAIN al.entry : al.entry[i] = al.entry[j] => i = j
  /\ ReadBack

\* No bucket is lost for good: whenever there is an open bucket to be had and a
\* group with a bucket to spare, an allocation succeeds, though the buckets popped
\* while the pool was full are on no list any more.
FreeIsFound ==
  al.avail # <<>> =>
    \A wm \in DOMAIN Reserve :
      (\E g \in Groups : ~Short(al, g, wm)) => AllocBucket(al, wm).got # NoBucket

=============================================================================
