----------------------------- MODULE Recovery -----------------------------
(***************************************************************************)
(* The life of a volume over crashes, clean stops and mounts: recovery     *)
(* (volmount-core/src/recovery, its passes and the overlay), the daemon's  *)
(* init_volume and stop_volume, and what the superblock, the tree and the  *)
(* journal on the device keep of the keys that were written.               *)
(*                                                                         *)
(* A volume is one tree of a few keys; a value is the number of the write  *)
(* that wrote it, so that a newer one is greater.  The journal on the      *)
(* device is its blocks, one jset each.  The tree is its root node, of     *)
(* depth 0, which is written to a block nobody uses: who gives blocks out  *)
(* is the module Alloc, deeper trees are in Btree.  Of the passes that     *)
(* check or rebuild other things only the outcome is kept.                 *)
(***************************************************************************)
EXTENDS Integers, Sequences, SequencesExt, FiniteSets

CONSTANTS
  Keys,
  Skip,        \* UNCLEAN_SEQ_SKIP, 64 in the code
  MaxFailures, \* MAX_PASS_FAILURES
  Uses         \* bounds of the model: how often a volume is written, mounted and
               \* crashed, and the passes that may fail, any number of times

ASSUME ConstantAssumption ==
  /\ Skip \in Nat /\ MaxFailures \in Nat
  /\ Uses \subseteq [writes : Nat, mounts : Nat, crashes : Nat, bad : SUBSET (0..14)]

\* The runtime order of the passes; their stable numbers, which the superblock keeps.
Passes == 0..14
CheckTopology == 0
SetMayGoRw == 7
JournalReplay == 8
Stable == [p \in Passes |-> <<4, 39, 0, 3, 5, 6, 7, 8, 9, 48, 10, 16, 17, 19, 42>>[p + 1]]

\* The flags: ALWAYS, UNCLEAN, and ALLOC; a pass with none of the first two never runs.
Always == {1, 2, 3, 5, 6, 7, 8, 9, 11, 13, 14}
Unclean == {CheckTopology}
AllocInfo == {4, 5, 6, 10}

MaxVal == Max({u.writes : u \in Uses})
Vals == 0..MaxVal        \* 0: no value
Empty == [k \in Keys |-> 0]

\* A block of the journal: a key and its value, or a blacklist of the sequence
\* numbers from 1 to below end.
Keyed(seq, key, val) == [seq |-> seq, key |-> key, val |-> val, end |-> 0]
Blacklist(end) == [seq |-> 0, key |-> CHOOSE k \in Keys : TRUE, val |-> 0, end |-> end]

VARIABLES
  use,        \* the member of Uses
  disk,       \* pass_done, clean_shutdown, journal_last_seq and no_alloc_info of the
              \* superblock, the block of its root pointer and the node in
              \* that block, the journal
  mode,       \* "rw", "stopping", "recovering", "off", "failed"
  tree,       \* the btree in memory
  ovl,        \* JournalKeys: its latest entry of each key
  ovlActive,  \* journal_overlay, and active
  open,       \* jsets of the open journal entry
  cur,        \* its sequence number
  pos,        \* next block of the journal on the device
  \* RecoveryState
  pc,         \* "head", "inner", "done"
  current,    \* current_passes
  complete, failing, passDone, mayGoRw,
  sbPass,     \* superblock.pass_done in memory
  jsets,      \* what journal_read kept, by sequence number
  toRun,      \* passes_to_run of the round
  any,        \* any_succeeded
  retry,      \* retry_count
  mounts, crashes, last  \* against the bounds; last is the number of the latest write

(* Observers. *)
VARIABLES
  acked,      \* journal records that a flush has acknowledged
  owed,       \* those of them this mount has to show, when it replays
  saved,      \* what was readable when the volume was last stopped cleanly
  quiet,      \* no crash since then
  replayed,   \* this mount has replayed the journal
  failures    \* how often each pass has failed in this mount, up to 2

diskVars == <<use, disk>>
memVars == <<tree, ovl, ovlActive, open, cur, pos>>
schedVars == <<pc, current, complete, failing, passDone, mayGoRw, sbPass, jsets, toRun, any, retry>>
obsVars == <<acked, owed, saved, quiet, replayed, failures>>
vars == <<diskVars, mode, memVars, schedVars, mounts, crashes, last, obsVars>>

-----------------------------------------------------------------------------
\* Addresses: the block of the first root, any other block; and the id that flush_dirty
\* gives to a root of depth 0, ROOT_CACHE_ADDR, which is no block.
FirstRoot == "first root"
NewBlock == "new block"
RootCacheAddr == "ROOT_CACHE_ADDR"

\* read-through of get_entry: the overlay first.
Get(k) == IF ovlActive /\ ovl[k] # 0 THEN ovl[k] ELSE tree[k]

\* The sequence numbers from 1 up that a blacklist on the device covers.
BlacklistEnd(log) == Max({0} \union {log[i].end : i \in DOMAIN log})

\* The members of a set in a sequence, in their order.
Selected(s, T) == FoldLeft(LAMBDA r, x : IF x \in T THEN Append(r, x) ELSE r, <<>>, s)

\* journal_read: all jsets by sequence number, without those that are blacklisted and,
\* after an unclean stop, without the last ones.
InSkip(log, clean, seq) ==
  LET max == Max({0} \union {log[i].seq : i \in {j \in DOMAIN log :
                     log[j].seq >= BlacklistEnd(log) \/ log[j].seq = 0}})
  IN  ~clean /\ max > Skip /\ seq >= max - Skip + 1

Kept(log, clean) == {j \in ToSet(log) : /\ j.seq = 0 \/ j.seq >= BlacklistEnd(log)
                                        /\ ~InSkip(log, clean, j.seq)}

JournalRead(log, clean) ==
  LET kept == Kept(log, clean)
  IN  FoldLeft(LAMBDA done, s : done \o Selected(log, {j \in kept : j.seq = s}), <<>>,
               [i \in 1..cur + Len(log) |-> i])

\* MUTANT: jsets are replayed from the newest down.
AppliedBackwards(t, js) ==
  FoldLeft(LAMBDA r, j : [r EXCEPT ![j.key] = j.val], t, Reverse(js))

\* replay_data_to_engine: of the jsets with one sequence number only the first.
Applied(t, js) ==
  FoldLeftDomain(LAMBDA r, i : IF \E h \in 1..(i - 1) : js[h].seq = js[i].seq THEN r
                               ELSE [r EXCEPT ![js[i].key] = js[i].val], t, js)

\* drain_overlay.
Drained(t) == [k \in Keys |-> IF ovlActive /\ ovl[k] # 0 THEN ovl[k] ELSE t[k]]

\* restore_progress, for the number the superblock keeps.
CompleteAt(done) == {p \in Passes : Stable[p] <= done}

\* compute_passes_to_run.
ToCompute(clean, noAlloc) ==
  (Always \union (IF clean THEN {} ELSE Unclean)) \ (IF noAlloc THEN AllocInfo ELSE {})

-----------------------------------------------------------------------------
\* create_volume: initial roots and the superblock are written, the journal is open.
Init ==
  /\ use \in Uses
  /\ \E noAlloc \in BOOLEAN :
       disk = [pass |-> 0, clean |-> FALSE, noAlloc |-> noAlloc, lastSeq |-> 2,
               root |-> FirstRoot, tree |-> Empty, log |-> <<>>]
  /\ mode = "rw"
  /\ tree = Empty /\ ovl = Empty /\ ovlActive = FALSE /\ open = <<>> /\ cur = 1 /\ pos = 1
  /\ pc = "head" /\ current = {} /\ complete = {} /\ failing = {} /\ passDone = 0
  /\ mayGoRw = FALSE /\ sbPass = 0 /\ jsets = <<>> /\ toRun = {} /\ any = FALSE /\ retry = 0
  /\ mounts = 0 /\ crashes = 0 /\ last = 0
  /\ acked = {} /\ owed = {} /\ saved = Empty /\ quiet = FALSE /\ replayed = FALSE
  /\ failures = [p \in Passes |-> 0]

\* btree_insert_with_journal: the tree itself and the open entry.
Write(k) ==
  /\ mode = "rw" /\ last < use.writes
  /\ last' = last + 1
  /\ tree' = [tree EXCEPT ![k] = last + 1]
  /\ open' = Append(open, Keyed(cur, k, last + 1))
  /\ UNCHANGED <<diskVars, mode, ovl, ovlActive, cur, pos, schedVars, mounts, crashes, obsVars>>

\* btree_insert, insert_guarded: the overlay while it is active, else the tree.
PutGuarded(k) ==
  /\ mode = "rw" /\ last < use.writes
  /\ last' = last + 1
  /\ IF ovlActive THEN ovl' = [ovl EXCEPT ![k] = last + 1] /\ UNCHANGED tree
     ELSE tree' = [tree EXCEPT ![k] = last + 1] /\ UNCHANGED ovl
  /\ UNCHANGED <<diskVars, mode, ovlActive, open, cur, pos, schedVars, mounts, crashes, obsVars>>

\* The blocks js written at pos.
Written(log, js) ==
  [i \in 1..Max({Len(log), pos - 1 + Len(js)}) |->
     IF i \in pos..(pos - 1 + Len(js)) THEN js[i - pos + 1] ELSE log[i]]

\* bch2_journal_flush (module Journal has its steps).
Flushed(js) ==
  /\ disk' = [disk EXCEPT !.log = Written(disk.log, js)]
  /\ pos' = pos + Len(js)
  /\ open' = <<>> /\ cur' = cur + 1
  /\ acked' = acked \union {[jset |-> open[i], first |-> i = 1] : i \in DOMAIN open}

JournalFlush ==
  /\ mode = "rw" /\ open # <<>>
  /\ Flushed(open)
  /\ UNCHANGED <<use, mode, tree, ovl, ovlActive, schedVars, mounts, crashes, last,
                 owed, saved, quiet, replayed, failures>>

\* stop_volume up to the blacklist: it covers what the superblock on the device says.
StopFlush ==
  /\ mode = "rw"
  /\ mode' = "stopping"
  /\ Flushed(Append(open, Blacklist(disk.lastSeq)))
  /\ UNCHANGED <<use, tree, ovl, ovlActive, schedVars, mounts, crashes, last,
                 owed, saved, quiet, replayed, failures>>

\* flush_dirty_nodes writes the root to a new block, under the id of flush_dirty;
\* apply_root_mappings takes a mapping for the address the pointer has.
Redirected(d, id, block, node) ==
  IF d.root = id THEN [d EXCEPT !.root = block, !.tree = node] ELSE d

\* The rest of stop_volume: the nodes, and in one write of the superblock the root
\* pointers and the journal's state.
StopWrite ==
  /\ mode = "stopping"
  /\ mode' = "off"
  /\ disk' = [Redirected(disk, RootCacheAddr, NewBlock, tree) EXCEPT !.lastSeq = cur, !.clean = TRUE]
  /\ saved' = [k \in Keys |-> Get(k)] /\ quiet' = TRUE
  /\ UNCHANGED <<use, memVars, schedVars, mounts, crashes, last, acked, owed, replayed, failures>>

Crash ==
  /\ mode \in {"rw", "stopping", "recovering"} /\ crashes < use.crashes
  /\ mode' = "off" /\ crashes' = crashes + 1 /\ quiet' = FALSE
  /\ UNCHANGED <<diskVars, memVars, schedVars, mounts, last, acked, owed, saved, replayed, failures>>

-----------------------------------------------------------------------------
\* What recovery is known to drop of what a flush has acknowledged: all but the first
\* record of a journal entry, the last entries before an unclean stop, and the ones
\* of an interrupted stop's blacklist.
Dropped(a) ==
  \/ ~a.first
  \/ a.jset.seq < BlacklistEnd(disk.log)
  \/ InSkip(disk.log, disk.clean, a.jset.seq)

\* init_volume up to bch2_run_recovery_passes: journal_read and the roots,
\* restore_progress, compute_passes_to_run.
Mount ==
  LET done == CompleteAt(disk.pass)
      max == Max({0} \union done)
  IN  /\ mode \in {"off", "failed"} /\ mounts < use.mounts
      /\ mounts' = mounts + 1
      /\ mode' = "recovering" /\ pc' = "head"
      /\ tree' = disk.tree
      /\ open' = <<>> /\ cur' = disk.lastSeq /\ pos' = 1
      /\ jsets' = JournalRead(disk.log, disk.clean)
      /\ complete' = done /\ passDone' = max /\ failing' = {}
      /\ sbPass' = disk.pass
      /\ ovlActive' = (SetMayGoRw \in done) /\ mayGoRw' = (SetMayGoRw \in done)
      /\ ovl' = Empty
      /\ current' = ToCompute(disk.clean, disk.noAlloc)
      /\ toRun' = {} /\ any' = FALSE /\ retry' = 0
      /\ owed' = {a \in acked : ~Dropped(a)}
      /\ replayed' = FALSE /\ failures' = [p \in Passes |-> 0]
      /\ UNCHANGED <<diskVars, crashes, last, acked, saved, quiet>>

\* MUTANT: passes that fail are forgotten.
DoneOrFailing == current \subseteq complete \union failing

\* The tests that end the loop with success, or the insurance that ends it without.
AllDone == current \subseteq complete
End == IF mayGoRw THEN pc' = "done" /\ UNCHANGED mode ELSE mode' = "failed" /\ UNCHANGED pc

\* MUTANTS: a round is never counted, or counted twice.
RetryUncounted == failing' = {} /\ pc' = "head" /\ UNCHANGED <<retry, mode>>
RetryTwice ==
  /\ retry' = retry + 2
  /\ IF retry' > MaxFailures THEN mode' = "failed" /\ UNCHANGED <<pc, failing>>
     ELSE pc' = "head" /\ failing' = (IF pc = "head" THEN {} ELSE failing) /\ UNCHANGED mode

\* One more retry, or the end.
Retry ==
  /\ retry' = retry + 1
  /\ IF retry + 1 > MaxFailures
     THEN mode' = "failed" /\ UNCHANGED <<pc, failing>>
     ELSE pc' = "head" /\ failing' = (IF pc = "head" THEN {} ELSE failing) /\ UNCHANGED mode

\* The head of the outer loop.
LoopHead ==
  LET runnable == (current \ failing) \ complete
  IN  /\ mode = "recovering" /\ pc = "head"
      /\ IF runnable # {}
         THEN /\ toRun' = runnable /\ any' = FALSE /\ pc' = "inner"
              /\ UNCHANGED <<mode, failing, retry>>
         ELSE /\ IF AllDone THEN End /\ UNCHANGED <<failing, retry>> ELSE Retry
              /\ UNCHANGED <<toRun, any>>
      /\ UNCHANGED <<diskVars, memVars, current, complete, passDone, mayGoRw, sbPass, jsets,
                     mounts, crashes, last, obsVars>>

Least(s) == CHOOSE p \in s : \A q \in s : p <= q

\* MUTANT: the overlay stays in front of the tree.
NotDrained(p) ==
  /\ IF p = SetMayGoRw THEN ovlActive' = TRUE /\ ovl' = Empty /\ mayGoRw' = TRUE
     ELSE UNCHANGED <<ovlActive, ovl, mayGoRw>>
  /\ tree' = IF p = JournalReplay THEN Applied(tree, jsets) ELSE tree
  /\ replayed' = (replayed \/ p = JournalReplay)

\* What a pass changes when it succeeds.
PassEffect(p) ==
  /\ IF p = SetMayGoRw THEN ovlActive' = TRUE /\ ovl' = Empty /\ mayGoRw' = TRUE
     ELSE IF p = JournalReplay THEN ovlActive' = FALSE /\ ovl' = Empty /\ UNCHANGED mayGoRw
     ELSE UNCHANGED <<ovlActive, ovl, mayGoRw>>
  /\ tree' = IF p = JournalReplay THEN Drained(Applied(tree, jsets)) ELSE tree
  /\ replayed' = (replayed \/ p = JournalReplay)

\* persist_progress after a success; its failure is ignored.
PassOk(p) ==
  LET done == Max({passDone, p})
  IN  /\ complete' = complete \union {p} /\ passDone' = done
      /\ failing' = {} /\ any' = TRUE
      /\ sbPass' = Max({done, Stable[done]})
      /\ \/ disk' = [disk EXCEPT !.pass = sbPass']
         \/ use.bad # {} /\ UNCHANGED disk
      /\ PassEffect(p)
      /\ UNCHANGED failures

\* A replay that fails has applied some of the jsets.
PassFails(p) ==
  /\ p \in use.bad
  /\ failing' = failing \union {p}
  /\ failures' = [failures EXCEPT ![p] = IF @ < 2 THEN @ + 1 ELSE 2]
  /\ IF p = JournalReplay
     THEN \E n \in 0..Len(jsets) : tree' = Applied(tree, SubSeq(jsets, 1, n))
     ELSE UNCHANGED tree
  /\ UNCHANGED <<disk, complete, passDone, any, sbPass, ovlActive, ovl, mayGoRw, replayed>>

RunPass ==
  LET p == Least(toRun)
  IN  /\ mode = "recovering" /\ pc = "inner" /\ toRun # {}
      /\ toRun' = toRun \ {p}
      /\ PassOk(p) \/ PassFails(p)
      /\ UNCHANGED <<use, mode, open, cur, pos, pc, current, jsets, retry, mounts, crashes, last,
                     acked, owed, saved, quiet>>

\* The end of a round.
EndRound ==
  /\ mode = "recovering" /\ pc = "inner" /\ toRun = {}
  /\ IF AllDone THEN End /\ UNCHANGED <<failing, retry>>
     ELSE IF any THEN pc' = "head" /\ UNCHANGED <<mode, failing, retry>>
     ELSE Retry
  /\ UNCHANGED <<diskVars, memVars, current, complete, passDone, mayGoRw, sbPass, jsets, toRun,
                 any, mounts, crashes, last, obsVars>>

\* init_volume's own write of the superblock: the runtime number of the last pass.
Finish ==
  /\ mode = "recovering" /\ pc = "done"
  /\ mode' = "rw"
  /\ disk' = [disk EXCEPT !.pass = passDone, !.lastSeq = cur + 1]
  /\ UNCHANGED <<use, memVars, schedVars, mounts, crashes, last, obsVars>>

Next ==
  \/ \E k \in Keys : Write(k) \/ PutGuarded(k)
  \/ JournalFlush \/ StopFlush \/ StopWrite \/ Crash \/ Mount
  \/ LoopHead \/ RunPass \/ EndRound \/ Finish

Spec == Init /\ [][Next]_vars

\* init_volume runs to its end by itself.
FairSpec == Spec /\ WF_vars(LoopHead \/ RunPass \/ EndRound \/ Finish)

-----------------------------------------------------------------------------
\* The type invariant: of the scheduler and the superblock, and of the trees.
TypeOK ==
  /\ use \in Uses
  /\ disk.pass \in 0..48 /\ disk.clean \in BOOLEAN /\ disk.noAlloc \in BOOLEAN
  /\ mode \in {"rw", "stopping", "recovering", "off", "failed"} /\ pc \in {"head", "inner", "done"}
  /\ current \subseteq Passes /\ complete \subseteq Passes
  /\ failing \subseteq Passes /\ toRun \subseteq Passes
  /\ passDone \in Passes /\ sbPass \in 0..48 /\ retry \in 0..(MaxFailures + 1)
  /\ ovlActive \in BOOLEAN /\ mayGoRw \in BOOLEAN /\ any \in BOOLEAN
  /\ quiet \in BOOLEAN /\ replayed \in BOOLEAN
  /\ failures \in [Passes -> 0..2]
TreesOK == {disk.tree, tree, ovl} \subseteq [Keys -> Vals]

\* A volume is opened for writing only when every pass this mount needs has succeeded
\* in it or in one before it, whatever failed and was tried again on the way.
RwIsComplete ==
  /\ TypeOK
  /\ mode = "rw" /\ mounts > 0 => mayGoRw /\ current \subseteq complete

\* A mount that replays the journal shows every other acknowledged write, or a newer
\* one, though the passes before were cut by crashes, failed in the middle of the
\* replay and were run again.
ReplayKeeps ==
  /\ TreesOK
  /\ mode = "rw" /\ replayed => \A a \in owed : Get(a.jset.key) >= a.jset.val

\* Once the journal is replayed, or the volume made, a write is what the next read
\* returns, whether it went to the tree or to where the overlay let it go.
WritesAreRead ==
  [][mode = "rw" /\ mode' = "rw" /\ (mounts = 0 \/ replayed) =>
       \A k \in Keys : tree'[k] # tree[k] \/ ovl'[k] # ovl[k] => Get(k)' = last']_vars

\* What stop_volume says of itself (volmountd/src/volume.rs:279-286): it writes the
\* dirty nodes and their roots, so what was readable then is there after the next mount.
\* It fails, also without a crash (README, section 7).
StopSaves ==
  mode = "rw" /\ quiet /\ mounts > 0 => \A k \in Keys : Get(k) >= saved[k]

\* Recovery gives up only on a pass that has failed and was tried again.
GivesUpOnFailure == mode = "failed" => \E p \in Passes : failures[p] = 2

\* Every mount ends, even when passes fail forever.
MountEnds == mode = "recovering" ~> mode # "recovering"
=============================================================================
