----------------------------- MODULE Snapshots -----------------------------
(***************************************************************************)
(* The snapshot tree of a volume (volmount-core/src/snap) with its         *)
(* subvolumes (volmount-core/src/subvol), from creation through deletion   *)
(* and clean-up, and the check that a mount runs on the trees it reads     *)
(* (recovery/passes/check_snapshots.rs).  What is done to an open volume   *)
(* is in its memory only: the btrees are changed without the journal, and  *)
(* no stop saves their roots, so that each mount reads the first trees     *)
(* again.                                                                  *)
(*                                                                         *)
(* Every operation takes the engine exclusively and is one step.  The      *)
(* Snapshots btree is its latest version of each entry: what an older one  *)
(* says is never read, and compact drops it.  Ids are given out downwards  *)
(* from MaxId, which stands for u32::MAX, so that a parent is greater than *)
(* its children; a tree id is 0 for every node a volume makes and is left  *)
(* out, and so are times and the map of inodes.                            *)
(***************************************************************************)
EXTENDS Integers, Sequences, SequencesExt, FiniteSets

CONSTANTS
  MaxId,       \* u32::MAX; bound of the model: the ids below it
  Width,       \* IS_ANCESTOR_BITMAP, 128 in the code
  MaxSubvol,   \* bound of the model: subvolume ids
  MaxMounts,   \* bound of the model: mounts after the first
  MaxCleans,   \* bound of the model: runs of bch2_delete_dead_snapshots
  MaxDeletes   \* bound of the model: deletions of snapshots and subvolumes

ASSUME ConstantAssumption ==
  /\ MaxId \in Nat \ {0} /\ Width \in Nat \ {0} /\ MaxSubvol \in Nat \ {0}
  /\ MaxMounts \in Nat /\ MaxCleans \in Nat /\ MaxDeletes \in Nat

Ids == 1..MaxId
Ref == 0..MaxId         \* an id, or 0
Subvols == 1..MaxSubvol
Slots == {1, 2}

\* SnapshotT, with the type of the key it is stored under.  deleted stands for
\* the state Deleted and the flag WILL_DELETE as well: the three are set together.
SnapshotT ==
  [kind : {"none", "normal", "whiteout"}, parent : Ref, children : [Slots -> Ref],
   subvol : 0..MaxSubvol, skip : [1..3 -> Ref], isAncestor : SUBSET (1..Width),
   depth : 0..MaxId, deleted : BOOLEAN, SUBVOL : BOOLEAN]

BchSubvolume ==
  [exists : BOOLEAN, snapshot : Ref, creationParent : 0..MaxSubvol, unlinked : BOOLEAN]

VARIABLES
  node,           \* the Snapshots btree
  sv,             \* the Subvolumes btree
  first,          \* 1 when the volume was made with a subvolume, or 0
  counter,        \* subvol_id_counter of the engine
  root,           \* root_snapshot_id of the volume
  mounts, cleans, deletes  \* how often, against the bounds

(* Observer. *)
VARIABLES
  line      \* the ancestors of each id when it was created, since the mount

vars == <<node, sv, first, counter, root, mounts, cleans, deletes, line>>

-----------------------------------------------------------------------------
(* Reading the tree. *)

Stored(n, id) == n[id].kind # "none"        \* read_snapshot_value_allow_deleted
Normal(n, id) == n[id].kind = "normal"      \* read_snapshot_value
Alive(n) == {id \in Ids : Stored(n, id) /\ ~n[id].deleted}

Absent == [kind |-> "none", parent |-> 0, children |-> <<0, 0>>, subvol |-> 0,
           skip |-> <<0, 0, 0>>, isAncestor |-> {}, depth |-> 0, deleted |-> FALSE,
           SUBVOL |-> FALSE]
NewLeaf(subvol) == [Absent EXCEPT !.kind = "normal", !.subvol = subvol, !.depth = 1, !.SUBVOL = TRUE]

\* MUTANT: deleted nodes are not looked at.
NextIdOfLive(n) == LET used == {id \in Ids : Normal(n, id)}
                   IN  IF used = {} THEN MaxId ELSE Min(used) - 1

\* One below the smallest id ever stored; 0 when the bound is reached.
NextId(n) == LET used == {id \in Ids : Stored(n, id)}
             IN  IF used = {} THEN MaxId ELSE Min(used) - 1

\* The ids from id up its parent links, itself first, through deleted nodes too.
Chain(n, id) ==
  LET up_[i \in Ref] == IF i = 0 \/ ~Stored(n, i) THEN <<>> ELSE <<i>> \o up_[n[i].parent]
  IN  up_[id]

Ancestors(n, id) == ToSet(Chain(n, id)) \ {id}

\* bch2_snapshot_skiplist_good, from the farthest entry down.
GoodSkips(n, current, ancestor) ==
  {i \in 1..3 : n[current].skip[i] # 0 /\ n[current].skip[i] <= ancestor
                /\ n[current].skip[i] > current}

IsAncestorBtree(n, ancestor, descendant) ==
  LET from[c \in Ids] ==
        LET s == n[c]
            good == GoodSkips(n, c, ancestor)
            jump == s.skip[Max(good)]
        IN  /\ Stored(n, c) /\ s.parent # 0
            /\ IF good # {} THEN jump = ancestor \/ from[jump]
               ELSE IF ancestor - c < Width THEN (ancestor - c) \in s.isAncestor
               ELSE s.parent = ancestor \/ from[s.parent]
  IN  ancestor = descendant \/ (ancestor > descendant /\ from[descendant])

\* SnapshotTable::build and is_ancestor: skips while the target is far, the bits
\* computed from the parents, then the parents, none of them deleted.
\* MUTANT: the bit of an ancestor is its distance less one.
TableBitsOff(n, id) == {a - id - 1 : a \in {x \in Ancestors(n, id) : x - id <= Width}}

TableBits(n, id) == {a - id : a \in {x \in Ancestors(n, id) : x - id <= Width}}

IsAncestorTable(n, id, ancestor) ==
  LET alive == Alive(n)
      below(c) == LET le == {i \in 1..3 : n[c].skip[i] # 0 /\ n[c].skip[i] <= ancestor}
                  IN  IF le # {} THEN n[c].skip[Max(le)] ELSE n[c].parent
      near[c \in Ref] == IF c = 0 \/ c >= ancestor - Width THEN c
                         ELSE IF c \in alive THEN near[below(c)] ELSE 0
      walk[c \in Ref] == IF c = 0 \/ c >= ancestor THEN c = ancestor
                         ELSE c \in alive /\ walk[n[c].parent]
      start == near[id]
  IN  \/ id = ancestor
      \/ /\ ancestor > id /\ start # 0
         /\ \/ start \in alive /\ (ancestor - start) \in TableBits(n, start)
            \/ walk[start]

-----------------------------------------------------------------------------
(* Changing it. *)

Sorted(s) == CHOOSE t \in {<<s[p[1]], s[p[2]], s[p[3]]>> : p \in
                 {q \in [1..3 -> 1..3] : {q[1], q[2], q[3]} = 1..3}} :
               t[1] <= t[2] /\ t[2] <= t[3]

\* bch2_snapshot_skiplist_get: three random steps up from id, less than its depth.
\* None when a walk leaves the tree.
SkiplistGets(n, id) ==
  IF n[id].parent = 0 THEN {<<0, 0, 0>>}
  ELSE LET steps == 0..(n[id].depth - 1)
           chain == Chain(n, id)
       IN  {IF \A j \in 1..3 : k[j] < Len(chain)
              THEN [j \in 1..3 |-> chain[k[j] + 1]] ELSE <<0, 0, 0>> :
            k \in {m \in [1..3 -> steps] : m[1] >= m[2] /\ m[2] >= m[3]}}

SkipsOf(n, id) == {Sorted(s) : s \in SkiplistGets(n, id)}

\* MUTANT: the parent itself is left out.
BitsWithoutParent(s, gap) == IF gap >= Width THEN {}
                             ELSE {d \in 1..Width : d - gap \in s.isAncestor}

\* The child's bits: its parent's, moved by the distance, and the parent.
BitsUnder(s, gap) == IF gap >= Width THEN {}
                     ELSE {d \in 1..Width : d = gap \/ d - gap \in s.isAncestor}

ChildOf(n, parent, id, subvol, skip) ==
  [Absent EXCEPT !.kind = "normal", !.parent = parent, !.subvol = subvol, !.skip = skip,
                 !.isAncestor = BitsUnder(n[parent], parent - id),
                 !.depth = n[parent].depth + 1, !.SUBVOL = TRUE]

Interior(s, children) == [s EXCEPT !.kind = "normal", !.subvol = 0, !.SUBVOL = FALSE,
                                   !.children = children]

\* bch2_snapshot_node_create with one new child, and with two.
WithChild(n, parent, id, skip) ==
  [n EXCEPT ![id] = ChildOf(n, parent, id, 0, skip),
            ![parent] = Interior(@, [n[parent].children EXCEPT ![1] = id])]

WithChildren(n, parent, id, new, src, skip) ==
  [n EXCEPT ![id] = ChildOf(n, parent, id, new, skip),
            ![id - 1] = ChildOf(n, parent, id - 1, src, skip),
            ![parent] = Interior(@, <<id, id - 1>>)]

\* bch2_snapshot_node_set_deleted on a node that is there.
SetDeleted(n, id) ==
  IF Normal(n, id)
  THEN [n EXCEPT ![id] = [@ EXCEPT !.kind = "whiteout", !.deleted = TRUE, !.skip = <<0, 0, 0>>]]
  ELSE n

Replaced(children, old, new) ==
  IF children[1] = old THEN [children EXCEPT ![1] = new]
  ELSE IF children[2] = old THEN [children EXCEPT ![2] = new] ELSE children

\* bch2_snapshot_node_delete with delete_interior: the parent takes the only child,
\* the child the grandparent.
ParentTakes(n, p, id, child) ==
  IF p # 0 /\ Stored(n, p)
  THEN [n EXCEPT ![p] = [n[p] EXCEPT !.children = Replaced(n[p].children, id, child),
                                     !.kind = "normal"]]
  ELSE n

ChildTakes(n, p, child) ==
  LET depth == IF p = 0 THEN 1 ELSE IF Stored(n, p) THEN n[p].depth + 1 ELSE n[child].depth
  IN  IF child # 0 /\ Stored(n, child)
      THEN [n EXCEPT ![child] = [n[child] EXCEPT !.parent = p, !.kind = "normal", !.depth = depth]]
      ELSE n

NodeDelete(n, id) ==
  LET p == n[id].parent
      child == IF n[id].children[1] # 0 THEN n[id].children[1] ELSE n[id].children[2]
  IN  SetDeleted(ChildTakes(ParentTakes(n, p, id, child), p, child), id)

-----------------------------------------------------------------------------
(* bch2_delete_dead_snapshots. *)

\* What is below a deleted node, its depth without them, and its skips: its parent's
\* that are left.  compact has put parents before their children.
DeadAbove(n, dead, id) == Cardinality({d \in dead : IsAncestorBtree(n, d, id)})
IsBelow(n, dead, id) == Stored(n, id) /\ id \notin dead /\ DeadAbove(n, dead, id) # 0
DepthLeft(n, dead, id) == LET above == DeadAbove(n, dead, id)
                          IN  IF n[id].depth > above THEN n[id].depth - above ELSE 0

SkipsLeft(n, dead) ==
  LET effective(p) == LET up_[i \in Ref] == IF i \notin dead THEN i ELSE up_[n[i].parent]
                      IN  up_[p]
      skip[id \in Ids] ==
        LET p == effective(n[id].parent)
            s1 == skip[p][1]
        IN  IF ~IsBelow(n, dead, id) THEN n[id].skip
            ELSE IF DepthLeft(n, dead, id) = 0 \/ p = 0 THEN <<0, 0, 0>>
            ELSE Sorted(<<p, s1, IF s1 = 0 THEN 0 ELSE skip[s1][2]>>)
  IN  skip

\* bch2_fix_child_of_deleted_snapshot.
FixChildren(n, dead) ==
  LET skips == SkipsLeft(n, dead)
  IN  [id \in Ids |-> IF IsBelow(n, dead, id)
                     THEN [n[id] EXCEPT !.depth = DepthLeft(n, dead, id), !.skip = skips[id],
                                        !.kind = "normal"]
                     ELSE n[id]]

\* A node with the flag SUBVOL at or below id.
HasVolumeRef(n, id) ==
  LET ref[i \in Ref] == /\ i # 0 /\ Stored(n, i)
                        /\ n[i].SUBVOL \/ ref[n[i].children[1]] \/ ref[n[i].children[2]]
  IN  ref[id]

\* The parent is written back from the map that was read at the start.
Collect(n, old, id) ==
  LET p == old[id].parent
      cleared == [i \in Slots |-> IF old[p].children[i] = id THEN 0 ELSE old[p].children[i]]
  IN  SetDeleted(IF p = 0 \/ ~Stored(old, p) THEN n
                 ELSE [n EXCEPT ![p] = [old[p] EXCEPT !.kind = "normal", !.children = cleared]], id)

DeadOf(n) == {id \in Ids : Stored(n, id) /\ n[id].deleted}

CollectIf(n, old, id) == IF HasVolumeRef(old, id) THEN n ELSE Collect(n, old, id)
Collected(n, order) ==
  FoldLeft(LAMBDA m, id : CollectIf(m, n, id), FixChildren(n, DeadOf(n)), order)

\* bch2_delete_dead_interior_snapshots: the highest first.
Descending == [k \in Ids |-> MaxId + 1 - k]
RemovedIf(n, id, noKeys) == IF id \in noKeys THEN NodeDelete(n, id) ELSE n
Removed(n, noKeys) ==
  FoldLeft(LAMBDA m, id : RemovedIf(m, id, noKeys), FixChildren(n, noKeys), Descending)

-----------------------------------------------------------------------------
(* bch2_check_snapshots. *)

ChainBroken(n) == \E id \in Alive(n) : n[id].parent \notin Alive(n) \union {0}

Missing(n) == {id \in Alive(n) : /\ n[id].parent # 0
                                 /\ id \notin {n[n[id].parent].children[i] : i \in Slots}}
SlotsFull(n) == \E id \in Missing(n) : 0 \notin {n[n[id].parent].children[i] : i \in Slots}

BadSkip(n, id) == \E i \in 1..3 : n[id].skip[i] \notin {0, id} \union (Ancestors(n, id) \cap Alive(n))

\* What the flag SUBVOL is checked against: the subvolume and its snapshot.
CrossChecked(s, id, svs) ==
  LET known == s.subvol # 0 /\ svs[s.subvol].exists
  IN  IF ~s.SUBVOL THEN s
      ELSE [s EXCEPT !.SUBVOL = known /\ svs[s.subvol].snapshot = id,
                     !.subvol = IF s.subvol # 0 /\ ~known THEN 0 ELSE @]

\* MUTANT: the repaired node starts from a new leaf, not from what is stored.
OwnFixFromNew(n, svs, id, skips) ==
  [CrossChecked(NewLeaf(n[id].subvol), id, svs) EXCEPT
     !.parent = n[id].parent, !.skip = n[id].skip, !.children = n[id].children,
     !.depth = IF n[id].parent = 0 THEN 1 ELSE n[n[id].parent].depth + 1]

OwnFix(n, svs, id, skips) ==
  LET s == n[id]
      skip == IF id \in DOMAIN skips THEN skips[id] ELSE s.skip
      placed == IF s.parent = 0 THEN [s EXCEPT !.depth = 1, !.skip = <<0, 0, 0>>]
                ELSE [s EXCEPT !.depth = n[s.parent].depth + 1, !.skip = skip]
  IN  [CrossChecked(placed, id, svs) EXCEPT
         !.children = [i \in Slots |-> IF s.children[i] \in Alive(n) THEN s.children[i] ELSE 0]]

Adopting(s, child) == [s EXCEPT !.children[IF s.children[1] = 0 THEN 1 ELSE 2] = child]

\* The repairs found while looking at node x, for each id they are for.
FixesAt(n, svs, x, skips) ==
  (IF OwnFix(n, svs, x, skips) # n[x] THEN {<<x, OwnFix(n, svs, x, skips)>>} ELSE {})
  \union (IF x \in Missing(n) THEN {<<n[x].parent, Adopting(n[n[x].parent], x)>>} ELSE {})
  \union {<<c, [n[c] EXCEPT !.parent = x]>> :
            c \in {d \in Alive(n) : d \in {n[x].children[i] : i \in Slots} /\ n[d].parent # x}}

\* The first repair of an id in the order of the map is written, the others dropped.
Checked(n, svs, order, skips) ==
  LET fixes == [k \in DOMAIN order |-> FixesAt(n, svs, order[k], skips)]
      of(id) == {k \in DOMAIN order : \E f \in fixes[k] : f[1] = id}
  IN  [id \in Ids |-> IF of(id) = {} THEN n[id]
                      ELSE (CHOOSE f \in fixes[Min(of(id))] : f[1] = id)[2]]

Repairing(n, svs, skips) == {x \in Alive(n) : FixesAt(n, svs, x, skips) # {}}

\* Nodes whose skips are rebuilt; a good node keeps its own.
BadNodes(n) == {id \in Alive(n) : n[id].parent # 0 /\ BadSkip(n, id)}
Rebuilt(n) == {f \in [BadNodes(n) -> UNION {SkipsOf(n, n[id].parent) : id \in BadNodes(n)}] :
                 \A id \in BadNodes(n) : f[id] \in SkipsOf(n, n[id].parent)}

\* The trees it does not give up on, and what it makes of them.
Takes(n) == ~ChainBroken(n) /\ ~SlotsFull(n)
CheckedAll(n, svs) ==
  UNION {{Checked(n, svs, order, skips) : order \in SetToSeqs(Repairing(n, svs, skips))} :
         skips \in Rebuilt(n)}

-----------------------------------------------------------------------------
NoSubvol == [exists |-> FALSE, snapshot |-> 0, creationParent |-> 0, unlinked |-> FALSE]
NewSubvol(snapshot, parent) ==
  [exists |-> TRUE, snapshot |-> snapshot, creationParent |-> parent, unlinked |-> FALSE]
Linked(v) == sv[v].exists /\ ~sv[v].unlinked

\* create_volume: the root snapshot and nothing else; bch2_initialize_subvolumes:
\* the root subvolume 1 on it.
FirstNode == [id \in Ids |-> IF id = MaxId THEN NewLeaf(first) ELSE Absent]
FirstSv == [v \in Subvols |-> IF v = first THEN NewSubvol(MaxId, 0) ELSE NoSubvol]

Init ==
  /\ first \in {0, 1}
  /\ node = FirstNode /\ sv = FirstSv
  /\ counter = 1 /\ root = MaxId
  /\ mounts = 0 /\ cleans = 0 /\ deletes = 0
  /\ line = [id \in Ids |-> {}]

Born(ids, parent) == line' = [id \in Ids |-> IF id \in ids THEN line[parent] \union {parent} ELSE line[id]]
Rest == UNCHANGED <<first, mounts, cleans>>
Keep == Rest /\ UNCHANGED deletes
Deleting == Rest /\ deletes < MaxDeletes /\ deletes' = deletes + 1

CreateSnapshot ==
  LET id == NextId(node)
  IN  /\ id >= 1 /\ Normal(node, root)
      /\ \E skip \in SkipsOf(node, root) : node' = WithChild(node, root, id, skip)
      /\ Born({id}, root)
      /\ UNCHANGED <<sv, counter, root>> /\ Keep

DeleteSnapshot(id) ==
  /\ Normal(node, id)
  /\ node' = SetDeleted(node, id)
  /\ UNCHANGED <<sv, counter, root, line>> /\ Deleting

CreateSubvol ==
  LET id == NextId(node)
  IN  /\ id >= 1 /\ counter <= MaxSubvol
      /\ node' = [node EXCEPT ![id] = NewLeaf(counter)]
      /\ sv' = [sv EXCEPT ![counter] = NewSubvol(id, 0)]
      /\ counter' = counter + 1
      /\ UNCHANGED <<root, line>> /\ Keep

\* The subvolume gets one new snapshot, its source the other.  When the source's
\* snapshot is gone only the id is used up.
SnapshotSubvol(v) ==
  LET id == NextId(node)
      parent == sv[v].snapshot
  IN  /\ Linked(v) /\ counter <= MaxSubvol
      /\ counter' = counter + 1
      /\ \/ /\ Normal(node, parent) /\ id >= 2
            /\ \E skip \in SkipsOf(node, parent) :
                 node' = WithChildren(node, parent, id, counter, v, skip)
            /\ sv' = [[sv EXCEPT ![v].snapshot = id - 1] EXCEPT ![counter] = NewSubvol(id, v)]
            /\ Born({id, id - 1}, parent)
         \/ /\ ~Normal(node, parent)
            /\ UNCHANGED <<node, sv, line>>
      /\ UNCHANGED root /\ Keep

\* bch2_subvolume_trigger for subvolume v with its entry e.
TriggerOk(v, e) ==
  /\ ~(e.unlinked /\ v = 1)
  /\ Normal(node, e.snapshot) /\ node[e.snapshot].subvol \in {0, v}
  /\ e.creationParent \in {0, v} \/ sv[e.creationParent].exists

\* Volume::delete_subvol: the children are reparented whether or not the deletion
\* is then refused.
\* MUTANT: children are left with the deleted parent.
NotReparented(v) == sv

Reparented(v) == [w \in Subvols |-> IF sv[w].creationParent = v /\ Linked(w)
                                    THEN [sv[w] EXCEPT !.creationParent = 0] ELSE sv[w]]

DeleteSubvol(v) ==
  LET after == Reparented(v)
      e == [after[v] EXCEPT !.unlinked = TRUE]
      ok == v # 1 /\ sv[v].exists /\ TriggerOk(v, e)
  IN  /\ sv' = IF ok THEN [after EXCEPT ![v] = e] ELSE after
      /\ node' = IF ok THEN SetDeleted(node, e.snapshot) ELSE node
      /\ UNCHANGED <<counter, root, line>> /\ Deleting

\* Nodes flagged NO_KEYS are removed.  Nothing in the repository sets that flag: any
\* inner node with one child may have it.
SingleChild(n) == {id \in Alive(n) : (n[id].children[1] = 0) # (n[id].children[2] = 0)}

DeleteInterior ==
  /\ \E noKeys \in SUBSET SingleChild(node) \ {{}} : node' = Removed(node, noKeys)
  /\ UNCHANGED <<sv, counter, root, line>> /\ Deleting

DeleteDead ==
  /\ cleans < MaxCleans /\ DeadOf(node) # {}
  /\ \E order \in SetToSeqs({id \in DeadOf(node) : ~HasVolumeRef(node, id)}) :
       node' = Collected(node, order)
  /\ cleans' = cleans + 1
  /\ UNCHANGED <<sv, first, counter, root, mounts, deletes, line>>

\* A stop or a crash, and the next mount.  The roots in the superblock are still the
\* first ones and the journal has no change of these trees (module Recovery): a new
\* engine reads the first trees, the check passes them, and init_volume finds the root
\* snapshot in them.
Mount ==
  /\ mounts < MaxMounts /\ mounts' = mounts + 1
  /\ node' \in CheckedAll(FirstNode, FirstSv)
  /\ sv' = FirstSv /\ counter' = 1
  /\ root' = Max({id \in Alive(node') : node'[id].parent = 0})
  /\ line' = [id \in Ids |-> {}]
  /\ UNCHANGED <<first, cleans, deletes>>

Next ==
  \/ CreateSnapshot \/ CreateSubvol \/ DeleteInterior \/ DeleteDead \/ Mount
  \/ \E id \in Ids : DeleteSnapshot(id)
  \/ \E v \in Subvols : SnapshotSubvol(v) \/ DeleteSubvol(v)

Spec == Init /\ [][Next]_vars

-----------------------------------------------------------------------------
TypeOK ==
  /\ node \in [Ids -> SnapshotT]
  /\ sv \in [Subvols -> BchSubvolume]
  /\ first \in {0, 1} /\ counter \in 1..(MaxSubvol + 1) /\ root \in Ids
  /\ mounts \in 0..MaxMounts /\ cleans \in 0..MaxCleans /\ deletes \in 0..MaxDeletes
  /\ line \in [Ids -> SUBSET Ids]

\* In tree n the test on the btree, by skips, bits and parents, finds exactly the
\* living ancestors that a living snapshot was created under.
Sees(n) == \A a, d \in Alive(n) : IsAncestorBtree(n, a, d) <=> (a = d \/ a \in line[d])

\* Which keys a snapshot sees does not change with what is deleted or cleaned up
\* around it while the volume is open (bch2_snapshot_is_ancestor).
AncestryKept == Sees(node)

\* Were the trees in memory read by a mount, bch2_check_snapshots would either give up
\* on them or, with every repair it may write, keep which keys a snapshot sees and
\* what is deleted.  (It only meets the first trees, since no others are saved.)
CheckKeeps ==
  Takes(node) => \A n \in CheckedAll(node, sv) :
    Sees(n) /\ \A id \in Ids : node[id].deleted => n[id].deleted

\* The table in memory never sees more than the btree does, and sees the same
\* where no deleted snapshot is in between.
TableAgrees ==
  /\ TypeOK
  /\ \A a, d \in Alive(node) :
       /\ IsAncestorTable(node, d, a) => IsAncestorBtree(node, a, d)
       /\ Ancestors(node, d) \subseteq Alive(node)
            => (IsAncestorTable(node, d, a) <=> IsAncestorBtree(node, a, d))

\* The snapshot of a subvolume that is still linked never names another subvolume,
\* and two subvolumes never share one.
SubvolBackRef ==
  \A v, w \in Subvols : Linked(v) /\ Linked(w) /\ sv[v].snapshot \in Alive(node) =>
    /\ node[sv[v].snapshot].subvol \in {0, v}
    /\ sv[v].snapshot = sv[w].snapshot => v = w

\* A subvolume never has a parent that is unlinked.
NoOrphan ==
  \A v \in Subvols : Linked(v) /\ sv[v].creationParent # 0 => Linked(sv[v].creationParent)

\* However often subvolumes are snapshotted and deleted, also where a deletion is
\* refused in the end: a linked one agrees with its snapshot and has a linked parent.
SubvolsAgree == SubvolBackRef /\ NoOrphan

\* As long as a volume is open, what is deleted stays deleted, although clean-up
\* writes nodes back from versions it has read before, and no new node gets the id of
\* a deleted one.  A mount starts again from the first trees.
NoResurrection ==
  [][mounts' = mounts => \A id \in Ids : node[id].deleted => node'[id].deleted]_vars
=============================================================================
