------------------------------- MODULE Btree -------------------------------
(***************************************************************************)
(* One btree of the engine (volmount-core/src/btree/btree.rs): insert with  *)
(* leaf splits, routing entries and root splits; delete with merges, their  *)
(* cascade and the collapse of the root; and what a load leaves.  The       *)
(* callers hold the engine mutably, so a call is one step.                  *)
(*                                                                         *)
(* A tree is a record: the root and its depth, the node cache by address,   *)
(* the next address, whether the root came from a block (root.ptr), and     *)
(* whether the cache holds a second reference to the root node, for which   *)
(* Arc::get_mut gives nothing.  Nodes below the root have one reference, so *)
(* take_node followed by get_mut always succeeds; the cache stays below its *)
(* limits.  A 3-to-2 merge never happens (its third node is the one already *)
(* taken out of the cache) and neither does a merge within its back-off.    *)
(***************************************************************************)
EXTENDS BtreeNode, FiniteSets, Functions

CONSTANTS
  Scripts,   \* sequences of calls that build the first tree: k inserts k, -k deletes it
  MaxOps     \* bound of the model: calls made on it

ASSUME ScriptAssumption == Scripts \subseteq Seq({c \in -NKeys..NKeys : c # 0})

VARIABLES
  tree,
  newest,    \* ghost: value of the last insert of each position that succeeded
  gone,      \* ghost: positions deleted, successfully, after that insert
  ops        \* calls made

vars == <<tree, newest, gone, ops>>

\* Where the root is, among the addresses of the cache.
Root == -1

Child(n, k) == IF n.count = 0 THEN 0 ELSE Entries(n)[FindChild(n, k)][2]

\* get_or_create: an address the cache does not know gives an empty node.
NodeAt(t, a, level) ==
  IF a = Root THEN t.root ELSE IF a \in DOMAIN t.cache THEN t.cache[a] ELSE Empty(level)
Cached(t, a, n) ==
  [t EXCEPT !.cache = [b \in DOMAIN @ \union {a} |-> IF b = a THEN n ELSE @[b]]]
Dropped(t, a) == [t EXCEPT !.cache = Restrict(@, DOMAIN @ \ {a})]
Put(t, a, n) == IF a = Root THEN [t EXCEPT !.root = n] ELSE Cached(t, a, n)

\* find_path_to_leaf: the addresses from the root to the leaf, by level.
PathTo(t, k) ==
  LET down[i \in 0..t.depth] ==
        IF i = 0 THEN Root ELSE Child(NodeAt(t, down[i - 1], t.depth - i + 1), k)
  IN [l \in 0..t.depth |-> down[t.depth - l]]

LeafOf(t, k) == NodeAt(t, PathTo(t, k)[0], 0)

----------------------------------------------------------------------------
(* insert *)

\* The half of a split node to which a key belongs takes the entry.
InHalf(s, e) ==
  IF e[1] >= s.median THEN [s EXCEPT !.right = Insert1(@, e).node]
  ELSE [s EXCEPT !.left = Insert1(@, e).node]

Halves(n, e) == InHalf(Split(n), e)

NewRoot(level, left, median, right) ==
  [Empty(level) EXCEPT !.base = <<<<MinKey, left>>, <<median, right>>>>, !.count = 2]

\* split_root, with the halves of the root.
RootSplit(t, h) ==
  LET a == t.next
      u == Cached(Cached(t, a, h.left), a + 1, h.right)
  IN [u EXCEPT !.root = NewRoot(t.root.level + 1, a, h.median, a + 1),
               !.depth = @ + 1, !.next = @ + 2, !.shared = FALSE]

\* The node at a becomes its left half; the right half needs a routing entry.
SplitChild(t, a, h) ==
  [t |-> [Cached(Cached(t, a, h.left), t.next, h.right) EXCEPT !.next = @ + 1],
   route |-> <<h.median, t.next>>, done |-> FALSE]

\* insert_routing_entry_at for a parent in the cache: r holds the tree, the routing
\* entry to insert, and whether that is done.
RouteStep(r, a) ==
  LET i1 == Insert1(r.t.cache[a], r.route)
      c  == Compact(i1.node)
  IN IF r.done THEN r
     ELSE IF i1.ok THEN [r EXCEPT !.t = Cached(r.t, a, i1.node), !.done = TRUE]
     ELSE IF HasRoom(c) THEN [r EXCEPT !.t = Cached(r.t, a, Insert1(c, r.route).node), !.done = TRUE]
     ELSE SplitChild(r.t, a, Halves(c, r.route))

\* ... and the root, which tries again after compacting whatever compact_fits says.
RouteInRoot(t, route) ==
  LET i1 == Insert1(t.root, route)
      i2 == Insert1(Compact(i1.node), route)
  IN IF i1.ok THEN [t EXCEPT !.root = i1.node]
     ELSE IF i2.ok THEN [t EXCEPT !.root = i2.node]
     ELSE RootSplit([t EXCEPT !.root = i2.node], Halves(i2.node, route))

Routed(r) == IF r.done THEN r.t ELSE RouteInRoot(r.t, r.route)

\* MUTANT: when the parent was split too, the routing entry is not carried up.
RouteOnce(r, path) ==
  IF r.t.depth = 1 THEN RouteInRoot(r.t, r.route) ELSE RouteStep(r, path[1]).t

\* From the parent of the leaf up, as long as a parent is split in turn.
InsertRoute(r, path) ==
  LET up[l \in 0..(r.t.depth - 1)] == IF l = 0 THEN r ELSE RouteStep(up[l - 1], path[l])
  IN Routed(up[r.t.depth - 1])

\* Depth 0.  make_mut gives the root a copy of its own; afterwards the cache has a
\* reference again if the root has a block.
InsertRoot(t, e) ==
  LET i1 == Insert1(t.root, e)
      c  == Compact(i1.node)
      kept(n) == [ok |-> TRUE, t |-> [t EXCEPT !.root = n, !.shared = t.loaded]]
  IN IF i1.ok THEN kept(i1.node)
     ELSE IF HasRoom(c) THEN kept(Insert1(c, e).node)
     ELSE IF CanSplit(c) THEN [ok |-> TRUE, t |-> RootSplit([t EXCEPT !.root = c], Halves(c, e))]
     ELSE [ok |-> FALSE, t |-> [t EXCEPT !.root = c, !.shared = FALSE]]

\* insert_multi.
InsertMulti(t, e) ==
  LET path == PathTo(t, e[1])
      a  == path[0]
      n  == t.cache[a]
      i1 == Insert1(n, e)
      c  == Compact(i1.node)
      full == IF ShouldSplit(n) THEN n ELSE c
  IN IF ~ShouldSplit(n) /\ i1.ok THEN [ok |-> TRUE, t |-> Cached(t, a, i1.node)]
     ELSE IF ~ShouldSplit(n) /\ HasRoom(c)
       THEN [ok |-> TRUE, t |-> Cached(t, a, Insert1(c, e).node)]
     ELSE IF ~CanSplit(full) THEN [ok |-> FALSE, t |-> Cached(t, a, full)]
     ELSE [ok |-> TRUE, t |-> InsertRoute(SplitChild(t, a, Halves(full, e)), path)]

TreeInsert(t, e) == IF t.depth = 0 THEN InsertRoot(t, e) ELSE InsertMulti(t, e)

----------------------------------------------------------------------------
(* delete *)

\* find_entry_index: the key of the first routing entry that leads to a.
KeyOf(parent, a) ==
  LET s == Entries(parent)
      at == {i \in DOMAIN s : s[i][2] = a}
  IN s[CHOOSE i \in at : \A j \in at : i <= j][1]

\* find_sibling: the neighbours in the order of the keys; 0 if there is none.
RightOf(parent, a) ==
  LET s == Entries(parent)
      above == {i \in DOMAIN s : s[i][1] > KeyOf(parent, a)}
  IN IF above = {} THEN 0 ELSE s[CHOOSE i \in above : \A j \in above : s[i][1] <= s[j][1]][2]

LeftOf(parent, a) ==
  LET s == Entries(parent)
      below == {i \in DOMAIN s : s[i][1] < KeyOf(parent, a)}
  IN IF below = {} THEN 0 ELSE s[CHOOSE i \in below : \A j \in below : s[i][1] >= s[j][1]][2]

\* MUTANT: the surviving node keeps its own routing key.
RerouteOwnKey(parent, surv, absorbed) ==
  LET q == Compact(DeleteKey(DeleteKey(parent, KeyOf(parent, absorbed)).node, KeyOf(parent, surv)).node)
  IN Insert1(q, <<KeyOf(parent, surv), surv>>).node

\* An entry that does not fit is tried again in the compacted node.
InsertCompacting(n, e) ==
  LET i1 == Insert1(n, e) IN IF i1.ok THEN i1.node ELSE Insert1(Compact(i1.node), e).node

\* update_parent_routing_after_merge: both routing entries go, and the survivor
\* comes back under the smaller key.
Reroute(parent, surv, absorbed) ==
  LET ka == KeyOf(parent, absorbed)
      ks == KeyOf(parent, surv)
      q  == Compact(DeleteKey(DeleteKey(parent, ka).node, ks).node)
  IN InsertCompacting(q, <<IF ka < ks THEN ka ELSE ks, surv>>)

\* surv absorbs absd, if it has room, and their parent at p follows.
Merge(t, p, surv, absd) ==
  LET m == Dropped(Cached(t, surv, Absorb(t.cache[surv], t.cache[absd])), absd)
  IN IF CanAbsorb(t.cache[surv], t.cache[absd])
     THEN [t |-> Put(m, p, Reroute(NodeAt(t, p, 0), surv, absd)), merged |-> TRUE]
     ELSE [t |-> t, merged |-> FALSE]

\* try_merge_node: a node that is underfull is compacted; its right neighbour
\* absorbs it, or it absorbs its left one.
TryMerge(t, a, p) ==
  LET right == RightOf(NodeAt(t, p, 0), a)
      left  == LeftOf(NodeAt(t, p, 0), a)
      u     == Cached(t, a, Compact(t.cache[a]))
  IN IF ~Underfull(t.cache[a]) THEN [t |-> t, merged |-> FALSE]
     ELSE IF right # 0 THEN Merge(u, p, right, a)
     ELSE IF left # 0 THEN Merge(u, p, a, left)
     ELSE [t |-> u, merged |-> FALSE]

\* A merge may leave the parent underfull, and so on up the path.
Cascade(t, path) ==
  LET up[l \in 0..(t.depth - 1)] ==
        IF l = 0 THEN [t |-> t, merged |-> TRUE]
        ELSE IF up[l - 1].merged THEN TryMerge(up[l - 1].t, path[l], path[l + 1])
        ELSE up[l - 1]
  IN up[t.depth - 1].t

\* collapse_root: its only child becomes the root.
CollapseOnce(t) ==
  LET a == Entries(t.root)[1][2]
  IN IF t.depth = 0 \/ t.root.count # 1 THEN t
     ELSE [Dropped(t, a) EXCEPT !.root = t.cache[a], !.depth = @ - 1]

Collapse(t) ==
  LET c[i \in 0..t.depth] == IF i = 0 THEN t ELSE CollapseOnce(c[i - 1]) IN c[t.depth]

\* After a merge.
Shrunk(m, path) == IF m.merged THEN Collapse(Cascade(m.t, path)) ELSE m.t

\* delete_multi.
DeleteMulti(t, k) ==
  LET path == PathTo(t, k)
      d == DeleteKey(t.cache[path[0]], k)
      u == Cached(t, path[0], d.node)
  IN IF d.ok THEN [ok |-> TRUE, t |-> Shrunk(TryMerge(u, path[0], path[1]), path)]
     ELSE [ok |-> FALSE, t |-> t]

\* Depth 0: nothing is deleted while the cache refers to the root.
DeleteRoot(t, k) ==
  LET d == DeleteKey(t.root, k)
  IN IF t.shared THEN [ok |-> FALSE, t |-> t] ELSE [ok |-> d.ok, t |-> [t EXCEPT !.root = d.node]]

TreeDelete(t, k) == IF t.depth = 0 THEN DeleteRoot(t, k) ELSE DeleteMulti(t, k)

----------------------------------------------------------------------------
(* Load and presplit_shard_boundaries *)

\* A root of depth 0 that is written and loaded again: writing collects its entries,
\* the load puts a second reference to the node into the cache.  The program does so
\* with the roots of a new volume, the model with any root at any time.
Reloaded(t) ==
  [t EXCEPT !.root = [Packed(Empty(0), Live(Entries(@))) EXCEPT !.aux = FALSE],
            !.cache = <<>>, !.loaded = TRUE, !.shared = TRUE]

\* The entries are looked at in the order of the sets, tombstones left out.
CrossesShard(n) ==
  ShardSplits(SelectSeq(SubSeq(Entries(n), 1, n.count), LAMBDA e : e[2] # Dead)) # {}

Presplit(t) ==
  IF t.depth = 0 /\ CrossesShard(t.root) /\ ~t.shared /\ CanSplit(t.root)
  THEN RootSplit(t, Split(t.root)) ELSE t

----------------------------------------------------------------------------
NewTree ==
  [root |-> Empty(0), depth |-> 0, cache |-> <<>>, next |-> 1,
   loaded |-> FALSE, shared |-> FALSE]

\* A tree with what is known of its keys; a value tells the insert from the one
\* before it.
World == [tree |-> tree, newest |-> newest, gone |-> gone]
NewWorld == [tree |-> NewTree, newest |-> [k \in Keys |-> Dead], gone |-> {}]

NextValue(w, k) == IF w.newest[k] = 1 THEN 2 ELSE 1

Inserted(w, k) ==
  LET r == TreeInsert(w.tree, <<k, NextValue(w, k)>>)
  IN [tree |-> r.t,
      newest |-> IF r.ok THEN [w.newest EXCEPT ![k] = NextValue(w, k)] ELSE w.newest,
      gone |-> IF r.ok THEN w.gone \ {k} ELSE w.gone]

Deleted(w, k) ==
  LET r == TreeDelete(w.tree, k)
  IN [w EXCEPT !.tree = r.t, !.gone = IF r.ok THEN @ \union {k} ELSE @]

\* What the calls of a script leave.
Built(s) ==
  LET after[i \in 0..Len(s)] ==
        IF i = 0 THEN NewWorld
        ELSE IF s[i] > 0 THEN Inserted(after[i - 1], s[i])
        ELSE Deleted(after[i - 1], -s[i])
  IN after[Len(s)]

Becomes(w) == tree' = w.tree /\ newest' = w.newest /\ gone' = w.gone

Init ==
  /\ \E w \in {Built(s) : s \in Scripts} :
       tree = w.tree /\ newest = w.newest /\ gone = w.gone
  /\ ops = 0

Call == ops < MaxOps /\ ops' = ops + 1

Insert(k) == Call /\ Becomes(Inserted(World, k))

\* insert_entry: for values of any length; a tree of depth 0, and no split.
InsertEntry(k) ==
  /\ Call /\ tree.depth = 0
  /\ LET e == <<k, NextValue(World, k)>>
         i1 == Insert1(tree.root, e)
         i2 == Insert1(Compact(i1.node), e)
         n == IF i1.ok THEN i1.node ELSE i2.node
         ok == i1.ok \/ i2.ok
     IN /\ tree' = [tree EXCEPT !.root = n, !.shared = ok /\ tree.loaded]
        /\ newest' = IF ok THEN [newest EXCEPT ![k] = e[2]] ELSE newest
        /\ gone' = IF ok THEN gone \ {k} ELSE gone

Delete(k) == Call /\ Becomes(Deleted(World, k))

Reload ==
  /\ Call /\ tree.depth = 0
  /\ tree' = Reloaded(tree)
  /\ UNCHANGED <<newest, gone>>

PresplitShardBoundaries ==
  /\ Call
  /\ tree' = Presplit(tree)
  /\ UNCHANGED <<newest, gone>>

Next ==
  \/ \E k \in Keys : Insert(k) \/ InsertEntry(k) \/ Delete(k)
  \/ Reload
  \/ PresplitShardBoundaries

Spec == Init /\ [][Next]_vars

----------------------------------------------------------------------------
Nodes == [a \in DOMAIN tree.cache \union {Root} |-> NodeAt(tree, a, 0)]

\* The routing entries: each by the address and the index where it stands.
Routes ==
  UNION {{a} \X (IF Nodes[a].level = 0 THEN {} ELSE DOMAIN Entries(Nodes[a])) : a \in DOMAIN Nodes}
LeadsTo(r) == Entries(Nodes[r[1]])[r[2]][2]

\* Every node is where the routing looks for what it holds: the routing entries
\* lead to nodes of the level below, to each node of the cache exactly once, and
\* every live entry of a leaf is found from the root in that leaf, whichever way
\* splits, merges and collapses have moved nodes and keys.
RoutesLead ==
  /\ tree.root.level = tree.depth
  /\ \A a \in DOMAIN Nodes : FreeStart(Nodes[a]) <= NodeSize + 7
  /\ {LeadsTo(r) : r \in Routes} = DOMAIN tree.cache
  /\ \A r, q \in Routes : LeadsTo(r) = LeadsTo(q) => r = q
  /\ \A r \in Routes : tree.cache[LeadsTo(r)].level = Nodes[r[1]].level - 1
  /\ \A a \in DOMAIN Nodes : Nodes[a].level = 0 =>
       \A e \in Range(Live(Entries(Nodes[a]))) : LeafOf(tree, e[1]) = Nodes[a]

\* What was inserted, and acknowledged, is in the leaf the key leads to until it
\* is deleted.  A deleted position may show the newest value again, when the leaf
\* was full and an older entry of the position was marked, but never an older one.
KeepsAcked ==
  \A k \in Keys :
    LET found == Content(LeafOf(tree, k), k)
    IN IF k \in gone THEN found \in {Dead, newest[k]} ELSE found = newest[k]

\* get_entry, which reads the sets where they are, gives what collecting the
\* leaf's entries would give, as long as no tombstone stands behind the first
\* key_count entries; in a compacted leaf get and search agree with it.
ReadsAgree ==
  \A k \in Keys :
    LET n == LeafOf(tree, k)
    IN /\ Len(Entries(n)) <= n.count => GetEntry(n, k) = Content(n, k)
       /\ n.inc = <<>> => /\ Get(n, k) = Content(n, k)
                         /\ Search(n, k) = Content(n, k)

=============================================================================
