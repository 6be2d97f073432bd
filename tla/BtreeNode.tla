----------------------------- MODULE BtreeNode -----------------------------
(***************************************************************************)
(* A node of a btree (volmount-core/src/btree/node.rs): a compacted, sorted *)
(* set of entries with an optional aux array, and a set that grows by       *)
(* appending.  An entry is <<position, value>>; a tombstone, KeyType::      *)
(* Deleted, has the value Dead.  The third set is never written to, because *)
(* active_inc_set finds it empty, and is left out.                          *)
(***************************************************************************)
EXTENDS Integers, Sequences

CONSTANTS
  NKeys,         \* positions 0..NKeys in the order of the keys; 0 is MIN_KEY
  EntryBytes,    \* entry_size(): 24 bytes of key, 8 of value
  AuxBytes,      \* one element of the aux array
  NodeSize,      \* node_size, 256 KiB in the code
  WhiteFraction, \* WHITEOUT_THRESHOLD_FRACTION
  ShardFactor    \* SHARD_FACTOR

ASSUME NodeAssumption ==
  /\ {NKeys, EntryBytes, AuxBytes, WhiteFraction, ShardFactor} \subseteq Nat \ {0}
  /\ EntryBytes % 8 = 0 /\ AuxBytes <= EntryBytes
  /\ NodeSize \in Nat /\ NodeSize >= 4 * EntryBytes

Dead == 0
MinKey == 0
Keys == 1..NKeys
Positions == Keys \union {MinKey}

\* A new node.
Empty(level) ==
  [level |-> level, base |-> <<>>, aux |-> FALSE, inc |-> <<>>, at |-> 0,
   white |-> 0, count |-> 0]

Entries(n) == n.base \o n.inc
TotalBytes(n) == EntryBytes * Len(Entries(n))

----------------------------------------------------------------------------
(* Collecting and compacting *)

\* The last entry of a position wins.
Newest(s, k) ==
  LET at == {i \in DOMAIN s : s[i][1] = k}
  IN IF at = {} THEN Dead ELSE s[CHOOSE i \in at : \A j \in at : i >= j][2]

\* collect_all_entries: sorted, one entry of each position, without the dead.
Live(s) ==
  LET below[k \in 0..(NKeys + 1)] ==
        IF k = 0 THEN <<>>
        ELSE IF Newest(s, k - 1) = Dead THEN below[k - 1]
        ELSE Append(below[k - 1], <<k - 1, Newest(s, k - 1)>>)
  IN below[NKeys + 1]

\* What compact leaves: the aux array is built when it fits behind the entries.
Packed(n, s) ==
  [n EXCEPT !.base = s, !.aux = s # <<>> /\ (EntryBytes + AuxBytes) * Len(s) <= NodeSize,
            !.inc = <<>>, !.at = 0, !.white = 0, !.count = Len(s)]

Compact(n) == Packed(n, Live(Entries(n)))

MaybeCompact(n) ==
  IF n.count > 0 /\ n.white >= n.count \div WhiteFraction THEN Compact(n) ELSE n

----------------------------------------------------------------------------
(* Space, insert and delete *)

\* calc_free_start, rounded up to 8.
FreeStart(n) ==
  LET base == (EntryBytes + IF n.aux THEN AuxBytes ELSE 0) * Len(n.base)
      inc  == n.at + EntryBytes * Len(n.inc)
      raw  == IF base > inc THEN base ELSE inc
  IN ((raw + 7) \div 8) * 8

HasRoom(n) == FreeStart(n) + EntryBytes <= NodeSize

\* Without room for an entry the aux array of the compacted set is given up.
MakeRoom(n) == IF HasRoom(n) THEN n ELSE [n EXCEPT !.aux = FALSE]

Append1(n, e) ==
  [n EXCEPT !.at = IF n.inc = <<>> THEN FreeStart(n) ELSE @, !.inc = Append(@, e)]

Insert1(n, e) ==
  LET m == MakeRoom(n)
  IN IF HasRoom(m) THEN [ok |-> TRUE, node |-> [Append1(m, e) EXCEPT !.count = @ + 1]]
     ELSE [ok |-> FALSE, node |-> m]

\* has_live_entry: a tombstone anywhere hides every other entry of the position.
HasLive(n, k) ==
  /\ \E i \in DOMAIN Entries(n) : Entries(n)[i][1] = k
  /\ \A i \in DOMAIN Entries(n) : Entries(n)[i] # <<k, Dead>>

\* mark_entry_deleted_inplace: the first entry of the position, the oldest.
MarkInPlace(n, k) ==
  LET at(s) == {i \in DOMAIN s : s[i][1] = k}
      mark(s) == [s EXCEPT ![CHOOSE i \in at(s) : \A j \in at(s) : i <= j] = <<k, Dead>>]
  IN IF at(n.base) # {} THEN [n EXCEPT !.base = mark(@)] ELSE [n EXCEPT !.inc = mark(@)]

\* delete_key: a tombstone is appended, or the entry is marked if there is no
\* room for one.  key_count does not count the tombstone.
DeleteKey(n, k) ==
  LET m == MakeRoom(n)
      d == IF HasRoom(m) THEN Append1(m, <<k, Dead>>) ELSE MarkInPlace(m, k)
  IN IF HasLive(n, k) THEN [ok |-> TRUE, node |-> MaybeCompact([d EXCEPT !.white = @ + 1])]
     ELSE [ok |-> FALSE, node |-> n]

----------------------------------------------------------------------------
(* Splitting and merging *)

\* should_split and node_underfull.
ShouldSplit(n) == TotalBytes(n) \div 8 > ((NodeSize \div 8) * 3) \div 4
Underfull(n) == TotalBytes(n) < NodeSize \div 3

\* find_shard_split: the first place, not too near an end, where a shard begins.
ShardSplits(s) ==
  {i \in 1..(Len(s) - 1) : /\ Len(s) >= 3
                           /\ s[i][1] \div ShardFactor < s[i + 1][1] \div ShardFactor
                           /\ i > Len(s) \div 5 /\ i < (Len(s) * 4) \div 5}

\* Neither half gets less than a fifth.
AwayFromEnds(mid, n) ==
  IF mid < n \div 5 THEN n \div 5 ELSE IF mid > n - n \div 5 THEN n - n \div 5 ELSE mid

\* find_balanced_split: how many entries go left.  An entry counts with its aux
\* element; the shift to the right for a left side that is too large never finds
\* a smaller one, and is left out.
SplitAt(s) ==
  LET n == Len(s)
      words  == EntryBytes \div 8 + (AuxBytes + 7) \div 8
      target == (words * n * 3) \div 5
      reach  == {i \in 1..(n - 1) : words * i >= target}
      first(S) == CHOOSE i \in S : \A j \in S : i <= j
  IN AwayFromEnds(IF ShardSplits(s) # {} THEN first(ShardSplits(s))
                  ELSE IF reach # {} THEN first(reach) ELSE n \div 2, n)

\* split; the left half keeps the node's whiteout_count.
CanSplit(n) == Len(Live(Entries(n))) >= 2
SplitAfter(n, all, mid) ==
  LET half(m, s) == [m EXCEPT !.base = s, !.aux = FALSE, !.inc = <<>>, !.at = 0, !.count = Len(s)]
  IN [left |-> half(n, SubSeq(all, 1, mid)),
      right |-> half(Empty(n.level), SubSeq(all, mid + 1, Len(all))),
      median |-> all[mid + 1][1]]

Split(n) == LET all == Live(Entries(n)) IN SplitAfter(n, all, SplitAt(all))

CanAbsorb(n, other) == TotalBytes(n) + TotalBytes(other) + EntryBytes + 64 <= NodeSize
Absorb(n, other) == Packed(n, Live(Compact(n).base \o Compact(other).base))

----------------------------------------------------------------------------
(* Reading *)

\* find_child_node: the index of the last routing entry not above the target, in
\* the order of the keys, or of the first one.
FindChild(n, k) ==
  LET s == Entries(n)
      below == {i \in DOMAIN s : s[i][1] <= k}
  IN IF below # {}
     THEN CHOOSE i \in below : \A j \in below : s[j][1] < s[i][1] \/ (s[j][1] = s[i][1] /\ j <= i)
     ELSE CHOOSE i \in DOMAIN s :
            \A j \in DOMAIN s : s[i][1] < s[j][1] \/ (s[i][1] = s[j][1] /\ i <= j)

\* BtreeIter::init in the leaf: the least entry not below the target, a tombstone
\* after the live entries of its position, the appended set before the compacted
\* one, and in the appended set the oldest.  (For MIN_KEY, with which the scans of a
\* whole tree begin, init takes the first entry as it stands; no position of the model
\* is MIN_KEY.)
LowerBound(n, k) ==
  LET s == Entries(n)
      above == {i \in DOMAIN s : s[i][1] >= k}
      keyOf(i) == 2 * s[i][1] + IF s[i][2] = Dead THEN 1 ELSE 0
      inInc(i) == i > Len(n.base)
      before(i, j) == \/ keyOf(i) < keyOf(j)
                      \/ keyOf(i) = keyOf(j) /\ inInc(i) /\ ~inInc(j)
                      \/ keyOf(i) = keyOf(j) /\ inInc(i) = inInc(j) /\ i <= j
  IN IF n.count = 0 THEN 0
     ELSE IF above = {} THEN 1 ELSE CHOOSE i \in above : \A j \in above : before(i, j)

\* MUTANT: the first entry of the position is taken for the newest.
GetEntryFirst(n, k) ==
  LET s == Entries(n)
      start == LowerBound(n, k)
      seen == {i \in DOMAIN s : i >= start /\ i <= n.count /\ s[i][1] = k}
  IN IF start = 0 \/ seen = {} THEN Dead
     ELSE s[CHOOSE i \in seen : \A j \in seen : i <= j][2]

\* get_entry_inner in the leaf: peek and advance, the last entry of the position
\* wins.  advance stops behind the first key_count entries of the sets.
GetEntry(n, k) ==
  LET s == Entries(n)
      start == LowerBound(n, k)
      seen == {i \in DOMAIN s : (i = start \/ (start < i /\ i <= n.count)) /\ s[i][1] = k}
  IN IF start = 0 \/ seen = {} THEN Dead
     ELSE s[CHOOSE i \in seen : \A j \in seen : i >= j][2]

\* get: the first entry only; and search: the first one that is not dead.  A set
\* with an aux index was compacted and has each position once, so that the walk over
\* the Eytzinger array, the binary search behind it and a look at each entry find the
\* same one.
Get(n, k) ==
  LET start == LowerBound(n, k)
  IN IF start # 0 /\ Entries(n)[start][1] = k THEN Entries(n)[start][2] ELSE Dead

Search(n, k) ==
  LET s == Entries(n)
      hits == {i \in DOMAIN s : s[i][1] = k /\ s[i][2] # Dead}
  IN IF hits = {} THEN Dead ELSE s[CHOOSE i \in hits : \A j \in hits : i <= j][2]

\* What a node says of a position, once its entries are collected.
Content(n, k) == Newest(Entries(n), k)

=============================================================================
