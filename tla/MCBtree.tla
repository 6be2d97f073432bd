------------------------------ MODULE MCBtree ------------------------------
EXTENDS Btree, TLC

Up(n) == [i \in 1..n |-> i]
Down(n) == [i \in 1..n |-> n + 1 - i]

\* An empty tree; a leaf with room for one entry; a tree of depth 2; and one that
\* the next delete may bring back to depth 1.
Thinned == Down(12) \o <<-12, -7, -5, -9, -8, -1, -2>>
Fillings == {<<>>, Up(4), Down(12), Thinned}
=============================================================================
