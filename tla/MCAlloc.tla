------------------------------ MODULE MCAlloc ------------------------------
EXTENDS Alloc, TLC

CONSTANTS v1, v2

\* A user allocation leaves one bucket of each group, a btree allocation none.
SmallReserve == [normal |-> 1, btree |-> 0]

Alike == Permutations(VAddrs)
=============================================================================
