----------------------------- MODULE MCRecovery -----------------------------
EXTENDS Recovery

CONSTANTS k1, k2

Use(writes, mounts_, crashes_, bad) ==
  [writes |-> writes, mounts |-> mounts_, crashes |-> crashes_, bad |-> bad]

\* Much data and no failing pass; little data and passes that fail.
SoundUses == {Use(4, 1, 1, {}), Use(3, 2, 2, {}), Use(2, 2, 1, {8}), Use(1, 1, 1, {0, 1, 13}), Use(0, 2, 0, {9})}
=============================================================================
