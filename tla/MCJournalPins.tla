--------------------------- MODULE MCJournalPins ---------------------------
(* The uses of JournalPins that are model-checked. *)
EXTENDS JournalPins, TLC

CONSTANTS w1, w2, f1, f2, p1, p2

OneType  == [p \in Pins |-> 1]
TwoTypes == [p \in Pins |-> IF p = p1 THEN 1 ELSE 2]

\* Journal::new, flushed by one task.
Fresh == [workers |-> {}, flushers |-> {f1}, pins |-> {}, type |-> OneType,
          first |-> 1, disk |-> 0, last |-> 8, writes |-> TRUE,
          rearm |-> {FALSE}, callbacks |-> {"drop"}, serial |-> TRUE]

\* Pins race with each other and with the callbacks of one flusher.
Race == [Fresh EXCEPT !.workers = {w1, w2}, !.pins = {p1, p2}, !.last = 4,
                      !.callbacks = {"drop", "keep"}, !.serial = FALSE]

\* from_superblock: seq 384 and last_seq_ondisk 128 with a FIFO of 128, to the
\* scale of the model.  With pins the volume's lock is held over each call.
Restart == [Race EXCEPT !.type = TwoTypes, !.first = 12, !.disk = 4, !.last = 15,
                        !.serial = TRUE]

\* The daemon attaches no btree to the journal.  The superblock may hold any seq: the
\* first entry is in the slot of its seq, or in the one before, or too far off.
NoPins  == [Restart EXCEPT !.pins = {}, !.last = 24]
Lagging == {[NoPins EXCEPT !.first = s] : s \in {10, 11}}

SafeUses == {Race, Restart, NoPins} \cup Lagging
FreshUse == {Fresh}

\* Waiting for pin_flush, with callbacks that fail; two flushers and pins that
\* get a new callback while the old one runs.
Wait    == [Race EXCEPT !.workers = {w1}, !.type = TwoTypes, !.writes = FALSE,
                        !.rearm = BOOLEAN, !.callbacks = {"keep", "error"}]
Blocked == [Wait EXCEPT !.flushers = {f1, f2}, !.pins = {p1}, !.rearm = {TRUE}]
LiveUses == {Wait, Blocked}

\* Workers are alike, and so are pins of one type; a use names no worker by
\* itself.
Symmetry == Permutations({w1, w2}) \cup Permutations({p1, p2})
=============================================================================
