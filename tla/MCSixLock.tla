------------------------------ MODULE MCSixLock ------------------------------
(* The uses of SixLock that are model-checked. *)
EXTENDS SixLock, TLC

CONSTANTS t1, t2, t3

None == [t \in Threads |-> {}]
Plain == [wants |-> None, hold |-> 1, slow |-> FALSE, shifts |-> FALSE, relocks |-> FALSE,
          spurious |-> {}, elsewhere |-> {}]
Wanting(a, b, c) == (t1 :> a @@ t2 :> b @@ t3 :> c)

\* Threads that never wait.
Tries  == [Plain EXCEPT !.wants = [t \in Threads |-> Types], !.hold = 2, !.shifts = TRUE]
Relock == [Plain EXCEPT !.wants = Wanting(Types, Types, {}), !.relocks = TRUE]
Counts == [Plain EXCEPT !.wants = Wanting({"read"}, {"read", "intent"}, {}), !.hold = 2,
                        !.shifts = TRUE, !.elsewhere = {t1, t2}]

\* Threads that wait: one writer and two readers, one of each, two threads for the
\* intent lock.
Waits1 == [Plain EXCEPT !.wants = Wanting({"write"}, {"read"}, {"read"}), !.slow = TRUE,
                        !.spurious = {t1}]
Pair == [Plain EXCEPT !.wants = Wanting({"write"}, {"read"}, {}), !.slow = TRUE]
Intents == [Plain EXCEPT !.wants = Wanting({"intent"}, {"intent"}, {}), !.slow = TRUE]
SoundUses == {Tries, Relock, Counts, Waits1, Pair, Intents}
=============================================================================
