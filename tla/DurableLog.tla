----------------------------- MODULE DurableLog ------------------------------
(***************************************************************************)
(* What a write-ahead log promises to those who append to it: a record is  *)
(* first committed, then it may become durable at any moment, for good,    *)
(* and a flush acknowledges only what is durable by then.                  *)
(***************************************************************************)
CONSTANT Records

VARIABLES
  committed,   \* records handed over by their writers
  durable,     \* records that a crash does not lose
  acked        \* records that somebody was told are durable

logVars == <<committed, durable, acked>>

Init == committed = {} /\ durable = {} /\ acked = {}

\* A writer hands over one record.
Commit(r) ==
  /\ r \notin committed
  /\ committed' = committed \cup {r}
  /\ UNCHANGED <<durable, acked>>

\* Some committed records become durable; none stops being durable.
Persist ==
  /\ durable \subseteq durable'
  /\ durable' \subseteq committed
  /\ UNCHANGED <<committed, acked>>

\* A flush returns.
Ack ==
  /\ acked \subseteq acked'
  /\ acked' \subseteq durable
  /\ UNCHANGED <<committed, durable>>

Next == (\E r \in Records : Commit(r)) \/ Persist \/ Ack

Spec == Init /\ [][Next]_logVars
==============================================================================
