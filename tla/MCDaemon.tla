------------------------------ MODULE MCDaemon ------------------------------
(* The uses of the daemon that are model-checked. *)
EXTENDS Daemon, TLC

CONSTANTS a, b, t1, t2, t3, c1

Job(op, n) == [op |-> op, name |-> n, from |-> a]

\* Three requests, each at any time or never; with a volume a that is open.
Three(j1, j2, j3) ==
  [job |-> (t1 :> j1 @@ t2 :> j2 @@ t3 :> j3), cut |-> FALSE, conns |-> {},
   known |-> {a}, auto |-> {a}]

\* The same with nothing there at the start.
Empty(u) == [u EXCEPT !.known = {}, !.auto = {}]
Cut(u) == [u EXCEPT !.cut = TRUE]
Nbd(u) == [u EXCEPT !.conns = Conns]

SoundUses == {
  Three(Job("change", a), Job("change", a), Job("info", a)),
  Three(Job("change", a), Job("clone", b), Job("create", b)),
  Cut(Three(Job("delete", a), Job("delete", a), Job("info", a))),
  Cut(Three(Job("delete", a), Job("list", a), Job("change", a))),
  Empty(Three(Job("create", a), Job("create", a), Job("change", a))),
  Empty(Three(Job("create", a), Job("delete", a), Job("list", a))),
  Cut(Empty(Three(Job("create", a), Job("create", a), Job("info", a)))),
  Three(Job("clone", b), Job("delete", a), Job("info", b)),
  Three(Job("clone", b), Job("clone", b), Job("delete", a)),
  Three(Job("delete", a), Job("create", a), Job("mount", a)),
  Nbd(Three(Job("mount", a), Job("umount", a), Job("exports", a))),
  Nbd(Cut(Three(Job("look", a), Job("umount", a), Job("mount", a))))}
=============================================================================
