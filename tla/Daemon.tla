------------------------------- MODULE Daemon -------------------------------
(***************************************************************************)
(* The daemon: the HTTP handlers (volmountd/src/server.rs) with the        *)
(* operations on volumes they call (volume.rs), the NBD connections        *)
(* (volmount-nbd), and main with its shutdown.  All are tasks of tokio     *)
(* that share the map of open volumes, the map of exports, and the         *)
(* directories; an await is where one task leaves off and another goes on. *)
(*                                                                         *)
(* What a change does to a volume is the task that made it.  Such changes  *)
(* are not journaled, and what stop_volume saves of them are nodes to      *)
(* which no root leads (Recovery.Redirected): a Volume that is opened has  *)
(* none of them, and nothing here is about the time after the process has  *)
(* ended.  A client that goes away drops its handler, which axum does at   *)
(* an await.                                                               *)
(***************************************************************************)
EXTENDS Naturals, Sequences, SequencesExt, FiniteSets

CONSTANTS
  Names,   \* of volumes
  Tasks,   \* HTTP requests
  Conns,   \* NBD connections
  Main,    \* the task that waits for the signal
  Uses     \* bounds of the model: the requests that may come, whether their
           \* clients may go away, the connections, the volumes there are
           \* and those of them in auto_exports

Makers == {"create", "clone"}
Ops == Makers \cup {"delete", "change", "look", "info", "list", "mount", "umount", "exports"}
Jobs == [op : Ops, name : Names, from : Names]

ASSUME ConstantAssumption ==
  /\ Main \notin Tasks \cup Conns /\ Tasks \cap Conns = {}
  /\ Uses \subseteq [job : [Tasks -> Jobs], cut : BOOLEAN, conns : SUBSET Conns,
                     known : SUBSET Names, auto : SUBSET Names]
  /\ \A u \in Uses : u.auto \subseteq u.known  \* init_volume needs the directory
  /\ IsFiniteSet(Names)

VARIABLES
  use,     \* the member of Uses
  dirs,    \* the file in the directory of each name; 0 when there is no directory
  files,   \* all files there have ever been, the removed ones too: whether there
           \* is a superblock, and the changes that the nodes show which the last
           \* stop_volume has written (no root leads to them)
  vols,    \* all Volume objects: the file behind backend, the changes in inner
  blocks,  \* AppState.blocks, 0 for a name that is not in it
  exports, \* NbdServer.exports
  locks,   \* the two tokio RwLocks: who holds them, and who waits in which order
  task,    \* the handlers
  conn,    \* where each NBD connection is
  main,    \* main, with the names it still has to stop, the volume it stops, and
           \* what the nodes it has written for it show
  open     \* the listeners that accept

(* Observers. *)
VARIABLES
  stopped, \* volumes main has stopped without an error
  acked,   \* changes that were answered with success
  late,    \* changes made to a volume that was stopped
  met      \* what else came to a name: a delete, two makers at a time, a delete
           \* that met a maker or did not get to its end

httpVars == <<dirs, files, vols, blocks, exports>>
seen == <<stopped, acked, late, met>>
vars == <<use, httpVars, locks, task, conn, main, open, seen>>

-----------------------------------------------------------------------------
(* tokio's RwLock.  Who waits gets it in the order of arrival, so that a     *)
(* reader waits behind a writer that waits.                                  *)

Fits(held, first) ==
  \/ first = <<>>
  \/ Len(first) = 1 /\ held = {}
  \/ \A r \in held \cup Range(first) : r.mode = "read"

Granted(lock) ==
  LET n == Max({k \in 0..Len(lock.queue) : Fits(lock.held, SubSeq(lock.queue, 1, k))})
  IN  [held  |-> lock.held \cup Range(SubSeq(lock.queue, 1, n)),
       queue |-> SubSeq(lock.queue, n + 1, Len(lock.queue))]

Ask(lock, who, mode) ==
  Granted([lock EXCEPT !.queue = Append(@, [who |-> who, mode |-> mode])])

Without(queue, who) ==
  IF \E i \in DOMAIN queue : queue[i].who = who
  THEN RemoveAt(queue, CHOOSE i \in DOMAIN queue : queue[i].who = who)
  ELSE queue

\* The guard is dropped, or the future that waits for it.
Drop(lock, who) ==
  Granted([held  |-> {r \in lock.held : r.who # who}, queue |-> Without(lock.queue, who)])

Has(l, who) == \E r \in locks[l].held : r.who = who

Await(l, who, mode) == locks' = [locks EXCEPT ![l] = Ask(@, who, mode)]
Leave(l, who) == locks' = [locks EXCEPT ![l] = Drop(@, who)]

-----------------------------------------------------------------------------
(* Directories.  create_backend makes the directory and the file it opens if *)
(* they are not there (any more); nothing is in such a file.                 *)

Hollow == [sb |-> FALSE, nodes |-> {}]

Opened(n) == IF dirs[n] # 0 THEN dirs[n] ELSE Len(files) + 1
WithOpened(n) == IF dirs[n] # 0 THEN files ELSE Append(files, Hollow)

Listed == {n \in Names : dirs[n] # 0}

CreateBackend(n) ==
  /\ dirs' = [dirs EXCEPT ![n] = Opened(n)]
  /\ files' = WithOpened(n)

\* The volume of each name before the daemon starts, and its file.
Index == CHOOSE f \in Bijection(Names, 1..Cardinality(Names)) : TRUE
Number(names, n) == IF n \in names THEN Index[n] ELSE 0

Init ==
  /\ use \in Uses
  /\ dirs = [n \in Names |-> Number(use.known, n)]
  /\ blocks = [n \in Names |-> Number(use.auto, n)]
  /\ exports = blocks
  /\ files = [f \in 1..Cardinality(Names) |-> [sb |-> TRUE, nodes |-> {}]]
  /\ vols = [f \in 1..Cardinality(Names) |-> [file |-> f, mem |-> {}]]
  /\ locks = [l \in {"blocks", "exports"} |-> [held |-> {}, queue |-> <<>>]]
  /\ task = [t \in Tasks |-> [pc |-> "none", vol |-> 0, file |-> 0, names |-> {}]]
  /\ conn = [c \in Conns |-> "none"]
  /\ main = [pc |-> "run", todo |-> {}, stopping |-> 0, nodes |-> {}]
  /\ open = {"http", "nbd"}
  /\ stopped = {} /\ acked = {} /\ late = {} /\ met = [n \in Names |-> {}]

-----------------------------------------------------------------------------
(* The handlers.  Of a request the action of each step names the code from   *)
(* one await to the next.                                                    *)

\* After that the process has ended.
Running == main.pc # "done"
Name(t) == use.job[t].name
Op(t) == use.job[t].op
Active == {t \in Tasks : task[t].pc \notin {"none", "end"}}
On(n, ops) == {t \in Active : Name(t) = n /\ Op(t) \in ops}

At(t, label) == Running /\ task[t].pc = label
Goto(t, label) == task' = [task EXCEPT ![t].pc = label]
With(t, label, vol, file) ==
  task' = [task EXCEPT ![t].pc = label, ![t].vol = vol, ![t].file = file]
End(t) == Goto(t, "end")

\* Where a request starts, and the lock it asks for at once.
First(op) ==
  CASE op \in {"change", "look", "mount"} -> "get"
    [] op = "list" -> "list"
    [] op = "umount" -> "umount"
    [] op = "exports" -> "exports"
    [] OTHER -> op
FirstLock(op) ==
  CASE op \in {"change", "look", "mount", "list"} -> <<"blocks", "read">>
    [] op = "umount" -> <<"exports", "write">>
    [] op = "exports" -> <<"exports", "read">>
    [] OTHER -> <<>>

\* What is new of a name when a request for it arrives.
Meets(op, n) ==
  {what \in {"delete", "makers", "clash"} :
     \/ what = op
     \/ what = "makers" /\ op \in Makers /\ On(n, Makers) # {}
     \/ what = "clash" /\ op \in Makers /\ On(n, {"delete"}) # {}
     \/ what = "clash" /\ op = "delete" /\ On(n, Makers) # {}}
Meet(n, what) == met' = [met EXCEPT ![n] = @ \cup what]

Arrive(t) ==
  /\ At(t, "none") /\ "http" \in open
  /\ Goto(t, First(Op(t)))
  /\ LET l == FirstLock(Op(t))
     IN  IF l = <<>> THEN UNCHANGED locks ELSE Await(l[1], t, l[2])
  /\ Meet(Name(t), Meets(Op(t), Name(t)))
  /\ UNCHANGED <<use, httpVars, conn, main, open, stopped, acked, late>>

\* Nothing of the daemon's state changes but where the handler is.
Turns == UNCHANGED <<use, httpVars, locks, conn, main, open, seen>>
\* Only directories and files change besides.
Works == UNCHANGED <<use, vols, blocks, exports, locks, conn, main, open, seen>>

\* A Volume object, on the first trees of the file, to be put into the map.
OpenVolume(t, f) ==
  /\ vols' = Append(vols, [file |-> f, mem |-> {}])
  /\ With(t, "insert", Len(vols) + 1, f)
  /\ Await("blocks", t, "write")

\* stop_volume reads the superblock, writes the dirty nodes, and writes the superblock
\* with the roots it had: apply_root_mappings finds none of them.
Stopped(v, nodes) ==
  files[vols[v].file].sb /\ files' = [files EXCEPT ![vols[v].file].nodes = nodes]

(* create_volume, then the insertion by handle_create_volume. *)
CreateCheck(t) ==
  /\ At(t, "create")
  /\ Goto(t, IF dirs[Name(t)] = 0 THEN "create_open" ELSE "end")
  /\ Turns

\* MUTANT: the file is made anew.
CreateFresh(t) ==
  /\ At(t, "create_open")
  /\ dirs' = [dirs EXCEPT ![Name(t)] = Len(files) + 1]
  /\ files' = Append(files, Hollow)
  /\ With(t, "create_write", 0, Len(files) + 1)
  /\ Works

CreateOpen(t) ==
  /\ At(t, "create_open")
  /\ CreateBackend(Name(t))
  /\ With(t, "create_write", 0, Opened(Name(t)))
  /\ Works

\* The initial nodes and the superblock, whatever is in the file; or an error.
CreateWrite(t) ==
  /\ At(t, "create_write")
  /\ \/ /\ files' = [files EXCEPT ![task[t].file] = [sb |-> TRUE, nodes |-> {}]]
        /\ OpenVolume(t, task[t].file)
     \/ /\ End(t)
        /\ UNCHANGED <<files, vols, locks>>
  /\ UNCHANGED <<use, dirs, blocks, exports, conn, main, open, seen>>

Insert(t) ==
  /\ At(t, "insert") /\ Has("blocks", t)
  /\ blocks' = [blocks EXCEPT ![Name(t)] = task[t].vol]
  /\ Leave("blocks", t)
  /\ End(t)
  /\ UNCHANGED <<use, dirs, files, vols, exports, conn, main, open, seen>>

(* delete_volume: init_volume makes a second Volume on the file, which is     *)
(* stopped; then the directory goes, and handle_delete_volume clears the map. *)
DeleteCheck(t) ==
  /\ At(t, "delete")
  /\ Goto(t, IF dirs[Name(t)] # 0 THEN "delete_open" ELSE "end")
  /\ Turns

DeleteOpen(t) ==
  /\ At(t, "delete_open")
  /\ CreateBackend(Name(t))
  /\ LET f == Opened(Name(t))
     IN  IF WithOpened(Name(t))[f].sb
         THEN /\ vols' = Append(vols, [file |-> f, mem |-> {}])
              /\ With(t, "delete_stop", Len(vols) + 1, f)
         ELSE End(t) /\ UNCHANGED vols
  /\ UNCHANGED <<use, blocks, exports, locks, conn, main, open, seen>>

\* As far as it succeeds.
DeleteStop(t) ==
  /\ At(t, "delete_stop")
  /\ Stopped(task[t].vol, vols[task[t].vol].mem) \/ UNCHANGED files
  /\ Goto(t, "delete_dir")
  /\ UNCHANGED <<use, dirs, vols, blocks, exports, locks, conn, main, open, seen>>

\* remove_dir_all, of whatever directory is there now.
DeleteDir(t) ==
  /\ At(t, "delete_dir") /\ dirs[Name(t)] # 0
  /\ dirs' = [dirs EXCEPT ![Name(t)] = 0]
  /\ Await("blocks", t, "write")
  /\ Goto(t, "remove")
  /\ UNCHANGED <<use, files, vols, blocks, exports, conn, main, open, seen>>

\* There is none, or it fails, with the file or without it.
DeleteDirFails(t) ==
  LET n == Name(t)
  IN  /\ At(t, "delete_dir")
      /\ \/ UNCHANGED <<dirs, files>>
         \/ /\ dirs[n] # 0
            /\ dirs' = [dirs EXCEPT ![n] = Len(files) + 1]
            /\ files' = Append(files, Hollow)
      /\ Meet(n, IF dirs' # dirs THEN {"clash"} ELSE {})
      /\ End(t)
      /\ UNCHANGED <<use, vols, blocks, exports, locks, conn, main, open, stopped, acked, late>>

RemoveVolume(t) ==
  /\ At(t, "remove") /\ Has("blocks", t)
  /\ blocks' = [blocks EXCEPT ![Name(t)] = 0]
  /\ Leave("blocks", t)
  /\ End(t)
  /\ UNCHANGED <<use, dirs, files, vols, exports, conn, main, open, seen>>

(* clone_volume, then the insertion by handle_clone_from_snapshot. *)
CloneCheck(t) ==
  /\ At(t, "clone")
  /\ Goto(t, IF dirs[use.job[t].from] # 0 /\ dirs[Name(t)] = 0 THEN "clone_copy" ELSE "end")
  /\ Turns

\* The directory is made; then the source is opened, by its name, and copied as it
\* is, into the file that is there by then.
CloneCopy(t) ==
  LET from == dirs[use.job[t].from]
      to == Opened(Name(t))
  IN  /\ At(t, "clone_copy")
      /\ dirs' = [dirs EXCEPT ![Name(t)] = to]
      /\ \/ /\ from # 0
            /\ files' = [WithOpened(Name(t)) EXCEPT ![to] = files[from]]
            /\ Goto(t, "clone_write")
         \/ /\ files' = WithOpened(Name(t))
            /\ End(t)
      /\ Works

\* The superblock of the copy gets its name.
CloneWrite(t) ==
  /\ At(t, "clone_write")
  /\ Goto(t, IF dirs[Name(t)] # 0 /\ files[Opened(Name(t))].sb THEN "clone_open" ELSE "end")
  /\ Turns

\* init_volume of the clone.
CloneOpen(t) ==
  LET f == dirs[Name(t)]
  IN  /\ At(t, "clone_open")
      /\ IF f # 0 /\ files[f].sb
         THEN OpenVolume(t, f)
         ELSE End(t) /\ UNCHANGED <<vols, locks>>
      /\ UNCHANGED <<use, dirs, files, blocks, exports, conn, main, open, seen>>

(* Handlers that take a Volume out of the map, and drop the guard of the map. *)
GetVolume(t) ==
  LET v == blocks[Name(t)]
      next == IF v = 0 THEN "end" ELSE Op(t)
  IN  /\ At(t, "get") /\ Has("blocks", t)
      /\ With(t, next, v, 0)
      /\ locks' = [locks EXCEPT !["blocks"] = Drop(@, t),
                               !["exports"] = IF next = "mount" THEN Ask(@, t, "read") ELSE @]
      /\ UNCHANGED <<use, httpVars, conn, main, open, seen>>

\* MUTANT: without inner.write().
ChangeUnlocked(t) ==
  /\ At(t, "change")
  /\ vols' = [vols EXCEPT ![task[t].vol].mem = @ \cup {t}]
  /\ acked' = acked \cup {t}
  /\ late' = IF task[t].vol \in stopped THEN late \cup {t} ELSE late
  /\ End(t)
  /\ UNCHANGED <<use, dirs, files, blocks, exports, locks, conn, main, open, stopped, met>>

\* create_snapshot, delete_snapshot, rollback, create_subvol, delete_subvol: all with
\* inner.write(), which only stop_volume holds over an await.
Change(t) ==
  LET v == task[t].vol
  IN  /\ At(t, "change") /\ main.stopping # v
      /\ vols' = [vols EXCEPT ![v].mem = @ \cup {t}]
      /\ acked' = acked \cup {t}
      /\ late' = IF v \in stopped THEN late \cup {t} ELSE late
      /\ End(t)
      /\ UNCHANGED <<use, dirs, files, blocks, exports, locks, conn, main, open, stopped, met>>

\* handle_list_snapshots, handle_list_subvols, handle_recovery_progress.
Look(t) ==
  /\ At(t, "look") /\ main.stopping # task[t].vol
  /\ End(t)
  /\ Turns

(* handle_mount: is_exported, and register_export. *)
MountLook(t) ==
  /\ At(t, "mount") /\ Has("exports", t)
  /\ IF exports[Name(t)] # 0
     THEN Leave("exports", t) /\ End(t)
     ELSE /\ locks' = [locks EXCEPT !["exports"] = Ask(Drop(@, t), t, "write")]
          /\ Goto(t, "register")
  /\ UNCHANGED <<use, httpVars, conn, main, open, seen>>

Register(t) ==
  /\ At(t, "register") /\ Has("exports", t)
  /\ exports' = [exports EXCEPT ![Name(t)] = vols[task[t].vol].file]
  /\ Leave("exports", t)
  /\ End(t)
  /\ UNCHANGED <<use, dirs, files, vols, blocks, conn, main, open, seen>>

(* handle_umount: unregister_export. *)
Unregister(t) ==
  /\ At(t, "umount") /\ Has("exports", t)
  /\ exports' = [exports EXCEPT ![Name(t)] = 0]
  /\ Leave("exports", t)
  /\ End(t)
  /\ UNCHANGED <<use, dirs, files, vols, blocks, conn, main, open, seen>>

(* handle_nbd_list_exports. *)
ListExports(t) ==
  /\ At(t, "exports") /\ Has("exports", t)
  /\ Leave("exports", t)
  /\ End(t)
  /\ UNCHANGED <<use, httpVars, conn, main, open, seen>>

(* handle_volume_info and handle_list_volumes read the superblock of a volume   *)
(* by its name, and so make the directory anew if it has just been removed; the *)
(* guard of the map is held while they read.                                    *)
InfoCheck(t) ==
  /\ At(t, "info")
  /\ Goto(t, IF dirs[Name(t)] # 0 THEN "info_open" ELSE "end")
  /\ Turns

InfoOpen(t) ==
  /\ At(t, "info_open")
  /\ CreateBackend(Name(t))
  /\ IF WithOpened(Name(t))[Opened(Name(t))].sb
     THEN Goto(t, "info_read") /\ Await("blocks", t, "read")
     ELSE End(t) /\ UNCHANGED locks
  /\ UNCHANGED <<use, vols, blocks, exports, conn, main, open, seen>>

\* Of an open volume, inner.read(); of another, its used space.
InfoRead(t) ==
  LET n == Name(t)
  IN  /\ At(t, "info_read") /\ Has("blocks", t)
      /\ IF blocks[n] = 0
         THEN task' = [task EXCEPT ![t].pc = "read", ![t].names = {n} \cap Listed] /\ UNCHANGED locks
         ELSE main.stopping # blocks[n] /\ Leave("blocks", t) /\ End(t)
      /\ UNCHANGED <<use, httpVars, conn, main, open, seen>>

\* MUTANT: a second guard of the map is taken under the first.
ListTwice(t) ==
  /\ At(t, "list") /\ Has("blocks", t)
  /\ locks["blocks"].queue = <<>>
  /\ task' = [task EXCEPT ![t].pc = "read", ![t].names = {n \in Listed : blocks[n] = 0}]
  /\ Turns

List(t) ==
  /\ At(t, "list") /\ Has("blocks", t)
  /\ task' = [task EXCEPT ![t].pc = "read", ![t].names = {n \in Listed : blocks[n] = 0}]
  /\ Turns

ReadClosed(t) ==
  /\ At(t, "read")
  /\ \E n \in task[t].names :
       /\ CreateBackend(n)
       /\ task' = [task EXCEPT ![t].names = @ \ {n}]
  /\ Works

ReadDone(t) ==
  /\ At(t, "read") /\ task[t].names = {}
  /\ Leave("blocks", t)
  /\ End(t)
  /\ UNCHANGED <<use, httpVars, conn, main, open, seen>>

\* The client goes away while the handler awaits something.
Disconnect(t) ==
  /\ use.cut /\ Running /\ t \in Active
  /\ locks' = [l \in DOMAIN locks |-> Drop(locks[l], t)]
  /\ End(t)
  /\ Meet(Name(t), IF task[t].pc = "remove" THEN {"clash"} ELSE {})
  /\ UNCHANGED <<use, httpVars, conn, main, open, stopped, acked, late>>

-----------------------------------------------------------------------------
(* NBD.  A connection holds the guard of the exports until the client has      *)
(* chosen one or given up, and from then on a clone of the export.             *)

Connection(c, from, to) ==
  /\ Running /\ conn[c] = from
  /\ conn' = [conn EXCEPT ![c] = to]
  /\ UNCHANGED <<use, httpVars, task, main, open, seen>>

Accept(c) ==
  /\ c \in use.conns /\ "nbd" \in open
  /\ Connection(c, "none", "ask")
  /\ Await("exports", c, "read")

Greet(c) == Has("exports", c) /\ Connection(c, "ask", "handshake") /\ UNCHANGED locks

\* NBD_OPT_GO, NBD_OPT_EXPORT_NAME; other options are answered and change nothing.
Choose(c) ==
  /\ \E n \in Names : Connection(c, "handshake", IF exports[n] # 0 THEN "serve" ELSE "end")
  /\ Leave("exports", c)

\* NBD_OPT_ABORT, or the client closes the socket.
GiveUp(c) == Connection(c, "handshake", "end") /\ Leave("exports", c)

Disc(c) == Connection(c, "serve", "end") /\ UNCHANGED locks

-----------------------------------------------------------------------------
(* main. *)

MainTurns == UNCHANGED <<use, dirs, vols, blocks, exports, task, conn, acked, late, met>>

Signal ==
  /\ main.pc = "run"
  /\ main' = [main EXCEPT !.pc = "ask"]
  /\ Await("blocks", Main, "read")
  /\ UNCHANGED <<files, open, stopped>> /\ MainTurns

\* A listener learns of it.
Close(listener) ==
  /\ Running /\ main.pc # "run" /\ listener \in open
  /\ open' = open \ {listener}
  /\ UNCHANGED <<main, files, locks, stopped>> /\ MainTurns

StopAll ==
  /\ main.pc = "ask" /\ Has("blocks", Main)
  /\ main' = [main EXCEPT !.pc = "stop", !.todo = {n \in Names : blocks[n] # 0}]
  /\ UNCHANGED <<files, locks, open, stopped>> /\ MainTurns

\* stop_volume takes inner.write() and keeps it; it writes the dirty nodes.
StopBegin ==
  /\ main.pc = "stop" /\ main.stopping = 0
  /\ \E n \in main.todo :
       main' = [main EXCEPT !.todo = @ \ {n}, !.stopping = blocks[n],
                            !.nodes = vols[blocks[n]].mem]
  /\ UNCHANGED <<files, locks, open, stopped>> /\ MainTurns

\* It needs the superblock, and may fail for other reasons; main goes on.
StopEnd ==
  LET v == main.stopping
  IN  /\ main.pc = "stop" /\ v # 0
      /\ main' = [main EXCEPT !.stopping = 0, !.nodes = {}]
      /\ \/ Stopped(v, main.nodes) /\ stopped' = stopped \cup {v}
         \/ UNCHANGED <<files, stopped>>
      /\ UNCHANGED <<locks, open>> /\ MainTurns

StopsDone ==
  /\ main.pc = "stop" /\ main.stopping = 0 /\ main.todo = {}
  /\ main' = [main EXCEPT !.pc = "join"]
  /\ Leave("blocks", Main)
  /\ UNCHANGED <<files, open, stopped>> /\ MainTurns

\* http_handle and server_handle: the requests that have come are answered, NBD
\* connections are not waited for.
Exit ==
  /\ main.pc = "join" /\ open = {} /\ Active = {}
  /\ main' = [main EXCEPT !.pc = "done"]
  /\ UNCHANGED <<files, locks, open, stopped>> /\ MainTurns

-----------------------------------------------------------------------------

Handle(t) ==
  \/ CreateCheck(t) \/ CreateOpen(t) \/ CreateWrite(t) \/ Insert(t)
  \/ DeleteCheck(t) \/ DeleteOpen(t) \/ DeleteStop(t) \/ DeleteDir(t)
  \/ DeleteDirFails(t) \/ RemoveVolume(t)
  \/ CloneCheck(t) \/ CloneCopy(t) \/ CloneWrite(t) \/ CloneOpen(t)
  \/ GetVolume(t) \/ Change(t) \/ Look(t)
  \/ MountLook(t) \/ Register(t) \/ Unregister(t) \/ ListExports(t)
  \/ InfoCheck(t) \/ InfoOpen(t) \/ InfoRead(t)
  \/ List(t) \/ ReadClosed(t) \/ ReadDone(t)

Stop == StopAll \/ StopBegin \/ StopEnd \/ StopsDone \/ Exit

Next ==
  \/ \E t \in Tasks : Arrive(t) \/ Handle(t) \/ Disconnect(t)
  \/ \E c \in Conns : Accept(c) \/ Greet(c) \/ Choose(c) \/ GiveUp(c) \/ Disc(c)
  \/ Signal \/ Stop
  \/ \E listener \in open : Close(listener)

Spec == Init /\ [][Next]_vars

\* tokio runs what can run, and a client does not stay silent in its handshake for
\* ever.  Nothing is assumed of requests that may come, nor of the signal.
Fairness ==
  /\ \A t \in Tasks : WF_vars(Handle(t))
  /\ \A c \in Conns : WF_vars(Greet(c)) /\ WF_vars(Choose(c) \/ GiveUp(c))
  /\ WF_vars(Stop)
  /\ WF_vars(\E listener \in open : Close(listener))

FairSpec == Spec /\ Fairness

-----------------------------------------------------------------------------
(* Properties. *)

Labels == {"none", "end", "create", "create_open", "create_write", "insert", "delete",
           "delete_open", "delete_stop", "delete_dir", "remove", "clone", "clone_copy",
           "clone_write", "clone_open", "get", "change", "look", "mount", "register",
           "umount", "exports", "info", "info_open", "info_read", "list", "read"}
Guests == Tasks \cup Conns \cup {Main}
Requests == [who : Guests, mode : {"read", "write"}]
RwLocks == [held : SUBSET Requests, queue : Seq(Requests)]

FileRecords == [sb : BOOLEAN, nodes : SUBSET Tasks]
VolRecords(lastFile) == [file : 1..lastFile, mem : SUBSET Tasks]
TaskRecords(lastFile, lastVol) ==
  [pc : Labels, vol : 0..lastVol, file : 0..lastFile, names : SUBSET Names]
MainRecords(lastVol) ==
  [pc : {"run", "ask", "stop", "join", "done"}, todo : SUBSET Names,
   stopping : 0..lastVol, nodes : SUBSET Tasks]

\* Every variable has its type, and what is said to be open or behind a volume exists.
TypeOK ==
  /\ use \in Uses
  /\ files \in Seq(FileRecords) /\ vols \in Seq(VolRecords(Len(files)))
  /\ dirs \in [Names -> 0..Len(files)] /\ exports \in [Names -> 0..Len(files)]
  /\ blocks \in [Names -> 0..Len(vols)]
  /\ locks \in [{"blocks", "exports"} -> RwLocks]
  /\ task \in [Tasks -> TaskRecords(Len(files), Len(vols))]
  /\ conn \in [Conns -> {"none", "ask", "handshake", "serve", "end"}]
  /\ main \in MainRecords(Len(vols))
  /\ open \subseteq {"http", "nbd"}
  /\ stopped \subseteq 1..Len(vols) /\ acked \subseteq Tasks /\ late \subseteq Tasks
  /\ met \in [Names -> SUBSET {"delete", "makers", "clash"}]

\* A change that was answered with success is in the open volume of its name for as
\* long as the daemon runs, whatever listed, mounted, cloned or changed the volume
\* meanwhile, and if it was made before main stopped the volume, then it is in the
\* nodes that stop_volume wrote: a stop takes all of a change or nothing.  (That no
\* root leads to these nodes, and that a change after the stop is not in them, is
\* what the code does: README, section 7.)  Left out are names that somebody deleted
\* or that two requests made at a time.
AckedKept ==
  \A t \in acked :
    LET n == Name(t)
        v == task[t].vol
    IN  met[n] \cap {"delete", "makers"} = {} =>
          /\ blocks[n] = v /\ t \in vols[v].mem
          /\ v \in stopped /\ t \notin late => t \in files[vols[v].file].nodes

\* The volume in the map is the one in its directory, or a delete is about to take
\* it off the map: any number of creates, of clones, or of deletes of a name at a
\* time, and readers that make a removed directory anew, do not come between.  Left
\* out are names for which a delete met a create or clone, lost its client between
\* its two steps, or removed the file and then failed.
OpenIsOnDisk ==
  /\ TypeOK
  /\ \A n \in Names :
       \/ blocks[n] = 0
       \/ "clash" \in met[n]
       \/ \E t \in On(n, {"delete"}) : task[t].pc = "remove"
       \/ dirs[n] = vols[blocks[n]].file

\* Every request is answered and the daemon ends once it is told to: the guards of
\* the maps and of the volumes are never waited for in a circle, although readers
\* queue behind writers.  (Requests are finitely many.)
AllEnd ==
  /\ (Active # {}) ~> (Active = {})
  /\ (main.pc # "run") ~> (main.pc = "done")
=============================================================================
