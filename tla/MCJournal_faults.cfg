SPECIFICATION MCSpec
CONSTANTS
  Threads = {t1, t2}
  Flushers = {f1}
  NBuf = 2
  BufSize = 2
  CountMax = 2
  ReqSizes = {1}
  MaxSeq = 3
  MaxRec = 2
  WriteErrors = TRUE
  UseSlowpath = TRUE
  UseStop = TRUE
  CommitErrors = TRUE
  NoThread = NoThread
SYMMETRY Alike
INVARIANTS
  IdxFollowsSeq
  DrainIsSafe
  OnlyCommittedOnDisk
  EntryConsistent
