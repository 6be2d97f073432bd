SPECIFICATION MCFairSpec
CONSTANTS
  Threads = {t1, t2}
  Flushers = {f1}
  NBuf = 3
  BufSize = 3
  CountMax = 2
  ReqSizes = {1, 2}
  MaxSeq = 4
  MaxRec = 3
  WriteErrors = FALSE
  UseSlowpath = FALSE
  UseStop = FALSE
  CommitErrors = FALSE
  NoThread = NoThread
INVARIANTS
  TypeOK
  CountIsOutstanding
  AckedDurable
  NoHoles
PROPERTIES
  LogSpec
  FlushEnds
