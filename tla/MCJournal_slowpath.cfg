SPECIFICATION MCSpec
CONSTANTS
  Threads = {t1}
  Flushers = {f1}
  NBuf = 4
  BufSize = 1
  CountMax = 2
  ReqSizes = {1}
  MaxSeq = 5
  MaxRec = 3
  WriteErrors = FALSE
  UseSlowpath = TRUE
  UseStop = FALSE
  CommitErrors = FALSE
  NoThread = NoThread
INVARIANTS
  AckedDurable
