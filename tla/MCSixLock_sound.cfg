SPECIFICATION FairSpec
CONSTANTS
  t1 = t1
  t2 = t2
  t3 = t3
  Threads = {t1, t2, t3}
  Uses <- SoundUses
  FifoSize = 3
  MaxSeq = 2
  CntSize = 16
  NoThread = NoThread
INVARIANT MutualExclusion
INVARIANT CountsHeld
INVARIANT SleeperIsQueued
PROPERTY RelockSound
PROPERTY WaiterServed
CHECK_DEADLOCK FALSE
