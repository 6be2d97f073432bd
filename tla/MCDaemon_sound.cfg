CONSTANTS
  a = a
  b = b
  t1 = t1
  t2 = t2
  t3 = t3
  c1 = c1
  Main = Main
  Names = {a, b}
  Tasks = {t1, t2, t3}
  Conns = {c1}
  Uses <- SoundUses
SPECIFICATION FairSpec
INVARIANTS AckedKept OpenIsOnDisk
PROPERTY AllEnd
CHECK_DEADLOCK FALSE
