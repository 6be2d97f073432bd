CONSTANTS
  k1 = k1
  k2 = k2
  Keys = {k1, k2}
  Skip = 2
  MaxFailures = 3
  Uses <- SoundUses
SPECIFICATION FairSpec
INVARIANTS RwIsComplete ReplayKeeps GivesUpOnFailure
PROPERTIES WritesAreRead MountEnds
CHECK_DEADLOCK FALSE
