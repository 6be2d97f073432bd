CONSTANTS
  NKeys = 12
  EntryBytes = 32
  AuxBytes = 25
  NodeSize = 160
  WhiteFraction = 2
  ShardFactor = 6
  Scripts <- Fillings
  MaxOps = 4
SPECIFICATION Spec
INVARIANTS RoutesLead KeepsAcked ReadsAgree
CHECK_DEADLOCK FALSE
