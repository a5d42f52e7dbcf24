CONSTANTS
  Main = Main
  Cleaner = Cleaner
  NoThread = NoThread
  NoItem = NoConn
  Producers = {Main}
  Consumers = {w1, w2}
  Items = {s1, s2}
  QueueSize = 1
  MayExtend <- Both
  MaxLength = 0
  LogLevel = 3
  CleanFails <- Both
  MaxSignals = 2
SPECIFICATION AuksdSpec
SYMMETRY Symmetry
INVARIANTS NeverShared QuietWhenFreed
CHECK_DEADLOCK FALSE
