CONSTANTS
  Main = Main
  Cleaner = Cleaner
  NoThread = NoThread
  NoItem = NoConn
  Producers = {Main}
  Consumers = {w1, w2}
  Items = {s1, s2}
  QueueSize = 1
  MayExtend <- Always
  MaxLength = 0
  LogLevel = 1
  CleanFails <- Never
  MaxSignals = 2
SPECIFICATION BusyAuksdSpec
INVARIANTS NoneDropped
PROPERTIES BreaksLoop Stops
CHECK_DEADLOCK FALSE
