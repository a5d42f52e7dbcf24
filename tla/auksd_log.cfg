CONSTANTS
  Main = Main
  Cleaner = Cleaner
  NoThread = NoThread
  NoItem = NoConn
  Producers = {Main}
  Consumers = {w1}
  Items = {s1}
  QueueSize = 1
  MayExtend <- Always
  MaxLength = 0
  LogLevel = 2
  CleanFails <- Never
  MaxSignals = 1
SPECIFICATION BusyAuksdSpec
PROPERTIES Stops
CHECK_DEADLOCK FALSE
