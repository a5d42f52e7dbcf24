CONSTANTS
  p1 = p1
  c1 = c1
  c2 = c2
  s1 = s1
  s2 = s2
  NoItem = NoItem
  Items = {s1, s2}
  Producers = {p1}
  Consumers = {c1, c2}
  QueueSize = 1
  MaxLength = 3
  MayExtend <- Both
SPECIFICATION FairXqueueSpec
INVARIANTS NoLostWakeup
PROPERTIES Delivered
