SPECIFICATION LibSpec
CONSTANTS
  k1 = k1
  k2 = k2
  v1 = v1
  v2 = v2
  NoItem = NoItem
  Absent = Absent
  Keys = {k1, k2}
  Vals = {v1, v2}
  Refusals = {{}, {"heap"}, {"struct", "heap"}}
  MaxLists = 3
  Length = 1
SYMMETRY Symmetry
INVARIANT NoAliases NothingLost
PROPERTY ImplementsMap
CHECK_DEADLOCK FALSE
