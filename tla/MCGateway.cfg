CONSTANTS
  c1 = c1
  c2 = c2
  w1 = w1
  k1 = k1
  k2 = k2
  o1 = o1
  Absent = Absent
  Calls = {c1, c2}
  Watchers = {w1}
  Outside = {o1}
  Lossy = TRUE
  subBuffer = 1
  Keys <- TwoKeys
  Scopes <- Part
  Requests <- AllRequests
  Event <- MCEvent
SPECIFICATION MCFairSpec
INVARIANTS
  ChannelDiscipline
  ContiguousUntilDropped
  EveryChangeIsHinted
  NoPhantomEvent
  OrderOfCalls
PROPERTIES
  CutOffIsTold
  IndexSettles
CHECK_DEADLOCK FALSE
