CONSTANTS
  Interval = 1
  Timeout = 2
  Attempt = 1
  Poll = 1
  Budget = 6
  Grace = 1
  Streams = {s1}
  Horizon = 7
SPECIFICATION FairSpec
INVARIANTS
  VerdictIsObserved
  VerdictIsFresh
PROPERTIES
  ReadyOnRecentAccess
  GoodIsNotGivenUp
  WaitEnds
  SignalStops
