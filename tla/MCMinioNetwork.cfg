CONSTANTS
  Runs = {r1, r2}
  None = None
  Faults = {"crash", "io"}
SPECIFICATION FairSpec
INVARIANTS
  ReadyIsConnected
  CleanIsGone
PROPERTIES
  OnlyASuccessorReplaces
  LockIsFreed
CHECK_DEADLOCK FALSE
