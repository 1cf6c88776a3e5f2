CONSTANTS
  r1 = r1
  r2 = r2
  o1 = o1
  o2 = o2
  b1 = b1
  Nobody = Nobody
  None = None
  Runs = {r1, r2}
  Owners = {o1, o2}
  OwnerOf <- TwoOwners
  BucketOf <- SameBucket
  Faults = {"crash", "io"}
  Legacy = FALSE
  Losses = 1
  MaxMade = 3
SPECIFICATION MCSpec
INVARIANTS
  NeverReplaced
  OneProvisioner
PROPERTIES
  ReplacesOnlyItsOwn
  InitializesOverNothing
CHECK_DEADLOCK FALSE
