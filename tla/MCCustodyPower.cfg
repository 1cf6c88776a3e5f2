CONSTANTS
  r1 = r1
  r2 = r2
  o1 = o1
  o2 = o2
  b1 = b1
  Nobody = Nobody
  None = None
  Runs = {r1}
  Owners = {o1}
  OwnerOf <- SameOwner
  BucketOf <- SameBucket
  Faults = {"crash", "power"}
  Legacy = FALSE
  Losses = 0
  MaxMade = 4
SPECIFICATION MCFairSpec
PROPERTIES
  StoredStays
  PendingResumes
CHECK_DEADLOCK FALSE
