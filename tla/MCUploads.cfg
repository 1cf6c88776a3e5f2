CONSTANTS
  Kinds = {"mem", "s3", "gcs", "azure", "minio"}
  Sizes <- MCSizes
  MaxMessages = 4
  None = None

SPECIFICATION Spec

INVARIANTS
  StoredIsWhole

PROPERTIES
  PutEnds
  FeederIsGone

\* A call ends, with its goroutines.
CHECK_DEADLOCK FALSE
