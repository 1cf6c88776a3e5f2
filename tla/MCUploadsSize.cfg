CONSTANTS
  Kinds = {"mem", "s3", "gcs", "azure", "minio"}
  Sizes <- MCSizes
  MaxMessages = 4
  None = None

SPECIFICATION Spec

INVARIANT SizeIsAHint

\* A call ends, with its goroutines.
CHECK_DEADLOCK FALSE
