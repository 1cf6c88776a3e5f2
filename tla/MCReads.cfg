CONSTANTS
  None = None
  Names <- MCNames
  Keys <- MCKeys
  FolderOf <- MCFolderOf
  FirstSize <- MCFirstSize
  Base = 10
  Width = 10
  PageMax = 2
  Kinds = {"mem", "minio", "s3", "gcs", "azure"}
  Removable = {"minio", "s3", "azure"}
  Limits = {0, 1, 2}
  BoundLimits = {0, 1, 3}
  MaxList = 2
  MaxItems = 2
  Cap = 2
  Chunk = 2
  Sizes = {0, 2, 3}
  MaxWrites = 1
  Faults = {"cut"}
  Lies = {"long", "noToken", "size"}
SPECIFICATION FairSpec
INVARIANTS
  CompleteListing
  NotFoundIsAbsence
  FramesAgree
  BodyIsOfItsHeader
  Capped
  FailsForCause
PROPERTIES
  PullEnds
CHECK_DEADLOCK FALSE
