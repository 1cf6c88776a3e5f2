CONSTANTS
  None = None
  Names <- MCNames
  Keys <- MCKeys
  FolderOf <- MCFolderOf
  FirstSize <- MCFirstSize
  Base = 10
  Width = 10
  PageMax = 2
  Kinds = {"gcs"}
  Removable = {"gcs"}
  Limits = {0, 1, 2}
  BoundLimits = {0, 1, 3}
  MaxList = 2
  MaxItems = 2
  Cap = 2
  Chunk = 2
  Sizes = {0, 2, 3}
  MaxWrites = 1
  Faults = {"confirm"}
  Lies = {}
SPECIFICATION Spec
INVARIANTS
  NotFoundIsAbsence
CHECK_DEADLOCK FALSE
