CONSTANTS
  c1 = c1
  c2 = c2
  k1 = k1
  k2 = k2
  x = x
  y = y
  Part = Part
  None = None
  Clients = {c1, c2}
  Keys = {k1, k2}
  Contents = {x, y}
  Kinds = {"mem", "minio", "s3", "gcs", "azure"}
  BatchMax = 1
  MaxMade = 3
SPECIFICATION Spec
SYMMETRY Symmetry
PROPERTIES
  IsAnObjectStore
