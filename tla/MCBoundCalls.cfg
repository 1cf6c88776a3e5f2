CONSTANTS
  DefaultDelay = 1
  None = None
  Malformed = Malformed
  Kinds = {"s3", "minio", "gcs", "azure"}
  IPs = {"pub", "priv", "meta"}
  ClassOf <- MCClassOf
  Authorities <- MCAuthorities
  Literal <- MCLiteral
  Composed <- MCComposed
  Provider <- MCProvider
  TokenHost <- MCTokenHost
  Statuses = {304, 400, 401, 403, 404, 409, 412, 429, 500, 503}
  Delays = {0, 7}
  MaxRequests = 3

SPECIFICATION Spec

INVARIANTS
  OnlyAdmittedReached
  RefusalIsSaid
  NoCredentialTold
  ReasonIsDocumented
  AbsenceIsAnswered
