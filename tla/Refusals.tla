------------------------------ MODULE Refusals ------------------------------
(***************************************************************************)
(* How a failure reaches a caller.  Each backend turns what its provider   *)
(* said, or the lack of an answer, into one of the classes of internal/    *)
(* serr; a call with a binding passes it through a policy of its own; the  *)
(* server makes a gRPC code, a reason and, for a throttle, a delay of it.  *)
(***************************************************************************)
EXTENDS Integers, FiniteSetsExt

CONSTANTS
  DefaultDelay,  \* defaultRetryDelay
  None           \* no value

ASSUME DelayAssumption == DefaultDelay \in Nat \ {0}

\* No reason of a refusal, and no provider's code of a missing bucket.
ASSUME NoneAssumption ==
  None \notin {"DESTINATION_REFUSED", "OBJECT_NOT_FOUND"}
           \cup {"NoSuchBucket", "BucketNotExist", "ContainerNotFound"}

-----------------------------------------------------------------------------
(* What a request to a store ends with *)

\* An answer, with its HTTP status and the provider's own code.
StoreSaid(status, code) == [by |-> "store", status |-> status, code |-> code]

\* No answer: the guard refused every dial or one of a GCS key's token endpoint's,
\* the network failed, the token endpoint gave no token, the deadline passed, or
\* the answer ran past the guard's bound.
NoAnswerFrom == {"guard", "network", "token", "deadline", "bound"}

NotSaid(by) == [by |-> by, status |-> 0, code |-> None]

-----------------------------------------------------------------------------
(* serr: classes and reasons *)

Row(codes, statuses, class) == [codes |-> codes, statuses |-> statuses, class |-> class]

S3Rows ==
  << Row({"NoSuchBucket"},          {},         "BucketNotFound"),
     Row({"NoSuchKey", "NotFound"}, {404},      "NotFound"),
     Row({"NotModified"},           {304},      "NotModified"),
     Row({"PreconditionFailed"},    {412},      "PreconditionFailed"),
     Row({},                        {409},      "AlreadyExists"),
     Row({"AccessDenied"},          {403},      "PermissionDenied"),
     Row({"SlowDown"},              {429, 503}, "Throttled") >>

MinioRows ==
  << Row({"NoSuchBucket"},       {},         "BucketNotFound"),
     Row({"NoSuchKey"},          {404},      "NotFound"),
     Row({},                     {304},      "NotModified"),
     Row({"PreconditionFailed"}, {412},      "PreconditionFailed"),
     Row({},                     {409},      "AlreadyExists"),
     Row({"AccessDenied"},       {403},      "PermissionDenied"),
     Row({"SlowDown"},           {429, 503}, "Throttled") >>

GcsRows ==
  << Row({"BucketNotExist"}, {},         "BucketNotFound"),
     Row({"ObjectNotExist"}, {},         "NotFound"),
     Row({},                 {304},      "NotModified"),
     Row({},                 {401, 403}, "PermissionDenied"),
     Row({},                 {404},      "NotFound"),
     Row({},                 {409},      "AlreadyExists"),
     Row({},                 {412},      "PreconditionFailed"),
     Row({},                 {429, 503}, "Throttled") >>

AzureRows ==
  << Row({"ContainerNotFound"}, {},         "BucketNotFound"),
     Row({"BlobNotFound"},      {},         "NotFound"),
     Row({"BlobAlreadyExists"}, {},         "AlreadyExists"),
     Row({"ConditionNotMet"},   {},         "PreconditionFailed"),
     Row({},                    {304},      "NotModified"),
     Row({},                    {412},      "PreconditionFailed"),
     Row({},                    {404},      "NotFound"),
     Row({},                    {409},      "AlreadyExists"),
     Row({},                    {403},      "PermissionDenied"),
     Row({},                    {429, 503}, "Throttled"),
     Row({},                    {400},      "InvalidArgument") >>

Rows ==
  [kind \in {"s3", "minio", "gcs", "azure"} |->
     CASE kind = "s3" -> S3Rows [] kind = "minio" -> MinioRows
       [] kind = "gcs" -> GcsRows [] kind = "azure" -> AzureRows]

\* Mutant: the HTTP status is read before the provider's own code.
ClassLast(kind, f) ==
  LET rows == Rows[kind]
      hits == {i \in DOMAIN rows : f.code \in rows[i].codes \/ f.status \in rows[i].statuses}
  IN IF f.by # "store" \/ hits = {} THEN "Internal" ELSE rows[Max(hits)].class

\* The first row that an answer matches; what matches none is unclassified.
Class(kind, f) ==
  LET rows == Rows[kind]
      hits == {i \in DOMAIN rows : f.code \in rows[i].codes \/ f.status \in rows[i].statuses}
  IN IF f.by # "store" \/ hits = {} THEN "Internal" ELSE rows[Min(hits)].class

\* The reason a class implies.
ImpliedReason ==
  [NotFound |-> "OBJECT_NOT_FOUND", AlreadyExists |-> "ALREADY_EXISTS",
   PreconditionFailed |-> "PRECONDITION_FAILED", Unsupported |-> "UNSUPPORTED",
   PermissionDenied |-> "CREDENTIAL_REJECTED", Throttled |-> "STORE_THROTTLED",
   InvalidArgument |-> "INVALID_ARGUMENT", Unavailable |-> "STORE_UNAVAILABLE",
   TooLarge |-> "RESPONSE_TOO_LARGE", NotModified |-> "INTERNAL", Internal |-> "INTERNAL"]

Classes == DOMAIN ImpliedReason

Error(class, reason) == [class |-> class, reason |-> reason, delay |-> 0]

Plain(class) == Error(class, ImpliedReason[class])

BucketNotFound == Error("NotFound", "BUCKET_NOT_FOUND")

\* mapErr of each backend.
MapErr(kind, f) ==
  IF Class(kind, f) = "BucketNotFound" THEN BucketNotFound ELSE Plain(Class(kind, f))

\* Did the service never answer?  The guard's refusal is a dial that failed.
Unreachable(f) == f.by \in {"guard", "network", "token", "deadline"}

\* probeErr of each backend: only a probe asks whether there was an answer.
ProbeErr(kind, f) == IF Unreachable(f) THEN Plain("Unavailable") ELSE MapErr(kind, f)

-----------------------------------------------------------------------------
(* The policy of a bound call, and the status *)

\* What a guard has recorded of its call: a dial it refused, an answer past its
\* bound, the delay a store asked for.
Records == [refused : BOOLEAN, tooLarge : BOOLEAN, delay : Nat]

\* Mutant: a deadline changes the code and leaves the reason.
CallErrReasonKept(e, f, guard) ==
  IF guard.refused THEN Error("PermissionDenied", "DESTINATION_REFUSED")
  ELSE IF guard.tooLarge THEN Plain("TooLarge")
  ELSE IF f.by = "deadline" THEN [e EXCEPT !.class = "Unavailable"]
  ELSE [e EXCEPT !.delay = IF e.class = "Throttled" THEN guard.delay ELSE 0]

\* Mutant: the deadline is looked at before what the guard has recorded.
CallErrDeadlineFirst(e, f, guard) ==
  IF f.by = "deadline" THEN Error("Unavailable", "OPERATION_DEADLINE")
  ELSE IF guard.refused THEN Error("PermissionDenied", "DESTINATION_REFUSED")
  ELSE IF guard.tooLarge THEN Plain("TooLarge")
  ELSE [e EXCEPT !.delay = IF e.class = "Throttled" THEN guard.delay ELSE 0]

\* call.err of a bound call: a refused dial comes first, however it was reported.
CallErr(e, f, guard) ==
  IF guard.refused THEN Error("PermissionDenied", "DESTINATION_REFUSED")
  ELSE IF guard.tooLarge THEN Plain("TooLarge")
  ELSE IF f.by = "deadline" THEN Error("Unavailable", "OPERATION_DEADLINE")
  ELSE [e EXCEPT !.delay = IF e.class = "Throttled" THEN guard.delay ELSE 0]

GrpcCode ==
  [NotFound |-> "NOT_FOUND", AlreadyExists |-> "ALREADY_EXISTS",
   PreconditionFailed |-> "FAILED_PRECONDITION", Unsupported |-> "UNIMPLEMENTED",
   PermissionDenied |-> "PERMISSION_DENIED", Throttled |-> "RESOURCE_EXHAUSTED",
   InvalidArgument |-> "INVALID_ARGUMENT", Unavailable |-> "UNAVAILABLE",
   TooLarge |-> "RESOURCE_EXHAUSTED", NotModified |-> "INTERNAL", Internal |-> "INTERNAL"]

\* A throttle carries the delay the store asked for, or the default one.
Refuse(code, reason, delay) ==
  [code |-> code, reason |-> reason,
   retry |-> IF reason # "STORE_THROTTLED" THEN 0 ELSE IF delay > 0 THEN delay ELSE DefaultDelay]

ToStatus(e) == Refuse(GrpcCode[e.class], e.reason, e.delay)
=============================================================================
