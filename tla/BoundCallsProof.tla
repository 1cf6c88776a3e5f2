-------------------------- MODULE BoundCallsProof --------------------------
(***************************************************************************)
(* Proofs about BoundCalls, for all names, addresses, compositions and     *)
(* credentials: where a bound call connects to, what it is told when it    *)
(* was not let through, that no credential leaks into what is told, that   *)
(* what is told is documented, and that absence is told only when answered. *)
(***************************************************************************)
EXTENDS BoundCalls, WellFoundedInduction, TLAPS

-----------------------------------------------------------------------------
(* The invariant *)

NothingAdmitted == [authority |-> None, addresses |-> {}]

\* Only the composed endpoint of the binding is admitted, and nowhere that no
\* composition places it.
Admission ==
  \/ admission = NothingAdmitted
  \/ /\ admission.authority \in Composed /\ admission.authority = call.endpoint
     /\ \A ip \in admission.addresses : ClassOf[ip] \notin NeverAdmitted

\* A call begins with nothing done, and ends once.
Course ==
  /\ stage # "over" => told = None
  /\ stage = "new" => call.bound /\ requests = 0 /\ ~guard.refused /\ admission = NothingAdmitted
  /\ guard.refused => call.bound

\* Only what was not sent is in an error, and an operation that goes on has no
\* error, but for a GCS object's while its bucket is asked.
Errors ==
  call.bound =>
    /\ text \subseteq Secrets \ sent
    /\ stage \in {"new", "open", "sent"} /\ ~confirming => text = {}
    /\ told # None => told.text = {}

\* A GCS token has been sent with every request; so it is not in the error that
\* is kept while the bucket is asked.
TokenIsOut ==
  /\ confirming => call.kind = "gcs"
  /\ call.bound /\ call.kind = "gcs" /\ call.credential = "token"
       /\ (stage = "sent" \/ cause.by = "store" \/ confirming)
       => "token" \in sent

\* A store speaks its provider's codes, and no failure without an answer has one.
CodeIsOfKind ==
  cause.code \in BucketCodes =>
    /\ cause.by = "store"
    /\ \/ call.kind \in {"s3", "minio"} /\ cause.code = "NoSuchBucket"
       \/ call.kind = "gcs" /\ cause.code = "BucketNotExist"
       \/ call.kind = "azure" /\ cause.code = "ContainerNotFound"

\* A status of the documented ones.
Acceptable(status) ==
  /\ status.code \in DOMAIN Documented
  /\ status.reason \in Documented[status.code]
  /\ (status.reason = "STORE_THROTTLED") <=> (status.retry > 0)

IInv ==
  /\ TypeOK
  /\ Admission
  /\ OnlyAdmittedReached
  /\ Course
  /\ Errors
  /\ TokenIsOut
  /\ CodeIsOfKind
  /\ RefusalIsSaid
  /\ ReasonIsDocumented
  /\ AbsenceIsAnswered

-----------------------------------------------------------------------------
(* Reasons *)

\* The rows of a backend name classes.
LEMMA RowsNameClasses ==
  ASSUME NEW kind \in {"s3", "minio", "gcs", "azure"}
  PROVE  /\ DOMAIN Rows[kind] \subseteq Nat
         /\ \A i \in DOMAIN Rows[kind] : Rows[kind][i].class \in Classes \cup {"BucketNotFound"}
PROOF
<1> USE DEF Row, Classes, ImpliedReason
<1>1. CASE kind = "s3"
  BY <1>1 DEF Rows, S3Rows
<1>2. CASE kind = "minio"
  BY <1>2 DEF Rows, MinioRows
<1>3. CASE kind = "gcs"
  BY <1>3 DEF Rows, GcsRows
<1>4. CASE kind = "azure"
  BY <1>4 DEF Rows, AzureRows
<1> QED
  BY <1>1, <1>2, <1>3, <1>4

\* A set of naturals has a least one.
LEMMA MinIsIn ==
  ASSUME NEW S \in SUBSET Nat, S # {}
  PROVE  Min(S) \in S
PROOF
<1>1. PICK least \in S : \A other \in S : ~(<<other, least>> \in OpToRel(<, Nat))
  BY NatLessThanWellFounded, WFMin
<1>2. OpToRel(<, Nat) = {pair \in Nat \X Nat : pair[1] < pair[2]}
  BY DEF OpToRel
<1>3. \A other \in S : <<other, least>> \in Nat \X Nat /\ ~(other < least)
  BY <1>1, <1>2
<1>4. ASSUME NEW other \in S PROVE least <= other
  <2>1. other \in Nat /\ least \in Nat /\ ~(other < least)
    BY <1>3
  <2> QED
    BY <2>1
<1> QED
  BY <1>4 DEF Min

LEMMA ClassIsOne ==
  ASSUME NEW kind \in {"s3", "minio", "gcs", "azure"}, NEW f
  PROVE  Class(kind, f) \in Classes \cup {"BucketNotFound"}
PROOF
<1> DEFINE rows == Rows[kind]
           hits == {i \in DOMAIN rows : f.code \in rows[i].codes \/ f.status \in rows[i].statuses}
<1>1. CASE f.by # "store" \/ hits = {}
  BY <1>1 DEF Class, Classes, ImpliedReason
<1>2. CASE ~(f.by # "store" \/ hits = {})
  <2>1. hits \in SUBSET Nat
    BY RowsNameClasses
  <2>2. Min(hits) \in hits
    BY <1>2, <2>1, MinIsIn
  <2> QED
    BY <1>2, <2>2, RowsNameClasses DEF Class
<1> QED
  BY <1>1, <1>2

\* No backend reports a refused destination: only the policy of a bound call does.
LEMMA ReasonsOfBackends ==
  ASSUME NEW kind \in {"s3", "minio", "gcs", "azure"}, NEW f
  PROVE  MapErr(kind, f).reason # "DESTINATION_REFUSED"
PROOF
<1>1. \A class \in Classes : ImpliedReason[class] # "DESTINATION_REFUSED"
  BY DEF ImpliedReason, Classes
<1>2. CASE Class(kind, f) = "BucketNotFound"
  BY <1>2 DEF MapErr, BucketNotFound, Error
<1>3. CASE Class(kind, f) # "BucketNotFound"
  BY <1>1, <1>3, ClassIsOne DEF MapErr, Plain, Error
<1> QED
  BY <1>2, <1>3

\* What the policy of a bound call makes of it: a refused dial, and nothing else.
LEMMA RefusalByGuard ==
  ASSUME NEW e, e.reason # "DESTINATION_REFUSED", NEW f, NEW g
  PROVE  (ToStatus(CallErr(e, f, g)).reason = "DESTINATION_REFUSED") <=> g.refused
PROOF
<1>1. ToStatus(CallErr(e, f, g)).reason = CallErr(e, f, g).reason
  BY DEF ToStatus, Refuse
<1>2. CASE g.refused
  BY <1>1, <1>2 DEF CallErr, Error
<1>3. CASE ~g.refused /\ (g.tooLarge \/ f.by = "deadline")
  BY <1>1, <1>3 DEF CallErr, Error, Plain, ImpliedReason
<1>4. CASE ~g.refused /\ ~g.tooLarge /\ f.by # "deadline"
  <2>1. CallErr(e, f, g) = [e EXCEPT !.delay = IF e.class = "Throttled" THEN g.delay ELSE 0]
    BY <1>4 DEF CallErr
  <2>2. CallErr(e, f, g).reason = e.reason
    BY <2>1
  <2> QED
    BY <1>1, <1>4, <2>2
<1> QED
  BY <1>2, <1>3, <1>4

\* The kinds of calls.
LEMMA CallIsOne ==
  ASSUME TypeOK
  PROVE  /\ call.kind \in {"s3", "minio", "gcs", "azure"} /\ call.bound \in BOOLEAN
         /\ call.bound => /\ call.op \in {"capabilities", "stat", "get", "list"}
                          /\ call.endpoint \in Authorities \cup {None, Malformed}
                          /\ call.credential \in {"missing", "malformed", "key", "token"}
         /\ ~call.bound => call.endpoint = None
PROOF
  BY CallAssumption DEF TypeOK, Bindings, OwnCalls

\* So the status of a failure says a refusal when there was one, and only then.
LEMMA StatusSaysRefusal ==
  ASSUME TypeOK, guard.refused => call.bound
  PROVE  Refused(Status) <=> guard.refused
PROOF
<1> DEFINE e == MapErr(call.kind, Failure)
<1>1. e.reason # "DESTINATION_REFUSED"
  BY CallIsOne, ReasonsOfBackends
<1>2. CASE call.bound
  <2>1. Status = ToStatus(CallErr(e, Failure, guard))
    BY <1>2, CallIsOne DEF Status, Probes
  <2> QED
    BY <1>1, <2>1, RefusalByGuard DEF Refused
<1>3. CASE ~call.bound
  <2>1. Status.reason \in {None, e.reason}
    BY <1>3 DEF Status, Succeeded, ToStatus, Refuse
  <2> QED
    BY <1>1, <1>3, <2>1, NoneAssumption DEF Refused
<1> QED
  BY <1>2, <1>3, CallIsOne

\* A code and a reason of the README's table make a status of it, with a delay if
\* it is a throttle.
LEMMA RefuseIsAcceptable ==
  ASSUME NEW code \in DOMAIN Documented, NEW reason \in Documented[code], NEW delay \in Nat
  PROVE  Acceptable(Refuse(code, reason, delay))
PROOF
<1> DEFINE status == Refuse(code, reason, delay)
<1>1. status.code = code /\ status.reason = reason
  BY DEF Refuse
<1>2. CASE reason = "STORE_THROTTLED"
  <2>1. status.retry = IF delay > 0 THEN delay ELSE DefaultDelay
    BY <1>2 DEF Refuse
  <2>2. status.retry > 0
    BY <2>1, DelayAssumption
  <2> QED
    BY <1>1, <1>2, <2>2 DEF Acceptable
<1>3. CASE reason # "STORE_THROTTLED"
  <2>1. status.retry = 0
    BY <1>3 DEF Refuse
  <2> QED
    BY <1>1, <1>3, <2>1 DEF Acceptable
<1> QED
  BY <1>2, <1>3

\* Every class of error has a code, and the reason it implies is a documented one of
\* that code.
LEMMA ClassIsDocumented ==
  ASSUME NEW class \in Classes
  PROVE  /\ GrpcCode[class] \in DOMAIN Documented
         /\ ImpliedReason[class] \in Documented[GrpcCode[class]]
PROOF
<1>1. class \in {"NotFound", "AlreadyExists", "PreconditionFailed", "Unsupported", "PermissionDenied",
                 "Throttled", "InvalidArgument", "Unavailable", "TooLarge", "NotModified", "Internal"}
  BY DEF Classes, ImpliedReason
<1> QED
  BY <1>1 DEF GrpcCode, ImpliedReason, Documented

\* An error whose status is documented, whatever it is told to wait.
Tellable(e) ==
  /\ e = [class |-> e.class, reason |-> e.reason, delay |-> e.delay]
  /\ GrpcCode[e.class] \in DOMAIN Documented
  /\ e.reason \in Documented[GrpcCode[e.class]]
  /\ e.delay \in Nat

LEMMA TellableIsAcceptable ==
  ASSUME NEW e, Tellable(e)
  PROVE  Acceptable(ToStatus(e))
PROOF
  BY RefuseIsAcceptable DEF Tellable, ToStatus

LEMMA MapErrIsTellable ==
  ASSUME NEW kind \in {"s3", "minio", "gcs", "azure"}, NEW f
  PROVE  Tellable(MapErr(kind, f))
PROOF
<1>1. CASE Class(kind, f) = "BucketNotFound"
  BY <1>1 DEF MapErr, BucketNotFound, Error, Tellable, GrpcCode, Documented
<1>2. CASE Class(kind, f) # "BucketNotFound"
  <2>1. Class(kind, f) \in Classes
    BY <1>2, ClassIsOne
  <2> QED
    BY <1>2, <2>1, ClassIsDocumented DEF MapErr, Plain, Error, Tellable
<1> QED
  BY <1>1, <1>2

\* The policy of a bound call keeps an error tellable, and its reason or one of its own.
LEMMA CallErrIsTellable ==
  ASSUME NEW e, Tellable(e), NEW f, NEW g \in Records
  PROVE  /\ Tellable(CallErr(e, f, g))
         /\ CallErr(e, f, g).reason \in {e.reason, "DESTINATION_REFUSED", "RESPONSE_TOO_LARGE", "OPERATION_DEADLINE"}
PROOF
<1>1. CASE g.refused
  BY <1>1 DEF CallErr, Error, Tellable, GrpcCode, Documented
<1>2. CASE ~g.refused /\ g.tooLarge
  BY <1>2 DEF CallErr, Plain, Error, ImpliedReason, Tellable, GrpcCode, Documented
<1>3. CASE ~g.refused /\ ~g.tooLarge /\ f.by = "deadline"
  BY <1>3 DEF CallErr, Error, Tellable, GrpcCode, Documented
<1>4. CASE ~g.refused /\ ~g.tooLarge /\ f.by # "deadline"
  <2>1. CallErr(e, f, g) = [e EXCEPT !.delay = IF e.class = "Throttled" THEN g.delay ELSE 0]
    BY <1>4 DEF CallErr
  <2>2. g.delay \in Nat
    BY DEF Records
  <2> QED
    BY <2>1, <2>2 DEF Tellable
<1> QED
  BY <1>1, <1>2, <1>3, <1>4

LEMMA StatusIsAcceptable ==
  ASSUME TypeOK, call.op \notin Probes
  PROVE  Acceptable(Status)
PROOF
<1>1. Tellable(MapErr(call.kind, Failure)) /\ guard \in Records
  BY CallIsOne, MapErrIsTellable DEF TypeOK
<1>2. Tellable(CallErr(MapErr(call.kind, Failure), Failure, guard))
  BY <1>1, CallErrIsTellable
<1> QED
  BY <1>1, <1>2, TellableIsAcceptable DEF Status

\* The row of a missing bucket is each backend's first, so no status hides it.
LEMMA BucketComesFirst ==
  ASSUME NEW kind \in {"s3", "minio", "gcs", "azure"}, NEW f, f.by = "store",
         \/ kind \in {"s3", "minio"} /\ f.code = "NoSuchBucket"
         \/ kind = "gcs" /\ f.code = "BucketNotExist"
         \/ kind = "azure" /\ f.code = "ContainerNotFound"
  PROVE  Class(kind, f) = "BucketNotFound"
PROOF
<1> DEFINE rows == Rows[kind]
           hits == {i \in DOMAIN rows : f.code \in rows[i].codes \/ f.status \in rows[i].statuses}
<1>1. /\ 1 \in DOMAIN rows /\ f.code \in rows[1].codes /\ rows[1].class = "BucketNotFound"
      /\ \A i \in DOMAIN rows : i >= 1
  BY DEF Rows, S3Rows, MinioRows, GcsRows, AzureRows, Row
<1>2. 1 \in hits /\ hits \in SUBSET Nat
  BY <1>1, RowsNameClasses
<1>3. Min(hits) = 1
  <2>1. \A i \in hits : 1 <= i
    BY <1>1
  <2>2. \A x \in hits : (\A i \in hits : x <= i) => x = 1
    BY <1>2, <2>1
  <2> QED
    BY <1>2, <2>1, <2>2 DEF Min
<1> QED
  BY <1>1, <1>2, <1>3 DEF Class

\* Only a store's answer, with no word of the bucket, is an object that is not there.
LEMMA AbsenceOfBackends ==
  ASSUME TypeOK, CodeIsOfKind, confirming => call.kind = "gcs",
         MapErr(call.kind, Failure).reason = "OBJECT_NOT_FOUND"
  PROVE  (cause.by = "store" \/ confirming) /\ cause.code \notin BucketCodes
PROOF
<1> DEFINE class == Class(call.kind, Failure)
<1>1. class # "BucketNotFound"
  BY DEF MapErr, BucketNotFound, Error
<1>2. class \in Classes /\ ImpliedReason[class] = "OBJECT_NOT_FOUND"
  BY <1>1, CallIsOne, ClassIsOne DEF MapErr, Plain, Error
<1>3. Failure.by = "store"
  BY <1>2 DEF Class, ImpliedReason
<1>4. CASE confirming /\ cause.code # "BucketNotExist"
  BY <1>4 DEF CodeIsOfKind
<1>5. CASE ~(confirming /\ cause.code # "BucketNotExist")
  <2>1. Failure = cause
    BY <1>5 DEF Failure
  <2>2. cause.code \notin BucketCodes
    BY <1>1, <2>1, CallIsOne, BucketComesFirst DEF CodeIsOfKind
  <2> QED
    BY <1>3, <2>1, <2>2
<1> QED
  BY <1>4, <1>5

LEMMA StatusSaysAbsence ==
  ASSUME TypeOK, CodeIsOfKind, confirming => call.kind = "gcs", guard.refused => call.bound,
         Status.reason = "OBJECT_NOT_FOUND"
  PROVE  /\ cause.by = "store" \/ confirming
         /\ cause.code \notin BucketCodes
         /\ ~guard.refused
PROOF
<1> DEFINE e == MapErr(call.kind, Failure)
<1>1. ~guard.refused
  BY StatusSaysRefusal DEF Refused
<1>2. Tellable(e) /\ guard \in Records
  BY CallIsOne, MapErrIsTellable DEF TypeOK
<1>3. CallErr(e, Failure, guard).reason \in {e.reason, "DESTINATION_REFUSED", "RESPONSE_TOO_LARGE", "OPERATION_DEADLINE"}
  BY <1>2, CallErrIsTellable
<1>4. \A x : ToStatus(x).reason = x.reason
  BY DEF ToStatus, Refuse
<1>5. Status.reason \in {None, e.reason, CallErr(e, Failure, guard).reason}
  BY <1>4 DEF Status, Succeeded
<1>6. e.reason = "OBJECT_NOT_FOUND"
  BY <1>3, <1>5, NoneAssumption
<1> QED
  BY <1>1, <1>6, AbsenceOfBackends

-----------------------------------------------------------------------------
(* Steps, by what they take part in *)

Binds == RefuseBinding \/ Unresolved \/ (\E ips \in SUBSET IPs : Qualify(ips)) \/ OpenUnnamed

Dials ==
  \/ \E ips \in SUBSET IPs : \E tried \in SUBSET ips : \E ip \in tried : Connect(ips, tried, ip)
  \/ \E ips \in SUBSET IPs : ConnectFails(ips)
  \/ ConnectOwn

Goes == TurnToToken \/ Redirected \/ TokenGiven \/ Confirm \/ Retry

FailsAnyhow == TokenDenied \/ Declined \/ TooMuch \/ NotAnswered \/ Expire

Concludes == Answered \/ Incomplete \/ GiveUp

LEMMA NextIs == [Next]_vars => Binds \/ Dials \/ Goes \/ FailsAnyhow \/ Concludes \/ UNCHANGED vars
PROOF
  BY DEF Next, Binds, Dials, Goes, FailsAnyhow, Concludes, CallDone

LEMMA BindsAre ==
  ASSUME Binds
  PROVE  /\ stage = "new"
         /\ UNCHANGED <<call, requests, bearer, confirming, sent, reached, guard, late, cause, text>>
         /\ \/ stage' = "open" /\ told' = told
            \/ stage' = "over" /\ told'.text = {}
PROOF
<1>1. stage = "new" /\ UNCHANGED <<call, requests, bearer, confirming, sent, reached, guard, late, cause, text>>
  BY DEF Binds, RefuseBinding, Unresolved, Qualify, OpenUnnamed, NothingSent, wireVars
<1>2. CASE RefuseBinding \/ Unresolved
  BY <1>1, <1>2 DEF RefuseBinding, Unresolved, Over
<1>3. ASSUME NEW to, NEW admitted, Open(to, admitted)
      PROVE  \/ stage' = "open" /\ told' = told
             \/ stage' = "over" /\ told'.text = {}
  <2>1. CASE call.credential = "malformed" /\ Client.refusal # None
    BY <1>3, <2>1 DEF Open, Over
  <2>2. CASE ~(call.credential = "malformed" /\ Client.refusal # None)
    <3>1. IF call.op = "capabilities" THEN Over(Succeeded) ELSE stage' = "open" /\ told' = told
      BY <1>3, <2>2 DEF Open
    <3> QED
      BY <3>1 DEF Over
  <2> QED
    BY <2>1, <2>2
<1>4. ASSUME NEW ips \in SUBSET IPs, Qualify(ips)
      PROVE  \/ stage' = "open" /\ told' = told
             \/ stage' = "over" /\ told'.text = {}
  <2>1. \/ Over(DestinationRefused)
        \/ Open(call.endpoint, [authority |-> call.endpoint, addresses |-> ips])
        \/ Open(call.endpoint, admission)
    BY <1>4 DEF Qualify
  <2> QED
    BY <1>3, <2>1 DEF Over
<1>5. CASE OpenUnnamed
  <2>1. Open(Provider, admission)
    BY <1>5 DEF OpenUnnamed
  <2> QED
    BY <1>1, <1>3, <2>1
<1> QED
  BY <1>1, <1>2, <1>4, <1>5 DEF Binds

LEMMA DialsAre ==
  ASSUME TypeOK, Dials
  PROVE  /\ stage = "open" /\ stage' \in {"sent", "failed"}
         /\ UNCHANGED <<call, admission, goal, bearer, confirming, late, text, told>>
         /\ requests < MaxRequests /\ requests' = requests + 1
         /\ sent' = sent \cup Wire
         /\ guard' \in Records /\ (guard'.refused => call.bound \/ guard.refused)
         /\ cause' = cause \/ cause'.by # "store"
         /\ stage' = "failed" => cause'.by # "store"
PROOF
<1>1. ASSUME NEW ips, NEW tried, NEW ip, Connect(ips, tried, ip)
      PROVE  /\ stage = "open" /\ stage' = "sent" /\ call.bound
             /\ UNCHANGED <<call, admission, goal, bearer, confirming, late, text, told, cause>>
             /\ requests < MaxRequests /\ requests' = requests + 1
             /\ sent' = sent \cup Wire
             /\ guard' = [guard EXCEPT !.refused = @ \/ Latched(tried)]
  BY <1>1 DEF Connect, Request
<1>2. ASSUME NEW ips, ConnectFails(ips)
      PROVE  /\ stage = "open" /\ stage' = "failed" /\ call.bound
             /\ UNCHANGED <<call, admission, goal, bearer, confirming, late, text, told>>
             /\ requests < MaxRequests /\ requests' = requests + 1
             /\ sent' = sent \cup Wire
             /\ guard' = [guard EXCEPT !.refused = @ \/ Latched(ips)]
             /\ cause'.by # "store"
  BY <1>2 DEF ConnectFails, Request, TimedOut, NotSaid
<1>3. \A ips : Latched(ips) \in BOOLEAN
  BY DEF Latched
<1>4. \A ips : [guard EXCEPT !.refused = @ \/ Latched(ips)] \in Records
  BY <1>3 DEF TypeOK, Records
<1>5. CASE ConnectOwn
  BY <1>5 DEF ConnectOwn, Request, TypeOK
<1> QED
  BY <1>1, <1>2, <1>4, <1>5 DEF Dials

LEMMA GoesAre ==
  ASSUME TypeOK, Goes
  PROVE  /\ stage \in {"open", "sent", "failed"} /\ stage' = "open"
         /\ UNCHANGED <<call, admission, requests, sent, reached, guard, late, told>>
         /\ goal' \in Authorities /\ bearer' \in BOOLEAN /\ confirming' \in BOOLEAN
         /\ cause' = cause \/ cause'.by # "store"
         /\ text' = {} \/ (text' = text /\ (stage \in {"open", "sent"} \/ confirming'))
         /\ confirming \/ ~confirming'
              \/ (confirming' /\ stage = "failed" /\ call.kind = "gcs" /\ cause.by = "store")
         /\ confirming => confirming'
PROOF
<1>1. Store \in Authorities /\ Target \in Authorities
  BY CallAssumption DEF Store, Target, TypeOK
<1>2. CASE TurnToToken
  BY <1>1, <1>2 DEF TurnToToken, wireVars, TypeOK
<1>3. CASE Redirected
  BY <1>3 DEF Redirected, Asked, wireVars, TypeOK
<1>4. CASE TokenGiven
  BY <1>1, <1>4 DEF TokenGiven, Asked, TypeOK
<1>5. CASE Retry
  <2>1. cause'.by # "store"
    BY <1>5 DEF Retry, NotSaid
  <2> QED
    BY <1>1, <1>5, <2>1 DEF Retry, wireVars, TypeOK
<1>6. CASE Confirm
  <2>1. cause.by = "store" /\ call.kind = "gcs"
    BY <1>6 DEF Confirm, MustConfirm, StoreSaid
  <2> QED
    BY <1>1, <1>6, <2>1 DEF Confirm, TypeOK
<1> QED
  BY <1>2, <1>3, <1>4, <1>5, <1>6 DEF Goes

LEMMA FailsAnyhowAre ==
  ASSUME TypeOK, FailsAnyhow
  PROVE  /\ stage \in {"open", "sent", "failed"} /\ stage' = "failed"
         /\ UNCHANGED <<call, admission, goal, requests, bearer, confirming, sent, reached, told>>
         /\ late' \in BOOLEAN
         /\ guard' \in Records /\ guard'.refused = guard.refused
         /\ cause'.by = "store" => stage = "sent"
         /\ text' \in {{}, Echo}
PROOF
<1>1. CASE TokenDenied \/ NotAnswered \/ Expire
  <2>1. cause'.by # "store"
    BY <1>1 DEF TokenDenied, NotAnswered, Expire, Fails, TimedOut, NotSaid
  <2> QED
    BY <1>1, <2>1 DEF TokenDenied, NotAnswered, Expire, Fails, Asked, wireVars, TypeOK
<1>3. CASE TooMuch
  <2>1. cause'.by # "store" /\ guard' \in Records /\ guard'.refused = guard.refused
    BY <1>3 DEF TooMuch, Fails, NotSaid, TypeOK, Records
  <2> QED
    BY <1>3, <2>1 DEF TooMuch, Fails, Asked, wireVars, TypeOK
<1>2. CASE Declined
  <2>1. PICK status \in Statuses, delay \in Delays : guard' = [guard EXCEPT !.delay = DelayOf(status, delay)]
    BY <1>2 DEF Declined
  <2>2. DelayOf(status, delay) \in Nat
    BY CallAssumption DEF DelayOf, TypeOK, Records
  <2>3. guard' \in Records /\ guard'.refused = guard.refused
    BY <2>1, <2>2 DEF TypeOK, Records
  <2> QED
    BY <1>2, <2>3 DEF Declined, Fails, Asked, wireVars, TypeOK
<1> QED
  BY <1>1, <1>2, <1>3 DEF FailsAnyhow

LEMMA ConcludesAre ==
  ASSUME TypeOK, Concludes
  PROVE  /\ stage \in {"sent", "failed"} /\ stage' = "over"
         /\ UNCHANGED <<call, admission, goal, requests, bearer, confirming, sent, reached, guard, late, text>>
         /\ told'.text \in {{}, Redacted}
         /\ cause' = cause \/ (stage = "sent" /\ cause' = Good)
PROOF
<1>1. CASE Answered
  BY <1>1 DEF Answered, Asked, Over, wireVars
<1>2. CASE Incomplete \/ GiveUp
  BY <1>2 DEF Incomplete, GiveUp, Asked, Over, wireVars
<1> QED
  BY <1>1, <1>2 DEF Concludes

-----------------------------------------------------------------------------
(* The steps keep the invariant *)

LEMMA Initially == Init => IInv
PROOF
<1> SUFFICES ASSUME Init PROVE IInv
  OBVIOUS
<1>1. call \in Bindings \cup OwnCalls
  BY DEF Init
<1>2. TypeOK
  <2>1. guard \in Records
    BY DEF Init, Records
  <2>2. stage \in {"new", "open"} /\ 0 \in 0..MaxRequests
    BY CallAssumption DEF Init
  <2> QED
    BY <1>1, <2>1, <2>2, CallAssumption DEF Init, TypeOK
<1>3. Admission /\ OnlyAdmittedReached
  BY DEF Init, Admission, NothingAdmitted, OnlyAdmittedReached
<1>4. Course
  BY <1>2, CallIsOne DEF Init, Course, NothingAdmitted
<1>5. Errors /\ RefusalIsSaid
  BY DEF Init, Errors, RefusalIsSaid
<1>6. TokenIsOut /\ CodeIsOfKind
  BY NoneAssumption DEF Init, TokenIsOut, CodeIsOfKind, BucketCodes, NotSaid
<1>7. ReasonIsDocumented /\ AbsenceIsAnswered
  BY DEF Init, ReasonIsDocumented, AbsenceIsAnswered
<1> QED
  BY <1>7, <1>2, <1>3, <1>4, <1>5, <1>6 DEF IInv

LEMMA TypesKept ==
  ASSUME TypeOK, [Next]_vars
  PROVE  TypeOK'
PROOF
<1>1. ASSUME Binds PROVE TypeOK'
  <2>1. admission'.authority \in Authorities \cup {None} /\ admission'.addresses \subseteq IPs /\ goal' \in Authorities
    <3>1. CASE RefuseBinding \/ Unresolved
      BY <3>1 DEF RefuseBinding, Unresolved, TypeOK
    <3>2. ASSUME NEW ips \in SUBSET IPs, Qualify(ips)
          PROVE  admission'.authority \in Authorities \cup {None} /\ admission'.addresses \subseteq IPs /\ goal' \in Authorities
      <4>1. call.endpoint \in Authorities
        BY <3>2 DEF Qualify
      <4>2. \/ UNCHANGED <<admission, goal>>
            \/ Open(call.endpoint, [authority |-> call.endpoint, addresses |-> ips])
            \/ Open(call.endpoint, admission)
        BY <3>2 DEF Qualify
      <4> QED
        BY <4>1, <4>2 DEF Open, TypeOK
    <3>3. CASE OpenUnnamed
      BY <3>3, CallAssumption DEF OpenUnnamed, Open, TypeOK
    <3> QED
      BY <1>1, <3>1, <3>2, <3>3 DEF Binds
  <2> QED
    BY <1>1, <2>1, BindsAre DEF TypeOK
<1>2. ASSUME Dials PROVE TypeOK'
  <2>1. reached' \subseteq [to : Authorities, ip : IPs]
    BY <1>2 DEF Dials, Connect, ConnectFails, ConnectOwn, TypeOK
  <2>2. requests' \in 0..MaxRequests
    BY <1>2, DialsAre, CallAssumption DEF TypeOK
  <2> QED
    BY <1>2, <2>1, <2>2, DialsAre DEF TypeOK
<1>3. ASSUME Goes PROVE TypeOK'
  BY <1>3, GoesAre DEF TypeOK
<1>4. ASSUME FailsAnyhow PROVE TypeOK'
  BY <1>4, FailsAnyhowAre DEF TypeOK
<1>5. ASSUME Concludes PROVE TypeOK'
  BY <1>5, ConcludesAre DEF TypeOK
<1>6. CASE UNCHANGED vars
  BY <1>6 DEF vars, admitVars, wireVars, TypeOK
<1> QED
  BY <1>1, <1>2, <1>3, <1>4, <1>5, <1>6, NextIs

\* What is admitted is settled before the first request.
LEMMA AdmissionKept ==
  ASSUME IInv, [Next]_vars
  PROVE  Admission'
PROOF
<1>1. CASE Binds
  <2>1. UNCHANGED call
    BY <1>1, BindsAre
  <2>2. ASSUME NEW ips \in SUBSET IPs, Qualify(ips) PROVE Admission'
    <3>1. CASE call.endpoint \in Composed /\ \A ip \in ips : ClassOf[ip] \notin NeverAdmitted
      <4>1. \/ UNCHANGED admission
            \/ admission' = [authority |-> call.endpoint, addresses |-> ips]
        BY <2>2 DEF Qualify, Open
      <4> QED
        BY <2>1, <3>1, <4>1 DEF IInv, Admission
    <3>2. CASE ~(call.endpoint \in Composed /\ \A ip \in ips : ClassOf[ip] \notin NeverAdmitted)
      <4>1. UNCHANGED admission
        BY <2>2, <3>2 DEF Qualify, Open
      <4> QED
        BY <2>1, <4>1 DEF IInv, Admission
    <3> QED
      BY <3>1, <3>2
  <2>3. CASE RefuseBinding \/ Unresolved \/ OpenUnnamed
    BY <2>1, <2>3 DEF RefuseBinding, Unresolved, OpenUnnamed, Open, IInv, Admission
  <2> QED
    BY <1>1, <2>2, <2>3 DEF Binds
<1>2. CASE Dials \/ Goes \/ FailsAnyhow \/ Concludes \/ UNCHANGED vars
  <2>1. UNCHANGED <<call, admission>>
    BY <1>2, DialsAre, GoesAre, FailsAnyhowAre, ConcludesAre DEF IInv, vars, admitVars
  <2> QED
    BY <2>1 DEF IInv, Admission
<1> QED
  BY <1>1, <1>2, NextIs

\* So a dial that is admitted is to a public address, or to the composed endpoint.
LEMMA ReachedKept ==
  ASSUME IInv, [Next]_vars
  PROVE  OnlyAdmittedReached'
PROOF
<1>1. CASE Dials
  <2>1. UNCHANGED call
    BY <1>1, DialsAre DEF IInv
  <2>2. ASSUME NEW ips \in SUBSET IPs, NEW tried \in SUBSET ips, NEW ip \in tried, Connect(ips, tried, ip)
        PROVE  OnlyAdmittedReached'
    <3>1. reached' = reached \cup {[to |-> goal, ip |-> ip]} /\ Admits(goal, ip)
      BY <2>2 DEF Connect
    <3>2. goal # None
      BY CallAssumption DEF IInv, TypeOK
    <3>3. IsPublic(ip) \/ (goal \in Composed /\ goal = call.endpoint /\ ClassOf[ip] \notin NeverAdmitted)
      BY <3>1, <3>2 DEF Admits, IInv, Admission, NothingAdmitted
    <3> QED
      BY <2>1, <3>1, <3>3 DEF IInv, OnlyAdmittedReached, IsPublic
  <2>3. CASE (\E ips \in SUBSET IPs : ConnectFails(ips)) \/ ConnectOwn
    BY <2>1, <2>3 DEF ConnectFails, ConnectOwn, IInv, OnlyAdmittedReached, IsPublic
  <2> QED
    BY <1>1, <2>2, <2>3 DEF Dials
<1>2. CASE Binds \/ Goes \/ FailsAnyhow \/ Concludes \/ UNCHANGED vars
  <2>1. UNCHANGED <<call, reached>>
    BY <1>2, BindsAre, GoesAre, FailsAnyhowAre, ConcludesAre DEF IInv, vars, wireVars
  <2> QED
    BY <2>1 DEF IInv, OnlyAdmittedReached, IsPublic
<1> QED
  BY <1>1, <1>2, NextIs

LEMMA CourseKept ==
  ASSUME IInv, [Next]_vars
  PROVE  Course'
PROOF
<1> USE DEF IInv, Course
<1>1. CASE Binds
  BY <1>1, BindsAre
<1>2. CASE Dials
  BY <1>2, DialsAre
<1>3. CASE Goes
  BY <1>3, GoesAre
<1>4. CASE FailsAnyhow
  BY <1>4, FailsAnyhowAre
<1>5. CASE Concludes
  BY <1>5, ConcludesAre
<1>6. CASE UNCHANGED vars
  BY <1>6 DEF vars, admitVars, wireVars
<1> QED
  BY <1>1, <1>2, <1>3, <1>4, <1>5, <1>6, NextIs

\* What a call puts on the wire: of a GCS token, the token.
LEMMA WireIs ==
  ASSUME TypeOK, call.bound, call.kind = "gcs"
  PROVE  Wire = IF call.credential = "token" THEN {"token"} ELSE IF bearer THEN {"minted"} ELSE {}
PROOF
  BY DEF Wire, Client, GcsClient

LEMMA TokenKept ==
  ASSUME IInv, [Next]_vars
  PROVE  TokenIsOut'
PROOF
<1> USE DEF IInv, TokenIsOut
<1>1. CASE Binds
  BY <1>1, BindsAre
<1>2. CASE Dials
  <2>1. call.bound /\ call.kind = "gcs" /\ call.credential = "token" => "token" \in sent'
    BY <1>2, DialsAre, WireIs
  <2> QED
    BY <1>2, <2>1, DialsAre
<1>3. CASE Goes
  BY <1>3, GoesAre
<1>4. CASE FailsAnyhow
  BY <1>4, FailsAnyhowAre
<1>5. CASE Concludes
  BY <1>5, ConcludesAre
<1>6. CASE UNCHANGED vars
  BY <1>6 DEF vars, admitVars, wireVars
<1> QED
  BY <1>1, <1>2, <1>3, <1>4, <1>5, <1>6, NextIs

LEMMA ErrorsKept ==
  ASSUME IInv, [Next]_vars
  PROVE  Errors'
PROOF
<1> SUFFICES ASSUME call'.bound
             PROVE  /\ text' \subseteq Secrets' \ sent'
                    /\ stage' \in {"new", "open", "sent"} /\ ~confirming' => text' = {}
                    /\ told' # None => told'.text = {}
  BY DEF Errors
<1>1. UNCHANGED call
  BY NextIs, BindsAre, DialsAre, GoesAre, FailsAnyhowAre, ConcludesAre DEF IInv, vars
<1>2. Secrets' = Secrets /\ call.bound
  BY <1>1 DEF Secrets
<1>3. /\ text \subseteq Secrets \ sent
      /\ stage \in {"new", "open", "sent"} /\ ~confirming => text = {}
      /\ told # None => told.text = {}
      /\ stage # "over" => told = None
  BY <1>2 DEF IInv, Errors, Course
<1>4. CASE Binds
  BY <1>2, <1>3, <1>4, BindsAre
<1>5. CASE Dials
  <2>1. text \cap Wire = {}
    <3>1. CASE confirming
      <4>1. call.kind = "gcs"
        BY <3>1 DEF IInv, TokenIsOut
      <4>2. Secrets = {call.credential}
        BY <1>2, <4>1 DEF Secrets
      <4>3. CASE call.credential = "token"
        BY <1>2, <1>3, <3>1, <4>1, <4>2, <4>3 DEF IInv, TokenIsOut
      <4>4. CASE call.credential # "token"
        BY <1>2, <1>3, <4>1, <4>2, <4>4, WireIs, CallIsOne DEF IInv
      <4> QED
        BY <4>3, <4>4
    <3>2. CASE ~confirming
      BY <1>3, <1>5, <3>2, DialsAre DEF IInv
    <3> QED
      BY <3>1, <3>2
  <2> QED
    BY <1>2, <1>3, <1>5, <2>1, DialsAre DEF IInv
<1>6. CASE Goes
  BY <1>2, <1>3, <1>6, GoesAre DEF IInv
<1>7. CASE FailsAnyhow
  <2>1. Echo \subseteq Secrets \ sent
    BY <1>2 DEF Echo
  <2> QED
    BY <1>2, <1>3, <1>7, <2>1, FailsAnyhowAre DEF IInv
<1>8. CASE Concludes
  <2>1. Redacted = {}
    BY <1>2, <1>3 DEF Redacted
  <2> QED
    BY <1>2, <1>3, <1>8, <2>1, ConcludesAre DEF IInv
<1>9. CASE UNCHANGED vars
  BY <1>2, <1>3, <1>9 DEF vars, admitVars, wireVars
<1> QED
  BY <1>4, <1>5, <1>6, <1>7, <1>8, <1>9, NextIs

\* A binding is refused as a destination only when its endpoint was judged.
LEMMA BindsRefuse ==
  ASSUME TypeOK, Binds, stage' = "over", Refused(told'.status)
  PROVE  call.endpoint \in Authorities
PROOF
<1>1. CASE RefuseBinding \/ Unresolved
  BY <1>1 DEF RefuseBinding, Unresolved, Over, BindingInvalid, Refuse, Refused
<1>2. ASSUME NEW ips \in SUBSET IPs, Qualify(ips) PROVE call.endpoint \in Authorities
  BY <1>2 DEF Qualify
<1>3. CASE OpenUnnamed
  <2>1. stage = "new" /\ Open(Provider, admission)
    BY <1>3 DEF OpenUnnamed
  <2>2. CASE call.credential = "malformed" /\ Client.refusal # None
    <3>1. told'.status = Client.refusal
      BY <2>1, <2>2 DEF Open, Over
    <3>2. Client.refusal.reason \in {"INVALID_ARGUMENT", "BINDING_INVALID"}
      <4>1. Client.refusal \in {ToStatus(Plain("InvalidArgument")), BindingInvalid}
        BY <2>2, CallIsOne DEF Client, S3Client, MinioClient, AzureClient, GcsClient
      <4>2. ToStatus(Plain("InvalidArgument")).reason = "INVALID_ARGUMENT" /\ BindingInvalid.reason = "BINDING_INVALID"
        BY DEF ToStatus, Plain, Error, Refuse, ImpliedReason, BindingInvalid
      <4> QED
        BY <4>1, <4>2
    <3> QED
      BY <3>1, <3>2 DEF Refused
  <2>3. CASE ~(call.credential = "malformed" /\ Client.refusal # None)
    <3>1. IF call.op = "capabilities" THEN Over(Succeeded) ELSE stage' = "open"
      BY <2>1, <2>3 DEF Open
    <3>2. told'.status = Succeeded
      BY <3>1 DEF Over
    <3> QED
      BY <3>2, NoneAssumption DEF Succeeded, Refused
  <2> QED
    BY <2>2, <2>3
<1> QED
  BY <1>1, <1>2, <1>3 DEF Binds

LEMMA ConcludesSay ==
  ASSUME IInv, Concludes
  PROVE  /\ guard.refused /\ cause' # Good => Refused(told'.status)
         /\ Refused(told'.status) => guard.refused
PROOF
<1>1. TypeOK /\ (guard.refused => call.bound) /\ call.bound \in BOOLEAN
  BY CallIsOne DEF IInv, Course
<1>2. Refused(Status) <=> guard.refused
  BY <1>1, StatusSaysRefusal
<1>3. CASE GiveUp
  BY <1>2, <1>3 DEF GiveUp
<1>4. CASE Answered
  <2>1. cause' = Good /\ \/ told'.status = Status
                         \/ told'.status \in {Succeeded} \cup OwnRefusals
    BY <1>4 DEF Answered, Over
  <2>2. \A status \in {Succeeded} \cup OwnRefusals : ~Refused(status)
    BY NoneAssumption DEF OwnRefusals, Succeeded, Refuse, Refused
  <2> QED
    BY <1>2, <2>1, <2>2
<1>5. CASE Incomplete
  <2> DEFINE e == Error("Internal", "LISTING_INCOMPLETE")
  <2>1. e.reason = "LISTING_INCOMPLETE"
    BY DEF Error
  <2>2. cause' = Good /\ told'.status = ToStatus(IF call.bound THEN CallErr(e, Good, guard) ELSE e)
    BY <1>5 DEF Incomplete, Over
  <2>3. ToStatus(CallErr(e, Good, guard)).reason = "DESTINATION_REFUSED" => guard.refused
    BY <2>1, RefusalByGuard
  <2>4. ToStatus(e).reason = "LISTING_INCOMPLETE"
    BY <2>1 DEF ToStatus, Refuse
  <2> QED
    BY <1>1, <2>2, <2>3, <2>4 DEF Refused
<1> QED
  BY <1>3, <1>4, <1>5 DEF Concludes

LEMMA RefusalKept ==
  ASSUME IInv, [Next]_vars
  PROVE  RefusalIsSaid'
PROOF
<1>1. TypeOK /\ RefusalIsSaid /\ Course
  BY DEF IInv
<1>2. CASE Binds
  <2>1. /\ requests = 0 /\ ~guard.refused /\ told = None
        /\ UNCHANGED <<call, requests, guard>>
        /\ told' = told \/ stage' = "over"
    BY <1>1, <1>2, BindsAre DEF Course
  <2> QED
    BY <1>1, <1>2, <2>1, BindsRefuse DEF RefusalIsSaid
<1>3. CASE Dials \/ Goes \/ FailsAnyhow
  <2>1. told' = None
    BY <1>1, <1>3, DialsAre, GoesAre, FailsAnyhowAre DEF Course
  <2> QED
    BY <2>1 DEF RefusalIsSaid
<1>4. CASE Concludes
  BY <1>1, <1>4, ConcludesAre, ConcludesSay DEF RefusalIsSaid
<1>5. CASE UNCHANGED vars
  BY <1>1, <1>5 DEF vars, wireVars, RefusalIsSaid, Refused
<1> QED
  BY <1>2, <1>3, <1>4, <1>5, NextIs

\* A failure has a code only of its store's, and a good answer none.
LEMMA CodeKept ==
  ASSUME IInv, [Next]_vars
  PROVE  CodeIsOfKind'
PROOF
<1>1. CodeIsOfKind /\ TypeOK
  BY DEF IInv
<1>2. UNCHANGED call
  BY <1>1, NextIs, BindsAre, DialsAre, GoesAre, FailsAnyhowAre, ConcludesAre DEF vars
<1>3. \A by : NotSaid(by).code \notin BucketCodes
  BY NoneAssumption DEF NotSaid, BucketCodes
<1>4. CASE Declined
  <2>1. PICK status \in Statuses : \E code \in Codes(status) : cause' = StoreSaid(status, code)
    BY <1>4 DEF Declined, Fails
  <2>2. PICK code \in Codes(status) : cause' = StoreSaid(status, code)
    BY <2>1
  <2>3. cause'.by = "store" /\ cause'.code = code
    BY <2>2 DEF StoreSaid
  <2> QED
    BY <1>1, <1>2, <2>2, <2>3, CallIsOne, NoneAssumption DEF CodeIsOfKind, Codes, BucketCodes
<1>5. CASE UNCHANGED cause
  BY <1>1, <1>2, <1>5 DEF CodeIsOfKind
<1>6. CASE cause' = Good \/ \E by \in NoAnswerFrom : cause' = NotSaid(by)
  <2>1. Good.code \notin BucketCodes
    BY NoneAssumption DEF Good, StoreSaid, BucketCodes
  <2> QED
    BY <1>3, <1>6, <2>1 DEF CodeIsOfKind
<1>7. UNCHANGED cause \/ Declined \/ cause' = Good \/ \E by \in NoAnswerFrom : cause' = NotSaid(by)
  <2> USE DEF NoAnswerFrom
  <2>1. CASE Binds \/ UNCHANGED vars
    BY <2>1, BindsAre DEF vars
  <2>2. CASE Dials
    BY <2>2 DEF Dials, Connect, ConnectFails, ConnectOwn, TimedOut
  <2>3. CASE Goes
    BY <2>3 DEF Goes, TurnToToken, Redirected, TokenGiven, Confirm, Retry
  <2>4. CASE FailsAnyhow
    BY <2>4 DEF FailsAnyhow, TokenDenied, TooMuch, NotAnswered, Expire, Fails, TimedOut
  <2>5. CASE Concludes
    BY <2>5, <1>1, ConcludesAre
  <2> QED
    BY <2>1, <2>2, <2>3, <2>4, <2>5, NextIs
<1> QED
  BY <1>4, <1>5, <1>6, <1>7

\* A call that is over before its first request succeeded, or says why in a
\* documented way, and nothing of objects.
LEMMA BindsSay ==
  ASSUME TypeOK, Binds, stage' = "over"
  PROVE  /\ told'.status = Succeeded \/ Acceptable(told'.status)
         /\ told'.status.reason # "OBJECT_NOT_FOUND"
PROOF
<1> DEFINE Fine(status) == (status = Succeeded \/ Acceptable(status)) /\ status.reason # "OBJECT_NOT_FOUND"
<1>1. \A status : Over(status) => told'.status = status
  BY DEF Over
<1>2. ASSUME NEW code \in DOMAIN Documented, NEW reason \in Documented[code], reason # "OBJECT_NOT_FOUND"
      PROVE  Fine(Refuse(code, reason, 0))
  BY <1>2, RefuseIsAcceptable DEF Refuse
<1>3. /\ Fine(BindingInvalid) /\ Fine(DestinationRefused) /\ Fine(Succeeded)
      /\ Fine(ToStatus(Plain("InvalidArgument")))
      /\ \A reason \in {"ENDPOINT_UNRESOLVED", "OPERATION_DEADLINE"} : Fine(Refuse("UNAVAILABLE", reason, 0))
  <2> HIDE DEF Fine
  <2>1. Fine(BindingInvalid) /\ Fine(DestinationRefused)
    BY <1>2 DEF BindingInvalid, DestinationRefused, Documented
  <2>2. \A reason \in {"ENDPOINT_UNRESOLVED", "OPERATION_DEADLINE"} : Fine(Refuse("UNAVAILABLE", reason, 0))
    BY <1>2 DEF Documented
  <2>3. Fine(ToStatus(Plain("InvalidArgument")))
    BY <1>2 DEF Documented, ToStatus, Plain, Error, ImpliedReason, GrpcCode
  <2>4. Fine(Succeeded)
    BY NoneAssumption DEF Fine, Succeeded
  <2> QED
    BY <2>1, <2>2, <2>3, <2>4
<1> HIDE DEF Fine
<1>4. CASE RefuseBinding \/ Unresolved
  <2>1. Fine(told'.status)
    BY <1>1, <1>3, <1>4 DEF RefuseBinding, Unresolved
  <2> QED
    BY <2>1 DEF Fine
<1>5. ASSUME NEW to, NEW admitted, Open(to, admitted), stage = "new" PROVE Fine(told'.status)
  <2>1. \/ Client.refusal # None /\ Over(Client.refusal)
        \/ Over(Succeeded)
    BY <1>5 DEF Open
  <2>2. Client.refusal \in {None, BindingInvalid, ToStatus(Plain("InvalidArgument"))}
    BY CallIsOne DEF Client, S3Client, MinioClient, AzureClient, GcsClient
  <2> QED
    BY <1>1, <1>3, <2>1, <2>2
<1>6. CASE OpenUnnamed \/ \E ips \in SUBSET IPs : Qualify(ips)
  <2>1. stage = "new" /\ (Over(DestinationRefused) \/ \E to, admitted : Open(to, admitted))
    BY <1>6 DEF OpenUnnamed, Qualify
  <2>2. Fine(told'.status)
    BY <1>1, <1>3, <1>5, <2>1
  <2> QED
    BY <2>2 DEF Fine
<1> QED
  BY <1>4, <1>6 DEF Binds

\* So is one that is over after its requests.
LEMMA ConcludesAcceptably ==
  ASSUME IInv, Concludes, call.op \notin Probes
  PROVE  told'.status = Succeeded \/ Acceptable(told'.status)
PROOF
<1>1. Acceptable(Status)
  BY StatusIsAcceptable DEF IInv
<1>2. CASE GiveUp
  BY <1>1, <1>2 DEF GiveUp
<1>3. CASE Answered
  <2>1. \A status \in OwnRefusals : Acceptable(status)
    BY RefuseIsAcceptable DEF OwnRefusals, Documented
  <2> QED
    BY <1>1, <1>3, <2>1 DEF Answered, Over
<1>4. CASE Incomplete
  <2> DEFINE e == Error("Internal", "LISTING_INCOMPLETE")
  <2>1. Tellable(e)
    BY DEF Tellable, Error, GrpcCode, Documented
  <2>2. Tellable(CallErr(e, Good, guard))
    BY <2>1, CallErrIsTellable DEF IInv, TypeOK
  <2>3. told'.status = ToStatus(IF call.bound THEN CallErr(e, Good, guard) ELSE e)
    BY <1>4 DEF Incomplete, Over
  <2> QED
    BY <2>1, <2>2, <2>3, TellableIsAcceptable
<1> QED
  BY <1>2, <1>3, <1>4 DEF Concludes

LEMMA ConcludesSayAbsence ==
  ASSUME IInv, Concludes, told'.status.reason = "OBJECT_NOT_FOUND"
  PROVE  /\ cause'.by = "store" \/ confirming
         /\ cause'.code \notin BucketCodes
         /\ ~guard.refused
PROOF
<1>1. /\ TypeOK /\ CodeIsOfKind /\ (confirming => call.kind = "gcs")
      /\ (guard.refused => call.bound)
  BY DEF IInv, TokenIsOut, Course
<1>2. Good.by = "store" /\ Good.code \notin BucketCodes
  BY NoneAssumption DEF Good, StoreSaid, BucketCodes
<1>3. CASE GiveUp
  <2>1. told'.status = Status /\ cause' = cause
    BY <1>3 DEF GiveUp
  <2> QED
    BY <1>1, <2>1, StatusSaysAbsence
<1>4. CASE Answered
  <2>1. cause' = Good /\ \/ told'.status = Status
                         \/ told'.status \in {Succeeded} \cup OwnRefusals
    BY <1>4 DEF Answered, Over
  <2>2. \A status \in {Succeeded} \cup OwnRefusals : status.reason # "OBJECT_NOT_FOUND"
    BY NoneAssumption DEF OwnRefusals, Succeeded, Refuse
  <2> QED
    BY <1>1, <1>2, <2>1, <2>2, StatusSaysAbsence
<1>5. CASE Incomplete
  <2> DEFINE e == Error("Internal", "LISTING_INCOMPLETE")
  <2>1. e.reason = "LISTING_INCOMPLETE" /\ Tellable(e)
    BY DEF Tellable, Error, GrpcCode, Documented
  <2>2. CallErr(e, Good, guard).reason # "OBJECT_NOT_FOUND"
    BY <1>1, <2>1, CallErrIsTellable DEF TypeOK
  <2>3. told'.status = ToStatus(IF call.bound THEN CallErr(e, Good, guard) ELSE e)
    BY <1>5 DEF Incomplete, Over
  <2>4. \A x : ToStatus(x).reason = x.reason
    BY DEF ToStatus, Refuse
  <2> QED
    BY <2>1, <2>2, <2>3, <2>4
<1> QED
  BY <1>3, <1>4, <1>5 DEF Concludes

LEMMA SaidKept ==
  ASSUME IInv, [Next]_vars
  PROVE  ReasonIsDocumented' /\ AbsenceIsAnswered'
PROOF
<1>1. TypeOK /\ ReasonIsDocumented /\ AbsenceIsAnswered /\ Course
  BY DEF IInv
<1>2. CASE Binds
  <2>1. told = None /\ (told' = told \/ stage' = "over")
    BY <1>1, <1>2, BindsAre DEF Course
  <2>2. CASE told' = None
    BY <2>2 DEF ReasonIsDocumented, AbsenceIsAnswered
  <2>3. CASE stage' = "over"
    BY <1>1, <1>2, <2>3, BindsSay DEF ReasonIsDocumented, AbsenceIsAnswered, Acceptable, Succeeded
  <2> QED
    BY <2>1, <2>2, <2>3
<1>3. CASE Dials \/ Goes \/ FailsAnyhow
  <2>1. told' = None
    BY <1>1, <1>3, DialsAre, GoesAre, FailsAnyhowAre DEF Course
  <2> QED
    BY <2>1 DEF ReasonIsDocumented, AbsenceIsAnswered
<1>4. CASE Concludes
  <2>1. UNCHANGED <<call, confirming, guard>>
    BY <1>1, <1>4, ConcludesAre
  <2>2. ReasonIsDocumented'
    BY <1>4, <2>1, ConcludesAcceptably DEF ReasonIsDocumented, Acceptable, Succeeded
  <2>3. AbsenceIsAnswered'
    BY <1>4, <2>1, ConcludesSayAbsence DEF AbsenceIsAnswered
  <2> QED
    BY <2>2, <2>3
<1>5. CASE UNCHANGED vars
  BY <1>1, <1>5 DEF vars, wireVars, ReasonIsDocumented, AbsenceIsAnswered
<1> QED
  BY <1>2, <1>3, <1>4, <1>5, NextIs

-----------------------------------------------------------------------------
(* Theorems *)

LEMMA Invariant == Spec => []IInv
PROOF
<1>1. Init => IInv
  BY Initially
<1>2. IInv /\ [Next]_vars => IInv'
  <2> SUFFICES ASSUME IInv, [Next]_vars PROVE IInv'
    OBVIOUS
  <2>1. TypeOK'
    BY TypesKept DEF IInv
  <2> QED
    BY <2>1, AdmissionKept, ReachedKept, CourseKept, ErrorsKept, TokenKept, CodeKept, RefusalKept,
       SaidKept DEF IInv
<1> QED
  BY <1>1, <1>2, PTL DEF Spec

\* The state of a call is well typed.
THEOREM BoundCallsTypeCorrect == Spec => []TypeOK
PROOF
<1>1. IInv => TypeOK
  BY DEF IInv
<1> QED
  BY <1>1, Invariant, PTL

\* Whatever names resolve to and wherever stores and keys send their clients,
\* nothing but public addresses and the caller's own composed endpoint is reached.
THEOREM BoundCallsReachAdmitted == Spec => []OnlyAdmittedReached
PROOF
<1>1. IInv => OnlyAdmittedReached
  BY DEF IInv
<1> QED
  BY <1>1, Invariant, PTL

\* A refused dial is told, through every library and every later answer, and
\* nothing else is told as one.
THEOREM BoundCallsRefusalIsSaid == Spec => []RefusalIsSaid
PROOF
<1>1. IInv => RefusalIsSaid
  BY DEF IInv
<1> QED
  BY <1>1, Invariant, PTL

\* No credential is in what a caller is told or in what a library reads.
THEOREM BoundCallsTellNoCredential == Spec => []NoCredentialTold
PROOF
<1>1. IInv => NoCredentialTold
  BY DEF IInv, Errors, NoCredentialTold
<1> QED
  BY <1>1, Invariant, PTL

\* Whatever a store answers through whichever backend, and wherever a call fails,
\* its caller is told a code and a reason of the README's table, and a wait if it is
\* throttled, and only then.
THEOREM BoundCallsReasonIsDocumented == Spec => []ReasonIsDocumented
PROOF
<1>1. IInv => ReasonIsDocumented
  BY DEF IInv
<1> QED
  BY <1>1, Invariant, PTL

\* A caller is told that an object is not there only on a store's word, with none
\* of its bucket, and through no refused dial.
THEOREM BoundCallsAbsenceIsAnswered == Spec => []AbsenceIsAnswered
PROOF
<1>1. IInv => AbsenceIsAnswered
  BY DEF IInv
<1> QED
  BY <1>1, Invariant, PTL
=============================================================================
