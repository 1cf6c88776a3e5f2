----------------------------- MODULE BoundCalls -----------------------------
(***************************************************************************)
(* One read of the gateway, from the request to the status its caller is   *)
(* told: the admission of a binding (internal/server/binding.go), the      *)
(* guard of its connections (internal/egress), the requests a provider's   *)
(* library makes, and what becomes of their failures (Refusals).           *)
(*                                                                         *)
(* A call has a guard and a backend of its own and shares nothing, so one  *)
(* call is enough.  Its binding comes from its caller, a name may resolve  *)
(* to other addresses at every dial, and a store may answer what it likes, *)
(* send its client elsewhere, say again what it was sent, or not answer.   *)
(* A call without a binding uses the gateway's own backend, and so does a  *)
(* probe.  The content of what is read is in Reads.                        *)
(***************************************************************************)
EXTENDS Refusals

CONSTANTS
  Kinds,        \* the backends to choose from
  IPs,          \* the addresses
  ClassOf,      \* ClassOf[ip]: the class of the registries it is in
  Authorities,  \* the names and ports of stores, [host, port]
  Malformed,    \* an endpoint that is not a bare origin
  Literal,      \* Literal[host]: the address a host is written as, or None
  Composed,     \* the endpoints of composed dependencies
  Provider,     \* the endpoint of a kind that is given none
  TokenHost,    \* the token endpoint a GCS key names
  Statuses,     \* what a store may answer with
  Delays,       \* and the Retry-After it may ask for
  MaxRequests   \* bound on the requests of one operation

ASSUME CallAssumption ==
  /\ Kinds \subseteq {"s3", "minio", "gcs", "azure"}
  /\ ClassOf \in [IPs -> {"public", "private", "linkLocal", "multicast", "unspecified"}]
  /\ None \notin IPs /\ {None, Malformed} \cap Authorities = {} /\ None # Malformed
  /\ \A a \in Authorities : Literal[a.host] = None \/ Literal[a.host] \in IPs
  /\ Provider \in Authorities /\ TokenHost \in Authorities
  /\ Statuses \subseteq Nat /\ Delays \subseteq Nat /\ MaxRequests \in Nat

\* ParseComposed: names, never addresses.
ASSUME ComposedAssumption ==
  Composed \subseteq {a \in Authorities : Literal[a.host] = None}

VARIABLES
  call,       \* what was asked: with or without a binding, the backend, the operation
  stage,      \* new, open, sent, failed or over
  admission,  \* what the guard admits beyond public addresses
  goal,       \* where the next request goes
  requests,   \* those made
  bearer,     \* the GCS key has been exchanged for a token
  confirming, \* a GCS bucket is being asked whether it exists
  sent,       \* the credentials put on the wire
  reached,    \* the connections made
  guard,      \* the guard's records
  late,       \* the deadline has passed
  cause,      \* what the last request ended with
  text,       \* the credentials in what a library reads of it
  told        \* the outcome of the call, or None

admitVars == <<stage, admission, goal>>
wireVars == <<requests, bearer, confirming, sent, reached>>
vars == <<call, admitVars, wireVars, guard, late, cause, text, told>>

-----------------------------------------------------------------------------
(* Calls *)

Probes == {"probeList", "probeStat"}

\* A binding names a kind, an endpoint (None for the provider's own) and a
\* credential; GCS takes a key or a token.
Bindings ==
  [bound : {TRUE}, kind : Kinds, op : {"capabilities", "stat", "get", "list"},
   endpoint : Authorities \cup {None, Malformed},
   credential : {"missing", "malformed", "key", "token"}]

OwnCalls ==
  [bound : {FALSE}, kind : Kinds, op : {"stat", "get", "list"} \cup Probes,
   endpoint : {None}, credential : {"key"}]

Init ==
  /\ call \in {c \in Bindings : c.credential = "token" => c.kind = "gcs"} \cup OwnCalls
  /\ stage = IF call.bound THEN "new" ELSE "open"
  /\ admission = [authority |-> None, addresses |-> {}]
  /\ goal = Provider
  /\ requests = 0
  /\ bearer = FALSE
  /\ confirming = FALSE
  /\ sent = {}
  /\ reached = {}
  /\ guard = [refused |-> FALSE, tooLarge |-> FALSE, delay |-> 0]
  /\ late = FALSE
  /\ cause = NotSaid("network")
  /\ text = {}
  /\ told = None

\* The call ends, with a status in the gateway's own words.
Over(status) ==
  /\ stage' = "over"
  /\ told' = [status |-> status, text |-> {}]

Succeeded == [code |-> "OK", reason |-> None, retry |-> 0]

-----------------------------------------------------------------------------
(* The binding: boundConfig, Qualify and the backend's constructor *)

IsPublic(ip) == ClassOf[ip] = "public"

\* Whatever a composed name resolves to, these are not admitted.
NeverAdmitted == {"linkLocal", "multicast", "unspecified"}

\* The addresses a host may resolve to; a literal is itself.
Resolutions(host) == IF Literal[host] # None THEN {{Literal[host]}} ELSE (SUBSET IPs) \ {{}}

\* A binding that boundConfig refuses as it is.
Unusable ==
  \/ call.kind = "minio" /\ call.endpoint = None
  \/ call.credential = "missing"

BindingInvalid == Refuse("INVALID_ARGUMENT", "BINDING_INVALID", 0)

\* What a constructor says of a malformed credential, None when it does not
\* look at it, and the credential its client puts on a request.
S3Client == [refusal |-> None, wire |-> {"signature"}]
MinioClient == [refusal |-> None, wire |-> {"signature"}]
AzureClient == [refusal |-> ToStatus(Plain("InvalidArgument")), wire |-> {"signature"}]

\* A key is of use once it has been exchanged for a token.
GcsClient ==
  [refusal |-> BindingInvalid,
   wire |-> IF call.credential = "token" THEN {"token"} ELSE IF bearer THEN {"minted"} ELSE {}]

Client ==
  CASE call.kind = "s3" -> S3Client [] call.kind = "minio" -> MinioClient
    [] call.kind = "gcs" -> GcsClient [] call.kind = "azure" -> AzureClient

DestinationRefused == Refuse("PERMISSION_DENIED", "DESTINATION_REFUSED", 0)

NothingSent == UNCHANGED <<call, wireVars, guard, late, cause, text>>

RefuseBinding ==
  /\ stage = "new"
  /\ Unusable \/ call.endpoint = Malformed
  /\ Over(BindingInvalid)
  /\ UNCHANGED <<admission, goal>>
  /\ NothingSent

Unresolved ==
  /\ stage = "new"
  /\ ~Unusable
  /\ call.endpoint \in Authorities
  /\ Literal[call.endpoint.host] = None
  /\ \E reason \in {"ENDPOINT_UNRESOLVED", "OPERATION_DEADLINE"} :
       Over(Refuse("UNAVAILABLE", reason, 0))
  /\ UNCHANGED <<admission, goal>>
  /\ NothingSent

\* backend.Open: the constructor, with the guarded client.
Open(to, admitted) ==
  /\ admission' = admitted
  /\ goal' = to
  /\ IF call.credential = "malformed" /\ Client.refusal # None
     THEN Over(Client.refusal)
     ELSE IF call.op = "capabilities" THEN Over(Succeeded)
     ELSE stage' = "open" /\ UNCHANGED told

\* An endpoint is judged before anything dials it.  A composed one is admitted
\* at the addresses it has now; any other has to be public.
Qualify(ips) ==
  /\ stage = "new"
  /\ ~Unusable
  /\ call.endpoint \in Authorities
  /\ ips \in Resolutions(call.endpoint.host)
  /\ LET composed == call.endpoint \in Composed
         refused == IF composed THEN \E ip \in ips : ClassOf[ip] \in NeverAdmitted
                                ELSE \E ip \in ips : ~IsPublic(ip)
     IN IF refused THEN Over(DestinationRefused) /\ UNCHANGED <<admission, goal>>
        ELSE IF composed
        THEN Open(call.endpoint, [authority |-> call.endpoint, addresses |-> ips])
        ELSE Open(call.endpoint, admission)
  /\ NothingSent

\* No endpoint, nothing to judge: the guard judges the provider's own.
OpenUnnamed ==
  /\ stage = "new"
  /\ ~Unusable
  /\ call.endpoint = None
  /\ Open(Provider, admission)
  /\ NothingSent

-----------------------------------------------------------------------------
(* The guard *)

Store == IF call.endpoint \in Authorities THEN call.endpoint ELSE Provider

\* A GCS key is exchanged for a token first, at the endpoint the key names.
AsksToken == call.bound /\ call.kind = "gcs" /\ call.credential = "key" /\ ~bearer

\* Mutant: the exception goes with the address, whoever is asked for.
AdmitsAnyName(to, ip) == IsPublic(ip) \/ ip \in admission.addresses

\* The judgement of one dial, by the address that is dialled.
Admits(to, ip) == IsPublic(ip) \/ (to = admission.authority /\ ip \in admission.addresses)

\* A dial tries several addresses; one that is refused is recorded for good.
Latched(tried) == \E ip \in tried : ~Admits(goal, ip)

\* The credential of a request, recorded before it goes out.
Wire == IF call.bound THEN Client.wire ELSE {"own"}

Request ==
  /\ requests' = requests + 1
  /\ sent' = sent \cup Wire
  /\ UNCHANGED <<bearer, confirming>>

Target == IF AsksToken /\ goal = Store THEN TokenHost ELSE goal

Connect(ips, tried, ip) ==
  /\ stage = "open"
  /\ call.bound
  /\ ~late
  /\ requests < MaxRequests
  /\ goal = Target
  /\ ips \in Resolutions(goal.host)
  /\ tried \subseteq ips
  /\ ip \in tried
  /\ Admits(goal, ip)
  /\ reached' = reached \cup {[to |-> goal, ip |-> ip]}
  /\ guard' = [guard EXCEPT !.refused = @ \/ Latched(tried)]
  /\ stage' = "sent"
  /\ Request
  /\ UNCHANGED <<call, admission, goal, late, cause, text, told>>

\* A dial, or a wait for the answer's headers, that times out is a deadline
\* passed to errors.Is, whatever the deadline of the call.
TimedOut == {NotSaid("network"), NotSaid("deadline")}

\* Every address is refused or fails.
ConnectFails(ips) ==
  /\ stage = "open"
  /\ call.bound
  /\ ~late
  /\ requests < MaxRequests
  /\ goal = Target
  /\ ips \in Resolutions(goal.host)
  /\ guard' = [guard EXCEPT !.refused = @ \/ Latched(ips)]
  /\ IF Latched(ips) THEN cause' = NotSaid("guard") ELSE cause' \in TimedOut
  /\ stage' = "failed"
  /\ Request
  /\ UNCHANGED <<call, admission, goal, reached, late, text, told>>

\* The gateway's own backend has the provider's ordinary client.
ConnectOwn ==
  /\ stage = "open"
  /\ ~call.bound
  /\ ~late
  /\ requests < MaxRequests
  /\ stage' = "sent"
  /\ Request
  /\ UNCHANGED <<call, admission, goal, reached, guard, late, cause, text, told>>

\* The library turns to the token endpoint.
TurnToToken ==
  /\ stage = "open"
  /\ goal # Target
  /\ goal' = Target
  /\ UNCHANGED <<call, stage, admission, wireVars, guard, late, cause, text, told>>

-----------------------------------------------------------------------------
(* What a failure is told as *)

\* What a probe of one key takes for access: the key need not be there.  S3 and
\* MinIO tell an absent key from a refusal by grant, not by fact.
ForgivenByClass == MapErr(call.kind, cause).class \in {"NotFound", "PermissionDenied"}
ForgivenByGcs == cause.code = "ObjectNotExist"
ForgivenByAzure == cause.code = "BlobNotFound"

Forgiven ==
  /\ call.op = "probeStat"
  /\ cause.by = "store"
  /\ CASE call.kind \in {"s3", "minio"} -> ForgivenByClass
       [] call.kind = "gcs" -> ForgivenByGcs
       [] call.kind = "azure" -> ForgivenByAzure

\* A GCS object that is not there is told as such unless its bucket, asked
\* afterwards, is not there either.
Failure ==
  IF confirming /\ cause.code # "BucketNotExist" THEN StoreSaid(404, "ObjectNotExist") ELSE cause

Status ==
  LET e == MapErr(call.kind, Failure)
  IN IF call.op \in Probes
     THEN IF Forgiven THEN Succeeded
          ELSE [code |-> ProbeErr(call.kind, Failure).class, reason |-> None, retry |-> 0]
     ELSE ToStatus(IF call.bound THEN CallErr(e, Failure, guard) ELSE e)

-----------------------------------------------------------------------------
(* What the store answers *)

Asked == stage = "sent" /\ ~late

\* What a store can say again: the credential it was sent, and the one it knows.
Secrets == IF ~call.bound THEN {} ELSE IF call.kind = "gcs" THEN {call.credential} ELSE {"secret"}

\* The transport takes what was sent out of an error before a library reads it.
Echo == IF call.bound THEN (sent \cup Secrets) \ sent ELSE sent

Redirected ==
  /\ Asked
  /\ call.bound
  /\ \E a \in Authorities : goal' = a
  /\ stage' = "open"
  /\ UNCHANGED <<call, admission, wireVars, guard, late, cause, text, told>>

TokenGiven ==
  /\ Asked
  /\ AsksToken
  /\ bearer' = TRUE
  /\ goal' = Store
  /\ stage' = "open"
  /\ UNCHANGED <<call, admission, requests, confirming, sent, reached, guard, late, cause, text, told>>

Fails(f) ==
  /\ stage' = "failed"
  /\ cause' = f
  /\ UNCHANGED <<call, admission, goal, wireVars, late, told>>

TokenDenied ==
  /\ Asked
  /\ AsksToken
  /\ Fails(NotSaid("token"))
  /\ text' \in {{}, Echo}
  /\ UNCHANGED guard

Good == StoreSaid(200, None)

\* The refusals the server makes of a good answer; none of them has the store's
\* words in it.
OwnRefusals ==
  IF ~call.bound THEN {}
  ELSE CASE call.op = "get"  -> {Refuse("RESOURCE_EXHAUSTED", "OBJECT_TOO_LARGE", 0)}
         [] call.op = "list" -> {Refuse("RESOURCE_EXHAUSTED", "LISTING_TOO_LONG", 0)}
         [] OTHER -> {Refuse("FAILED_PRECONDITION", "PRECONDITION_FAILED", 0)}

Answered ==
  /\ Asked
  /\ ~AsksToken
  /\ IF confirming THEN Over(Status) ELSE \E status \in {Succeeded} \cup OwnRefusals : Over(status)
  /\ cause' = Good
  /\ UNCHANGED <<call, admission, goal, wireVars, guard, late, text>>

\* A page marked truncated without a token to go on with.
Incomplete ==
  /\ Asked
  /\ call.op = "list" /\ call.kind = "s3"
  /\ Over(ToStatus(IF call.bound THEN CallErr(Error("Internal", "LISTING_INCOMPLETE"), Good, guard)
                                 ELSE Error("Internal", "LISTING_INCOMPLETE")))
  /\ cause' = Good
  /\ UNCHANGED <<call, admission, goal, wireVars, guard, late, text>>

\* The codes of a provider.  A HEAD of S3 or MinIO has no body to say one in, and
\* Google's library makes its own of a 404: of a bucket if it listed, of an
\* object otherwise.
Codes(status) ==
  CASE call.kind = "gcs" ->
         IF status # 404 THEN {None}
         ELSE IF confirming \/ call.op \in {"list", "probeList"} THEN {"BucketNotExist"} ELSE {"ObjectNotExist"}
    [] call.kind = "azure" -> {None, "ContainerNotFound", "BlobNotFound", "ConditionNotMet"}
    [] OTHER ->
         IF call.op \in {"stat", "probeStat"} THEN {None}
         ELSE {None, "NoSuchBucket", "NoSuchKey", "PreconditionFailed", "AccessDenied", "SlowDown"}

\* A Retry-After counts on a 429 or a 503, and the last one that asks for a wait.
DelayOf(status, delay) == IF status \in {429, 503} /\ delay > 0 THEN delay ELSE guard.delay

Declined ==
  /\ Asked
  /\ ~AsksToken
  /\ \E status \in Statuses, delay \in Delays :
       /\ \E code \in Codes(status) : Fails(StoreSaid(status, code))
       /\ guard' = [guard EXCEPT !.delay = DelayOf(status, delay)]
  /\ text' \in {{}, Echo}

\* A body past the bound of the guard.
TooMuch ==
  /\ Asked
  /\ call.bound
  /\ Fails(NotSaid("bound"))
  /\ guard' = [guard EXCEPT !.tooLarge = TRUE]
  /\ text' = {}

NotAnswered ==
  /\ Asked
  /\ \E f \in TimedOut : Fails(f)
  /\ text' = {}
  /\ UNCHANGED guard

\* The deadline of a bound call, the timeout of a probe, or a caller's own.
Expire ==
  /\ stage \in {"open", "sent", "failed"}
  /\ ~late
  /\ late' = TRUE
  /\ stage' = "failed"
  /\ cause' = NotSaid("deadline")
  /\ text' = {}
  /\ UNCHANGED <<call, admission, goal, wireVars, guard, told>>

\* objectErr: the bucket is asked with a listing of its own.
MustConfirm ==
  call.op = "get" /\ call.kind = "gcs" /\ cause = StoreSaid(404, "ObjectNotExist") /\ ~confirming

Confirm ==
  /\ stage = "failed"
  /\ MustConfirm
  /\ ~late
  /\ requests < MaxRequests
  /\ confirming' = TRUE
  /\ stage' = "open"
  /\ goal' = Store
  /\ UNCHANGED <<call, admission, requests, bearer, sent, reached, guard, late, cause, text, told>>

\* The libraries try again as they see fit, and forget what failed.
Retry ==
  /\ stage = "failed"
  /\ ~late
  /\ requests < MaxRequests
  /\ stage' = "open"
  /\ goal' = Store
  /\ cause' = NotSaid("network")
  /\ text' = {}
  /\ UNCHANGED <<call, admission, wireVars, guard, late, told>>

-----------------------------------------------------------------------------
(* What the caller is told *)

\* Mutant: only what went out is taken out of a message, and not the binding's
\* own fields.
RedactedWire == text \ sent

\* The policy of a bound call takes out what the guard saw go out as well.
Redacted == IF call.bound THEN text \ (sent \cup Secrets) ELSE text

\* The operation ends with its last failure.
GiveUp ==
  /\ stage = "failed"
  /\ MustConfirm => requests = MaxRequests
  /\ stage' = "over"
  /\ told' = [status |-> Status, text |-> Redacted]
  /\ UNCHANGED <<call, admission, goal, wireVars, guard, late, cause, text>>

\* The bound on the requests is the model's own.
CallDone == stage = "over" /\ UNCHANGED vars

Next ==
  \/ RefuseBinding
  \/ Unresolved
  \/ \E ips \in SUBSET IPs : Qualify(ips)
  \/ OpenUnnamed
  \/ TurnToToken
  \/ \E ips \in SUBSET IPs : \E tried \in SUBSET ips : \E ip \in tried : Connect(ips, tried, ip)
  \/ \E ips \in SUBSET IPs : ConnectFails(ips)
  \/ ConnectOwn
  \/ Redirected
  \/ TokenGiven
  \/ TokenDenied
  \/ Answered
  \/ Incomplete
  \/ Declined
  \/ TooMuch
  \/ NotAnswered
  \/ Expire
  \/ Confirm
  \/ Retry
  \/ GiveUp
  \/ CallDone

Spec == Init /\ [][Next]_vars
-----------------------------------------------------------------------------
(* Properties *)

\* Types.
TypeOK ==
  /\ call \in Bindings \cup OwnCalls
  /\ stage \in {"new", "open", "sent", "failed", "over"}
  /\ admission.authority \in Authorities \cup {None} /\ admission.addresses \subseteq IPs
  /\ goal \in Authorities
  /\ requests \in 0..MaxRequests /\ bearer \in BOOLEAN /\ confirming \in BOOLEAN /\ late \in BOOLEAN
  /\ reached \subseteq [to : Authorities, ip : IPs]
  /\ guard \in Records

\* Whatever a name resolves to from one dial to the next, and wherever a store
\* or a key sends its client, a bound call reaches public addresses, and beyond
\* them only the composed endpoint its caller named, under that name, and
\* nothing that no composition places there.
OnlyAdmittedReached ==
  \A r \in reached :
    \/ IsPublic(r.ip)
    \/ r.to \in Composed /\ r.to = call.endpoint /\ ClassOf[r.ip] \notin NeverAdmitted

Refused(status) == status.reason = "DESTINATION_REFUSED"

\* A call that fails after the guard refused a dial says so, however a library
\* reported it and whatever the store answered elsewhere; and it says so only
\* of a destination that was judged and refused.
RefusalIsSaid ==
  told # None =>
    /\ guard.refused /\ cause # Good => Refused(told.status)
    /\ Refused(told.status) =>
         guard.refused \/ (requests = 0 /\ call.endpoint \in Authorities)

\* No credential of a binding, and none made of it, is in what the caller is
\* told; and none that went out is in what a provider's library reads, and may
\* log, of an error.
NoCredentialTold ==
  call.bound =>
    /\ text \cap sent = {}
    /\ told # None => told.text = {}

\* The refusals README.md lists, by code.
Documented ==
  [PERMISSION_DENIED   |-> {"DESTINATION_REFUSED", "CREDENTIAL_REJECTED"},
   RESOURCE_EXHAUSTED  |-> {"STORE_THROTTLED", "OBJECT_TOO_LARGE", "RESPONSE_TOO_LARGE", "LISTING_TOO_LONG",
                            "WATCH_CONSUMER_BEHIND"},
   NOT_FOUND           |-> {"OBJECT_NOT_FOUND", "BUCKET_NOT_FOUND"},
   INVALID_ARGUMENT    |-> {"BINDING_INVALID", "TOO_MANY_ITEMS", "INVALID_ARGUMENT"},
   UNAVAILABLE         |-> {"OPERATION_DEADLINE", "ENDPOINT_UNRESOLVED", "STORE_UNAVAILABLE"},
   ABORTED             |-> {"BODY_SIZE_MISMATCH"},
   INTERNAL            |-> {"LISTING_INCOMPLETE", "INTERNAL"},
   FAILED_PRECONDITION |-> {"PRECONDITION_FAILED"},
   ALREADY_EXISTS      |-> {"ALREADY_EXISTS"},
   UNIMPLEMENTED       |-> {"UNSUPPORTED"}]

\* A caller acts on the reason: whatever a store answers through whichever
\* backend, and wherever the call fails, the code and the reason are a pair of
\* the documented ones, and a throttle, alone, comes with a wait.
ReasonIsDocumented ==
  told # None /\ call.op \notin Probes /\ told.status.code # "OK" =>
    /\ told.status.code \in DOMAIN Documented
    /\ told.status.reason \in Documented[told.status.code]
    /\ (told.status.reason = "STORE_THROTTLED") <=> (told.status.retry > 0)

BucketCodes == {"NoSuchBucket", "BucketNotExist", "ContainerNotFound"}

\* A caller deletes its copy of an object that is not found: it is told so only
\* when the store itself answered, with no word of the bucket, and no connection
\* of the call was refused.
AbsenceIsAnswered ==
  told # None /\ told.status.reason = "OBJECT_NOT_FOUND" =>
    /\ cause.by = "store" \/ confirming
    /\ cause.code \notin BucketCodes
    /\ ~guard.refused
=============================================================================
