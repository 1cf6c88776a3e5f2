----------------------------- MODULE Backends -----------------------------
(***************************************************************************)
(* The five backends of src/internal/backend as they reach one bucket:     *)
(* memory, MinIO, S3, Google Cloud Storage and Azure Blob.  They differ in *)
(* what an ETag is, in which calls look at the object in a request of      *)
(* their own before they act on it, in which condition the acting request  *)
(* carries, and in what becomes of an upload that breaks off.              *)
(*                                                                         *)
(* Clients stand for any users of the bucket, of one gateway or several.   *)
(* One request to the provider is one step.  Version ids, ranges and       *)
(* if-modified-since are left out, and so are the repetitions of a request *)
(* inside the client libraries.                                            *)
(***************************************************************************)
EXTENDS Naturals, FiniteSets

CONSTANTS
  Clients, Keys, Contents,
  Part,      \* what is stored of an upload that broke off
  None,
  Kinds,     \* the backends to choose from
  BatchMax,  \* keys of one delete request
  MaxMade    \* bound on the versions made

ASSUME KindsAssumption == Kinds \subseteq {"mem", "minio", "s3", "gcs", "azure"}
ASSUME BoundsAssumption == BatchMax \in Nat \ {0} /\ MaxMade \in Nat
Operations == {"get", "put", "delete", "copy", "deleteMany"}

\* How a call ends: with its answer, with an error, or with one of the refusals.
Outcomes == {"ok", "failed", "NotModified", "AlreadyExists", "PreconditionFailed", "NotFound"}

\* None is neither a content or number, nor an outcome, nor an object, nor a call.
ASSUME NoneAssumption ==
  /\ Part \notin Contents
  /\ None \notin Contents \cup {Part} \cup Nat
  /\ None \notin Outcomes
  /\ None \notin [content : Contents \cup {Part}, etag : Contents \cup {Part} \cup Nat]
  /\ None \notin [op : Operations, key : Keys \cup {None}, src : Keys \cup {None},
                  ifMatch : Contents \cup Nat \cup {None}, ifAbsent : BOOLEAN,
                  ifNoneMatch : Contents \cup Nat \cup {None},
                  body : Contents \cup {None}, keys : SUBSET Keys]

VARIABLES
  kind,      \* the backend the gateway is configured with
  store,     \* store[k]: the object at k, or None
  made,      \* versions made: what a generation counts
  req,       \* req[c]: the call of c, or None
  phase,     \* phase[c]: idle, look (it asks before it acts), act, done
  seen,      \* seen[c]: the ETag a look found, or None
  left,      \* left[c]: the keys a batch has yet to delete
  dropped,   \* dropped[c]: the keys a batch reports as deleted
  read,      \* read[c]: the object a read delivers, or None
  res        \* res[c]: how the call ended, or None

callVars == <<req, phase, seen, left, dropped, read, res>>
vars == <<kind, store, made, callVars>>

-----------------------------------------------------------------------------
(* Objects and calls *)

\* Memory, MinIO and S3 hash the content; Google Cloud Storage and Azure number
\* the versions.
ByContent == {"mem", "minio", "s3"}

Tags == Contents \cup {Part} \cup 1..MaxMade

\* The ETags the callers know, stale ones included.
Known == IF kind \in ByContent THEN Contents ELSE 1..made

\* A new version of an object.
Object(content) == [content |-> content, etag |-> IF kind \in ByContent THEN content ELSE made + 1]

\* A call names one condition at most.
Single == [op : {"get", "put", "delete", "copy"}, key : Keys, src : Keys,
           ifMatch : Known \cup {None}, ifAbsent : BOOLEAN, ifNoneMatch : Known \cup {None},
           body : Contents \cup {None}, keys : {{}}]
Calls ==
  {r \in Single :
     /\ r.op # "copy" => r.src = r.key
     /\ r.ifAbsent => r.op \in {"put", "copy"} /\ r.ifMatch = None
     /\ r.ifMatch # None => r.op # "copy" /\ r.ifNoneMatch = None
     /\ r.ifNoneMatch # None => r.op = "get"
     /\ r.body = None <=> r.op # "put"}
Batches == [op : {"deleteMany"}, key : {None}, src : {None}, ifMatch : {None},
            ifAbsent : {FALSE}, ifNoneMatch : {None}, body : {None}, keys : SUBSET Keys]

\* The flag of Capabilities: is a copy's condition on its destination honoured?
ConditionalCopy == kind \notin {"minio", "s3"}

\* Google Cloud Storage has no condition on ETags, and MinIO none on a delete or
\* on the destination of a copy: they ask about the object first.
LooksFirst(r) ==
  \/ kind = "gcs" /\ (r.op = "get" \/ r.ifMatch # None)
  \/ kind = "minio" /\ r.op = "delete" /\ r.ifMatch # None
  \/ kind = "minio" /\ r.op = "copy" /\ r.ifAbsent

Init ==
  /\ kind \in Kinds
  /\ store = [k \in Keys |-> None]
  /\ made = 0
  /\ req = [c \in Clients |-> None]
  /\ phase = [c \in Clients |-> "idle"]
  /\ seen = [c \in Clients |-> None]
  /\ left = [c \in Clients |-> {}]
  /\ dropped = [c \in Clients |-> {}]
  /\ read = [c \in Clients |-> None]
  /\ res = [c \in Clients |-> None]

Writes(r) == r.op \in {"put", "copy"}

Unfinished == {c \in Clients : phase[c] \in {"look", "act"} /\ Writes(req[c])}

Begin(c) ==
  /\ phase[c] = "idle"
  /\ \E r \in Calls \cup Batches :
       /\ Writes(r) => made + Cardinality(Unfinished) < MaxMade
       /\ req' = [req EXCEPT ![c] = r]
       /\ phase' = [phase EXCEPT ![c] = IF LooksFirst(r) THEN "look" ELSE "act"]
       /\ left' = [left EXCEPT ![c] = r.keys]
  /\ UNCHANGED <<kind, store, made, seen, dropped, read, res>>

Ends(c, code) ==
  /\ res' = [res EXCEPT ![c] = code]
  /\ phase' = [phase EXCEPT ![c] = "done"]

-----------------------------------------------------------------------------
(* The request that asks about the object first *)

Looking(c) == phase[c] = "look"

Matches(r, o) == r.ifMatch \in {None, o.etag}

\* Attrs, and the judgement of the call's conditions on them.
LookGcs(c) ==
  LET r == req[c]
      o == store[r.key]
  IN /\ Looking(c)
     /\ kind = "gcs"
     /\ \/ /\ o = None
           /\ Ends(c, IF r.op = "delete" THEN "ok" ELSE "NotFound")
           /\ seen' = seen
        \/ /\ o # None
           /\ o.etag = r.ifNoneMatch
           /\ Ends(c, "NotModified")
           /\ seen' = seen
        \/ /\ o # None
           /\ ~Matches(r, o)
           /\ Ends(c, "PreconditionFailed")
           /\ seen' = seen
        \/ /\ o # None
           /\ Matches(r, o)
           /\ o.etag # r.ifNoneMatch
           /\ seen' = [seen EXCEPT ![c] = o.etag]
           /\ phase' = [phase EXCEPT ![c] = "act"]
           /\ res' = res
     /\ UNCHANGED <<kind, store, made, req, left, dropped, read>>

\* StatObject of MinIO: the call goes on, or ends with this code.
Judged(c, asWanted, code) ==
  /\ \/ /\ asWanted
        /\ phase' = [phase EXCEPT ![c] = "act"]
        /\ res' = res
     \/ /\ ~asWanted
        /\ Ends(c, code)
  /\ UNCHANGED <<kind, store, made, req, seen, left, dropped, read>>

\* Before a conditional delete.
LookForDelete(c) ==
  LET o == store[req[c].key]
  IN /\ Looking(c)
     /\ kind = "minio" /\ req[c].op = "delete"
     /\ Judged(c, o # None /\ Matches(req[c], o), "PreconditionFailed")

\* At the destination of a copy.
LookForCopy(c) ==
  /\ Looking(c)
  /\ kind = "minio" /\ req[c].op = "copy"
  /\ Judged(c, store[req[c].key] = None, "AlreadyExists")

-----------------------------------------------------------------------------
(* The request that acts *)

Acting(c, op) == phase[c] = "act" /\ req[c].op = op

\* Mutant: the reader of Google Cloud Storage is not pinned to the generation.
AsksTagUnpinned(c) ==
  IF kind = "minio" /\ req[c].op = "delete" THEN None ELSE req[c].ifMatch

\* The conditions the request carries.
AsksAbsent(c) == req[c].ifAbsent /\ (req[c].op = "copy" => ConditionalCopy)
AsksTag(c) ==
  IF kind = "gcs" THEN seen[c]
  ELSE IF kind = "minio" /\ req[c].op = "delete" THEN None
  ELSE req[c].ifMatch

Met(c) ==
  LET o == store[req[c].key]
  IN /\ AsksAbsent(c) => o = None
     /\ AsksTag(c) # None => o # None /\ o.etag = AsksTag(c)

\* What a caller hears of a write that took effect: the answer may be lost.
Answers == IF kind = "mem" THEN {"ok"} ELSE {"ok", "failed"}

Stores(k, o) ==
  /\ made < MaxMade
  /\ made' = made + 1
  /\ store' = [store EXCEPT ![k] = o]

Put(c) ==
  /\ Acting(c, "put")
  /\ Met(c)
  /\ Stores(req[c].key, Object(req[c].body))
  /\ \E code \in Answers : Ends(c, code)
  /\ UNCHANGED <<kind, req, seen, left, dropped, read>>

\* The source of the upload fails (a message over the size limit) and io.Copy
\* with it: Close finalizes what the writer was sent.
PutPart(c) ==
  /\ Acting(c, "put")
  /\ kind = "gcs"
  /\ Met(c)
  /\ Stores(req[c].key, Object(Part))
  /\ Ends(c, "failed")
  /\ UNCHANGED <<kind, req, seen, left, dropped, read>>

Copy(c) ==
  /\ Acting(c, "copy")
  /\ Met(c)
  /\ store[req[c].src] # None
  /\ Stores(req[c].key, Object(store[req[c].src].content))
  /\ \E code \in Answers : Ends(c, code)
  /\ UNCHANGED <<kind, req, seen, left, dropped, read>>

\* Unless it is conditional, a delete of nothing succeeds.
Delete(c) ==
  /\ Acting(c, "delete")
  /\ Met(c)
  /\ store' = [store EXCEPT ![req[c].key] = None]
  /\ \E code \in Answers : Ends(c, code)
  /\ UNCHANGED <<kind, made, req, seen, left, dropped, read>>

\* On Google Cloud Storage a conditional delete of nothing may succeed too.
DeleteGone(c) ==
  /\ Acting(c, "delete")
  /\ kind = "gcs"
  /\ store[req[c].key] = None
  /\ Ends(c, "ok")
  /\ UNCHANGED <<kind, store, made, req, seen, left, dropped, read>>

\* Google Cloud Storage answers with the attributes of the look and the bytes
\* of the reader.
Get(c) ==
  LET o == store[req[c].key]
  IN /\ Acting(c, "get")
     /\ Met(c)
     /\ o # None
     /\ \/ /\ kind # "gcs"
           /\ o.etag = req[c].ifNoneMatch
           /\ Ends(c, "NotModified")
           /\ read' = read
        \/ /\ kind = "gcs" \/ o.etag # req[c].ifNoneMatch
           /\ Ends(c, "ok")
           /\ read' = [read EXCEPT ![c] =
                [content |-> o.content, etag |-> IF kind = "gcs" THEN seen[c] ELSE o.etag]]
     /\ UNCHANGED <<kind, store, made, req, seen, left, dropped>>

\* The codes a refusal may carry.
Codes(c) ==
  LET r == req[c]
      o == store[r.key]
  IN CASE r.ifAbsent /\ o # None /\ r.op = "put" ->
            IF kind = "minio" THEN {"PreconditionFailed"} ELSE {"AlreadyExists"}
       [] r.ifAbsent /\ o # None /\ r.op = "copy" ->
            IF kind = "gcs" THEN {"PreconditionFailed", "NotFound"} ELSE {"AlreadyExists", "NotFound"}
       [] r.op = "copy" -> {"NotFound"}
       [] o # None -> {"PreconditionFailed"}
       [] r.op = "get" /\ kind # "gcs" -> {"NotFound"}
       [] kind = "mem" -> {"PreconditionFailed"}
       [] OTHER -> {"PreconditionFailed", "NotFound"}

Refused(c) ==
  /\ phase[c] = "act"
  /\ req[c].op # "deleteMany"
  /\ \/ ~Met(c)
     \/ req[c].op = "get" /\ store[req[c].key] = None
     \/ req[c].op = "copy" /\ store[req[c].src] = None
  /\ \E code \in Codes(c) : Ends(c, code)
  /\ UNCHANGED <<kind, store, made, req, seen, left, dropped, read>>

\* The provider does not answer, or the upload breaks off.
Fail(c) ==
  /\ phase[c] \in {"look", "act"}
  /\ req[c].op # "deleteMany"
  /\ kind = "mem" => req[c].op = "put"
  /\ Ends(c, "failed")
  /\ UNCHANGED <<kind, store, made, req, seen, left, dropped, read>>

\* A batch goes key by key, or in requests of BatchMax keys, and reports what
\* failed: of the others it says that they are deleted.
DeleteSome(c) ==
  /\ Acting(c, "deleteMany")
  /\ \E some \in SUBSET left[c] \ {{}} :
       /\ Cardinality(some) <= IF kind \in {"minio", "s3"} THEN BatchMax ELSE 1
       /\ \E gone \in SUBSET some, fine \in SUBSET some :
            /\ fine \subseteq gone
            /\ kind = "mem" => fine = some
            /\ store' = [k \in Keys |-> IF k \in gone THEN None ELSE store[k]]
            /\ dropped' = [dropped EXCEPT ![c] = @ \cup fine]
       /\ left' = [left EXCEPT ![c] = @ \ some]
  /\ UNCHANGED <<kind, made, req, phase, seen, read, res>>

BatchEnds(c) ==
  /\ Acting(c, "deleteMany")
  /\ left[c] = {}
  /\ Ends(c, "ok")
  /\ UNCHANGED <<kind, store, made, req, seen, left, dropped, read>>

Return(c) ==
  /\ phase[c] = "done"
  /\ req' = [req EXCEPT ![c] = None]
  /\ phase' = [phase EXCEPT ![c] = "idle"]
  /\ seen' = [seen EXCEPT ![c] = None]
  /\ dropped' = [dropped EXCEPT ![c] = {}]
  /\ read' = [read EXCEPT ![c] = None]
  /\ res' = [res EXCEPT ![c] = None]
  /\ UNCHANGED <<kind, store, made, left>>

Next ==
  \E c \in Clients :
    \/ Begin(c)
    \/ LookGcs(c)
    \/ LookForDelete(c)
    \/ LookForCopy(c)
    \/ Put(c)
    \/ PutPart(c)
    \/ Copy(c)
    \/ Delete(c)
    \/ DeleteGone(c)
    \/ Get(c)
    \/ Refused(c)
    \/ Fail(c)
    \/ DeleteSome(c)
    \/ BatchEnds(c)
    \/ Return(c)

Spec == Init /\ [][Next]_vars

-----------------------------------------------------------------------------
(* Properties *)

Objects == [content : Contents \cup {Part}, etag : Tags]

\* The state is well formed.
TypeOK ==
  /\ kind \in Kinds
  /\ store \in [Keys -> Objects \cup {None}]
  /\ made \in 0..MaxMade
  /\ req \in [Clients -> Calls \cup Batches \cup {None}]
  /\ phase \in [Clients -> {"idle", "look", "act", "done"}]
  /\ seen \in [Clients -> Tags \cup {None}]
  /\ left \in [Clients -> SUBSET Keys]
  /\ dropped \in [Clients -> SUBSET Keys]
  /\ read \in [Clients -> Objects \cup {None}]
  /\ res \in [Clients -> Outcomes \cup {None}]

\* What the backend makes of a call's condition.
Promise(c) ==
  LET r == req[c]
  IN CASE r = None -> "none"
       [] r # None /\ r.op = "deleteMany" -> "none"
       [] r # None /\ r.op = "get" /\ kind = "gcs" -> "bestEffort"
       [] r # None /\ r.op = "copy" /\ r.ifAbsent /\ kind = "s3" -> "none"
       [] r # None /\ r.op = "copy" /\ r.ifAbsent /\ kind = "minio" -> "bestEffort"
       [] r # None /\ r.op = "delete" /\ r.ifMatch # None /\ kind = "minio" -> "bestEffort"
       [] OTHER -> "atomic"

\* The condition of a best-effort call has held: the look is behind it.
Held(c) == Promise(c) = "bestEffort" /\ phase[c] = "act"

Abstract == INSTANCE ObjectStore WITH
  promise <- [c \in Clients |-> Promise(c)],
  held <- [c \in Clients |-> Held(c)]

\* The backends keep the contract of ObjectStore: whatever the requests of other
\* callers do in between, a write takes effect only where its condition holds, a
\* refused call had reason and left the bucket alone, a read delivers one version,
\* and a batch reports as deleted what it deleted.
IsAnObjectStore == Abstract!Spec
=============================================================================
