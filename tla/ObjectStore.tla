---------------------------- MODULE ObjectStore ----------------------------
(***************************************************************************)
(* The conditional object store that the Backend interface of              *)
(* internal/backend/backend.go promises: whatever a call does to the       *)
(* bucket it does in one step, at a moment when its condition holds, and   *)
(* what a read delivers is one version of the object.                      *)
(*                                                                         *)
(* A call carries what is promised for its condition: "atomic", judged in  *)
(* the step of the effect; "bestEffort", judged at some moment of the      *)
(* call; "none", not judged at all.                                        *)
(***************************************************************************)
CONSTANTS
  Clients,   \* the callers
  Keys,      \* object keys
  Contents,  \* what an upload may carry
  Part,      \* the content of an upload that broke off
  Tags,      \* ETags
  None       \* no object, no call, no condition

VARIABLES
  store,     \* store[k]: the object at k, or None
  req,       \* req[c]: the call of c, or None
  promise,   \* promise[c]: what is promised for its condition
  held,      \* held[c]: the condition of a best-effort call has held
  dropped,   \* dropped[c]: the keys the batch of c deleted
  read,      \* read[c]: the object a read of c delivered, or None
  res        \* res[c]: how the call of c ended, or None

vars == <<store, req, promise, held, dropped, read, res>>

Objects == [content : Contents \cup {Part}, etag : Tags]

\* A conditional call names an ETag, or asks for an object that is not there.
Requests == [op : {"get", "put", "delete", "copy"}, key : Keys, src : Keys,
             ifMatch : Tags \cup {None}, ifAbsent : BOOLEAN, ifNoneMatch : Tags \cup {None},
             body : Contents \cup {None}, keys : {{}}]
Batches == [op : {"deleteMany"}, key : {None}, src : {None}, ifMatch : {None},
            ifAbsent : {FALSE}, ifNoneMatch : {None}, body : {None}, keys : SUBSET Keys]

Refusals == {"AlreadyExists", "PreconditionFailed", "NotFound"}

\* The condition of a call, on the object at its key.
Holds(r) ==
  LET o == store[r.key]
  IN /\ r.ifAbsent => o = None
     /\ r.ifMatch # None => o # None /\ o.etag = r.ifMatch

Promised(c) ==
  CASE promise[c] = "atomic"     -> Holds(req[c])
    [] promise[c] = "bestEffort" -> held[c]
    [] promise[c] = "none"       -> TRUE

Active(c) == req[c] # None /\ res[c] = None

Ends(c, code) ==
  /\ res' = [res EXCEPT ![c] = code]
  /\ held' = [held EXCEPT ![c] = FALSE]

Init ==
  /\ store = [k \in Keys |-> None]
  /\ req = [c \in Clients |-> None]
  /\ promise = [c \in Clients |-> "none"]
  /\ held = [c \in Clients |-> FALSE]
  /\ dropped = [c \in Clients |-> {}]
  /\ read = [c \in Clients |-> None]
  /\ res = [c \in Clients |-> None]

Begin(c) ==
  /\ req[c] = None
  /\ \E r \in Requests \cup Batches : req' = [req EXCEPT ![c] = r]
  /\ \E p \in {"atomic", "bestEffort", "none"} : promise' = [promise EXCEPT ![c] = p]
  /\ UNCHANGED <<store, held, dropped, read, res>>

\* The condition of a best-effort call holds now.
Observe(c) ==
  /\ Active(c)
  /\ promise[c] = "bestEffort"
  /\ Holds(req[c])
  /\ held' = [held EXCEPT ![c] = TRUE]
  /\ UNCHANGED <<store, req, promise, dropped, read, res>>

\* A write takes effect; its answer may be lost.
Write(c) ==
  /\ Active(c)
  /\ Promised(c)
  /\ LET r == req[c] IN
     \/ /\ r.op = "put"
        /\ \E t \in Tags :
             store' = [store EXCEPT ![r.key] = [content |-> r.body, etag |-> t]]
     \/ /\ r.op = "copy"
        /\ store[r.src] # None
        /\ \E t \in Tags :
             store' = [store EXCEPT ![r.key] = [content |-> store[r.src].content, etag |-> t]]
     \/ /\ r.op = "delete"
        /\ store' = [store EXCEPT ![r.key] = None]
  /\ \E code \in {"ok", "failed"} : Ends(c, code)
  /\ UNCHANGED <<req, promise, dropped, read>>

\* An upload breaks off, and what was sent of it is stored all the same.
Tear(c) ==
  /\ Active(c)
  /\ req[c].op = "put"
  /\ Promised(c)
  /\ \E t \in Tags : store' = [store EXCEPT ![req[c].key] = [content |-> Part, etag |-> t]]
  /\ Ends(c, "failed")
  /\ UNCHANGED <<req, promise, dropped, read>>

\* A delete of an object that is not there succeeds.
Nothing(c) ==
  /\ Active(c)
  /\ req[c].op = "delete"
  /\ store[req[c].key] = None
  /\ Ends(c, "ok")
  /\ UNCHANGED <<store, req, promise, dropped, read>>

\* A read delivers the object, or says that it is the one the caller has.
Read(c) ==
  /\ Active(c)
  /\ req[c].op = "get"
  /\ Holds(req[c])
  /\ store[req[c].key] # None
  /\ \/ /\ store[req[c].key].etag # req[c].ifNoneMatch
        /\ read' = [read EXCEPT ![c] = store[req[c].key]]
        /\ Ends(c, "ok")
     \/ /\ store[req[c].key].etag = req[c].ifNoneMatch
        /\ read' = read
        /\ Ends(c, "NotModified")
  /\ UNCHANGED <<store, req, promise, dropped>>

\* A batch deletes some of its keys; it names as deleted only what it deleted.
Drop(c) ==
  /\ Active(c)
  /\ req[c].op = "deleteMany"
  /\ \E gone \in SUBSET req[c].keys :
       /\ store' = [k \in Keys |-> IF k \in gone THEN None ELSE store[k]]
       /\ dropped' \in [Clients -> SUBSET Keys]
       /\ \A d \in Clients \ {c} : dropped'[d] = dropped[d]
       /\ dropped[c] \subseteq dropped'[c]
       /\ dropped'[c] \subseteq dropped[c] \cup gone
  /\ UNCHANGED <<req, promise, held, read, res>>

\* A call is refused when its condition, or the object it needs, is not there.  A
\* best-effort read may be refused because the object changed under it.
Refuse(c) ==
  /\ Active(c)
  /\ req[c].op # "deleteMany"
  /\ \/ ~Holds(req[c])
     \/ req[c].op = "get" /\ (store[req[c].key] = None \/ held[c])
     \/ req[c].op = "copy" /\ store[req[c].src] = None
  /\ \E code \in Refusals : Ends(c, code)
  /\ UNCHANGED <<store, req, promise, dropped, read>>

\* A call fails, without effect; a batch ends.
Fail(c) ==
  /\ Active(c)
  /\ \E code \in {"failed", "ok"} :
       /\ code = "ok" => req[c].op = "deleteMany"
       /\ Ends(c, code)
  /\ UNCHANGED <<store, req, promise, dropped, read>>

\* The caller has the answer.
Return(c) ==
  /\ req[c] # None
  /\ res[c] # None
  /\ req' = [req EXCEPT ![c] = None]
  /\ promise' = [promise EXCEPT ![c] = "none"]
  /\ dropped' = [dropped EXCEPT ![c] = {}]
  /\ read' = [read EXCEPT ![c] = None]
  /\ res' = [res EXCEPT ![c] = None]
  /\ UNCHANGED <<store, held>>

Next ==
  \E c \in Clients :
    \/ Begin(c)
    \/ Observe(c)
    \/ Write(c)
    \/ Tear(c)
    \/ Nothing(c)
    \/ Read(c)
    \/ Drop(c)
    \/ Refuse(c)
    \/ Fail(c)
    \/ Return(c)

Spec == Init /\ [][Next]_vars
=============================================================================
