------------------------------- MODULE Reads -------------------------------
(***************************************************************************)
(* The reads of internal/server: List, GetMany and Get, as one caller uses *)
(* them to copy a prefix of a bucket.  It lists the prefix page by page,   *)
(* then reads what it listed, many objects to a call at the ETags it       *)
(* listed, or one by one.  What a complete listing does not have, and what *)
(* GetMany reports as not found, the caller takes for deleted.             *)
(*                                                                         *)
(* Others write to the bucket meanwhile.  Bytes are counted, not kept.  A  *)
(* bound call names its own store, which may answer as it pleases, and has *)
(* a deadline; an unbound one reads the gateway's own bucket.  Version ids,*)
(* ranges and If-None-Match are left out, and so is a caller that stops    *)
(* receiving.                                                              *)
(***************************************************************************)
EXTENDS Listing

CONSTANTS
  Keys,       \* the keys under the prefix
  Kinds,      \* the backends to choose from
  Removable,  \* those whose bucket may be removed
  Limits,     \* the limits a caller of the gateway's own bucket asks for
  BoundLimits,\* those of a bound call
  MaxList,    \* maxBoundListLimit
  MaxItems,   \* maxGetManyItems
  Cap,        \* maxBoundObjectBytes
  Chunk,      \* chunkSize
  Sizes,      \* sizes of objects
  FirstSize,  \* the sizes of the objects there at the start
  MaxWrites,  \* bound on what others do to the bucket
  Faults,     \* "cut": an answer breaks off; "confirm": the second request of Google's does
  Lies        \* "long", "noToken": of a listing; "size": of an object

ASSUME KeysAssumption ==
  /\ Keys \subseteq Nat \ {0} /\ IsFiniteSet(Keys)
  /\ \A k \in Keys : Join(k) \in Names /\ Under(Join(k))
ASSUME ReadBounds ==
  /\ MaxList \in 1..PageMax /\ MaxItems \in Nat \ {0}
  /\ Cap \in Nat \ {0} /\ Chunk \in Nat \ {0}
  /\ Sizes \subseteq Nat /\ FirstSize \in [Names -> Sizes]
  /\ MaxWrites \in Nat /\ Limits \cup BoundLimits \subseteq Nat
ASSUME NoneAssumption == None \notin Nat \cup [tag : Nat, size : Sizes] \cup Pages

VARIABLES
  mode,      \* the backend, whether the calls are bound, what the caller asks of a listing
  bucket,    \* bucket[n]: the object of that name, or None
  gone,      \* the bucket itself is gone
  written,   \* what others have done
  stage,     \* list, read, done or failed
  status,    \* why the caller's last call failed
  page,      \* the List call under way, or None
  infos,     \* infos[k]: the ETag the call under way has of k, or None
  token,     \* the token of the last page, 0 at the start
  listed,    \* listed[k]: the ETag a page gave for k, or None
  folders,   \* the folders pages gave
  call,      \* the GetMany or Get under way, or None
  item,      \* the object it is at, or None
  late,      \* the deadline of the operation has passed
  answer,    \* answer[k]: what the caller has been told of k
  absent     \* the keys that were absent at some moment, the bucket being there

storeVars == <<bucket, gone, written, absent>>
listVars == <<page, infos, token, listed, folders>>
readVars == <<call, item, answer>>
vars == <<mode, storeVars, stage, status, listVars, late, readVars>>

-----------------------------------------------------------------------------
(* The bucket *)

Objects == [tag : Nat, size : Sizes]

Modes == [kind : Kinds, bound : BOOLEAN, delimited : BOOLEAN, limit : Limits \cup BoundLimits]

NoAnswer == [outcome |-> "none", many |-> FALSE, tag |-> None, body |-> None, size |-> 0, sent |-> 0]

Init ==
  /\ mode \in {m \in Modes : IF m.bound THEN m.kind # "mem" /\ m.limit \in BoundLimits
                                        ELSE m.limit \in Limits}
  /\ \E there \in SUBSET Keys :
       /\ bucket = [n \in Names |->
            IF n \in {Join(k) : k \in Keys \ there} THEN None ELSE [tag |-> 0, size |-> FirstSize[n]]]
       /\ absent = Keys \ there
  /\ gone = FALSE
  /\ written = 0
  /\ stage = "list"
  /\ status = "none"
  /\ page = None
  /\ infos = [k \in Keys |-> None]
  /\ token = 0
  /\ listed = [k \in Keys |-> None]
  /\ folders = {}
  /\ call = None
  /\ item = None
  /\ late = FALSE
  /\ answer = [k \in Keys |-> NoAnswer]

Standing == {n \in Names : Under(n) /\ bucket[n] # None}

\* Somebody replaces, makes or deletes an object, or removes the bucket.
Write(k) ==
  /\ written < MaxWrites
  /\ ~gone
  /\ \E s \in Sizes : bucket' = [bucket EXCEPT ![Join(k)] = [tag |-> written + 1, size |-> s]]
  /\ written' = written + 1
  /\ UNCHANGED <<mode, gone, absent, stage, status, listVars, late, readVars>>

DeleteObject(k) ==
  /\ written < MaxWrites
  /\ ~gone
  /\ bucket[Join(k)] # None
  /\ bucket' = [bucket EXCEPT ![Join(k)] = None]
  /\ absent' = absent \cup {k}
  /\ written' = written + 1
  /\ UNCHANGED <<mode, gone, stage, status, listVars, late, readVars>>

RemoveBucket ==
  /\ written < MaxWrites
  /\ mode.kind \in Removable
  /\ ~gone
  /\ gone' = TRUE
  /\ written' = written + 1
  /\ UNCHANGED <<mode, bucket, absent, stage, status, listVars, late, readVars>>

-----------------------------------------------------------------------------
(* How a call of the caller's ends *)

Fails(why) ==
  /\ stage' = "failed"
  /\ status' = why

\* Mutant: a bound call has no deadline of its own.
MayExpireNever == FALSE

\* Bound calls have deadlines, an operation's and a batch's: whichever is first.
MayExpire == mode.bound

Busy == page # None \/ item # None

Expire ==
  /\ MayExpire
  /\ Busy
  /\ ~late
  /\ late' = TRUE
  /\ UNCHANGED <<mode, storeVars, stage, status, listVars, readVars>>

\* Is the store still being waited for?  What has been read ahead needs no store.
Waiting ==
  \/ page # None
  \/ item # None /\ ~(item.at = "body" /\ item.ahead)

\* A request fails: its context has expired, or the connection breaks, which no
\* backend tells from an answer it has no class for (INTERNAL).
StoreFails ==
  /\ stage \in {"list", "read"}
  /\ Waiting
  /\ mode.kind # "mem"
  /\ late \/ "cut" \in Faults
  /\ item # None => item.at # "confirm"
  /\ Fails(IF late THEN "Unavailable" ELSE "BrokenOff")
  /\ UNCHANGED <<mode, storeVars, listVars, late, readVars>>

Answers == ~late

-----------------------------------------------------------------------------
(* List *)

\* The limit of a bound List is clamped.
ListLimit ==
  IF mode.bound /\ (mode.limit <= 0 \/ mode.limit > MaxList) THEN MaxList ELSE mode.limit

ListBegin ==
  /\ stage = "list"
  /\ page = None
  /\ page' = NewPage(token, ListLimit)
  /\ infos' = [k \in Keys |-> None]
  /\ late' = FALSE
  /\ UNCHANGED <<mode, storeVars, stage, status, token, listed, folders, readVars>>

Asks == IF mode.kind = "gcs" THEN GcsAsks(page) ELSE page.limit

\* What the store may answer.  S3 and MinIO mark a page as truncated beside the
\* token to go on with; Google's and Azure's token is the mark.
StoreAnswers ==
  LET a == Answer(Standing, mode.delimited, page.from, Asks)
  IN {[entries |-> a.entries, more |-> a.more, token |-> a.more]}
     \cup {[entries |-> LongAnswer(Standing, mode.delimited, page.from).entries, more |-> FALSE, token |-> FALSE] :
             lie \in Lies \cap (IF mode.bound THEN {"long"} ELSE {})}
     \cup {[entries |-> a.entries, more |-> a.more, token |-> FALSE] :
             lie \in Lies \cap (IF mode.bound /\ mode.kind \in {"s3", "minio"} THEN {"noToken"} ELSE {})}

\* Mutant: a truncated page without a token is the last one.
IncompleteIgnored(a) == FALSE

Incomplete(a) == a.more /\ ~a.token

PageOf(a) ==
  LET next == [entries |-> a.entries, more |-> a.token]
  IN CASE mode.kind = "minio" -> MinioPage(page, next)
       [] mode.kind = "gcs"   -> GcsPage(page, next)
       [] OTHER               -> StorePage(page, next)

\* What the call has of the objects, with those of p that are new.
Gathered(p) ==
  [k \in Keys |-> IF Join(k) \in p.entries \ page.entries THEN bucket[Join(k)].tag ELSE infos[k]]

\* The backend answers its caller, or sends another request.
TakePage(p) ==
  IF p.open
  THEN /\ page' = p
       /\ infos' = Gathered(p)
       /\ UNCHANGED <<stage, status, token, listed, folders>>
  ELSE IF mode.bound /\ Cardinality(p.entries) > p.limit
  THEN Fails("ListingTooLong") /\ UNCHANGED listVars
  ELSE /\ page' = None
       /\ token' = p.token
       /\ listed' = [k \in Keys |-> IF Join(k) \in p.entries THEN Gathered(p)[k] ELSE listed[k]]
       /\ folders' = folders \cup {Strip(f) : f \in Folders(p.entries)}
       /\ stage' = IF p.token # 0 THEN "list" ELSE IF mode.delimited THEN "done" ELSE "read"
       /\ UNCHANGED <<infos, status>>

ListMem ==
  /\ stage = "list"
  /\ page # None
  /\ mode.kind = "mem"
  /\ TakePage(MemPage(page, Standing, mode.delimited))
  /\ UNCHANGED <<mode, storeVars, late, readVars>>

ListStore ==
  /\ stage = "list"
  /\ page # None
  /\ mode.kind # "mem"
  /\ Answers
  /\ \E a \in StoreAnswers :
       IF gone THEN Fails("BucketNotFound") /\ UNCHANGED listVars
       ELSE IF Incomplete(a) THEN Fails("ListingIncomplete") /\ UNCHANGED listVars
       ELSE TakePage(PageOf(a))
  /\ UNCHANGED <<mode, storeVars, late, readVars>>

-----------------------------------------------------------------------------
(* GetMany and Get *)

Todo == {k \in Keys : listed[k] # None /\ answer[k].outcome = "none"}

\* The caller reads the next objects in one call, or the next one by itself.
CallBegin ==
  /\ stage = "read"
  /\ call = None
  /\ Todo # {}
  /\ \/ \E n \in {Cardinality(Todo), MaxItems} : call' = [rpc |-> "getMany", keys |-> First(Todo, n)]
     \/ call' = [rpc |-> "get", keys |-> First(Todo, 1)]
  /\ UNCHANGED <<mode, storeVars, stage, status, listVars, late, item, answer>>

Finished ==
  /\ stage = "read"
  /\ call = None
  /\ Todo = {}
  /\ stage' = "done"
  /\ UNCHANGED <<mode, storeVars, status, listVars, late, readVars>>

Many == call.rpc = "getMany"

\* The item it is at: they are served in the order of the request.
Key == Min(call.keys)

\* The ETag a call insists on: a Get here insists on none.
IfMatch == IF Many THEN listed[Key] ELSE None

TooMany ==
  /\ call # None
  /\ item = None
  /\ Cardinality(call.keys) > MaxItems
  /\ Fails("TooManyItems")
  /\ UNCHANGED <<mode, storeVars, listVars, late, readVars>>

\* The operation of one item begins, with a deadline of its own.
ItemBegin ==
  /\ stage = "read"
  /\ call # None
  /\ item = None
  /\ Cardinality(call.keys) <= MaxItems
  /\ item' = [at |-> "open", tag |-> None, left |-> 0, ahead |-> FALSE, lazy |-> FALSE]
  /\ late' = FALSE
  /\ UNCHANGED <<mode, storeVars, stage, status, listVars, call, answer>>

\* On to the next item; the call ends after the last one.
Proceed ==
  /\ item' = None
  /\ call' = IF call.keys = {Key} THEN None ELSE [call EXCEPT !.keys = @ \ {Key}]

\* One object's outcome: a header of GetMany, the status of a Get.
Told(outcome) ==
  /\ answer' = [answer EXCEPT ![Key].outcome = outcome]
  /\ Proceed
  /\ UNCHANGED <<stage, status>>

\* The call ends, and what the caller was told stays.
Ends(why) == Fails(why) /\ UNCHANGED readVars

\* MinIO's Get is a HEAD; the body is asked for when it is first read.
Lazy == mode.kind = "minio"

\* The header that promises a body of o, left bytes of which are to come.
Header(o, tag, size, left, ahead) ==
  /\ answer' = [answer EXCEPT ![Key] =
       [outcome |-> "OK", many |-> Many, tag |-> tag, body |-> o.tag, size |-> size, sent |-> 0]]
  /\ item' = [at |-> "body", tag |-> tag, left |-> left, ahead |-> ahead, lazy |-> Lazy /\ ~ahead]
  /\ UNCHANGED <<stage, status, call>>

TooLarge(size) == mode.bound /\ size > Cap

Stored == IF gone THEN None ELSE bucket[Join(Key)]

\* What a store may say of an object's size: nothing (0), or something else.
Declared(o) ==
  {o.size} \cup (IF mode.kind = "mem" THEN {} ELSE {0})
           \cup (IF mode.bound /\ "size" \in Lies THEN Sizes ELSE {})

\* The backend answers with an object, whose metadata has this tag.
Opened(o, tag) ==
  \E size \in Declared(o) :
    IF TooLarge(size) THEN Told("TOO_LARGE")
    ELSE IF Many /\ size <= 0
    THEN /\ item' = [item EXCEPT !.at = "learn", !.tag = tag, !.left = o.size, !.lazy = Lazy]
         /\ UNCHANGED <<stage, status, call, answer>>
    ELSE Header(o, tag, size, o.size, FALSE)

\* Mutant: a 404 is a missing object, whatever it says.
NotFoundAnyhow == Told("NOT_FOUND")

\* A 404.  S3's and Azure's GETs say in it whether the bucket is missing.  That of
\* MinIO's HEAD has no body: a header may name the bucket, or nothing does.
NotFound ==
  IF mode.kind = "gcs"
  THEN /\ item' = [item EXCEPT !.at = "confirm"]
       /\ UNCHANGED <<stage, status, call, answer>>
  ELSE \/ gone /\ Ends("BucketNotFound")
       \/ (gone => mode.kind = "minio") /\ Told("NOT_FOUND")

\* The first request for the object: Google's asks for its metadata, MinIO's is
\* the HEAD of obj.Stat(), the others' is the GET.
ItemOpen ==
  /\ stage = "read"
  /\ item # None
  /\ item.at = "open"
  /\ Answers
  /\ IF Stored = None THEN NotFound
     ELSE IF IfMatch \notin {None, Stored.tag} THEN Told("CHANGED")
     ELSE IF mode.kind = "gcs"
     THEN /\ item' = [item EXCEPT !.at = "pinned", !.tag = Stored.tag]
          /\ UNCHANGED <<stage, status, call, answer>>
     ELSE Opened(Stored, Stored.tag)
  /\ UNCHANGED <<mode, storeVars, listVars, late>>

\* Mutant: the read is not pinned to the generation its metadata had.
PinnedNot == TRUE

\* The read is pinned to the generation its metadata had.
Pinned == Stored.tag = item.tag

ItemPinned ==
  /\ stage = "read"
  /\ item # None
  /\ item.at = "pinned"
  /\ Answers
  /\ IF Stored = None THEN NotFound
     ELSE IF ~Pinned THEN Told("CHANGED")
     ELSE Opened(Stored, item.tag)
  /\ UNCHANGED <<mode, storeVars, listVars, late>>

\* Google's 404 does not say what is missing: the bucket is listed to find out.
\* When that request gets no answer, it is the object that is missing.
ItemConfirm ==
  /\ stage = "read"
  /\ item # None
  /\ item.at = "confirm"
  /\ \E broken \in {FALSE} \cup {TRUE : f \in Faults \cap {"confirm"}} :
       IF gone /\ Answers /\ ~broken THEN Ends("BucketNotFound") ELSE Told("NOT_FOUND")
  /\ UNCHANGED <<mode, storeVars, listVars, late>>

\* Somebody replaced or removed the object, or its bucket, since it was looked at.
Overtaken == Stored = None \/ Stored.tag # item.tag

\* MinIO's GET, which insists on the ETag of the HEAD.  Whatever it is refused for
\* is an error of the body: the call ends as INTERNAL.
ItemFetch ==
  /\ stage = "read"
  /\ item # None
  /\ item.lazy
  /\ Answers
  /\ IF Overtaken THEN Ends("BodyRefused")
     ELSE /\ item' = [item EXCEPT !.lazy = FALSE]
          /\ answer' = IF item.at = "body" THEN [answer EXCEPT ![Key].body = Stored.tag] ELSE answer
          /\ UNCHANGED <<stage, status, call>>
  /\ UNCHANGED <<mode, storeVars, listVars, late>>

\* Mutant: the guard's bound is the cap.
GuardTight == Cap

\* What a bound client reads of one answer; its guard refuses the rest.
Guard == Cap + 1

\* A store that gave no size: the object is read to learn it, one byte past the
\* cap at most.
ItemLearn ==
  /\ stage = "read"
  /\ item # None
  /\ item.at = "learn"
  /\ ~item.lazy
  /\ Answers
  /\ LET read == IF item.left > Cap THEN Cap + 1 ELSE item.left
     IN IF mode.bound /\ read > Guard THEN Ends("ResponseTooLarge")
        ELSE IF read > Cap THEN Told("TOO_LARGE")
        ELSE Header([tag |-> item.tag], item.tag, read, read, TRUE)
  /\ UNCHANGED <<mode, storeVars, listVars, late>>

\* Mutant: a bound Get has no cap on what it relays.
GetCapNone == Cap + Cap

GetCap == Cap

\* Mutant: a frame may run past the size its header declared.
OverrunNot(n) == FALSE

\* GetMany keeps to the size its header declared.
Overrun(n) == Many /\ n > answer[Key].size

\* One frame.  A bound Get reads through the cap; GetMany has judged the size.
Relay ==
  /\ stage = "read"
  /\ item # None
  /\ item.at = "body"
  /\ ~item.lazy
  /\ item.ahead \/ Answers
  /\ \E n \in 1..Chunk :
       LET total == answer[Key].sent + n
       IN /\ n <= item.left
          /\ IF Overrun(total) THEN Ends("Aborted")
             ELSE IF ~Many /\ mode.bound /\ total > GetCap THEN Told("TOO_LARGE")
             ELSE /\ answer' = [answer EXCEPT ![Key].sent = total]
                  /\ item' = [item EXCEPT !.left = @ - n]
                  /\ UNCHANGED <<stage, status, call>>
  /\ UNCHANGED <<mode, storeVars, listVars, late>>

Short == Many /\ answer[Key].sent # answer[Key].size

\* The body ends.
ItemEnd ==
  /\ stage = "read"
  /\ item # None
  /\ item.at = "body"
  /\ ~item.lazy
  /\ item.left = 0
  /\ item.ahead \/ Answers
  /\ IF Short THEN Ends("Aborted")
     ELSE Proceed /\ UNCHANGED <<stage, status, answer>>
  /\ UNCHANGED <<mode, storeVars, listVars, late>>

-----------------------------------------------------------------------------

Others == \E k \in Keys : Write(k) \/ DeleteObject(k)

Next ==
  \/ Others
  \/ RemoveBucket
  \/ Expire
  \/ StoreFails
  \/ ListBegin
  \/ ListMem
  \/ ListStore
  \/ CallBegin
  \/ Finished
  \/ TooMany
  \/ ItemBegin
  \/ ItemOpen
  \/ ItemPinned
  \/ ItemConfirm
  \/ ItemFetch
  \/ ItemLearn
  \/ Relay
  \/ ItemEnd

Spec == Init /\ [][Next]_vars

\* A store need not answer.  The caller goes on, time passes, and a request
\* whose deadline has passed fails; what is in memory is read and relayed.
Fairness ==
  /\ WF_vars(ListBegin \/ ListMem \/ CallBegin \/ Finished \/ TooMany \/ ItemBegin)
  /\ WF_vars(Expire)
  /\ WF_vars(late /\ (StoreFails \/ ItemConfirm))
  /\ WF_vars(item # None /\ (item.ahead \/ mode.kind = "mem")
               /\ (ItemOpen \/ ItemLearn \/ Relay \/ ItemEnd))

FairSpec == Spec /\ Fairness

-----------------------------------------------------------------------------
(* Properties *)

\* Types.
TypeOK ==
  /\ mode \in Modes
  /\ \A n \in Names : bucket[n] = None \/ bucket[n] \in Objects
  /\ gone \in BOOLEAN /\ written \in 0..MaxWrites
  /\ stage \in {"list", "read", "done", "failed"}
  /\ status \in {"none", "Unavailable", "BrokenOff", "BodyRefused", "BucketNotFound", "ListingIncomplete",
                 "ListingTooLong", "TooManyItems", "ResponseTooLarge", "Aborted"}
  /\ page = None \/ page \in Pages
  /\ token \in Nat
  /\ \A k \in Keys : listed[k] = None \/ listed[k] \in 0..written
  /\ \A f \in folders : \E k \in Keys : Join(f) = FolderOf[Join(k)]
  /\ call = None \/ call \in [rpc : {"get", "getMany"}, keys : (SUBSET Keys) \ {{}}]
  /\ item # None => call # None
  /\ late \in BOOLEAN /\ absent \subseteq Keys

\* Is k in the listing, by itself or in a folder?
Covered(k) == listed[k] # None \/ (mode.delimited /\ Strip(FolderOf[Join(k)]) \in folders)

\* An empty next_page_token on a successful page means the listing is complete:
\* whatever the pages, the tokens and the writes in between, a key that is in
\* no page was absent at some moment of the listing.
CompleteListing ==
  stage \in {"read", "done"} => \A k \in Keys : Covered(k) \/ k \in absent

\* NOT_FOUND of an object means that the object was not there, and not that the
\* bucket was not (server.go:126): the caller deletes its copy.  Only MinIO, whose
\* HEAD cannot tell (minio.go:175), may say it of a bucket that is gone.
NotFoundIsAbsence ==
  \A k \in Keys : answer[k].outcome = "NOT_FOUND" => k \in absent \/ (gone /\ mode.kind = "minio")

\* Has the caller been told, by the next header or the end of the call, that it
\* has all of k?
HasRead(k) == answer[k].outcome = "OK" /\ ~(call # None /\ Key = k)

\* A GetMany item has exactly the bytes that its header promised when the next
\* header or the end of the call arrives, and never more.
FramesAgree ==
  \A k \in Keys :
    LET a == answer[k]
    IN a.outcome = "OK" /\ a.many => a.sent <= a.size /\ (HasRead(k) => a.sent = a.size)

\* A body is of the version its header describes, and a GetMany item of the
\* version that was listed.
BodyIsOfItsHeader ==
  \A k \in Keys :
    LET a == answer[k]
    IN a.outcome = "OK" => a.tag = a.body /\ (a.many => a.tag = listed[k])

\* No call with a binding relays more of an object than the cap.
Capped == mode.bound => \A k \in Keys : answer[k].sent <= Cap

\* A call fails for what concerns the whole call, or for what a caller's own
\* store does wrong; never for one object that has changed, is gone, is over the
\* cap or comes without a size (server.go:124).  Only MinIO's fails for one object,
\* and only for one that was replaced or removed between its two requests.
FailsForCause ==
  stage = "failed" =>
    \/ status = "BucketNotFound" /\ gone
    \/ status = "Unavailable" /\ late
    \/ status = "BrokenOff" /\ "cut" \in Faults
    \/ status = "BodyRefused" /\ mode.kind = "minio" /\ Overtaken
    \/ status \in {"ListingIncomplete", "ListingTooLong", "Aborted"} /\ mode.bound
    \/ status = "TooManyItems" /\ Cardinality(call.keys) > MaxItems

\* What is bound ends although the store stalls, and so does what needs no store:
\* no listing goes round in circles.
PullEnds == mode.bound \/ mode.kind = "mem" => <>(stage \in {"done", "failed"})
=============================================================================
