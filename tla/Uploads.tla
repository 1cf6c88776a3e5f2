------------------------------- MODULE Uploads -------------------------------
(***************************************************************************)
(* One streamed upload (Server.Put): the client's messages, the handler,   *)
(* the goroutine that feeds an io.Pipe from the stream, and the backend    *)
(* that reads the pipe and stores an object.                               *)
(*                                                                         *)
(* The body is the set of the places of the data messages in the stream:   *)
(* a pipe keeps their order.  What the write does to other callers of the  *)
(* bucket is in Backends, its event in Gateway.                            *)
(***************************************************************************)
EXTENDS Integers, Sequences, FiniteSets

CONSTANTS
  Kinds,        \* the backends to choose from
  Sizes,        \* what a client may declare as total_size
  MaxMessages,  \* bound on the messages of a client
  None          \* nothing

ASSUME UploadAssumption ==
  /\ Kinds \subseteq {"mem", "s3", "gcs", "azure", "minio"}
  /\ Sizes \subseteq Int
  /\ MaxMessages \in Nat
  /\ None \notin {"OK", "error", "INVALID_ARGUMENT"}

VARIABLES
  kind,     \* the backend
  size,     \* total_size of the header
  stream,   \* the client's messages so far
  client,   \* open, ended (it half-closed the stream) or gone (it is cut off)
  received, \* how many messages the server has received
  feeder,   \* the goroutine: off, receiving, writing or over
  pipe,     \* the pipe's writer: open, eof or broken
  reader,   \* the pipe's reader: open or closed
  backend,  \* off, reading, committing, done or failed
  got,      \* what the backend has read
  stored,   \* the object it made, or None
  told      \* the status of the call, or None

params == <<kind, size>>
clientVars == <<stream, client>>
feederVars == <<received, feeder, pipe>>
backendVars == <<backend, got, stored>>
vars == <<params, clientVars, feederVars, reader, backendVars, told>>

\* A header, data, a data message without data, and one that is longer than the
\* server receives.
Messages == {"header", "data", "empty", "long"}

Body == {i \in DOMAIN stream : stream[i] \in {"data", "long"}}

Init ==
  /\ kind \in Kinds
  /\ size \in Sizes
  /\ stream = <<>> /\ client = "open"
  /\ received = 0 /\ feeder = "off" /\ pipe = "open" /\ reader = "open"
  /\ backend = "off" /\ got = {} /\ stored = None
  /\ told = None

-----------------------------------------------------------------------------
(* The client: it may stall at any point, or be cut off, by itself, its      *)
(* network, its deadline or a gateway that stops.                            *)

Client ==
  /\ client = "open"
  /\ told = None
  /\ UNCHANGED <<params, feederVars, reader, backendVars, told>>

Send(message) ==
  /\ Client
  /\ Len(stream) < MaxMessages
  /\ stream' = Append(stream, message)
  /\ UNCHANGED client

HalfClose == Client /\ client' = "ended" /\ UNCHANGED stream

CutOff ==
  /\ client # "gone"
  /\ told = None
  /\ client' = "gone"
  /\ UNCHANGED <<params, stream, feederVars, reader, backendVars, told>>

-----------------------------------------------------------------------------
(* The handler *)

\* Nothing is received of an empty stream.
FirstIs(messages) == stream # <<>> /\ stream[1] \in messages

StartPut ==
  /\ backend = "off" /\ told = None
  /\ FirstIs({"header"})
  /\ received' = 1
  /\ feeder' = "receiving"
  /\ backend' = "reading"
  /\ UNCHANGED <<params, clientVars, pipe, reader, got, stored, told>>

\* Anything else, the end of the stream and a broken one included.
RefusePut ==
  /\ backend = "off" /\ told = None
  /\ FirstIs(Messages \ {"header"}) \/ client = "gone" \/ (client = "ended" /\ stream = <<>>)
  /\ told' = "INVALID_ARGUMENT"
  /\ UNCHANGED <<params, clientVars, feederVars, reader, backendVars>>

\* Mutant: the pipe is left to itself.
FailOpen ==
  /\ backend = "failed" /\ told = None
  /\ told' = "error"
  /\ UNCHANGED <<params, clientVars, feederVars, reader, backendVars>>

\* The backend failed: whoever writes to the pipe is told.
Fail ==
  /\ backend = "failed" /\ told = None
  /\ reader' = "closed"
  /\ told' = "error"
  /\ UNCHANGED <<params, clientVars, feederVars, backendVars>>

\* Success: the event, the answer.  The pipe stays as it is.
Ack ==
  /\ backend = "done" /\ told = None
  /\ told' = "OK"
  /\ UNCHANGED <<params, clientVars, feederVars, reader, backendVars>>

-----------------------------------------------------------------------------
(* The feeder *)

FeederStep(state, writer) ==
  /\ feeder' = state
  /\ pipe' = writer
  /\ UNCHANGED <<params, clientVars, reader, backendVars, told>>

\* Only data goes into the pipe: empty messages and later headers do not.
Receive ==
  /\ feeder = "receiving"
  /\ received < Len(stream)
  /\ stream[received + 1] # "long"
  /\ received' = received + 1
  /\ FeederStep(IF stream[received + 1] = "data" THEN "writing" ELSE "receiving", pipe)

StreamEnds == client = "ended" /\ received = Len(stream)

\* Recv fails on a message that is too long, and once the client is cut off or
\* the handler has returned.
StreamBreaks ==
  \/ client = "gone"
  \/ told # None
  \/ received < Len(stream) /\ stream[received + 1] = "long"

\* Mutant: the pipe is closed as at the end of the body.
EndsQuietly ==
  /\ feeder = "receiving"
  /\ StreamEnds \/ StreamBreaks
  /\ FeederStep("over", "eof")
  /\ UNCHANGED received

\* Mutant: the goroutine returns on an error.
EndsAbruptly ==
  /\ feeder = "receiving"
  /\ \/ StreamEnds /\ FeederStep("over", "eof")
     \/ StreamBreaks /\ FeederStep("over", "open")
  /\ UNCHANGED received

\* The pipe is closed with what ended the stream.
FeederEnds ==
  /\ feeder = "receiving"
  /\ \/ StreamEnds /\ FeederStep("over", "eof")
     \/ StreamBreaks /\ FeederStep("over", "broken")
  /\ UNCHANGED received

WriteFails ==
  /\ feeder = "writing"
  /\ reader = "closed"
  /\ FeederStep("over", "broken")
  /\ UNCHANGED received

-----------------------------------------------------------------------------
(* The backends *)

\* minio-go takes a size that is not negative for the length of its request.
Exact == kind = "minio" /\ size >= 0

HasAll == Exact /\ Cardinality(got) = size

BackendStep(state, object) ==
  /\ backend' = state
  /\ stored' = object
  /\ UNCHANGED <<params, clientVars, reader, told>>

Read ==
  /\ backend = "reading"
  /\ feeder = "writing"
  /\ ~HasAll
  /\ got' = got \cup {received}
  /\ feeder' = "receiving"
  /\ BackendStep("reading", stored)
  /\ UNCHANGED <<received, pipe>>

BodyIsRead == backend = "reading" /\ UNCHANGED <<got, feederVars>>

\* The end of the pipe; of a body of declared length, its last byte.
ReadAll ==
  /\ BodyIsRead
  /\ IF Exact THEN HasAll ELSE pipe = "eof"
  /\ BackendStep("committing", stored)

\* A body shorter than declared.
ReadShort ==
  /\ BodyIsRead
  /\ pipe = "eof"
  /\ Exact /\ ~HasAll
  /\ BackendStep("failed", stored)

\* A body longer than declared: the transport may notice, after it has sent as
\* much as it said it would.
ReadLonger ==
  /\ BodyIsRead
  /\ HasAll /\ size > 0
  /\ feeder = "writing"
  /\ \E object \in {stored, got} : BackendStep("failed", object)

\* A broken source.  Google's writer is closed all the same, which makes an
\* object of what it has, unless its context has ended.
ReadFails ==
  /\ BodyIsRead
  /\ pipe = "broken"
  /\ ~HasAll
  /\ \E object \in IF kind = "gcs" /\ client # "gone" THEN {stored, got} ELSE {stored} :
       BackendStep("failed", object)

\* A request of the upload fails, or its condition does not hold: the rest of the
\* body is not read.
StoreFails ==
  /\ BodyIsRead
  /\ kind # "mem"
  /\ BackendStep("failed", stored)

\* The whole is sent: stored, refused, or stored by an answer that is lost.
Commit ==
  /\ backend = "committing"
  /\ \/ BackendStep("done", got)
     \/ BackendStep("failed", stored)
     \/ kind # "mem" /\ BackendStep("failed", got)
  /\ UNCHANGED <<got, feederVars>>

-----------------------------------------------------------------------------
Handler == StartPut \/ RefusePut \/ Fail \/ Ack
Feeder == Receive \/ FeederEnds \/ WriteFails
Backend == Read \/ ReadAll \/ ReadShort \/ ReadFails \/ Commit

Next ==
  \/ \E message \in Messages : Send(message)
  \/ HalfClose
  \/ CutOff
  \/ StartPut
  \/ RefusePut
  \/ Fail
  \/ Ack
  \/ Receive
  \/ FeederEnds
  \/ WriteFails
  \/ Read
  \/ ReadAll
  \/ ReadShort
  \/ ReadLonger
  \/ ReadFails
  \/ StoreFails
  \/ Commit

\* The goroutines run, and a store answers.  A client owes nothing, and a store
\* need not fail.
Fairness == WF_vars(Handler) /\ WF_vars(Feeder) /\ WF_vars(Backend)

Spec == Init /\ [][Next]_vars /\ Fairness
-----------------------------------------------------------------------------
(* Properties *)

\* Types.
TypeOK ==
  /\ kind \in Kinds /\ size \in Sizes
  /\ stream \in Seq(Messages) /\ Len(stream) <= MaxMessages
  /\ client \in {"open", "ended", "gone"}
  /\ received \in 0..Len(stream)
  /\ feeder \in {"off", "receiving", "writing", "over"}
  /\ pipe \in {"open", "eof", "broken"} /\ reader \in {"open", "closed"}
  /\ backend \in {"off", "reading", "committing", "done", "failed"}
  /\ got \subseteq Body
  /\ stored = None \/ stored \subseteq Body
  /\ told \in {None, "OK", "error", "INVALID_ARGUMENT"}

\* A client that declares less than it sends, to the backend that believes it.
Understated == Exact /\ size < Cardinality(Body)

\* What is stored, whatever the caller is told, is everything its client sent:
\* not what had arrived when the stream broke, a message was refused or the
\* store failed.  Two ways to tear it are known: a Google upload whose stream
\* breaks on a message and not with its context, and a declared size too small.
StoredIsWhole ==
  stored # None =>
    \/ stored = Body
    \/ Understated
    \/ kind = "gcs" /\ backend = "failed" /\ "long" \in {stream[i] : i \in Body}

\* An acknowledged upload is stored, to the last byte the client sent.
AckedIsWhole == told = "OK" => stored = Body \/ Understated

\* storage.proto: "total_size is a hint (-1 = unknown / streaming)".
SizeIsAHint == told = "OK" /\ client = "ended" => stored = Body

\* Every call that has begun ends once its client has ended the stream or is cut
\* off: no error leaves the backend waiting at the pipe.
PutEnds == client # "open" ~> told # None

\* No goroutine is left behind: once the call is over its feeder ends, even if
\* it was writing to a pipe that nobody reads any more.
FeederIsGone == told # None ~> feeder \in {"off", "over"} \/ Understated
=============================================================================
