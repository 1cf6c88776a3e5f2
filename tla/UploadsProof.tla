---------------------------- MODULE UploadsProof ----------------------------
(***************************************************************************)
(* Proofs about Uploads, for every number of messages, every declared size *)
(* and every subset of the backends.                                       *)
(***************************************************************************)
EXTENDS Uploads, FiniteSetTheorems, TLAPS

\* The body up to a place of the stream.
Below(n) == {i \in Body : i <= n}

HasLong == \E i \in DOMAIN stream : stream[i] = "long"

\* The backend has read a body that will not grow.
Whole == got = Body /\ client # "open"

\* While the backend reads, it has what the feeder has received but for what is
\* being written, the pipe is closed as at the end only after the end, and broken
\* only by what cannot be received or with the client.
Fed ==
  /\ told = None
  /\ feeder = "receiving" => got = Below(received)
  /\ feeder = "writing" => received \in Body /\ got = Below(received) \ {received}
  /\ feeder # "off"
  /\ feeder \in {"receiving", "writing"} => pipe = "open"
  /\ pipe = "eof" => Whole
  /\ pipe = "broken" => client = "gone" \/ HasLong

Torn == kind = "gcs" /\ backend = "failed" /\ HasLong

IInv ==
  /\ TypeOK
  /\ backend = "off" => feeder = "off" /\ received = 0 /\ pipe = "open" /\ got = {}
  /\ backend = "reading" => Fed
  /\ backend \in {"off", "reading", "committing"} => stored = None
  /\ backend \in {"committing", "done"} => Whole \/ HasAll
  /\ backend = "done" => stored = got
  /\ stored # None => stored = got /\ (Whole \/ HasAll \/ Torn)
  /\ told = "OK" => backend = "done"
  /\ reader = "closed" => backend = "failed"

-----------------------------------------------------------------------------
(* The stream only grows *)

\* A message sent is at a place of its own.
LEMMA Appended ==
  ASSUME TypeOK, NEW message \in Messages, stream' = Append(stream, message), UNCHANGED received
  PROVE  /\ stream' \in Seq(Messages)
         /\ Len(stream') = Len(stream) + 1
         /\ \A i \in 1..Len(stream) : stream'[i] = stream[i]
         /\ Body \subseteq Body'
         /\ Below(received)' = Below(received)
         /\ received \in Body => received \in Body'
         /\ HasLong => HasLong'
PROOF
<1> DEFINE n == Len(stream)
<1>1. stream \in Seq(Messages) /\ received \in 0..n /\ n \in Nat
  BY DEF TypeOK
<1>2. stream' \in Seq(Messages) /\ Len(stream') = n + 1 /\ \A i \in 1..n : stream'[i] = stream[i]
  BY <1>1
<1>3. DOMAIN stream = 1..n /\ DOMAIN stream' = 1..(n + 1)
  BY <1>1, <1>2
<1>4. Body' = {i \in 1..(n + 1) : stream'[i] \in {"data", "long"}} /\ Body = {i \in 1..n : stream[i] \in {"data", "long"}}
  BY <1>3 DEF Body
<1>5. Body \subseteq Body'
  BY <1>1, <1>2, <1>4
<1>6. Below(received)' = Below(received)
  <2>1. \A i \in 1..(n + 1) : i <= received => i \in 1..n
    BY <1>1
  <2>2. Below(received)' = {i \in Body' : i <= received} /\ Below(received) = {i \in Body : i <= received}
    BY DEF Below
  <2> QED
    BY <2>1, <2>2, <1>2, <1>4
<1>7. HasLong => HasLong'
  BY <1>2, <1>3 DEF HasLong
<1> QED
  BY <1>2, <1>5, <1>6, <1>7

\* The types hold initially and are kept by every step.
LEMMA TypesInitially == Init => TypeOK
PROOF
<1> SUFFICES ASSUME Init PROVE TypeOK
  OBVIOUS
<1>1. stream = <<>> /\ stream \in Seq(Messages) /\ Len(stream) = 0
  BY DEF Init
<1> QED
  BY <1>1, UploadAssumption DEF Init, TypeOK

LEMMA TypesKept ==
  ASSUME TypeOK, backend = "reading" => Fed, [Next]_vars
  PROVE  TypeOK'
PROOF
<1> USE UploadAssumption
<1>1. ASSUME NEW message \in Messages, Send(message) PROVE TypeOK'
  <2>1. stream' = Append(stream, message) /\ UNCHANGED received /\ Len(stream) < MaxMessages
    BY <1>1 DEF Send, Client, feederVars
  <2>2. /\ stream' \in Seq(Messages) /\ Len(stream') = Len(stream) + 1 /\ Body \subseteq Body'
    BY <2>1, Appended
  <2>3. Len(stream) \in Nat /\ received \in 0..Len(stream)
    BY DEF TypeOK
  <2>4. Len(stream') <= MaxMessages /\ received' \in 0..Len(stream')
    BY <2>1, <2>2, <2>3
  <2>5. UNCHANGED <<kind, size, client, feeder, pipe, reader, backend, got, stored, told>>
    BY <1>1 DEF Send, Client, params, feederVars, backendVars
  <2>6. got' \subseteq Body' /\ (stored' = None \/ stored' \subseteq Body')
    BY <2>2, <2>5 DEF TypeOK
  <2> QED
    BY <2>2, <2>4, <2>5, <2>6 DEF TypeOK
<1>2. ASSUME UNCHANGED stream PROVE Body' = Body /\ DOMAIN stream' = DOMAIN stream /\ Len(stream') = Len(stream)
  BY <1>2 DEF Body
<1>3. CASE HalfClose \/ CutOff
  <2>1. UNCHANGED <<kind, size, stream, received, feeder, pipe, reader, backend, got, stored, told>>
        /\ client' \in {"ended", "gone"}
    BY <1>3 DEF HalfClose, CutOff, Client, params, feederVars, backendVars
  <2> QED
    BY <2>1, <1>2 DEF TypeOK
<1>4. CASE StartPut
  <2>1. UNCHANGED <<kind, size, stream, client, pipe, reader, got, stored, told>>
        /\ received' = 1 /\ feeder' = "receiving" /\ backend' = "reading" /\ stream # <<>>
    BY <1>4 DEF StartPut, FirstIs, params, clientVars
  <2> QED
    BY <2>1, <1>2 DEF TypeOK
<1>5. CASE RefusePut \/ Fail \/ Ack
  <2>1. UNCHANGED <<kind, size, stream, client, received, feeder, pipe, backend, got, stored>>
        /\ reader' \in {reader, "closed"} /\ told' \in {"OK", "error", "INVALID_ARGUMENT"}
    BY <1>5 DEF RefusePut, Fail, Ack, params, clientVars, feederVars, backendVars
  <2> QED
    BY <2>1, <1>2 DEF TypeOK
<1>6. CASE Receive \/ FeederEnds \/ WriteFails
  <2>1. UNCHANGED <<kind, size, stream, client, reader, backend, got, stored, told>>
        /\ feeder' \in {"receiving", "writing", "over"} /\ pipe' \in {pipe, "eof", "broken"}
    BY <1>6 DEF Receive, FeederEnds, WriteFails, FeederStep, params, clientVars, backendVars
  <2>2. received' = received \/ (received < Len(stream) /\ received' = received + 1)
    BY <1>6 DEF Receive, FeederEnds, WriteFails
  <2>3. received' \in 0..Len(stream)
    BY <2>2 DEF TypeOK
  <2> QED
    BY <2>1, <2>3, <1>2 DEF TypeOK
<1>7. CASE Read
  <2>1. UNCHANGED <<kind, size, stream, client, received, pipe, reader, backend, stored, told>>
        /\ got' = got \cup {received} /\ feeder' = "receiving"
    BY <1>7 DEF Read, BackendStep, params, clientVars
  <2>2. received \in Body
    BY <1>7 DEF Read, Fed
  <2> QED
    BY <2>1, <2>2, <1>2 DEF TypeOK
<1>8. CASE ReadAll \/ ReadShort \/ ReadLonger \/ ReadFails \/ StoreFails \/ Commit
  <2>1. UNCHANGED <<kind, size, stream, client, received, feeder, pipe, reader, got, told>>
        /\ backend' \in {"committing", "done", "failed"} /\ stored' \in {stored, got}
    BY <1>8 DEF ReadAll, ReadShort, ReadLonger, ReadFails, StoreFails, Commit, BodyIsRead, BackendStep,
                params, clientVars, feederVars
  <2> QED
    BY <2>1, <1>2 DEF TypeOK
<1>9. CASE UNCHANGED vars
  BY <1>9, <1>2 DEF vars, params, clientVars, feederVars, backendVars, TypeOK
<1> QED
  BY <1>1, <1>3, <1>4, <1>5, <1>6, <1>7, <1>8, <1>9 DEF Next
-----------------------------------------------------------------------------
(* The steps *)

LEMMA Initially == Init => IInv
PROOF
<1> SUFFICES ASSUME Init PROVE IInv
  OBVIOUS
<1>1. TypeOK
  BY TypesInitially
<1>2. told # "OK"
  BY UploadAssumption DEF Init
<1> QED
  BY <1>1, <1>2 DEF Init, IInv

\* The client's steps: while it may still send, nothing has been judged whole.
LEMMA ClientKeeps ==
  ASSUME IInv, (\E message \in Messages : Send(message)) \/ HalfClose \/ CutOff
  PROVE  IInv'
PROOF
<1>1. TypeOK'
  BY TypesKept DEF IInv, Next
<1>2. UNCHANGED <<kind, size, received, feeder, pipe, reader, backend, got, stored, told>>
  BY DEF Send, HalfClose, CutOff, Client, params, feederVars, backendVars
<1>3. CASE \E message \in Messages : Send(message)
  <2>1. PICK message \in Messages : Send(message)
    BY <1>3
  <2>2. client = "open" /\ UNCHANGED client /\ stream' = Append(stream, message)
    BY <2>1 DEF Send, Client
  <2>3. Below(received)' = Below(received) /\ (received \in Body => received \in Body') /\ (HasLong => HasLong')
    BY <2>2, <1>2, Appended DEF IInv
  <2>4. ~Whole
    BY <2>2 DEF Whole
  <2>5. backend = "reading" => Fed'
    BY <1>2, <2>2, <2>3, <2>4 DEF IInv, Fed
  <2>6. HasAll' = HasAll /\ (Torn => Torn')
    BY <1>2, <2>3 DEF HasAll, Exact, Torn
  <2> QED
    BY <1>1, <1>2, <2>4, <2>5, <2>6 DEF IInv
<1>4. CASE HalfClose \/ CutOff
  <2>1. UNCHANGED stream /\ client' # "open" /\ (client = "gone" => client' = "gone")
    BY <1>4 DEF HalfClose, CutOff, Client
  <2>2. Body' = Body /\ Below(received)' = Below(received) /\ HasLong' = HasLong
    BY <2>1, <1>2 DEF Body, Below, HasLong
  <2>3. Whole => Whole'
    BY <1>2, <2>1, <2>2 DEF Whole
  <2>4. backend = "reading" => Fed'
    BY <1>2, <2>1, <2>2, <2>3 DEF IInv, Fed
  <2>5. HasAll' = HasAll /\ (Torn => Torn')
    BY <1>2, <2>2 DEF HasAll, Exact, Torn
  <2> QED
    BY <1>1, <1>2, <2>3, <2>4, <2>5 DEF IInv
<1> QED
  BY <1>3, <1>4

\* What the other steps leave alone.
LEMMA Frozen ==
  ASSUME UNCHANGED <<stream, client>>
  PROVE  /\ Body' = Body /\ HasLong' = HasLong
         /\ UNCHANGED received => Below(received)' = Below(received)
         /\ UNCHANGED got => Whole' = Whole
         /\ UNCHANGED <<kind, size, got>> => HasAll' = HasAll
         /\ UNCHANGED <<kind, backend>> => Torn' = Torn
PROOF
  BY DEF Body, HasLong, Below, Whole, HasAll, Exact, Torn

LEMMA HandlerKeeps ==
  ASSUME IInv, Handler
  PROVE  IInv'
PROOF
<1>1. TypeOK'
  BY TypesKept DEF IInv, Next, Handler
<1>2. UNCHANGED <<kind, size, stream, client, got, stored>>
  BY DEF Handler, StartPut, RefusePut, Fail, Ack, params, clientVars, backendVars
<1>3. CASE StartPut
  <2>1. /\ backend = "off" /\ told = None /\ stream # <<>> /\ stream[1] = "header"
        /\ received' = 1 /\ feeder' = "receiving" /\ backend' = "reading"
        /\ UNCHANGED <<pipe, reader, told>>
    BY <1>3 DEF StartPut, FirstIs
  <2>2. Below(1)' = {}
    <3>1. Body' = Body
      BY <1>2, Frozen
    <3>2. \A i \in Body : i \in Nat \ {0} /\ i # 1
      BY <2>1 DEF Body, IInv, TypeOK
    <3> QED
      BY <3>1, <3>2 DEF Below
  <2>3. Fed'
    BY <2>1, <2>2, <1>2 DEF Fed, IInv, Below
  <2> QED
    BY <1>1, <1>2, <2>1, <2>3 DEF IInv
<1>4. CASE RefusePut
  <2>1. backend = "off" /\ told' = "INVALID_ARGUMENT" /\ UNCHANGED <<received, feeder, pipe, reader, backend>>
    BY <1>4 DEF RefusePut, feederVars, backendVars
  <2> QED
    BY <1>1, <1>2, <2>1, Frozen DEF IInv
<1>5. CASE Fail
  <2>1. backend = "failed" /\ told' = "error" /\ UNCHANGED <<received, feeder, pipe, backend>>
    BY <1>5 DEF Fail, feederVars, backendVars
  <2> QED
    BY <1>1, <1>2, <2>1, Frozen DEF IInv
<1>6. CASE Ack
  <2>1. backend = "done" /\ UNCHANGED <<received, feeder, pipe, reader, backend>>
    BY <1>6 DEF Ack, feederVars, backendVars
  <2> QED
    BY <1>1, <1>2, <2>1, Frozen DEF IInv
<1> QED
  BY <1>3, <1>4, <1>5, <1>6 DEF Handler

LEMMA FeederKeeps ==
  ASSUME IInv, Feeder
  PROVE  IInv'
PROOF
<1>1. TypeOK'
  BY TypesKept DEF IInv, Next, Feeder
<1>2. UNCHANGED <<kind, size, stream, client, reader, backend, got, stored, told>>
  BY DEF Feeder, Receive, FeederEnds, WriteFails, FeederStep, params, clientVars, backendVars
<1>3. Body' = Body /\ HasLong' = HasLong /\ Whole' = Whole /\ HasAll' = HasAll /\ Torn' = Torn
  BY <1>2, Frozen
<1>4. backend # "off"
  BY DEF Feeder, Receive, FeederEnds, WriteFails, IInv
<1>5. ASSUME backend = "reading" PROVE Fed'
  <2>1. CASE Receive
    <3>1. feeder = "receiving" /\ received' = received + 1 /\ UNCHANGED pipe /\ received < Len(stream)
          /\ stream[received + 1] # "long"
          /\ feeder' = IF stream[received + 1] = "data" THEN "writing" ELSE "receiving"
      BY <2>1 DEF Receive, FeederStep
    <3>2. got = Below(received) /\ pipe = "open" /\ told = None
      BY <1>5, <3>1 DEF IInv, Fed
    <3>3. received \in Nat /\ stream \in Seq(Messages) /\ received + 1 \in DOMAIN stream /\ \A i \in Body : i \in Nat
      BY <3>1 DEF IInv, TypeOK, Body
    <3>4. Below(received + 1) = Below(received) \cup (Body \cap {received + 1})
      BY <3>3 DEF Below
    <3>5. received + 1 \notin Below(received)
      BY <3>3 DEF Below
    <3>6. Below(received)' = Below(received + 1)
      BY <1>3, <3>1 DEF Below
    <3>7. CASE stream[received + 1] = "data"
      <4>1. received + 1 \in Body /\ feeder' = "writing"
        BY <3>7, <3>1, <3>3 DEF Body
      <4>2. got = Below(received + 1) \ {received + 1}
        BY <4>1, <3>2, <3>4, <3>5
      <4> QED
        BY <4>1, <4>2, <3>1, <3>2, <3>6, <1>2, <1>3 DEF Fed
    <3>8. CASE stream[received + 1] # "data"
      <4>1. received + 1 \notin Body /\ feeder' = "receiving"
        BY <3>8, <3>1 DEF Body
      <4>2. got = Below(received + 1)
        BY <4>1, <3>2, <3>4
      <4> QED
        BY <4>1, <4>2, <3>1, <3>2, <3>6, <1>2, <1>3 DEF Fed
    <3> QED
      BY <3>7, <3>8
  <2>2. CASE FeederEnds
    <3>1. feeder = "receiving" /\ feeder' = "over" /\ UNCHANGED received
      BY <2>2 DEF FeederEnds, FeederStep
    <3>2. got = Below(received) /\ told = None
      BY <1>5, <3>1 DEF IInv, Fed
    <3>3. CASE StreamEnds /\ pipe' = "eof"
      <4>1. client = "ended" /\ received = Len(stream)
        BY <3>3 DEF StreamEnds
      <4>2. Below(received) = Body
        BY <4>1 DEF Below, Body, IInv, TypeOK
      <4> QED
        BY <4>1, <4>2, <3>1, <3>2, <3>3, <1>2, <1>3 DEF Fed, Whole
    <3>4. CASE StreamBreaks /\ pipe' = "broken"
      <4>1. client = "gone" \/ HasLong
        BY <3>4, <3>2 DEF StreamBreaks, HasLong, IInv, TypeOK
      <4> QED
        BY <4>1, <3>1, <3>2, <3>4, <1>2, <1>3 DEF Fed
    <3> QED
      BY <3>3, <3>4, <2>2 DEF FeederEnds, FeederStep
  <2>3. ~WriteFails
    BY <1>5 DEF WriteFails, IInv
  <2> QED
    BY <2>1, <2>2, <2>3 DEF Feeder
<1> QED
  BY <1>1, <1>2, <1>3, <1>4, <1>5 DEF IInv

LEMMA BackendKeeps ==
  ASSUME IInv, Backend \/ ReadLonger \/ StoreFails
  PROVE  IInv'
PROOF
<1>1. TypeOK'
  BY TypesKept DEF IInv, Next, Backend
<1>2. UNCHANGED <<kind, size, stream, client, received, pipe, reader, told>>
  BY DEF Backend, Read, ReadAll, ReadShort, ReadLonger, ReadFails, StoreFails, Commit, BodyIsRead, BackendStep,
         params, clientVars, feederVars
<1>3. Body' = Body /\ HasLong' = HasLong /\ Below(received)' = Below(received)
  BY <1>2, Frozen
<1>4. CASE Read
  <2>1. backend = "reading" /\ backend' = "reading" /\ feeder = "writing" /\ feeder' = "receiving"
        /\ got' = got \cup {received} /\ UNCHANGED stored
    BY <1>4 DEF Read, BackendStep
  <2>2. received \in Body /\ got = Below(received) \ {received} /\ pipe = "open" /\ told = None
    BY <2>1 DEF IInv, Fed
  <2>3. received \in Below(received)
    BY <2>2 DEF Below, IInv, TypeOK
  <2>4. Fed'
    BY <2>1, <2>2, <2>3, <1>2, <1>3 DEF Fed
  <2> QED
    BY <1>1, <1>2, <2>1, <2>4 DEF IInv
<1>5. CASE ReadAll
  <2>1. backend = "reading" /\ backend' = "committing" /\ UNCHANGED <<got, feeder, stored>>
    BY <1>5 DEF ReadAll, BodyIsRead, BackendStep, feederVars
  <2>2. Whole \/ HasAll
    BY <2>1, <1>5 DEF ReadAll, IInv, Fed
  <2>3. Whole' \/ HasAll'
    BY <2>1, <2>2, <1>2, Frozen
  <2> QED
    BY <1>1, <1>2, <2>1, <2>3 DEF IInv, Fed
<1>6. CASE ReadShort \/ StoreFails
  <2>1. backend = "reading" /\ backend' = "failed" /\ UNCHANGED <<got, feeder, stored>>
    BY <1>6 DEF ReadShort, StoreFails, BodyIsRead, BackendStep, feederVars
  <2> QED
    BY <1>1, <1>2, <2>1 DEF IInv, Fed
<1>7. CASE ReadLonger
  <2>1. backend = "reading" /\ backend' = "failed" /\ UNCHANGED <<got, feeder>> /\ stored' \in {stored, got} /\ HasAll
    BY <1>7 DEF ReadLonger, BodyIsRead, BackendStep, feederVars
  <2>2. HasAll'
    BY <2>1, <1>2, Frozen
  <2> QED
    BY <1>1, <1>2, <2>1, <2>2 DEF IInv, Fed
<1>8. CASE ReadFails
  <2>1. backend = "reading" /\ backend' = "failed" /\ UNCHANGED <<got, feeder>> /\ pipe = "broken"
        /\ (stored' = stored \/ (stored' = got /\ kind = "gcs" /\ client # "gone"))
    BY <1>8 DEF ReadFails, BodyIsRead, BackendStep, feederVars
  <2>2. stored' # None => stored' = got' /\ Torn'
    BY <2>1, <1>2, <1>3 DEF IInv, Fed, Torn
  <2> QED
    BY <1>1, <1>2, <2>1, <2>2 DEF IInv, Fed
<1>9. CASE Commit
  <2>1. backend = "committing" /\ UNCHANGED <<got, feeder>>
        /\ \/ backend' = "done" /\ stored' = got
           \/ backend' = "failed" /\ stored' \in {stored, got}
    BY <1>9 DEF Commit, BackendStep, feederVars
  <2>2. Whole' \/ HasAll'
    BY <2>1, <1>2, Frozen DEF IInv
  <2> QED
    BY <1>1, <1>2, <2>1, <2>2 DEF IInv
<1> QED
  BY <1>4, <1>5, <1>6, <1>7, <1>8, <1>9 DEF Backend

-----------------------------------------------------------------------------
(* The theorems *)

LEMMA Invariant == Spec => []IInv
PROOF
<1>1. Init => IInv
  BY Initially
<1>2. IInv /\ [Next]_vars => IInv'
  <2> SUFFICES ASSUME IInv, [Next]_vars PROVE IInv'
    OBVIOUS
  <2>1. CASE UNCHANGED vars
    <3>1. UNCHANGED <<kind, size, stream, client, received, feeder, pipe, reader, backend, got, stored, told>>
      BY <2>1 DEF vars, params, clientVars, feederVars, backendVars
    <3>2. TypeOK' /\ (Fed => Fed')
      BY <3>1, Frozen DEF TypeOK, IInv, Fed, Body
    <3> QED
      BY <3>1, <3>2, Frozen DEF IInv
  <2>2. CASE Next
    BY <2>2, ClientKeeps, HandlerKeeps, FeederKeeps, BackendKeeps DEF Next, Handler, Feeder, Backend
  <2> QED
    BY <2>1, <2>2
<1> QED
  BY <1>1, <1>2, PTL DEF Spec

\* As many bytes as were declared are all there are, or fewer than there are.
LEMMA DeclaredIsEnough ==
  ASSUME TypeOK, HasAll
  PROVE  got = Body \/ Understated
PROOF
<1>1. Len(stream) \in Nat /\ Body \subseteq 1..Len(stream) /\ got \subseteq Body
  BY DEF TypeOK, Body
<1>2. IsFiniteSet(Body)
  <2>1. IsFiniteSet(1..Len(stream))
    BY <1>1, FS_Interval
  <2> QED
    BY <1>1, <2>1, FS_Subset
<1>3. Cardinality(got) \in Nat /\ Cardinality(Body) \in Nat /\ Cardinality(got) <= Cardinality(Body)
  BY <1>1, <1>2, FS_Subset, FS_CardinalityType
<1>4. Cardinality(got) = Cardinality(Body) => got = Body
  BY <1>1, <1>2, FS_Subset
<1> QED
  BY <1>3, <1>4 DEF HasAll, Understated

\* The state of an upload is well typed.
THEOREM UploadsTypeCorrect == Spec => []TypeOK
PROOF
<1>1. IInv => TypeOK
  BY DEF IInv
<1> QED
  BY <1>1, Invariant, PTL

\* No backend stores a part of what its client sent, however the stream ends,
\* but for the two cases that are named.
THEOREM UploadsStoredIsWhole == Spec => []StoredIsWhole
PROOF
<1>1. IInv => StoredIsWhole
  <2> SUFFICES ASSUME IInv, stored # None, ~Understated, stored # Body
               PROVE  kind = "gcs" /\ backend = "failed" /\ "long" \in {stream[i] : i \in Body}
    BY DEF StoredIsWhole
  <2>1. stored = got /\ ~Whole /\ ~HasAll
    BY DeclaredIsEnough DEF IInv, Whole
  <2>2. Torn
    BY <2>1 DEF IInv
  <2> QED
    BY <2>2 DEF Torn, HasLong, Body
<1> QED
  BY <1>1, Invariant, PTL

\* What is acknowledged is stored whole.
THEOREM UploadsAckedIsWhole == Spec => []AckedIsWhole
PROOF
<1>1. IInv => AckedIsWhole
  BY DeclaredIsEnough DEF IInv, Whole, AckedIsWhole
<1> QED
  BY <1>1, Invariant, PTL
=============================================================================
