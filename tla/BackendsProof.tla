--------------------------- MODULE BackendsProof ---------------------------
(***************************************************************************)
(* That the backends keep the contract of ObjectStore, for any callers,    *)
(* keys and contents and any number of versions.                           *)
(***************************************************************************)
EXTENDS Backends, TLAPS

\* A call that looks first acts on what the look found; the others never looked.
Coherent(c) ==
  /\ phase[c] = "idle" <=> req[c] = None
  /\ phase[c] = "done" <=> res[c] # None
  /\ phase[c] = "look" => LooksFirst(req[c])
  /\ phase[c] = "act" /\ kind = "gcs" =>
       IF LooksFirst(req[c])
       THEN /\ seen[c] \in Tags
            /\ req[c].ifMatch \in {None, seen[c]}
            /\ seen[c] # req[c].ifNoneMatch
       ELSE seen[c] = None
  /\ phase[c] \in {"idle", "look"} => seen[c] = None
  /\ phase[c] \in {"look", "act"} => left[c] \subseteq req[c].keys

IInv == TypeOK /\ \A c \in Clients : Coherent(c)

-----------------------------------------------------------------------------
(* Calls and objects *)

\* None is told from everything it stands in for.
LEMMA NoneApart ==
  /\ \A t \in Tags : t # None
  /\ \A o \in Objects : o # None
  /\ None \notin Outcomes
  BY NoneAssumption, BoundsAssumption, SMT DEF Tags, Objects

LEMMA KnownAreTags == TypeOK => Known \subseteq Tags
  BY BoundsAssumption DEF TypeOK, Known, Tags

\* What a single call is made of.
LEMMA CallFacts ==
  ASSUME NEW r \in Calls, TypeOK
  PROVE  /\ r # None
         /\ r \in Abstract!Requests
         /\ r.op \in {"get", "put", "delete", "copy"}
         /\ r.key \in Keys
         /\ r.src \in Keys
         /\ r.ifMatch \in Tags \cup {None}
         /\ r.ifNoneMatch \in Tags \cup {None}
         /\ r.op = "put" => r.body \in Contents
         /\ r.ifNoneMatch # None => r.op = "get" /\ r.ifMatch = None
         /\ r.ifMatch # None => r.op # "copy" /\ ~r.ifAbsent
         /\ r.ifAbsent => r.op \in {"put", "copy"} /\ r.ifMatch = None
         /\ r.ifAbsent \in BOOLEAN
         /\ r.keys = {}
  <1>1. r \in Single
    BY DEF Calls
  <1>2. Known \subseteq Tags
    BY KnownAreTags
  <1>3. /\ r.op \in {"get", "put", "delete", "copy"}
        /\ r.key \in Keys
        /\ r.src \in Keys
        /\ r.ifMatch \in Known \cup {None}
        /\ r.ifNoneMatch \in Known \cup {None}
        /\ r.body \in Contents \cup {None}
        /\ r.ifAbsent \in BOOLEAN
        /\ r.keys = {}
    BY <1>1 DEF Single
  <1>4. r \in Abstract!Requests
    BY <1>1, <1>2 DEF Single, Abstract!Requests
  <1>5. r # None
    <2>1. Known \subseteq Contents \cup Nat
      BY BoundsAssumption DEF Known, TypeOK
    <2>2. r \in [op : Operations, key : Keys \cup {None}, src : Keys \cup {None},
                 ifMatch : Contents \cup Nat \cup {None}, ifAbsent : BOOLEAN,
                 ifNoneMatch : Contents \cup Nat \cup {None},
                 body : Contents \cup {None}, keys : SUBSET Keys]
      BY <1>1, <2>1 DEF Single, Operations
    <2> QED
      BY <2>2, NoneAssumption
  <1>6. /\ r.op = "put" => r.body # None
        /\ r.ifNoneMatch # None => r.op = "get"
        /\ r.ifMatch # None => r.op # "copy" /\ r.ifNoneMatch = None
        /\ r.ifAbsent => r.op \in {"put", "copy"} /\ r.ifMatch = None
    BY DEF Calls
  <1> QED
    BY <1>2, <1>3, <1>4, <1>5, <1>6

LEMMA BatchFacts ==
  ASSUME NEW r \in Batches
  PROVE  r # None /\ r \in Abstract!Batches /\ r.op = "deleteMany" /\ r.keys \in SUBSET Keys
         /\ ~r.ifAbsent /\ r.ifMatch = None
  <1>1. r \in [op : Operations, key : Keys \cup {None}, src : Keys \cup {None},
               ifMatch : Contents \cup Nat \cup {None}, ifAbsent : BOOLEAN,
               ifNoneMatch : Contents \cup Nat \cup {None},
               body : Contents \cup {None}, keys : SUBSET Keys]
    BY DEF Batches, Operations
  <1>2. r # None
    BY <1>1, NoneAssumption
  <1> QED
    BY <1>2 DEF Batches, Abstract!Batches

-----------------------------------------------------------------------------
(* The invariant *)

\* The callers' ETags only grow in number.
LEMMA CallsGrow ==
  ASSUME TypeOK, kind' = kind, made' \in 0..MaxMade, made <= made'
  PROVE  Calls \subseteq Calls'
  <1>1. Known \subseteq Known'
    BY BoundsAssumption DEF Known, TypeOK
  <1>2. Single \subseteq Single'
    BY <1>1 DEF Single
  <1> QED
    BY <1>2 DEF Calls

LEMMA InitInv == Init => IInv
  BY NoneApart, BoundsAssumption, KindsAssumption DEF Init, IInv, TypeOK, Coherent

\* The end of a call, whatever it did to the bucket.
LEMMA EndKeeps ==
  ASSUME IInv,
         NEW c \in Clients, phase[c] \in {"look", "act"},
         NEW code \in Outcomes, Ends(c, code),
         kind' = kind, req' = req, seen' = seen, left' = left, dropped' = dropped,
         store' \in [Keys -> Objects \cup {None}],
         made' \in 0..MaxMade, made <= made',
         read' \in [Clients -> Objects \cup {None}]
  PROVE  IInv'
  <1> USE DEF IInv
  <1>1. Calls \subseteq Calls'
    BY CallsGrow
  <1>2. TypeOK'
    BY <1>1 DEF TypeOK, Ends, Objects
  <1>3. ASSUME NEW d \in Clients PROVE Coherent(d)'
    <2>1. Coherent(d) /\ Coherent(c)
      OBVIOUS
    <2>2. code # None
      BY NoneApart
    <2>3. CASE d = c
      BY <2>1, <2>2, <2>3 DEF Ends, Coherent, TypeOK
    <2>4. CASE d # c
      <3>1. phase'[d] = phase[d] /\ res'[d] = res[d]
        BY <2>4 DEF Ends, TypeOK
      <3> QED
        BY <2>1, <3>1 DEF Coherent, LooksFirst
    <2> QED
      BY <2>3, <2>4
  <1> QED
    BY <1>2, <1>3

\* The step from the look to the request that acts.
LEMMA ActKeeps ==
  ASSUME IInv,
         NEW c \in Clients, phase[c] = "look",
         phase' = [phase EXCEPT ![c] = "act"],
         seen' \in [Clients -> Tags \cup {None}],
         \A d \in Clients \ {c} : seen'[d] = seen[d],
         kind = "gcs" => /\ seen'[c] \in Tags
                         /\ req[c].ifMatch \in {None, seen'[c]}
                         /\ seen'[c] # req[c].ifNoneMatch,
         UNCHANGED <<kind, store, made, req, left, dropped, read, res>>
  PROVE  IInv'
  <1> USE DEF IInv
  <1>1. TypeOK'
    BY DEF TypeOK, Calls, Single, Known
  <1>2. ASSUME NEW d \in Clients PROVE Coherent(d)'
    <2>1. Coherent(d) /\ Coherent(c)
      OBVIOUS
    <2>2. CASE d = c
      BY <2>1, <2>2 DEF Coherent, TypeOK, LooksFirst
    <2>3. CASE d # c
      <3>1. phase'[d] = phase[d] /\ seen'[d] = seen[d]
        BY <2>3 DEF TypeOK
      <3> QED
        BY <2>1, <3>1 DEF Coherent, LooksFirst
    <2> QED
      BY <2>2, <2>3
  <1> QED
    BY <1>1, <1>2

\* The object a write puts in the bucket is one.
LEMMA StoresObject ==
  ASSUME TypeOK, NEW k \in Keys, NEW x \in Contents \cup {Part}, Stores(k, Object(x))
  PROVE  /\ store' \in [Keys -> Objects \cup {None}]
         /\ made' \in 0..MaxMade
         /\ made <= made'
         /\ Object(x) \in Objects
  <1>1. made \in Nat /\ MaxMade \in Nat /\ made < MaxMade /\ made' = made + 1
    BY BoundsAssumption DEF TypeOK, Stores
  <1>2. Object(x) \in Objects
    BY <1>1 DEF Object, Objects, Tags
  <1> QED
    BY <1>1, <1>2 DEF Stores, TypeOK

LEMMA BeginKeeps ==
  ASSUME IInv, NEW c \in Clients, Begin(c)
  PROVE  IInv'
  <1> USE DEF IInv
  <1>1. PICK r \in Calls \cup Batches :
          /\ req' = [req EXCEPT ![c] = r]
          /\ phase' = [phase EXCEPT ![c] = IF LooksFirst(r) THEN "look" ELSE "act"]
          /\ left' = [left EXCEPT ![c] = r.keys]
    BY DEF Begin
  <1>2. r # None /\ r.keys \in SUBSET Keys
    BY CallFacts, BatchFacts
  <1>3. UNCHANGED <<kind, store, made, seen, dropped, read, res>>
    BY DEF Begin
  <1>4. Calls' = Calls
    BY <1>3 DEF Calls, Single, Known
  <1>5. TypeOK'
    BY <1>1, <1>2, <1>3, <1>4 DEF TypeOK
  <1>6. ASSUME NEW d \in Clients PROVE Coherent(d)'
    <2>1. Coherent(d) /\ Coherent(c) /\ phase[c] = "idle"
      BY DEF Begin
    <2>2. CASE d = c
      <3>1. /\ req'[d] = r
            /\ phase'[d] = IF LooksFirst(r) THEN "look" ELSE "act"
            /\ left'[d] = r.keys
        BY <1>1, <2>2 DEF TypeOK
      <3>2. LooksFirst(req[d])' <=> LooksFirst(r)
        BY <1>3, <3>1 DEF LooksFirst
      <3> QED
        BY <1>2, <1>3, <2>1, <2>2, <3>1, <3>2 DEF Coherent
    <2>3. CASE d # c
      <3>1. req'[d] = req[d] /\ phase'[d] = phase[d] /\ left'[d] = left[d]
        BY <1>1, <2>3 DEF TypeOK
      <3> QED
        BY <1>3, <2>1, <3>1 DEF Coherent, LooksFirst
    <2> QED
      BY <2>2, <2>3
  <1> QED
    BY <1>5, <1>6

LEMMA ReturnKeeps ==
  ASSUME IInv, NEW c \in Clients, Return(c)
  PROVE  IInv'
  <1> USE DEF IInv
  <1>1. Calls' = Calls
    BY DEF Calls, Single, Known, Return
  <1>2. TypeOK'
    BY <1>1 DEF TypeOK, Return
  <1>3. ASSUME NEW d \in Clients PROVE Coherent(d)'
    <2>1. Coherent(d)
      OBVIOUS
    <2>2. CASE d = c
      BY <2>1, <2>2 DEF Coherent, TypeOK, Return
    <2>3. CASE d # c
      <3>1. /\ req'[d] = req[d]
            /\ phase'[d] = phase[d]
            /\ seen'[d] = seen[d]
            /\ res'[d] = res[d]
            /\ left'[d] = left[d]
            /\ kind' = kind
        BY <2>3 DEF TypeOK, Return
      <3> QED
        BY <2>1, <3>1 DEF Coherent, LooksFirst
    <2> QED
      BY <2>2, <2>3
  <1> QED
    BY <1>2, <1>3

\* What the invariant says of a call at work.
LEMMA AtWork ==
  ASSUME IInv, NEW c \in Clients, phase[c] \in {"look", "act"}
  PROVE  req[c] \in Calls \cup Batches /\ req[c] # None /\ res[c] = None
  BY DEF IInv, Coherent, TypeOK

LEMMA AtWorkAlone ==
  ASSUME IInv, NEW c \in Clients, phase[c] \in {"look", "act"}, req[c].op # "deleteMany"
  PROVE  req[c] \in Calls
  BY AtWork, BatchFacts

LEMMA StepKeeps ==
  ASSUME IInv, [Next]_vars
  PROVE  IInv'
  <1> TypeOK
    BY DEF IInv
  <1>1. CASE UNCHANGED vars
    BY <1>1 DEF vars, callVars, IInv, TypeOK, Coherent, Calls, Single, Known, LooksFirst
  <1>2. ASSUME NEW c \in Clients, LookGcs(c) PROVE IInv'
    <2>1. LET o == store[req[c].key] IN
          \/ \E code \in Outcomes : Ends(c, code) /\ seen' = seen
          \/ /\ o # None
             /\ Matches(req[c], o)
             /\ o.etag # req[c].ifNoneMatch
             /\ seen' = [seen EXCEPT ![c] = o.etag]
             /\ phase' = [phase EXCEPT ![c] = "act"]
             /\ res' = res
      BY <1>2 DEF LookGcs, Outcomes
    <2>2. CASE \E code \in Outcomes : Ends(c, code) /\ seen' = seen
      BY <1>2, <2>2, EndKeeps DEF LookGcs, Looking, TypeOK
    <2>3. CASE ~\E code \in Outcomes : Ends(c, code) /\ seen' = seen
      <3>1. phase[c] = "look" /\ UNCHANGED <<kind, store, made, req, left, dropped, read>>
        BY <1>2 DEF LookGcs, Looking
      <3>2. req[c] \in Calls
        BY <3>1, AtWorkAlone, BatchFacts DEF IInv, Coherent, LooksFirst, TypeOK
      <3>3. store[req[c].key] \in Objects
        BY <2>1, <2>3, <3>2, CallFacts DEF TypeOK
      <3>4. store[req[c].key].etag \in Tags
        BY <3>3 DEF Objects
      <3>5. seen' = [seen EXCEPT ![c] = store[req[c].key].etag]
        BY <2>1, <2>3
      <3>6. seen' \in [Clients -> Tags \cup {None}] /\ seen'[c] = store[req[c].key].etag
        BY <3>4, <3>5 DEF TypeOK
      <3>7. \A d \in Clients \ {c} : seen'[d] = seen[d]
        BY <3>5 DEF TypeOK
      <3>8. phase' = [phase EXCEPT ![c] = "act"] /\ res' = res
        BY <2>1, <2>3
      <3>9. req[c].ifMatch \in {None, seen'[c]} /\ seen'[c] # req[c].ifNoneMatch
        BY <2>1, <2>3, <3>6 DEF Matches
      <3> QED
        BY <3>1, <3>4, <3>6, <3>7, <3>8, <3>9, ActKeeps
    <2> QED
      BY <2>2, <2>3
  <1>3. ASSUME NEW c \in Clients, LookForDelete(c) \/ LookForCopy(c) PROVE IInv'
    <2>1. \/ \E code \in Outcomes : Ends(c, code)
          \/ phase' = [phase EXCEPT ![c] = "act"] /\ res' = res
      BY <1>3 DEF LookForDelete, LookForCopy, Judged, Outcomes
    <2>2. CASE \E code \in Outcomes : Ends(c, code)
      BY <1>3, <2>2, EndKeeps DEF LookForDelete, LookForCopy, Judged, Looking, TypeOK
    <2>3. CASE phase' = [phase EXCEPT ![c] = "act"] /\ res' = res
      BY <1>3, <2>3, ActKeeps DEF LookForDelete, LookForCopy, Judged, Looking, TypeOK
    <2> QED
      BY <2>1, <2>2, <2>3
  <1> DEFINE Ending(c) ==
        /\ phase[c] \in {"look", "act"}
        /\ \E code \in Outcomes : Ends(c, code)
        /\ kind' = kind /\ req' = req /\ seen' = seen /\ left' = left /\ dropped' = dropped
        /\ store' \in [Keys -> Objects \cup {None}]
        /\ made' \in 0..MaxMade
        /\ made <= made'
        /\ read' \in [Clients -> Objects \cup {None}]
  <1>4. ASSUME NEW c \in Clients, Put(c) PROVE Ending(c)
    <2>1. req[c] \in Calls
      BY <1>4, AtWorkAlone DEF Put, Acting
    <2>2. req[c].key \in Keys /\ req[c].body \in Contents
      BY <1>4, <2>1, CallFacts DEF Put, Acting
    <2> QED
      BY <1>4, <2>2, StoresObject DEF Put, Acting, Answers, Outcomes, TypeOK
  <1>5. ASSUME NEW c \in Clients, PutPart(c) PROVE Ending(c)
    <2>1. req[c] \in Calls
      BY <1>5, AtWorkAlone DEF PutPart, Acting
    <2> QED
      BY <1>5, <2>1, CallFacts, StoresObject DEF PutPart, Acting, Outcomes, TypeOK
  <1>6. ASSUME NEW c \in Clients, Copy(c) PROVE Ending(c)
    <2>1. req[c] \in Calls
      BY <1>6, AtWorkAlone DEF Copy, Acting
    <2>2. req[c].key \in Keys /\ req[c].src \in Keys
      BY <2>1, CallFacts
    <2>3. store[req[c].src] \in Objects
      BY <1>6, <2>2 DEF Copy, TypeOK
    <2>4. store[req[c].src].content \in Contents \cup {Part}
      BY <2>3 DEF Objects
    <2> QED
      BY <1>6, <2>2, <2>4, StoresObject DEF Copy, Acting, Answers, Outcomes, TypeOK
  <1>7. ASSUME NEW c \in Clients, Delete(c) PROVE Ending(c)
    <2>1. store' \in [Keys -> Objects \cup {None}]
      BY <1>7 DEF Delete, TypeOK
    <2> QED
      BY <1>7, <2>1, BoundsAssumption DEF Delete, Acting, Answers, Outcomes, TypeOK
  <1>8. ASSUME NEW c \in Clients, DeleteGone(c) PROVE Ending(c)
    BY <1>8, BoundsAssumption DEF DeleteGone, Acting, Outcomes, TypeOK
  <1>9. ASSUME NEW c \in Clients, Get(c) PROVE Ending(c)
    <2>1. req[c] \in Calls
      BY <1>9, AtWorkAlone DEF Get, Acting
    <2>2. store[req[c].key] \in Objects
      BY <1>9, <2>1, CallFacts DEF Get, TypeOK
    <2>3. store[req[c].key].content \in Contents \cup {Part} /\ store[req[c].key].etag \in Tags
      BY <2>2 DEF Objects
    <2>4. kind = "gcs" => seen[c] \in Tags
      BY <1>9 DEF Get, Acting, IInv, Coherent, LooksFirst
    <2>5. read' \in [Clients -> Objects \cup {None}]
      <3>1. [content |-> store[req[c].key].content,
             etag |-> IF kind = "gcs" THEN seen[c] ELSE store[req[c].key].etag] \in Objects
        BY <2>3, <2>4 DEF Objects
      <3> QED
        BY <1>9, <3>1 DEF Get, TypeOK
    <2> QED
      BY <1>9, <2>5, BoundsAssumption DEF Get, Acting, Outcomes, TypeOK
  <1>10. ASSUME NEW c \in Clients, Refused(c) PROVE Ending(c)
    <2>1. Codes(c) \subseteq Outcomes
      BY DEF Codes, Outcomes
    <2> QED
      BY <1>10, <2>1, BoundsAssumption DEF Refused, TypeOK
  <1>11. ASSUME NEW c \in Clients, Fail(c) PROVE Ending(c)
    BY <1>11, BoundsAssumption DEF Fail, Outcomes, TypeOK
  <1>12. ASSUME NEW c \in Clients, DeleteSome(c) PROVE IInv'
    <2>1. UNCHANGED <<kind, made, req, phase, seen, read, res>>
      BY <1>12 DEF DeleteSome
    <2>2. /\ store' \in [Keys -> Objects \cup {None}]
          /\ left' \in [Clients -> SUBSET Keys]
          /\ dropped' \in [Clients -> SUBSET Keys]
      BY <1>12 DEF DeleteSome, TypeOK
    <2>3. TypeOK'
      BY <2>1, <2>2 DEF TypeOK, Calls, Single, Known
    <2>4. \A d \in Clients : left'[d] \subseteq left[d]
      BY <1>12 DEF DeleteSome, TypeOK
    <2>5. ASSUME NEW d \in Clients PROVE Coherent(d)'
      BY <2>1, <2>4 DEF IInv, Coherent, LooksFirst
    <2> QED
      BY <2>3, <2>5 DEF IInv
  <1>13. ASSUME NEW c \in Clients, BatchEnds(c) PROVE Ending(c)
    BY <1>13, BoundsAssumption DEF BatchEnds, Acting, Outcomes, TypeOK
  <1>14. ASSUME NEW c \in Clients, Ending(c) PROVE IInv'
    BY <1>14, EndKeeps
  <1> HIDE DEF Ending
  <1> QED
    BY <1>1, <1>2, <1>3, <1>4, <1>5, <1>6, <1>7, <1>8, <1>9, <1>10, <1>11, <1>12, <1>13, <1>14,
       BeginKeeps, ReturnKeeps DEF Next

\* The state stays well formed, and a call acts on what its look found.
THEOREM BackendsTypeCorrect == Spec => []TypeOK
  <1>1. Init => IInv
    BY InitInv
  <1>2. IInv /\ [Next]_vars => IInv'
    BY StepKeeps
  <1>3. IInv => TypeOK
    BY DEF IInv
  <1> QED
    BY <1>1, <1>2, <1>3, PTL DEF Spec

-----------------------------------------------------------------------------
(* The refinement: how the promises and the looks of the calls map *)

Promises == [d \in Clients |-> Promise(d)]
Helds == [d \in Clients |-> Held(d)]

LEMMA PromiseKinds == \A c \in Clients : Promise(c) \in {"atomic", "bestEffort", "none"}
  BY DEF Promise

\* A call that is promised a best effort looks first.
LEMMA BestEffortLooks ==
  ASSUME NEW c \in Clients, Promise(c) = "bestEffort"
  PROVE  LooksFirst(req[c]) /\ req[c] # None
  BY DEF Promise, LooksFirst

LEMMA EndMaps ==
  ASSUME IInv, NEW c \in Clients, kind' = kind, req' = req,
         phase' = [phase EXCEPT ![c] = "done"]
  PROVE  Promises' = Promises /\ Helds' = [Helds EXCEPT ![c] = FALSE]
  <1>1. \A d \in Clients : Promise(d)' = Promise(d)
    BY DEF Promise
  <1>2. \A d \in Clients : Held(d)' = IF d = c THEN FALSE ELSE Held(d)
    BY <1>1 DEF Held, IInv, TypeOK
  <1> QED
    BY <1>1, <1>2 DEF Promises, Helds

LEMMA ActMaps ==
  ASSUME IInv, NEW c \in Clients, kind' = kind, req' = req, phase[c] = "look",
         phase' = [phase EXCEPT ![c] = "act"]
  PROVE  /\ Promises' = Promises
         /\ Promise(c) = "bestEffort" => Helds' = [Helds EXCEPT ![c] = TRUE]
         /\ Promise(c) # "bestEffort" => Helds' = Helds
  <1>1. \A d \in Clients : Promise(d)' = Promise(d)
    BY DEF Promise
  <1>2. \A d \in Clients : Held(d)' = IF d = c THEN Promise(c) = "bestEffort" ELSE Held(d)
    BY <1>1 DEF Held, IInv, TypeOK
  <1>3. Promise(c) # "bestEffort" => \A d \in Clients : Held(d)' = Held(d)
    BY <1>2 DEF Held
  <1> QED
    BY <1>1, <1>2, <1>3 DEF Promises, Helds

\* What a request met at the store is the condition of the call.
LEMMA MetHolds ==
  ASSUME IInv, NEW c \in Clients, phase[c] = "act", req[c] \in Calls
  PROVE  /\ Met(c) /\ Promise(c) = "atomic" => Abstract!Holds(req[c])
         /\ Met(c) /\ req[c].op = "get" => Abstract!Holds(req[c])
         /\ ~Met(c) => ~Abstract!Holds(req[c]) \/ (req[c].op = "get" /\ Held(c))
  <1> DEFINE r == req[c]
             o == store[r.key]
  <1> TypeOK /\ Coherent(c)
    BY DEF IInv
  <1>1. /\ r # None
        /\ r.op \in {"get", "put", "delete", "copy"}
        /\ r.ifMatch # None => r.op # "copy" /\ ~r.ifAbsent
        /\ r.ifAbsent => r.op \in {"put", "copy"} /\ r.ifMatch = None
    BY CallFacts
  <1>2. \A t \in Tags : t # None
    BY NoneApart
  <1>3. CASE kind = "gcs"
    <2>1. IF LooksFirst(r) THEN seen[c] # None /\ r.ifMatch \in {None, seen[c]} ELSE seen[c] = None
      BY <1>2, <1>3 DEF Coherent
    <2>2. LooksFirst(r) <=> r.op = "get" \/ r.ifMatch # None
      BY <1>3 DEF LooksFirst
    <2>3. r.op = "get" => Held(c)
      BY <1>1, <1>3 DEF Held, Promise
    <2>4. /\ AsksAbsent(c) <=> r.ifAbsent
          /\ AsksTag(c) = seen[c]
      BY <1>3 DEF AsksAbsent, AsksTag, ConditionalCopy
    <2> QED
      BY <1>1, <2>1, <2>2, <2>3, <2>4 DEF Met, Abstract!Holds
  <1>4. CASE kind = "minio"
    BY <1>1, <1>4 DEF Met, AsksAbsent, AsksTag, ConditionalCopy, Abstract!Holds, Promise
  <1>5. CASE kind \notin {"gcs", "minio"}
    BY <1>1, <1>5 DEF Met, AsksAbsent, AsksTag, ConditionalCopy, Abstract!Holds, Promise
  <1> QED
    BY <1>3, <1>4, <1>5

LEMMA MetIsPromised ==
  ASSUME IInv, NEW c \in Clients, phase[c] = "act", req[c] \in Calls, Met(c)
  PROVE  Abstract!Promised(c)
  <1>1. CASE Promise(c) = "atomic"
    BY <1>1, MetHolds DEF Abstract!Promised
  <1>2. CASE Promise(c) = "bestEffort"
    BY <1>2 DEF Abstract!Promised, Held
  <1>3. CASE Promise(c) = "none"
    BY <1>3 DEF Abstract!Promised
  <1> QED
    BY <1>1, <1>2, <1>3, PromiseKinds

\* The end of a call, in the abstract store.
LEMMA EndIsEnd ==
  ASSUME IInv, NEW c \in Clients, phase[c] \in {"look", "act"}, NEW code, Ends(c, code),
         kind' = kind, req' = req
  PROVE  /\ Abstract!Active(c)
         /\ Abstract!Ends(c, code)
         /\ Promises' = Promises
  <1>1. Promises' = Promises /\ Helds' = [Helds EXCEPT ![c] = FALSE]
    BY EndMaps DEF Ends
  <1>2. req[c] # None /\ res[c] = None
    BY AtWork
  <1> QED
    BY <1>1, <1>2 DEF Abstract!Active, Abstract!Ends, Ends, Promises, Helds

-----------------------------------------------------------------------------
(* The refinement: every step *)

LEMMA InitMaps == Init => Abstract!Init
  BY DEF Init, Abstract!Init, Promise, Held

LEMMA BeginMaps ==
  ASSUME IInv, NEW c \in Clients, Begin(c)
  PROVE  Abstract!Begin(c)
  <1>1. PICK r \in Calls \cup Batches :
          /\ req' = [req EXCEPT ![c] = r]
          /\ phase' = [phase EXCEPT ![c] = IF LooksFirst(r) THEN "look" ELSE "act"]
    BY DEF Begin
  <1>2. r # None /\ r \in Abstract!Requests \cup Abstract!Batches
    BY CallFacts, BatchFacts DEF IInv
  <1>3. /\ UNCHANGED <<kind, store, made, seen, dropped, read, res>>
        /\ phase[c] = "idle"
    BY DEF Begin
  <1>4. req[c] = None
    BY <1>3 DEF IInv, Coherent
  <1>5. req'[c] = r /\ \A d \in Clients \ {c} : req'[d] = req[d]
    BY <1>1 DEF IInv, TypeOK
  <1>6. \A d \in Clients \ {c} : phase'[d] = phase[d]
    BY <1>1 DEF IInv, TypeOK
  <1>7. \A d \in Clients \ {c} : Promise(d)' = Promise(d) /\ Held(d)' = Held(d)
    BY <1>3, <1>5, <1>6 DEF Promise, Held
  <1>8. Promise(c)' \in {"atomic", "bestEffort", "none"}
    BY <1>3, <1>5 DEF Promise
  <1>9. Promises' = [Promises EXCEPT ![c] = Promise(c)']
    BY <1>7 DEF Promises
  <1>10. Held(c) = FALSE
    BY <1>3 DEF Held
  <1>11. Held(c)' = FALSE
    <2>1. phase'[c] = IF LooksFirst(r) THEN "look" ELSE "act"
      BY <1>1 DEF IInv, TypeOK
    <2>2. Promise(c)' = "bestEffort" => LooksFirst(r)
      BY <1>3, <1>5 DEF Promise, LooksFirst
    <2> QED
      BY <2>1, <2>2 DEF Held
  <1>12. Helds' = Helds
    BY <1>7, <1>10, <1>11 DEF Helds
  <1> QED
    BY <1>1, <1>2, <1>3, <1>4, <1>8, <1>9, <1>12 DEF Abstract!Begin, Promises, Helds

LEMMA ReturnMaps ==
  ASSUME IInv, NEW c \in Clients, Return(c)
  PROVE  Abstract!Return(c)
  <1>1. req[c] # None /\ res[c] # None /\ phase[c] = "done"
    BY DEF Return, IInv, Coherent
  <1>2. /\ req' = [req EXCEPT ![c] = None]
        /\ phase' = [phase EXCEPT ![c] = "idle"]
        /\ kind' = kind
    BY DEF Return
  <1>3. Promise(c)' = "none" /\ Held(c) = FALSE /\ Held(c)' = FALSE
    BY <1>1, <1>2 DEF Promise, Held, IInv, TypeOK
  <1>4. \A d \in Clients \ {c} : Promise(d)' = Promise(d) /\ Held(d)' = Held(d)
    <2>1. \A d \in Clients \ {c} : req'[d] = req[d] /\ phase'[d] = phase[d]
      BY <1>2 DEF IInv, TypeOK
    <2> QED
      BY <1>2, <2>1 DEF Promise, Held
  <1>5. Promises' = [Promises EXCEPT ![c] = "none"] /\ Helds' = Helds
    BY <1>3, <1>4 DEF Promises, Helds
  <1> QED
    BY <1>1, <1>5 DEF Return, Abstract!Return, Promises, Helds

LEMMA LookGcsMaps ==
  ASSUME IInv, NEW c \in Clients, LookGcs(c)
  PROVE  Abstract!Next \/ UNCHANGED Abstract!vars
  <1> DEFINE r == req[c]
             o == store[r.key]
  <1>1. /\ phase[c] = "look"
        /\ kind = "gcs"
        /\ UNCHANGED <<kind, store, made, req, left, dropped, read>>
    BY DEF LookGcs, Looking
  <1>2. LooksFirst(r) /\ r \in Calls
    BY <1>1, AtWork, BatchFacts DEF IInv, Coherent, LooksFirst
  <1>3. r.op = "get" \/ r.ifMatch # None
    BY <1>1, <1>2 DEF LooksFirst
  <1>4. /\ r # None
        /\ r.key \in Keys
        /\ r.op \in {"get", "put", "delete", "copy"}
        /\ r.ifNoneMatch # None => r.op = "get" /\ r.ifMatch = None
        /\ r.ifMatch # None => r.op # "copy" /\ ~r.ifAbsent
        /\ r.ifAbsent => r.op \in {"put", "copy"} /\ r.ifMatch = None
    BY <1>2, CallFacts DEF IInv
  <1>5. CASE o = None /\ Ends(c, IF r.op = "delete" THEN "ok" ELSE "NotFound")
    <2>1. CASE r.op = "delete"
      <3>1. Ends(c, "ok")
        BY <1>5, <2>1
      <3>2. Abstract!Nothing(c)
        BY <1>1, <1>5, <2>1, <3>1, EndIsEnd DEF Abstract!Nothing, Promises
      <3> QED
        BY <3>2 DEF Abstract!Next
    <2>2. CASE r.op # "delete"
      <3>1. Ends(c, "NotFound")
        BY <1>5, <2>2
      <3>2. ~Abstract!Holds(r) \/ (r.op = "get" /\ o = None)
        BY <1>3, <1>5 DEF Abstract!Holds
      <3>3. Abstract!Refuse(c)
        BY <1>1, <1>4, <1>5, <3>1, <3>2, EndIsEnd DEF Abstract!Refuse, Abstract!Refusals, Promises
      <3> QED
        BY <3>3 DEF Abstract!Next
    <2> QED
      BY <2>1, <2>2
  <1>6. CASE o # None /\ o.etag = r.ifNoneMatch /\ Ends(c, "NotModified")
    <2>1. o \in Objects
      BY <1>4, <1>6 DEF IInv, TypeOK
    <2>2. o.etag \in Tags
      BY <2>1 DEF Objects
    <2>3. r.ifNoneMatch # None
      BY <1>6, <2>2, NoneApart
    <2>4. Abstract!Holds(r)
      BY <1>4, <2>3 DEF Abstract!Holds
    <2>5. Abstract!Read(c)
      BY <1>1, <1>4, <1>6, <2>3, <2>4, EndIsEnd DEF Abstract!Read, Promises
    <2> QED
      BY <2>5 DEF Abstract!Next
  <1>7. CASE o # None /\ ~Matches(r, o) /\ Ends(c, "PreconditionFailed")
    <2>1. ~Abstract!Holds(r)
      BY <1>7 DEF Matches, Abstract!Holds
    <2>2. Abstract!Refuse(c)
      BY <1>1, <1>4, <1>7, <2>1, EndIsEnd DEF Abstract!Refuse, Abstract!Refusals, Promises
    <2> QED
      BY <2>2 DEF Abstract!Next
  <1>8. CASE /\ o # None
             /\ Matches(r, o)
             /\ phase' = [phase EXCEPT ![c] = "act"]
             /\ res' = res
    <2>1. Promises' = Promises
      BY <1>1, <1>8, ActMaps
    <2>2. CASE Promise(c) = "bestEffort"
      <3>1. Helds' = [Helds EXCEPT ![c] = TRUE]
        BY <1>1, <1>8, <2>2, ActMaps
      <3>2. Abstract!Holds(r)
        <4>1. ~r.ifAbsent
          BY <1>3, <1>4
        <4>2. r.ifMatch # None => o.etag = r.ifMatch
          BY <1>8 DEF Matches
        <4> QED
          BY <1>8, <4>1, <4>2 DEF Abstract!Holds
      <3>3. Abstract!Active(c)
        BY <1>1, AtWork DEF Abstract!Active
      <3>4. Abstract!Observe(c)
        BY <1>1, <1>8, <2>1, <2>2, <3>1, <3>2, <3>3 DEF Abstract!Observe, Promises, Helds
      <3> QED
        BY <3>4 DEF Abstract!Next
    <2>3. CASE Promise(c) # "bestEffort"
      <3>1. Helds' = Helds
        BY <1>1, <1>8, <2>3, ActMaps
      <3> QED
        BY <1>1, <1>8, <2>1, <3>1 DEF Abstract!vars, Promises, Helds
    <2> QED
      BY <2>2, <2>3
  <1> QED
    BY <1>5, <1>6, <1>7, <1>8 DEF LookGcs

LEMMA LookMinioMaps ==
  ASSUME IInv, NEW c \in Clients, LookForDelete(c) \/ LookForCopy(c)
  PROVE  Abstract!Next
  <1> DEFINE r == req[c]
             o == store[r.key]
             asWanted == IF r.op = "copy" THEN o = None ELSE o # None /\ Matches(r, o)
  <1>1. /\ phase[c] = "look"
        /\ kind = "minio"
        /\ UNCHANGED <<kind, store, made, req, seen, left, dropped, read>>
    BY DEF LookForDelete, LookForCopy, Judged, Looking
  <1>2. LooksFirst(r) /\ r \in Calls
    BY <1>1, AtWork, BatchFacts DEF IInv, Coherent, LooksFirst
  <1>3. /\ r # None
        /\ r.op = "delete" => r.ifMatch # None /\ ~r.ifAbsent
        /\ r.op = "copy" => r.ifAbsent /\ r.ifMatch = None
        /\ r.op \in {"delete", "copy"}
    BY <1>1, <1>2, CallFacts DEF LooksFirst, IInv
  <1>4. Abstract!Holds(r) <=> asWanted
    BY <1>3 DEF Abstract!Holds, Matches
  <1>5. CASE asWanted /\ phase' = [phase EXCEPT ![c] = "act"] /\ res' = res
    <2>1. Promise(c) = "bestEffort"
      BY <1>1, <1>3 DEF Promise
    <2>2. Promises' = Promises /\ Helds' = [Helds EXCEPT ![c] = TRUE]
      BY <1>1, <1>5, <2>1, ActMaps
    <2>3. Abstract!Active(c)
      BY <1>1, AtWork DEF Abstract!Active
    <2>4. Abstract!Observe(c)
      BY <1>1, <1>4, <1>5, <2>1, <2>2, <2>3 DEF Abstract!Observe, Promises, Helds
    <2> QED
      BY <2>4 DEF Abstract!Next
  <1>6. CASE ~asWanted /\ Ends(c, IF r.op = "copy" THEN "AlreadyExists" ELSE "PreconditionFailed")
    <2>1. \E code \in Abstract!Refusals : Abstract!Ends(c, code) /\ Abstract!Active(c) /\ Promises' = Promises
      BY <1>1, <1>6, EndIsEnd DEF Abstract!Refusals
    <2>2. Abstract!Refuse(c)
      BY <1>1, <1>3, <1>4, <1>6, <2>1 DEF Abstract!Refuse, Promises
    <2> QED
      BY <2>2 DEF Abstract!Next
  <1> QED
    BY <1>5, <1>6 DEF LookForDelete, LookForCopy, Judged

LEMMA WriteMaps ==
  ASSUME IInv, NEW c \in Clients, Put(c) \/ Copy(c) \/ Delete(c)
  PROVE  Abstract!Write(c)
  <1> DEFINE r == req[c]
  <1>1. /\ phase[c] = "act"
        /\ Met(c)
        /\ UNCHANGED <<kind, req, dropped, read>>
        /\ \E code \in {"ok", "failed"} : Ends(c, code)
        /\ r.op # "deleteMany"
    BY DEF Put, Copy, Delete, Acting, Answers
  <1>2. r \in Calls
    BY <1>1, AtWorkAlone
  <1>3. r.key \in Keys /\ r.src \in Keys /\ (r.op = "put" => r.body \in Contents)
    BY <1>2, CallFacts DEF IInv
  <1>4. Abstract!Promised(c)
    BY <1>1, <1>2, MetIsPromised
  <1>5. PICK code \in {"ok", "failed"} : Ends(c, code)
    BY <1>1
  <1>6. Abstract!Ends(c, code) /\ Abstract!Active(c) /\ Promises' = Promises
    BY <1>1, <1>5, EndIsEnd
  <1>7. CASE Put(c)
    <2>1. Object(r.body) \in Objects /\ store' = [store EXCEPT ![r.key] = Object(r.body)]
      BY <1>3, <1>7, StoresObject DEF Put, Stores, Acting, IInv
    <2>2. PICK t \in Tags : Object(r.body) = [content |-> r.body, etag |-> t]
      BY <2>1 DEF Object, Objects
    <2> QED
      BY <1>1, <1>4, <1>6, <1>7, <2>1, <2>2 DEF Abstract!Write, Put, Acting, Promises
  <1>8. CASE Copy(c)
    <2>1. store[r.src] # None /\ store[r.src] \in Objects
      BY <1>3, <1>8 DEF Copy, IInv, TypeOK
    <2>2. store[r.src].content \in Contents \cup {Part}
      BY <2>1 DEF Objects
    <2>3. /\ Object(store[r.src].content) \in Objects
          /\ store' = [store EXCEPT ![r.key] = Object(store[r.src].content)]
      BY <1>3, <1>8, <2>2, StoresObject DEF Copy, Stores, IInv
    <2>4. PICK t \in Tags : Object(store[r.src].content) = [content |-> store[r.src].content, etag |-> t]
      BY <2>3 DEF Object, Objects
    <2> QED
      BY <1>1, <1>4, <1>6, <1>8, <2>1, <2>3, <2>4 DEF Abstract!Write, Copy, Acting, Promises
  <1>9. CASE Delete(c)
    BY <1>1, <1>4, <1>6, <1>9 DEF Abstract!Write, Delete, Acting, Promises
  <1> QED
    BY <1>7, <1>8, <1>9

LEMMA PutPartMaps ==
  ASSUME IInv, NEW c \in Clients, PutPart(c)
  PROVE  Abstract!Tear(c)
  <1>1. /\ phase[c] = "act"
        /\ req[c].op = "put"
        /\ Met(c)
        /\ UNCHANGED <<kind, req, dropped, read>>
        /\ Ends(c, "failed")
    BY DEF PutPart, Acting
  <1>2. req[c] \in Calls
    BY <1>1, AtWorkAlone
  <1>3. Abstract!Promised(c)
    BY <1>1, <1>2, MetIsPromised
  <1>4. Abstract!Ends(c, "failed") /\ Abstract!Active(c) /\ Promises' = Promises
    BY <1>1, EndIsEnd
  <1>5. Object(Part) \in Objects /\ store' = [store EXCEPT ![req[c].key] = Object(Part)]
    BY <1>2, CallFacts, StoresObject DEF PutPart, Stores, IInv
  <1>6. PICK t \in Tags : Object(Part) = [content |-> Part, etag |-> t]
    BY <1>5 DEF Object, Objects
  <1> QED
    BY <1>1, <1>3, <1>4, <1>5, <1>6 DEF Abstract!Tear, Promises

LEMMA GetMaps ==
  ASSUME IInv, NEW c \in Clients, Get(c)
  PROVE  Abstract!Read(c)
  <1> DEFINE r == req[c]
             o == store[r.key]
  <1>1. /\ phase[c] = "act"
        /\ r.op = "get"
        /\ Met(c)
        /\ o # None
        /\ UNCHANGED <<kind, store, req, dropped>>
    BY DEF Get, Acting
  <1>2. r \in Calls
    BY <1>1, AtWorkAlone
  <1>3. Abstract!Holds(r)
    BY <1>1, <1>2, MetHolds
  <1>4. CASE kind # "gcs" /\ o.etag = r.ifNoneMatch /\ Ends(c, "NotModified") /\ read' = read
    BY <1>1, <1>3, <1>4, EndIsEnd DEF Abstract!Read, Promises
  <1>5. CASE /\ kind = "gcs" \/ o.etag # r.ifNoneMatch
             /\ Ends(c, "ok")
             /\ read' = [read EXCEPT ![c] =
                  [content |-> o.content, etag |-> IF kind = "gcs" THEN seen[c] ELSE o.etag]]
    <2>1. kind = "gcs" => seen[c] = o.etag /\ seen[c] # r.ifNoneMatch
      <3>1. kind = "gcs" => seen[c] \in Tags /\ seen[c] # r.ifNoneMatch
        BY <1>1 DEF IInv, Coherent, LooksFirst
      <3> QED
        BY <1>1, <3>1, NoneApart DEF Met, AsksTag
    <2>2. o \in Objects
      BY <1>1, <1>2, CallFacts DEF IInv, TypeOK
    <2>3. o = [content |-> o.content, etag |-> IF kind = "gcs" THEN seen[c] ELSE o.etag]
      BY <2>1, <2>2 DEF Objects
    <2>4. o.etag # r.ifNoneMatch
      BY <1>5, <2>1
    <2>5. Abstract!Ends(c, "ok") /\ Abstract!Active(c) /\ Promises' = Promises
      BY <1>1, <1>5, EndIsEnd
    <2>6. read' = [read EXCEPT ![c] = o]
      BY <1>5, <2>3
    <2> QED
      BY <1>1, <1>3, <2>4, <2>5, <2>6 DEF Abstract!Read, Promises
  <1> QED
    BY <1>4, <1>5 DEF Get

LEMMA RefusedMaps ==
  ASSUME IInv, NEW c \in Clients, Refused(c)
  PROVE  Abstract!Refuse(c)
  <1>1. /\ phase[c] = "act"
        /\ req[c].op # "deleteMany"
        /\ UNCHANGED <<kind, store, req, dropped, read>>
    BY DEF Refused
  <1>2. req[c] \in Calls
    BY <1>1, AtWorkAlone
  <1>3. \E code \in Abstract!Refusals : Ends(c, code)
    BY DEF Refused, Codes, Abstract!Refusals
  <1>4. PICK code \in Abstract!Refusals : Ends(c, code)
    BY <1>3
  <1>5. Abstract!Ends(c, code) /\ Abstract!Active(c) /\ Promises' = Promises
    BY <1>1, <1>4, EndIsEnd
  <1>6. Held(c) <=> Helds[c]
    BY DEF Helds
  <1>7. \/ ~Abstract!Holds(req[c])
        \/ req[c].op = "get" /\ (store[req[c].key] = None \/ Helds[c])
        \/ req[c].op = "copy" /\ store[req[c].src] = None
    BY <1>1, <1>2, <1>6, MetHolds DEF Refused
  <1> QED
    BY <1>1, <1>5, <1>7 DEF Abstract!Refuse, Promises, Helds

LEMMA OtherEndsMap ==
  ASSUME IInv, NEW c \in Clients, DeleteGone(c) \/ Fail(c) \/ BatchEnds(c)
  PROVE  Abstract!Nothing(c) \/ Abstract!Fail(c)
  <1>1. CASE DeleteGone(c)
    BY <1>1, EndIsEnd DEF DeleteGone, Acting, Abstract!Nothing, Promises
  <1>2. CASE Fail(c)
    BY <1>2, EndIsEnd DEF Fail, Abstract!Fail, Promises
  <1>3. CASE BatchEnds(c)
    BY <1>3, EndIsEnd DEF BatchEnds, Acting, Abstract!Fail, Promises
  <1> QED
    BY <1>1, <1>2, <1>3

LEMMA DeleteSomeMaps ==
  ASSUME IInv, NEW c \in Clients, DeleteSome(c)
  PROVE  Abstract!Drop(c)
  <1>1. /\ phase[c] = "act"
        /\ req[c].op = "deleteMany"
        /\ UNCHANGED <<kind, req, phase, read, res>>
    BY DEF DeleteSome, Acting
  <1>2. PICK gone \in SUBSET left[c], fine \in SUBSET left[c] :
          /\ fine \subseteq gone
          /\ store' = [k \in Keys |-> IF k \in gone THEN None ELSE store[k]]
          /\ dropped' = [dropped EXCEPT ![c] = @ \cup fine]
    BY DEF DeleteSome
  <1>3. left[c] \subseteq req[c].keys
    BY <1>1 DEF IInv, Coherent
  <1>4. Abstract!Active(c)
    BY <1>1, AtWork DEF Abstract!Active
  <1>5. /\ dropped' \in [Clients -> SUBSET Keys]
        /\ \A d \in Clients \ {c} : dropped'[d] = dropped[d]
        /\ dropped'[c] = dropped[c] \cup fine
    BY <1>2 DEF IInv, TypeOK
  <1>6. Promises' = Promises /\ Helds' = Helds
    BY <1>1 DEF Promises, Helds, Promise, Held
  <1>7. gone \in SUBSET req[c].keys
    BY <1>2, <1>3
  <1> QED
    BY <1>1, <1>2, <1>4, <1>5, <1>6, <1>7 DEF Abstract!Drop, Promises, Helds

LEMMA StepMaps ==
  ASSUME IInv, [Next]_vars
  PROVE  [Abstract!Next]_(Abstract!vars)
  <1>1. CASE UNCHANGED vars
    BY <1>1 DEF vars, callVars, Abstract!vars, Promise, Held
  <1>2. ASSUME NEW c \in Clients,
               \/ Abstract!Begin(c) \/ Abstract!Write(c) \/ Abstract!Tear(c) \/ Abstract!Nothing(c)
               \/ Abstract!Read(c) \/ Abstract!Drop(c) \/ Abstract!Refuse(c) \/ Abstract!Fail(c)
               \/ Abstract!Return(c)
        PROVE  Abstract!Next
    BY <1>2 DEF Abstract!Next
  <1> QED
    BY <1>1, <1>2, BeginMaps, ReturnMaps, LookGcsMaps, LookMinioMaps, WriteMaps, PutPartMaps, GetMaps,
       RefusedMaps, OtherEndsMap, DeleteSomeMaps DEF Next

\* The backends implement the object store of the Backend interface, each with the
\* promise of its kind: for any number of callers, keys and versions.
THEOREM BackendsAreObjectStores == Spec => IsAnObjectStore
  <1>1. Init => IInv /\ Abstract!Init
    BY InitInv, InitMaps
  <1>2. IInv /\ [Next]_vars => IInv'
    BY StepKeeps
  <1>3. IInv /\ [Next]_vars => [Abstract!Next]_(Abstract!vars)
    BY StepMaps
  <1> QED
    BY <1>1, <1>2, <1>3, PTL DEF Spec, IsAnObjectStore, Abstract!Spec

=============================================================================
