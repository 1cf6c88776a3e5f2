----------------------------- MODULE ReadsProof -----------------------------
(* Proofs about Reads, for every set of keys, sizes and limits, whatever a   *)
(* store answers and whatever others do to the bucket: frames agree with     *)
(* their headers, bodies are of the version that was listed, nothing is      *)
(* relayed past the cap, a call fails for cause, a missing bucket is never a *)
(* missing object where no bucket of Google's goes, but for what MinIO's     *)
(* HEAD cannot tell, and a listing is complete on every backend, but for the *)
(* folders MinIO's may skip.                                                 *)
EXTENDS Reads, TLAPS, WellFoundedInduction, FiniteSetTheorems

Outcomes == {"none", "OK", "CHANGED", "NOT_FOUND", "TOO_LARGE"}
Tags == Nat \cup {None}

AnswerRecords ==
  [outcome : Outcomes, many : BOOLEAN, tag : Tags, body : Tags, size : Nat, sent : Nat]

Items == [at : {"open", "pinned", "confirm", "learn", "body"},
          tag : Tags, left : Nat, ahead : BOOLEAN, lazy : BOOLEAN]

Calls == [rpc : {"get", "getMany"}, keys : (SUBSET Keys) \ {{}}]

\* The types of what is read.
ReadTypes ==
  /\ mode \in Modes
  /\ bucket \in [Names -> Objects \cup {None}]
  /\ written \in Nat
  /\ call = None \/ call \in Calls
  /\ item = None \/ item \in Items
  /\ item # None => call # None
  /\ answer \in [Keys -> AnswerRecords]

\* Nothing is read before the listing is done.
ListedFirst ==
  stage = "list" => call = None /\ item = None /\ \A k \in Keys : answer[k].outcome = "none"

\* A call names what was listed.
CallsNameListed == call # None => \A k \in call.keys : listed[k] # None

\* What the item under way has been told of its object.
AtBody(k) == item # None /\ item.at = "body" /\ Key = k

Bodies ==
  \A k \in Keys : AtBody(k) =>
    /\ answer[k].outcome = "OK"
    /\ answer[k].many = Many
    /\ answer[k].tag = item.tag
    /\ Many /\ ~mode.bound => answer[k].sent + item.left = answer[k].size

\* The version a batch is reading is the one that was listed.
Pins == item # None /\ item.at \in {"pinned", "learn"} /\ Many => item.tag = listed[Key]

\* A version is numbered by the write that made it, so what replaces an object that
\* an item has seen bears another ETag than the item's.
Dated ==
  /\ \A n \in Names : bucket[n] # None => bucket[n].tag <= written
  /\ item # None /\ item.at \in {"pinned", "learn", "body"} => item.tag \in 0..written
  /\ item # None /\ item.lazy => item.at \in {"learn", "body"} /\ Lazy
  /\ stage = "failed" /\ status = "BodyRefused" => item # None /\ item.tag \in 0..written

\* A cap on what is relayed, and on what a batch promises.
Caps ==
  mode.bound => \A k \in Keys :
    /\ answer[k].sent <= Cap
    /\ answer[k].outcome = "OK" /\ answer[k].many => answer[k].size <= Cap

Inv ==
  /\ ReadTypes
  /\ ListedFirst
  /\ CallsNameListed
  /\ Bodies
  /\ Pins
  /\ Dated
  /\ Caps
  /\ FramesAgree
  /\ BodyIsOfItsHeader
  /\ FailsForCause

\* What an item's steps leave alone.
Elsewhere == UNCHANGED <<mode, storeVars, listVars, late>>

-----------------------------------------------------------------------------
(* Sets of numbers: their least, their largest, and the first n of them *)

\* A set of numbers has a least one.
LEMMA MinIsIn ==
  ASSUME NEW S \in SUBSET Nat, S # {}
  PROVE  Min(S) \in S /\ \A y \in S : Min(S) <= y
<1>1. IsWellFoundedOn(OpToRel(<, Nat), Nat)
  BY NatLessThanWellFounded
<1>2. PICK x \in S : \A y \in S : ~ (<<y, x>> \in OpToRel(<, Nat))
  BY <1>1, WFMin, Zenon
<1>3. OpToRel(<, Nat) = {ss \in Nat \X Nat : ss[1] < ss[2]}
  BY Zenon DEF OpToRel
<1>4. \A y \in S : <<y, x>> \notin {ss \in Nat \X Nat : ss[1] < ss[2]}
  BY <1>2, <1>3
<1>5. ASSUME NEW y \in S PROVE x <= y
  <2>1. <<y, x>> \in Nat \X Nat
    OBVIOUS
  <2>2. ~ (y < x)
    BY <1>4, <2>1
  <2> QED BY <2>2
<1> QED BY <1>5 DEF Min

\* And a largest, where there is a bound.
LEMMA MaxIsIn ==
  ASSUME NEW top \in Nat, NEW S \in SUBSET (0..top), S # {}
  PROVE  Max(S) \in S /\ \A y \in S : y <= Max(S)
<1> DEFINE U == {u \in Nat : \A y \in S : y <= u}
<1>1. U \in SUBSET Nat /\ U # {}
  <2>1. top \in U
    OBVIOUS
  <2> QED BY <2>1
<1>2. Min(U) \in U /\ \A u \in U : Min(U) <= u
  BY <1>1, MinIsIn
<1> DEFINE m == Min(U)
<1>3. m \in Nat /\ \A y \in S : y <= m
  BY <1>2
<1>4. m \in S
  <2> SUFFICES ASSUME m \notin S PROVE FALSE
    OBVIOUS
  <2>1. PICK z \in S : TRUE
    OBVIOUS
  <2>2. \A y \in S : y \in Nat /\ y <= m /\ y # m
    BY <1>3
  <2>3. m - 1 \in Nat /\ \A y \in S : y <= m - 1
    <3> HIDE DEF m
    <3> QED BY <1>3, <2>1, <2>2
  <2>4. m - 1 \in U
    BY <2>3
  <2>5. m <= m - 1
    BY <1>2, <2>4
  <2> HIDE DEF m
  <2> QED BY <1>3, <2>5
<1>5. \A y \in S : m >= y
  BY <1>3
<1> HIDE DEF m
<1> QED BY <1>3, <1>4, <1>5 DEF Max

\* How many are below grows with what they are below.
LEMMA BelowGrows ==
  ASSUME NEW S \in SUBSET Nat, IsFiniteSet(S), NEW x \in S, NEW y \in S, x <= y
  PROVE  /\ Cardinality({z \in S : z < x}) \in Nat
         /\ Cardinality({z \in S : z < y}) \in Nat
         /\ Cardinality({z \in S : z < x}) <= Cardinality({z \in S : z < y})
<1> DEFINE X == {z \in S : z < x}
           Y == {z \in S : z < y}
<1>1. X \in SUBSET Y /\ Y \in SUBSET S
  <2> SUFFICES ASSUME NEW z \in S, z < x PROVE z < y
    OBVIOUS
  <2>1. x \in Nat /\ y \in Nat /\ z \in Nat
    OBVIOUS
  <2> QED BY <2>1
<1>2. IsFiniteSet(Y) /\ IsFiniteSet(X)
  BY <1>1, FS_Subset
<1>3. Cardinality(X) <= Cardinality(Y)
  BY <1>1, <1>2, FS_Subset
<1> QED BY <1>2, <1>3, FS_CardinalityType

\* The first ones are at the front.
LEMMA FirstIsFront ==
  ASSUME NEW S \in SUBSET Nat, IsFiniteSet(S), NEW n \in Nat
  PROVE  /\ First(S, n) \subseteq S /\ IsFiniteSet(First(S, n))
         /\ \A x \in First(S, n) : \A y \in S : y <= x => y \in First(S, n)
         /\ n # 0 /\ S # {} => First(S, n) # {}
<1>1. First(S, n) \subseteq S
  BY DEF First
<1>2. IsFiniteSet(First(S, n))
  BY <1>1, FS_Subset
<1>3. ASSUME NEW x \in First(S, n), NEW y \in S, y <= x PROVE y \in First(S, n)
  <2>1. Cardinality({z \in S : z < x}) < n /\ x \in S
    BY DEF First
  <2>2. /\ Cardinality({z \in S : z < y}) \in Nat
        /\ Cardinality({z \in S : z < x}) \in Nat
        /\ Cardinality({z \in S : z < y}) <= Cardinality({z \in S : z < x})
    BY <1>3, <2>1, BelowGrows
  <2>3. Cardinality({z \in S : z < y}) < n
    BY <2>1, <2>2
  <2> QED BY <2>3 DEF First
<1>4. ASSUME n # 0, S # {} PROVE First(S, n) # {}
  <2>1. Min(S) \in S /\ \A y \in S : Min(S) <= y
    BY <1>4, MinIsIn
  <2>2. {y \in S : y < Min(S)} = {}
    <3> SUFFICES ASSUME NEW y \in S, y < Min(S) PROVE FALSE
      OBVIOUS
    <3>1. y \in Nat /\ Min(S) \in Nat /\ Min(S) <= y
      BY <2>1
    <3> QED BY <3>1
  <2>3. Cardinality({y \in S : y < Min(S)}) < n
    BY <1>4, <2>2, FS_EmptySet
  <2> QED BY <2>1, <2>3 DEF First
<1> QED BY <1>1, <1>2, <1>3, <1>4

\* They are n, or all.
LEMMA FirstCounts ==
  ASSUME NEW top \in Nat, NEW S \in SUBSET (0..top), NEW n \in Nat
  PROVE  /\ Cardinality(First(S, n)) <= n
         /\ First(S, n) # S => Cardinality(First(S, n)) = n
         /\ Cardinality(S) <= n => First(S, n) = S
<1> DEFINE F == First(S, n)
<1>0. IsFiniteSet(S) /\ S \in SUBSET Nat
  BY FS_BoundedSetOfNaturals
<1>1. F \subseteq S /\ IsFiniteSet(F) /\ \A x \in F : \A y \in S : y <= x => y \in F
  BY <1>0, FirstIsFront
<1>2. Cardinality(F) \in Nat
  BY <1>1, FS_CardinalityType
<1>3. Cardinality(F) <= n
  <2>1. CASE F = {}
    BY <2>1, FS_EmptySet
  <2>2. CASE F # {}
    <3> DEFINE m == Max(F)
    <3>1. m \in F /\ \A y \in F : y <= m
      BY <1>1, <2>2, MaxIsIn
    <3>2. {z \in S : z < m} = F \ {m}
      <4>1. ASSUME NEW z \in S, z < m PROVE z \in F \ {m}
        <5>1. z \in Nat /\ m \in Nat
          BY <1>0, <1>1, <3>1
        <5>2. z <= m /\ z # m
          BY <4>1, <5>1
        <5> QED BY <1>1, <3>1, <5>2
      <4>2. ASSUME NEW z \in F \ {m} PROVE z \in S /\ z < m
        <5>1. z \in Nat /\ m \in Nat /\ z <= m /\ z # m
          BY <1>0, <1>1, <3>1
        <5> QED BY <1>1, <5>1
      <4> QED BY <4>1, <4>2
    <3>3. Cardinality({z \in S : z < m}) < n
      BY <3>1 DEF First
    <3>4. Cardinality(F \ {m}) = Cardinality(F) - 1
      BY <1>1, <3>1, FS_RemoveElement
    <3>5. Cardinality(F \ {m}) < n
      BY <3>2, <3>3
    <3> HIDE DEF F, m
    <3> QED BY <1>2, <3>4, <3>5
  <2> QED BY <2>1, <2>2
<1>4. ASSUME F # S PROVE Cardinality(F) = n
  <2> DEFINE R == S \ F
             x == Min(R)
  <2>1. x \in R /\ \A y \in R : x <= y
    BY <1>0, <1>1, <1>4, MinIsIn
  <2>2. {z \in S : z < x} \subseteq F
    <3> SUFFICES ASSUME NEW z \in S, z < x, z \notin F PROVE FALSE
      OBVIOUS
    <3>1. x <= z /\ x \in Nat /\ z \in Nat
      BY <1>0, <2>1
    <3> QED BY <3>1
  <2>3. IsFiniteSet({z \in S : z < x}) /\ Cardinality({z \in S : z < x}) <= Cardinality(F)
    BY <1>1, <2>2, FS_Subset
  <2>4. ~ (Cardinality({z \in S : z < x}) < n)
    BY <2>1 DEF First
  <2>5. Cardinality({z \in S : z < x}) \in Nat
    BY <2>3, FS_CardinalityType
  <2> QED BY <1>2, <1>3, <2>3, <2>4, <2>5
<1>5. ASSUME Cardinality(S) <= n, F # S PROVE FALSE
  <2>1. Cardinality(F) = n
    BY <1>4, <1>5
  <2>2. Cardinality(F) <= Cardinality(S) /\ Cardinality(S) \in Nat
    BY <1>0, <1>1, FS_Subset, FS_CardinalityType
  <2>3. Cardinality(S) = Cardinality(F)
    BY <1>5, <2>1, <2>2
  <2> QED BY <1>0, <1>1, <1>5, <2>3, FS_Subset
<1> QED BY <1>3, <1>4, <1>5

\* A set of numbers up to a bound can be counted, and so can two at once.
LEMMA CountedUpTo ==
  ASSUME NEW top \in Nat, NEW S \in SUBSET (0..top)
  PROVE  IsFiniteSet(S) /\ Cardinality(S) \in Nat
<1>1. IsFiniteSet(0..top)
  BY FS_Interval
<1>2. IsFiniteSet(S)
  BY <1>1, FS_Subset
<1> QED BY <1>2, FS_CardinalityType

LEMMA DisjointAdds ==
  ASSUME NEW S, NEW T, IsFiniteSet(S), IsFiniteSet(T), S \cap T = {}
  PROVE  /\ Cardinality(S) \in Nat /\ Cardinality(T) \in Nat
         /\ Cardinality(S \cup T) = Cardinality(S) + Cardinality(T)
<1>1. Cardinality(S) \in Nat /\ Cardinality(T) \in Nat
  BY FS_CardinalityType
<1>2. Cardinality(S \cup T) = Cardinality(S) + Cardinality(T) - Cardinality(S \cap T)
  BY FS_Union
<1>3. Cardinality(S \cap T) = 0
  BY FS_EmptySet
<1> QED BY <1>1, <1>2, <1>3

-----------------------------------------------------------------------------
(* The next item of a call is one of its keys *)

\* The item under way is one of the keys of its call.
LEMMA KeyIsOfCall == ASSUME ReadTypes, call # None PROVE Key \in call.keys /\ Key \in Keys
<1>1. call.keys \subseteq Keys /\ call.keys # {}
  BY DEF ReadTypes, Calls
<1>2. Keys \subseteq Nat
  BY KeysAssumption
<1> QED BY <1>1, <1>2, MinIsIn DEF Key

-----------------------------------------------------------------------------
(* How the steps of an item keep the invariant *)

\* After Proceed the call is still well formed, and smaller.
LEMMA ProceedTypes ==
  ASSUME ReadTypes, call # None, Proceed
  PROVE  /\ item' = None
         /\ call' = None \/ (call' \in Calls /\ call' = [call EXCEPT !.keys = @ \ {Key}])
<1>1. Key \in call.keys
  BY KeyIsOfCall
<1> QED BY <1>1 DEF Proceed, ReadTypes, Calls

\* An outcome without a body.
LEMMA ToldStep ==
  ASSUME Inv, stage = "read", item # None, NEW o \in {"CHANGED", "NOT_FOUND", "TOO_LARGE"}, Told(o), Elsewhere
  PROVE  Inv'
<1>0. call # None /\ Key \in Keys /\ stage # "list" /\ UNCHANGED <<stage, status, mode, listed, gone, late>>
  BY KeyIsOfCall DEF Inv, ReadTypes, ListedFirst, Told, Elsewhere, storeVars, listVars
<1>1. /\ item' = None
      /\ call' = None \/ (call' \in Calls /\ call' = [call EXCEPT !.keys = @ \ {Key}])
  BY <1>0, ProceedTypes DEF Inv, Told
<1>2. /\ answer' \in [Keys -> AnswerRecords]
      /\ answer'[Key].outcome = o
      /\ answer'[Key].many = answer[Key].many
      /\ answer'[Key].size = answer[Key].size
      /\ answer'[Key].sent = answer[Key].sent
      /\ \A k \in Keys \ {Key} : answer'[k] = answer[k]
  BY <1>0 DEF Inv, ReadTypes, Told, AnswerRecords, Outcomes
<1>3. ReadTypes'
  BY <1>0, <1>1, <1>2 DEF Inv, ReadTypes, Elsewhere, storeVars
<1>4. ListedFirst' /\ Bodies' /\ Pins' /\ Dated'
  BY <1>0, <1>1 DEF ListedFirst, Bodies, AtBody, Pins, Inv, Dated, Elsewhere, storeVars
<1>5. CallsNameListed'
  BY <1>0, <1>1 DEF Inv, CallsNameListed, ReadTypes, Calls
<1>6. Caps'
  BY <1>0, <1>2 DEF Inv, Caps, ReadTypes
<1>7. FramesAgree'
  <2> SUFFICES ASSUME NEW k \in Keys, answer'[k].outcome = "OK", answer'[k].many
               PROVE  answer'[k].sent <= answer'[k].size /\ answer'[k].sent = answer'[k].size
    BY DEF FramesAgree
  <2>1. k # Key /\ answer'[k] = answer[k]
    BY <1>2
  <2>2. HasRead(k)
    BY <2>1 DEF HasRead
  <2> QED BY <2>1, <2>2 DEF Inv, FramesAgree, ReadTypes, AnswerRecords
<1>8. BodyIsOfItsHeader'
  BY <1>0, <1>2 DEF Inv, BodyIsOfItsHeader
<1>9. FailsForCause'
  BY <1>0 DEF FailsForCause
<1> QED BY <1>3, <1>4, <1>5, <1>6, <1>7, <1>8, <1>9 DEF Inv

\* The whole call ends, for a reason that concerns the whole call.
LEMMA EndsStep ==
  ASSUME Inv, stage = "read", item # None, NEW why, Ends(why), Elsewhere,
         \/ why = "BucketNotFound" /\ gone
         \/ why = "Aborted" /\ mode.bound
         \/ /\ why = "BodyRefused" /\ mode.kind = "minio" /\ Overtaken
            /\ item.at \in {"learn", "body"}
  PROVE  Inv'
<1>1. /\ UNCHANGED <<mode, bucket, written, call, item, answer, listed, gone, late>>
      /\ stage' = "failed" /\ status' = why
  BY DEF Ends, Fails, Elsewhere, storeVars, listVars, readVars
<1>2. ReadTypes'
  BY <1>1 DEF Inv, ReadTypes
<1>3. ListedFirst'
  BY <1>1 DEF ListedFirst
<1>4. CallsNameListed' /\ Bodies' /\ Pins' /\ Caps'
  BY <1>1 DEF Inv, CallsNameListed, Bodies, AtBody, Pins, Caps, Many, Key
<1>5. FramesAgree' /\ BodyIsOfItsHeader'
  BY <1>1 DEF Inv, FramesAgree, HasRead, BodyIsOfItsHeader, Key
<1>6. FailsForCause'
  <2>1. Overtaken' = Overtaken
    BY <1>1 DEF Overtaken, Stored, Key
  <2> QED BY <1>1, <2>1 DEF FailsForCause
<1>7. Dated'
  <2>1. status' = "BodyRefused" => item.at \in {"learn", "body"}
    BY <1>1
  <2> QED BY <1>1, <2>1 DEF Inv, Dated, Lazy
<1> QED BY <1>2, <1>3, <1>4, <1>5, <1>6, <1>7 DEF Inv

\* The item goes on to a further request, and the caller has been told nothing.
LEMMA MovesStep ==
  ASSUME Inv, stage = "read", item # None, Elsewhere,
         NEW at \in {"pinned", "confirm", "learn"}, NEW tag \in Tags, NEW left \in Nat, NEW lazy \in BOOLEAN,
         item' = [item EXCEPT !.at = at, !.tag = tag, !.left = left, !.lazy = lazy],
         at # "confirm" /\ Many => tag = listed[Key],
         at # "confirm" => tag \in 0..written,
         lazy => at = "learn" /\ Lazy,
         UNCHANGED <<stage, status, call, answer>>
  PROVE  Inv'
<1>1. UNCHANGED <<mode, bucket, written, stage, status, call, answer, listed, gone, late>>
  BY DEF Elsewhere, storeVars, listVars
<1>2. /\ item' \in Items
      /\ item'.at = at /\ item'.tag = tag /\ item'.lazy = lazy
  BY DEF Inv, ReadTypes, Items
<1>3. call # None
  BY DEF Inv, ReadTypes
<1>4. ReadTypes'
  BY <1>1, <1>2, <1>3 DEF Inv, ReadTypes
<1>5. ListedFirst'
  BY <1>1 DEF ListedFirst
<1>6. CallsNameListed' /\ Bodies' /\ Pins' /\ Caps'
  BY <1>1, <1>2 DEF Inv, CallsNameListed, Bodies, AtBody, Pins, Caps, Many, Key
<1>7. FramesAgree' /\ BodyIsOfItsHeader'
  BY <1>1 DEF Inv, FramesAgree, HasRead, BodyIsOfItsHeader, Key
<1>8. FailsForCause' /\ Dated'
  BY <1>1, <1>2 DEF Inv, FailsForCause, Dated, Lazy
<1> QED BY <1>4, <1>5, <1>6, <1>7, <1>8 DEF Inv

\* A header promises a body of the version it describes.
LEMMA HeaderStep ==
  ASSUME Inv, stage = "read", item # None, Elsewhere,
         NEW o, NEW tag \in Tags, NEW size \in Nat, NEW left \in Nat, NEW ahead \in BOOLEAN,
         Header(o, tag, size, left, ahead),
         o.tag = tag, tag \in 0..written,
         Many => tag = listed[Key],
         Many /\ mode.bound => size <= Cap,
         Many /\ ~mode.bound => left = size
  PROVE  Inv'
<1>0. call # None /\ Key \in Keys /\ Many \in BOOLEAN
  BY KeyIsOfCall DEF Inv, ReadTypes, Many
<1>1. UNCHANGED <<mode, bucket, written, stage, status, call, listed, gone, late>>
  BY DEF Header, Elsewhere, storeVars, listVars
<1>2. Key' = Key /\ Many' = Many
  BY <1>1 DEF Key, Many
<1>3. /\ item' \in Items
      /\ item'.at = "body" /\ item'.left = left /\ item'.tag = tag /\ (item'.lazy => Lazy)
      /\ item' # None => call' # None
  BY <1>0, <1>1 DEF Header, Lazy, Items
<1>4. answer' = [answer EXCEPT ![Key] =
        [outcome |-> "OK", many |-> Many, tag |-> tag, body |-> tag, size |-> size, sent |-> 0]]
  BY DEF Header
<1>5. /\ answer' \in [Keys -> AnswerRecords]
      /\ answer'[Key] = [outcome |-> "OK", many |-> Many, tag |-> tag, body |-> tag, size |-> size, sent |-> 0]
      /\ \A k \in Keys \ {Key} : answer'[k] = answer[k]
  BY <1>0, <1>4 DEF Inv, ReadTypes, AnswerRecords, Outcomes
<1>6. ReadTypes'
  BY <1>0, <1>1, <1>3, <1>5 DEF Inv, ReadTypes
<1>7. ListedFirst'
  BY <1>1 DEF ListedFirst
<1>8. CallsNameListed' /\ Pins'
  BY <1>1, <1>2, <1>3 DEF Inv, CallsNameListed, Pins
<1>9. Bodies'
  BY <1>1, <1>2, <1>3, <1>5 DEF Bodies, AtBody
<1>10. Caps'
  BY <1>1, <1>5, ReadBounds DEF Inv, Caps
<1>11. FramesAgree'
  <2> SUFFICES ASSUME NEW k \in Keys, answer'[k].outcome = "OK", answer'[k].many
               PROVE  answer'[k].sent <= answer'[k].size /\ (HasRead(k)' => answer'[k].sent = answer'[k].size)
    BY DEF FramesAgree
  <2>1. CASE k = Key
    BY <1>0, <1>1, <1>2, <1>5, <2>1 DEF HasRead
  <2>2. CASE k # Key
    <3>1. answer'[k] = answer[k] /\ (HasRead(k)' => HasRead(k))
      BY <1>1, <1>2, <1>5, <2>2 DEF HasRead
    <3> QED BY <3>1 DEF Inv, FramesAgree
  <2> QED BY <2>1, <2>2
<1>12. BodyIsOfItsHeader'
  BY <1>1, <1>5 DEF Inv, BodyIsOfItsHeader
<1>13. FailsForCause' /\ Dated'
  BY <1>1, <1>3 DEF Inv, FailsForCause, Dated, Lazy
<1> QED BY <1>6, <1>7, <1>8, <1>9, <1>10, <1>11, <1>12, <1>13 DEF Inv

\* A backend's answer with an object.
LEMMA OpenedStep ==
  ASSUME Inv, stage = "read", item # None, Elsewhere,
         NEW o \in Objects, Opened(o, o.tag), o.tag <= written,
         Many => o.tag = listed[Key]
  PROVE  Inv'
<1>0. o.tag \in Tags /\ o.tag \in 0..written /\ Lazy \in BOOLEAN /\ o.size \in Nat /\ o.size \in Sizes
  <2>1. o.tag \in Nat /\ o.size \in Nat /\ o.size \in Sizes /\ written \in Nat
    BY ReadBounds DEF Objects, Inv, ReadTypes
  <2> QED BY <2>1 DEF Tags, Lazy
<1>1. PICK size \in Declared(o) :
        IF TooLarge(size) THEN Told("TOO_LARGE")
        ELSE IF Many /\ size <= 0
        THEN /\ item' = [item EXCEPT !.at = "learn", !.tag = o.tag, !.left = o.size, !.lazy = Lazy]
             /\ UNCHANGED <<stage, status, call, answer>>
        ELSE Header(o, o.tag, size, o.size, FALSE)
  BY DEF Opened
<1>2. size \in Nat /\ (~mode.bound => size \in {o.size, 0})
  <2>1. size \in {o.size} \cup {0} \cup Sizes
    BY DEF Declared
  <2>2. ~mode.bound => size \in {o.size} \cup {0}
    BY DEF Declared
  <2>3. size \in Nat
    <3>1. o.size \in Nat /\ 0 \in Nat /\ Sizes \subseteq Nat
      BY <1>0, ReadBounds
    <3> QED BY <2>1, <3>1, Zenon
  <2>4. ~mode.bound => size \in {o.size, 0}
    BY <2>2
  <2> QED BY <2>3, <2>4
<1>3. CASE TooLarge(size)
  BY <1>1, <1>3, ToldStep
<1>4. CASE ~TooLarge(size) /\ Many /\ size <= 0
  BY <1>0, <1>1, <1>4, MovesStep
<1>5. CASE ~TooLarge(size) /\ ~(Many /\ size <= 0)
  <2>1. Header(o, o.tag, size, o.size, FALSE)
    BY <1>1, <1>5
  <2>2. /\ Many /\ mode.bound => size <= Cap
        /\ Many /\ ~mode.bound => o.size = size
    BY <1>2, <1>5, ReadBounds DEF TooLarge
  <2> QED BY <1>0, <1>2, <2>1, <2>2, HeaderStep
<1> QED BY <1>3, <1>4, <1>5

-----------------------------------------------------------------------------
(* The steps of an item *)

\* A 404.
LEMMA NotFoundStep ==
  ASSUME Inv, stage = "read", item # None, ~item.lazy, Elsewhere, NotFound
  PROVE  Inv'
<1>1. CASE mode.kind = "gcs"
  <2>1. /\ item' = [item EXCEPT !.at = "confirm"]
        /\ UNCHANGED <<stage, status, call, answer>>
    BY <1>1 DEF NotFound
  <2>2. item.tag \in Tags /\ item.left \in Nat /\ item \in Items
    BY DEF Inv, ReadTypes, Items
  <2>3. item' = [item EXCEPT !.at = "confirm", !.tag = item.tag, !.left = item.left, !.lazy = FALSE]
    BY <2>1, <2>2 DEF Items
  <2> QED BY <2>1, <2>2, <2>3, MovesStep
<1>2. CASE gone /\ Ends("BucketNotFound")
  BY <1>2, EndsStep
<1>3. CASE Told("NOT_FOUND")
  BY <1>3, ToldStep
<1> QED BY <1>1, <1>2, <1>3 DEF NotFound

\* What the request for an object finds is an object.
LEMMA StoredType ==
  ASSUME Inv, item # None
  PROVE  Stored # None => Stored \in Objects /\ Stored.tag \in 0..written
<1>1. Key \in Keys
  BY KeyIsOfCall DEF Inv, ReadTypes
<1>2. Join(Key) \in Names
  BY <1>1, KeysAssumption
<1> QED BY <1>2 DEF Stored, Inv, ReadTypes, Dated, Objects

LEMMA ItemOpenInv == ASSUME Inv, ItemOpen PROVE Inv'
<1>1. stage = "read" /\ item # None /\ Elsewhere /\ item.at = "open" /\ ~item.lazy
  BY DEF ItemOpen, Elsewhere, Inv, Dated
<1>2. CASE Stored = None
  BY <1>1, <1>2, NotFoundStep DEF ItemOpen
<1>3. CASE Stored # None /\ IfMatch \notin {None, Stored.tag}
  BY <1>1, <1>3, ToldStep DEF ItemOpen
<1>4. CASE Stored # None /\ IfMatch \in {None, Stored.tag}
  <2>1. Stored \in Objects /\ Stored.tag \in 0..written /\ written \in Nat
    BY <1>1, <1>4, StoredType DEF Inv, ReadTypes
  <2>2. Many => Stored.tag = listed[Key]
    <3>1. Key \in call.keys /\ call # None
      BY <1>1, KeyIsOfCall DEF Inv, ReadTypes
    <3> QED BY <1>4, <3>1 DEF IfMatch, Inv, CallsNameListed
  <2>3. CASE mode.kind = "gcs"
    <3>1. /\ item' = [item EXCEPT !.at = "pinned", !.tag = Stored.tag]
          /\ UNCHANGED <<stage, status, call, answer>>
      BY <1>4, <2>3 DEF ItemOpen
    <3>2. item.left \in Nat /\ item \in Items /\ Stored.tag \in Tags
      BY <1>1, <2>1 DEF Inv, ReadTypes, Items, Objects, Tags
    <3>3. item' = [item EXCEPT !.at = "pinned", !.tag = Stored.tag, !.left = item.left, !.lazy = FALSE]
      BY <1>1, <3>1, <3>2 DEF Items
    <3> QED BY <1>1, <2>1, <2>2, <3>1, <3>2, <3>3, MovesStep
  <2>4. CASE mode.kind # "gcs"
    <3>1. Opened(Stored, Stored.tag)
      BY <1>4, <2>4 DEF ItemOpen
    <3> QED BY <1>1, <2>1, <2>2, <3>1, OpenedStep
  <2> QED BY <2>3, <2>4
<1> QED BY <1>2, <1>3, <1>4

LEMMA ItemPinnedInv == ASSUME Inv, ItemPinned PROVE Inv'
<1>1. stage = "read" /\ item # None /\ Elsewhere /\ item.at = "pinned" /\ ~item.lazy
  BY DEF ItemPinned, Elsewhere, Inv, Dated
<1>2. CASE Stored = None
  BY <1>1, <1>2, NotFoundStep DEF ItemPinned
<1>3. CASE Stored # None /\ ~Pinned
  BY <1>1, <1>3, ToldStep DEF ItemPinned
<1>4. CASE Stored # None /\ Pinned
  <2>1. Stored \in Objects /\ Stored.tag = item.tag /\ Stored.tag <= written
    BY <1>1, <1>4, StoredType DEF Pinned, Inv, ReadTypes
  <2>2. Many => Stored.tag = listed[Key]
    BY <1>1, <2>1 DEF Inv, Pins
  <2>3. Opened(Stored, Stored.tag)
    BY <1>4, <2>1 DEF ItemPinned
  <2> QED BY <1>1, <2>1, <2>2, <2>3, OpenedStep
<1> QED BY <1>2, <1>3, <1>4

LEMMA ItemConfirmInv == ASSUME Inv, ItemConfirm PROVE Inv'
<1>1. stage = "read" /\ item # None /\ Elsewhere
  BY DEF ItemConfirm, Elsewhere
<1>2. (gone /\ Ends("BucketNotFound")) \/ Told("NOT_FOUND")
  BY DEF ItemConfirm
<1> QED BY <1>1, <1>2, EndsStep, ToldStep

\* MinIO's second request: it is refused, or the body is of the version of the first.
LEMMA ItemFetchInv == ASSUME Inv, ItemFetch PROVE Inv'
<1>1. /\ stage = "read" /\ item # None /\ Elsewhere
      /\ item.lazy /\ item.at \in {"learn", "body"} /\ item \in Items
  BY DEF ItemFetch, Elsewhere, Inv, ReadTypes, Dated
<1>2. CASE Overtaken
  <2>1. mode.kind = "minio"
    BY <1>1 DEF Inv, Dated, Lazy
  <2> QED BY <1>1, <1>2, <2>1, EndsStep DEF ItemFetch
<1>3. CASE ~Overtaken
  <2>0. /\ Stored.tag = item.tag
        /\ item' = [item EXCEPT !.lazy = FALSE]
        /\ answer' = IF item.at = "body" THEN [answer EXCEPT ![Key].body = Stored.tag] ELSE answer
        /\ UNCHANGED <<stage, status, call>>
    BY <1>3 DEF ItemFetch, Overtaken
  <2>1. Key \in Keys /\ call # None /\ answer \in [Keys -> AnswerRecords]
    BY <1>1, KeyIsOfCall DEF Inv, ReadTypes
  <2>2. answer' = answer
    <3>1. CASE item.at = "body"
      <4>1. AtBody(Key)
        BY <1>1, <3>1 DEF AtBody
      <4>2. answer[Key].body = Stored.tag
        BY <2>0, <2>1, <4>1 DEF Inv, Bodies, BodyIsOfItsHeader
      <4>3. [answer[Key] EXCEPT !.body = Stored.tag] = answer[Key]
        BY <2>1, <4>2 DEF AnswerRecords
      <4>4. answer' = [answer EXCEPT ![Key] = [answer[Key] EXCEPT !.body = Stored.tag]]
        BY <2>0, <3>1
      <4> QED BY <2>1, <4>3, <4>4
    <3> QED BY <2>0, <3>1
  <2>3. UNCHANGED <<mode, bucket, written, stage, status, call, answer, listed, gone, late>>
    BY <1>1, <2>0, <2>2 DEF Elsewhere, storeVars, listVars
  <2>4. /\ item' \in Items
        /\ item'.at = item.at /\ item'.tag = item.tag /\ item'.left = item.left /\ ~item'.lazy
    BY <1>1, <2>0 DEF Items
  <2>5. ReadTypes' /\ ListedFirst' /\ CallsNameListed'
    BY <1>1, <2>1, <2>3, <2>4 DEF Inv, ReadTypes, ListedFirst, CallsNameListed
  <2>6. Bodies' /\ Pins' /\ Dated'
    BY <1>1, <2>3, <2>4 DEF Inv, Bodies, AtBody, Pins, Dated, Lazy, Many, Key
  <2>7. Caps' /\ FramesAgree' /\ BodyIsOfItsHeader'
    BY <2>3 DEF Inv, Caps, FramesAgree, HasRead, BodyIsOfItsHeader, Key
  <2>8. FailsForCause'
    BY <1>1, <2>3 DEF FailsForCause
  <2> QED BY <2>5, <2>6, <2>7, <2>8 DEF Inv
<1> QED BY <1>2, <1>3

LEMMA ItemLearnInv == ASSUME Inv, ItemLearn PROVE Inv'
<1> DEFINE read == IF item.left > Cap THEN Cap + 1 ELSE item.left
<1>1. stage = "read" /\ item # None /\ Elsewhere /\ item.at = "learn"
  BY DEF ItemLearn, Elsewhere
<1>2. item.left \in Nat /\ item.tag \in Tags /\ item.tag \in 0..written /\ Cap \in Nat
  BY <1>1, ReadBounds DEF Inv, ReadTypes, Items, Dated
<1>3. read \in Nat /\ ~(read > Guard)
  BY <1>2 DEF Guard
<1>4. IF read > Cap THEN Told("TOO_LARGE")
      ELSE Header([tag |-> item.tag], item.tag, read, read, TRUE)
  BY <1>3 DEF ItemLearn
<1>5. Many => item.tag = listed[Key]
  BY <1>1 DEF Inv, Pins
<1> HIDE DEF read
<1>6. CASE read > Cap
  BY <1>1, <1>4, <1>6, ToldStep
<1>7. CASE ~(read > Cap)
  <2> DEFINE o == [tag |-> item.tag]
  <2>1. o.tag = item.tag /\ Header(o, item.tag, read, read, TRUE)
    BY <1>4, <1>7
  <2>2. read <= Cap
    BY <1>2, <1>3, <1>7
  <2> HIDE DEF o
  <2> QED BY <1>1, <1>2, <1>3, <1>5, <2>1, <2>2, HeaderStep
<1> QED BY <1>6, <1>7

\* What is known of the answer whose body is being relayed.
LEMMA BodyFacts ==
  ASSUME Inv, item # None, item.at = "body"
  PROVE  /\ Key \in Keys /\ call # None /\ Many \in BOOLEAN
         /\ answer[Key] \in AnswerRecords
         /\ answer[Key].outcome = "OK" /\ answer[Key].many = Many /\ answer[Key].tag = item.tag
         /\ answer[Key].sent \in Nat /\ answer[Key].size \in Nat /\ item.left \in Nat
         /\ Many /\ ~mode.bound => answer[Key].sent + item.left = answer[Key].size
         /\ mode.bound => answer[Key].sent <= Cap /\ (Many => answer[Key].size <= Cap)
         /\ mode.bound \in BOOLEAN
<1>1. Key \in Keys /\ call # None
  BY KeyIsOfCall DEF Inv, ReadTypes
<1>2. AtBody(Key)
  BY DEF AtBody
<1>3. /\ answer[Key].outcome = "OK" /\ answer[Key].many = Many /\ answer[Key].tag = item.tag
      /\ Many /\ ~mode.bound => answer[Key].sent + item.left = answer[Key].size
  BY <1>1, <1>2 DEF Inv, Bodies
<1>4. mode.bound => answer[Key].sent <= Cap /\ (Many => answer[Key].size <= Cap)
  BY <1>1, <1>3 DEF Inv, Caps
<1>5. answer[Key] \in AnswerRecords /\ answer[Key].sent \in Nat /\ answer[Key].size \in Nat
  BY <1>1 DEF Inv, ReadTypes, AnswerRecords
<1>6. item.left \in Nat /\ mode.bound \in BOOLEAN
  BY DEF Inv, ReadTypes, Items, Modes
<1> QED BY <1>1, <1>3, <1>4, <1>5, <1>6 DEF Many

\* A frame within the size and the cap.
LEMMA FrameStep ==
  ASSUME Inv, stage = "read", item # None, item.at = "body", Elsewhere,
         NEW n \in 1..Chunk, n <= item.left,
         answer' = [answer EXCEPT ![Key].sent = answer[Key].sent + n],
         item' = [item EXCEPT !.left = @ - n],
         UNCHANGED <<stage, status, call>>,
         Many => answer[Key].sent + n <= answer[Key].size,
         mode.bound => answer[Key].sent + n <= Cap
  PROVE  Inv'
<1> DEFINE total == answer[Key].sent + n
<1>0. /\ Key \in Keys /\ call # None /\ Many \in BOOLEAN
      /\ answer[Key].outcome = "OK" /\ answer[Key].many = Many /\ answer[Key].tag = item.tag
      /\ answer[Key].sent \in Nat /\ answer[Key].size \in Nat /\ item.left \in Nat
      /\ Many /\ ~mode.bound => answer[Key].sent + item.left = answer[Key].size
      /\ n \in Nat /\ total \in Nat /\ item.left - n \in Nat
  BY BodyFacts, ReadBounds
<1>1. UNCHANGED <<mode, bucket, written, stage, status, call, listed, gone, late>>
  BY DEF Elsewhere, storeVars, listVars
<1>2. Key' = Key /\ Many' = Many
  BY <1>1 DEF Key, Many
<1>3. /\ item' \in Items /\ item'.at = "body" /\ item'.left = item.left - n
      /\ item'.tag = item.tag /\ item'.lazy = item.lazy
      /\ item' # None => call' # None
  BY <1>0, <1>1 DEF Inv, ReadTypes, Items
<1>4. /\ answer' \in [Keys -> AnswerRecords]
      /\ answer'[Key] = [answer[Key] EXCEPT !.sent = total]
      /\ \A k \in Keys \ {Key} : answer'[k] = answer[k]
  BY <1>0 DEF Inv, ReadTypes, AnswerRecords
<1>5. /\ answer'[Key].outcome = "OK" /\ answer'[Key].many = Many
      /\ answer'[Key].tag = answer[Key].tag /\ answer'[Key].body = answer[Key].body
      /\ answer'[Key].size = answer[Key].size /\ answer'[Key].sent = total
  BY <1>0, <1>4 DEF Inv, ReadTypes, AnswerRecords
<1>6. ReadTypes'
  BY <1>0, <1>1, <1>3, <1>4 DEF Inv, ReadTypes
<1>7. ListedFirst'
  BY <1>1 DEF ListedFirst
<1>8. CallsNameListed' /\ Pins'
  BY <1>1, <1>3 DEF Inv, CallsNameListed, Pins
<1>9. Bodies'
  <2> SUFFICES ASSUME NEW k \in Keys, AtBody(k)'
               PROVE  /\ answer'[k].outcome = "OK"
                      /\ answer'[k].many = Many' /\ answer'[k].tag = item'.tag
                      /\ Many' /\ ~mode.bound' => answer'[k].sent + item'.left = answer'[k].size
    BY DEF Bodies
  <2>1. k = Key
    BY <1>2 DEF AtBody
  <2> QED BY <2>1, <1>0, <1>1, <1>2, <1>3, <1>5
<1>10. Caps'
  BY <1>0, <1>1, <1>4, <1>5 DEF Inv, Caps
<1>11. FramesAgree'
  <2> SUFFICES ASSUME NEW k \in Keys, answer'[k].outcome = "OK", answer'[k].many
               PROVE  answer'[k].sent <= answer'[k].size /\ (HasRead(k)' => answer'[k].sent = answer'[k].size)
    BY DEF FramesAgree
  <2>1. CASE k = Key
    BY <1>0, <1>1, <1>2, <1>5, <2>1 DEF HasRead
  <2>2. CASE k # Key
    <3>1. answer'[k] = answer[k] /\ (HasRead(k)' => HasRead(k))
      BY <1>1, <1>2, <1>4, <2>2 DEF HasRead
    <3> QED BY <3>1 DEF Inv, FramesAgree
  <2> QED BY <2>1, <2>2
<1>12. BodyIsOfItsHeader'
  BY <1>0, <1>1, <1>4, <1>5 DEF Inv, BodyIsOfItsHeader
<1>13. FailsForCause' /\ Dated'
  BY <1>1, <1>3 DEF Inv, FailsForCause, Dated, Lazy
<1> QED BY <1>6, <1>7, <1>8, <1>9, <1>10, <1>11, <1>12, <1>13 DEF Inv

LEMMA RelayInv == ASSUME Inv, Relay PROVE Inv'
<1>1. stage = "read" /\ item # None /\ Elsewhere /\ item.at = "body"
  BY DEF Relay, Elsewhere
<1>2. PICK n \in 1..Chunk :
        /\ n <= item.left
        /\ IF Overrun(answer[Key].sent + n) THEN Ends("Aborted")
           ELSE IF ~Many /\ mode.bound /\ answer[Key].sent + n > GetCap THEN Told("TOO_LARGE")
           ELSE /\ answer' = [answer EXCEPT ![Key].sent = answer[Key].sent + n]
                /\ item' = [item EXCEPT !.left = @ - n]
                /\ UNCHANGED <<stage, status, call>>
  BY DEF Relay
<1>3. CASE Overrun(answer[Key].sent + n)
  <2>1. mode.bound
    BY <1>1, <1>2, <1>3, BodyFacts, ReadBounds DEF Overrun
  <2> QED BY <1>1, <1>2, <1>3, <2>1, EndsStep
<1>4. CASE ~Overrun(answer[Key].sent + n) /\ ~Many /\ mode.bound /\ answer[Key].sent + n > GetCap
  BY <1>1, <1>2, <1>4, ToldStep
<1>5. CASE /\ ~Overrun(answer[Key].sent + n)
           /\ ~(~Many /\ mode.bound /\ answer[Key].sent + n > GetCap)
  <2>1. Many => answer[Key].sent + n <= answer[Key].size
    BY <1>1, <1>5, BodyFacts, ReadBounds DEF Overrun
  <2>2. mode.bound => answer[Key].sent + n <= Cap
    BY <1>1, <1>5, <2>1, BodyFacts, ReadBounds DEF GetCap
  <2> QED BY <1>1, <1>2, <1>5, <2>1, <2>2, FrameStep
<1> QED BY <1>3, <1>4, <1>5

LEMMA ItemEndInv == ASSUME Inv, ItemEnd PROVE Inv'
<1>1. stage = "read" /\ item # None /\ Elsewhere /\ item.at = "body" /\ item.left = 0
  BY DEF ItemEnd, Elsewhere
<1>2. CASE Short
  <2>1. mode.bound
    BY <1>1, <1>2, BodyFacts DEF Short
  <2> QED BY <1>1, <1>2, <2>1, EndsStep DEF ItemEnd
<1>3. CASE ~Short
  <2>0. Proceed /\ UNCHANGED <<stage, status, answer, mode, bucket, written, listed, gone, late>>
    BY <1>3 DEF ItemEnd, storeVars, listVars
  <2>1. /\ item' = None
        /\ call' = None \/ (call' \in Calls /\ call' = [call EXCEPT !.keys = @ \ {Key}])
    BY <1>1, <2>0, ProceedTypes DEF Inv, ReadTypes
  <2>2. ReadTypes'
    BY <2>0, <2>1 DEF Inv, ReadTypes
  <2>3. ListedFirst' /\ Bodies' /\ Pins' /\ Dated'
    BY <1>1, <2>0, <2>1 DEF ListedFirst, Bodies, AtBody, Pins, Inv, Dated
  <2>4. CallsNameListed'
    BY <1>1, <2>0, <2>1 DEF Inv, CallsNameListed, ReadTypes, Calls
  <2>5. Caps' /\ BodyIsOfItsHeader'
    BY <2>0 DEF Inv, Caps, BodyIsOfItsHeader
  <2>6. FramesAgree'
    <3> SUFFICES ASSUME NEW k \in Keys, answer[k].outcome = "OK", answer[k].many
                 PROVE  answer[k].sent <= answer[k].size /\ answer[k].sent = answer[k].size
      BY <2>0 DEF FramesAgree
    <3>1. CASE k = Key
      BY <1>1, <1>3, <3>1, BodyFacts DEF Short
    <3>2. CASE k # Key
      <4>1. HasRead(k)
        BY <3>2 DEF HasRead
      <4> QED BY <4>1 DEF Inv, FramesAgree, ReadTypes, AnswerRecords
    <3> QED BY <3>1, <3>2
  <2>7. FailsForCause'
    BY <1>1, <2>0 DEF FailsForCause
  <2> QED BY <2>2, <2>3, <2>4, <2>5, <2>6, <2>7 DEF Inv
<1> QED BY <1>2, <1>3

-----------------------------------------------------------------------------
(* The other steps *)

LEMMA InitInv == Init => Inv
<1> SUFFICES ASSUME Init PROVE Inv
  OBVIOUS
<1>1. mode \in Modes /\ call = None /\ item = None /\ stage = "list" /\ written = 0
  BY DEF Init
<1>2. bucket \in [Names -> Objects \cup {None}]
  <2>1. ASSUME NEW n \in Names PROVE [tag |-> 0, size |-> FirstSize[n]] \in Objects
    BY ReadBounds DEF Objects
  <2>2. PICK there \in SUBSET Keys : bucket = [n \in Names |->
          IF n \in {Join(k) : k \in Keys \ there} THEN None ELSE [tag |-> 0, size |-> FirstSize[n]]]
    BY DEF Init
  <2> QED BY <2>1, <2>2
<1>3. \A k \in Keys : answer[k] = NoAnswer
  BY DEF Init
<1>4. answer \in [Keys -> AnswerRecords]
  <2>1. NoAnswer \in AnswerRecords
    BY DEF NoAnswer, AnswerRecords, Outcomes, Tags
  <2> QED BY <2>1 DEF Init
<1>5. ReadTypes /\ ListedFirst /\ CallsNameListed /\ Bodies /\ Pins
  BY <1>1, <1>2, <1>3, <1>4 DEF ReadTypes, ListedFirst, CallsNameListed, Bodies, AtBody, Pins, NoAnswer
<1>6. Caps /\ FramesAgree /\ BodyIsOfItsHeader
  BY <1>3, ReadBounds DEF Caps, FramesAgree, BodyIsOfItsHeader, NoAnswer
<1>7. FailsForCause /\ Dated
  <2>1. \A n \in Names : bucket[n] # None => bucket[n].tag = 0
    BY DEF Init
  <2> QED BY <1>1, <2>1 DEF FailsForCause, Dated
<1> QED BY <1>5, <1>6, <1>7 DEF Inv

\* Others touch the bucket alone, and a bucket that is gone stays gone.
LEMMA OthersStep ==
  ASSUME Inv, UNCHANGED <<mode, stage, status, listVars, late, readVars>>,
         bucket' \in [Names -> Objects \cup {None}], written' \in Nat, gone => gone',
         written <= written',
         \A n \in Names : \/ bucket'[n] = bucket[n] \/ bucket'[n] = None
                          \/ bucket'[n].tag = written + 1 /\ written' = written + 1
  PROVE  Inv'
<1>1. UNCHANGED <<mode, stage, status, listed, late, call, item, answer>>
  BY DEF listVars, readVars
<1>2. ReadTypes' /\ ListedFirst' /\ CallsNameListed' /\ Bodies' /\ Pins' /\ Caps'
  BY <1>1 DEF Inv, ReadTypes, ListedFirst, CallsNameListed, Bodies, AtBody, Pins, Caps, Many, Key
<1>3. FramesAgree' /\ BodyIsOfItsHeader'
  BY <1>1 DEF Inv, FramesAgree, HasRead, BodyIsOfItsHeader, Key
<1>4. Dated'
  <2>1. written \in Nat
    BY DEF Inv, ReadTypes
  <2>2. ASSUME NEW n \in Names, bucket'[n] # None PROVE bucket'[n].tag <= written'
    <3>1. CASE bucket'[n] = bucket[n]
      <4>1. bucket[n].tag <= written /\ bucket[n].tag \in Nat
        BY <2>2, <3>1 DEF Inv, Dated, ReadTypes, Objects
      <4> QED BY <2>1, <3>1, <4>1
    <3> QED BY <2>1, <2>2, <3>1
  <2>3. 0..written \subseteq 0..written'
    BY <2>1
  <2> QED BY <1>1, <2>2, <2>3 DEF Inv, Dated, Lazy
<1>5. FailsForCause'
  <2>1. ASSUME Overtaken, item # None, item.tag \in 0..written PROVE Overtaken'
    <3>1. Key' = Key /\ item' = item
      BY <1>1 DEF Key
    <3>2. Join(Key) \in Names
      <4>1. Key \in Keys
        BY <2>1, KeyIsOfCall DEF Inv, ReadTypes
      <4> QED BY <4>1, KeysAssumption
    <3>3. written \in Nat
      BY DEF Inv, ReadTypes
    <3>4. CASE gone'
      BY <3>4 DEF Overtaken, Stored
    <3>5. CASE ~gone' /\ ~gone
      <4>1. Stored = bucket[Join(Key)] /\ Stored' = bucket'[Join(Key)]
        BY <3>1, <3>5 DEF Stored
      <4>2. CASE bucket'[Join(Key)].tag = written + 1
        <5>1. written + 1 # item.tag
          BY <2>1, <3>3
        <5> QED BY <3>1, <4>1, <4>2, <5>1 DEF Overtaken
      <4> QED BY <2>1, <3>1, <3>2, <4>1, <4>2 DEF Overtaken
    <3> QED BY <3>4, <3>5
  <2>2. ASSUME stage = "failed", status = "BodyRefused" PROVE item # None /\ item.tag \in 0..written
    BY <2>2 DEF Inv, Dated
  <2>3. SUFFICES ASSUME stage = "failed" PROVE FailsForCause'
    BY <1>1 DEF FailsForCause
  <2>4. CASE status = "BodyRefused"
    BY <1>1, <2>1, <2>2, <2>3, <2>4 DEF Inv, FailsForCause
  <2>5. CASE status # "BodyRefused"
    BY <1>1, <2>3, <2>5 DEF Inv, FailsForCause
  <2> QED BY <2>4, <2>5
<1> QED BY <1>2, <1>3, <1>4, <1>5 DEF Inv

LEMMA OthersInv == ASSUME Inv, Others \/ RemoveBucket PROVE Inv'
<1>1. ASSUME NEW k \in Keys, Write(k) PROVE Inv'
  <2>1. Join(k) \in Names
    BY KeysAssumption
  <2>2. PICK s \in Sizes : bucket' = [bucket EXCEPT ![Join(k)] = [tag |-> written + 1, size |-> s]]
    BY <1>1 DEF Write
  <2>3. ASSUME NEW z \in Sizes PROVE [tag |-> written + 1, size |-> z] \in Objects
    BY DEF Objects, Inv, ReadTypes
  <2>4. bucket' \in [Names -> Objects \cup {None}]
    BY <2>1, <2>2, <2>3 DEF Inv, ReadTypes
  <2>5. written \in Nat /\ written' = written + 1
    BY <1>1 DEF Write, Inv, ReadTypes
  <2>6. ASSUME NEW n \in Names PROVE bucket'[n] = bucket[n] \/ bucket'[n].tag = written + 1
    BY <2>2 DEF Inv, ReadTypes
  <2> QED BY <1>1, <2>4, <2>5, <2>6, OthersStep DEF Write
<1>2. ASSUME NEW k \in Keys, DeleteObject(k) PROVE Inv'
  <2>1. bucket' \in [Names -> Objects \cup {None}]
    BY <1>2 DEF DeleteObject, Inv, ReadTypes
  <2>2. written \in Nat /\ written' = written + 1
    BY <1>2 DEF DeleteObject, Inv, ReadTypes
  <2>3. ASSUME NEW n \in Names PROVE bucket'[n] = bucket[n] \/ bucket'[n] = None
    BY <1>2 DEF DeleteObject, Inv, ReadTypes
  <2> QED BY <1>2, <2>1, <2>2, <2>3, OthersStep DEF DeleteObject
<1>3. CASE RemoveBucket
  <2>1. /\ bucket' = bucket /\ bucket' \in [Names -> Objects \cup {None}]
        /\ written \in Nat /\ written' = written + 1
    BY <1>3 DEF RemoveBucket, Inv, ReadTypes
  <2> QED BY <1>3, <2>1, OthersStep DEF RemoveBucket
<1> QED BY <1>1, <1>2, <1>3 DEF Others

\* A listing under way: nothing is read yet.
LEMMA ListingStep ==
  ASSUME Inv, stage = "list", UNCHANGED <<mode, storeVars, readVars>>,
         stage' = "failed" =>
           \/ status' = "BucketNotFound" /\ gone
           \/ status' = "Unavailable" /\ late'
           \/ status' = "BrokenOff" /\ "cut" \in Faults
           \/ status' \in {"ListingIncomplete", "ListingTooLong"} /\ mode.bound
  PROVE  Inv'
<1>1. /\ UNCHANGED <<mode, bucket, written, gone, call, item, answer>>
      /\ call = None /\ item = None /\ \A k \in Keys : answer[k].outcome = "none"
  BY DEF storeVars, readVars, Inv, ListedFirst
<1>2. ReadTypes' /\ ListedFirst' /\ CallsNameListed' /\ Bodies' /\ Pins' /\ Caps'
  BY <1>1 DEF Inv, ReadTypes, ListedFirst, CallsNameListed, Bodies, AtBody, Pins, Caps
<1>3. FramesAgree' /\ BodyIsOfItsHeader'
  BY <1>1 DEF FramesAgree, BodyIsOfItsHeader
<1>4. FailsForCause' /\ Dated'
  BY <1>1 DEF FailsForCause, Inv, Dated
<1> QED BY <1>2, <1>3, <1>4 DEF Inv

\* A page fails the call only when it is over-long and the call is bound.
LEMMA TakePageFails ==
  ASSUME NEW p, TakePage(p), stage = "list"
  PROVE  stage' = "failed" => status' = "ListingTooLong" /\ mode.bound
BY DEF TakePage, Fails

LEMMA ListInv == ASSUME Inv, ListBegin \/ ListMem \/ ListStore PROVE Inv'
<1>1. CASE ListBegin
  BY <1>1, ListingStep DEF ListBegin
<1>2. CASE ListMem
  <2>1. stage' = "failed" => status' = "ListingTooLong" /\ mode.bound
    BY <1>2, TakePageFails DEF ListMem
  <2> QED BY <1>2, <2>1, ListingStep DEF ListMem
<1>3. CASE ListStore
  <2>1. PICK a \in StoreAnswers :
          IF gone THEN Fails("BucketNotFound") /\ UNCHANGED listVars
          ELSE IF Incomplete(a) THEN Fails("ListingIncomplete") /\ UNCHANGED listVars
          ELSE TakePage(PageOf(a))
    BY <1>3 DEF ListStore
  <2>2. stage = "list" /\ UNCHANGED <<mode, storeVars, readVars>>
    BY <1>3 DEF ListStore
  <2>3. CASE gone
    BY <2>1, <2>2, <2>3, ListingStep DEF Fails
  <2>4. CASE ~gone /\ Incomplete(a)
    <3>1. mode.bound
      BY <2>1, <2>4 DEF StoreAnswers, Incomplete
    <3> QED BY <2>1, <2>2, <2>4, <3>1, ListingStep DEF Fails
  <2>5. CASE ~gone /\ ~Incomplete(a)
    <3>1. stage' = "failed" => status' = "ListingTooLong" /\ mode.bound
      BY <2>1, <2>2, <2>5, TakePageFails
    <3> QED BY <2>2, <3>1, ListingStep
  <2> QED BY <2>3, <2>4, <2>5
<1> QED BY <1>1, <1>2, <1>3

\* What is next to be read is something, and was listed.
LEMMA FirstIsSome ==
  ASSUME Todo # {}, NEW n \in Nat \ {0}
  PROVE  First(Todo, n) \subseteq Todo /\ First(Todo, n) # {}
<1>1. Todo \in SUBSET Nat /\ IsFiniteSet(Todo)
  BY KeysAssumption, FS_Subset DEF Todo
<1> QED BY <1>1, FirstIsFront

\* The caller's next call begins, of what it has listed.
LEMMA CallBeginInv == ASSUME Inv, CallBegin PROVE Inv'
<1>1. /\ UNCHANGED <<mode, bucket, written, gone, stage, status, listed, late, item, answer>>
      /\ stage = "read" /\ call = None /\ item = None /\ Todo # {}
  BY DEF CallBegin, storeVars, listVars, Inv, ReadTypes
<1>2. Cardinality(Todo) \in Nat \ {0}
  <2>1. IsFiniteSet(Todo)
    BY KeysAssumption, FS_Subset DEF Todo
  <2> QED BY <1>1, <2>1, FS_CardinalityType, FS_EmptySet
<1>3. ASSUME NEW n \in Nat \ {0} PROVE First(Todo, n) \subseteq Todo /\ First(Todo, n) # {}
  BY <1>1, FirstIsSome
<1>4. call' \in Calls /\ call'.keys \subseteq Todo
  <2>1. CASE \E n \in {Cardinality(Todo), MaxItems} : call' = [rpc |-> "getMany", keys |-> First(Todo, n)]
    <3>1. PICK n \in {Cardinality(Todo), MaxItems} : call' = [rpc |-> "getMany", keys |-> First(Todo, n)]
      BY <2>1
    <3>2. First(Todo, n) \subseteq Todo /\ First(Todo, n) # {}
      BY <1>2, <1>3, ReadBounds
    <3> QED BY <3>1, <3>2 DEF Calls, Todo
  <2>2. CASE call' = [rpc |-> "get", keys |-> First(Todo, 1)]
    <3>1. First(Todo, 1) \subseteq Todo /\ First(Todo, 1) # {}
      BY <1>3
    <3> QED BY <2>2, <3>1 DEF Calls, Todo
  <2> QED BY <2>1, <2>2 DEF CallBegin
<1>5. ReadTypes' /\ ListedFirst' /\ Bodies' /\ Pins' /\ Caps'
  BY <1>1, <1>4 DEF Inv, ReadTypes, ListedFirst, Bodies, AtBody, Pins, Caps
<1>6. CallsNameListed'
  BY <1>1, <1>4 DEF CallsNameListed, Todo
<1>7. FramesAgree' /\ BodyIsOfItsHeader' /\ FailsForCause' /\ Dated'
  BY <1>1 DEF Inv, FramesAgree, HasRead, BodyIsOfItsHeader, FailsForCause, Dated
<1> QED BY <1>5, <1>6, <1>7 DEF Inv

\* Steps that only the stage, the status, the deadline and a fresh item take part in.
LEMMA ControlInv ==
  ASSUME Inv, Expire \/ StoreFails \/ Finished \/ TooMany \/ ItemBegin
  PROVE  Inv'
<1>1. /\ UNCHANGED <<mode, bucket, written, gone, listed, call, answer>>
      /\ late => late' \/ ItemBegin
      /\ item' # item => ItemBegin
      /\ item' # item => stage' # "failed"
      /\ stage' = "failed" =>
           \/ UNCHANGED <<stage, status>> /\ ~ItemBegin
           \/ status' = "Unavailable" /\ late'
           \/ status' = "BrokenOff" /\ "cut" \in Faults
           \/ status' = "TooManyItems" /\ Cardinality(call.keys) > MaxItems
  BY DEF Fails, Expire, StoreFails, Finished, TooMany, ItemBegin, storeVars, listVars, readVars
<1>2. ReadTypes'
  <2>1. CASE item' = item
    BY <1>1, <2>1 DEF Inv, ReadTypes
  <2>2. CASE item' # item
    <3>1. call # None /\ item' = [at |-> "open", tag |-> None, left |-> 0, ahead |-> FALSE, lazy |-> FALSE]
      BY <1>1, <2>2 DEF ItemBegin
    <3>2. item' \in Items
      BY <3>1 DEF Items, Tags
    <3> QED BY <1>1, <3>1, <3>2 DEF Inv, ReadTypes
  <2> QED BY <2>1, <2>2
<1>3. ListedFirst'
  BY <1>1 DEF Inv, ListedFirst, Expire, StoreFails, Finished, TooMany, ItemBegin, Fails
<1>4. CallsNameListed' /\ Caps' /\ BodyIsOfItsHeader'
  BY <1>1 DEF Inv, CallsNameListed, Caps, BodyIsOfItsHeader
<1>5. Bodies' /\ Pins'
  <2>1. CASE item' = item
    BY <1>1, <2>1 DEF Inv, Bodies, AtBody, Pins, Many, Key
  <2>2. CASE item' # item
    BY <1>1, <2>2 DEF Bodies, AtBody, Pins, ItemBegin
  <2> QED BY <2>1, <2>2
<1>6. FramesAgree'
  BY <1>1 DEF Inv, FramesAgree, HasRead, Key
<1>7. FailsForCause'
  <2>1. stage' = "failed" => Overtaken' = Overtaken
    BY <1>1 DEF Overtaken, Stored, Key
  <2> QED BY <1>1, <2>1 DEF Inv, FailsForCause
<1>8. Dated'
  <2>1. CASE item' = item
    BY <1>1, <2>1 DEF Inv, Dated, Lazy
  <2>2. CASE item' # item
    BY <1>1, <2>2 DEF Inv, Dated, ItemBegin
  <2> QED BY <2>1, <2>2
<1> QED BY <1>2, <1>3, <1>4, <1>5, <1>6, <1>7, <1>8 DEF Inv

\* Every step keeps the invariant.
LEMMA NextInv == ASSUME Inv, [Next]_vars PROVE Inv'
<1>1. CASE UNCHANGED vars
  <2>1. gone' = gone /\ bucket' = bucket /\ written' = written
    BY <1>1 DEF vars, storeVars
  <2> QED BY <1>1, <2>1, OthersStep DEF vars, Inv, ReadTypes
<1>2. CASE Next
  BY <1>2, OthersInv, ListInv, CallBeginInv, ControlInv, ItemOpenInv, ItemPinnedInv,
     ItemConfirmInv, ItemFetchInv, ItemLearnInv, RelayInv, ItemEndInv DEF Next
<1> QED BY <1>1, <1>2

\* The invariant holds in every state of Reads: what an item under way has been told of its
\* object, on which the theorems below rest.
THEOREM ReadsInv == Spec => []Inv
<1> QED BY InitInv, NextInv, PTL DEF Spec

\* A GetMany item has exactly the bytes of its header once the next header or the
\* end of the call has come, and never more.
THEOREM ReadsFramesAgree == Spec => []FramesAgree
<1>1. Inv => FramesAgree
  BY DEF Inv
<1> QED BY <1>1, ReadsInv, PTL

\* A body is of the version its header describes, and a GetMany item of the version listed,
\* however often the object is replaced.
THEOREM ReadsBodyIsOfItsHeader == Spec => []BodyIsOfItsHeader
<1>1. Inv => BodyIsOfItsHeader
  BY DEF Inv
<1> QED BY <1>1, ReadsInv, PTL

\* No bound call relays more of an object than the cap, whatever size the store gives.
THEOREM ReadsCapped == Spec => []Capped
<1>1. Inv => Capped
  BY DEF Inv, Caps, Capped
<1> QED BY <1>1, ReadsInv, PTL

\* No call fails for what happens to one object, but MinIO's for one replaced or removed
\* between its two requests.
THEOREM ReadsFailForCause == Spec => []FailsForCause
<1>1. Inv => FailsForCause
  BY DEF Inv
<1> QED BY <1>1, ReadsInv, PTL

-----------------------------------------------------------------------------
(* NOT_FOUND, where a bucket of Google's stays: S3's and Azure's answers say   *)
(* which of the two is missing, and what MinIO's may hide the property names. *)

\* Only a bucket of MinIO's that is gone is told of as an object that is.
Hidden == gone /\ mode.kind = "minio"

Absence ==
  /\ mode.kind = "gcs" => ~gone
  /\ \A k \in Keys : bucket[Join(k)] = None => k \in absent
  /\ item # None /\ item.at = "confirm" => Key \in absent
  /\ NotFoundIsAbsence

\* A step that tells of no absence but a known one.
LEMMA AbsenceKept ==
  ASSUME Absence, UNCHANGED <<mode, gone, bucket, absent>>,
         \A k \in Keys : answer'[k].outcome = "NOT_FOUND" =>
           answer[k].outcome = "NOT_FOUND" \/ k \in absent \/ Hidden,
         item' # None /\ item'.at = "confirm" => Key' \in absent
  PROVE  Absence'
BY DEF Absence, NotFoundIsAbsence, Hidden

\* What an outcome is told of: the item under way.
LEMMA ToldAbsence ==
  ASSUME Inv, Absence, item # None, Elsewhere, NEW o \in Outcomes, Told(o),
         o = "NOT_FOUND" => Key \in absent \/ Hidden
  PROVE  Absence'
<1>1. UNCHANGED <<mode, gone, bucket, absent>> /\ item' = None
  BY DEF Elsewhere, storeVars, Told, Proceed
<1>2. \A k \in Keys : answer'[k].outcome = answer[k].outcome \/ (k = Key /\ answer'[k].outcome = o)
  BY DEF Told, Inv, ReadTypes, AnswerRecords
<1> QED BY <1>1, <1>2, AbsenceKept

\* A step that leaves all answers, and is at no missing object.
LEMMA SilentAbsence ==
  ASSUME Absence, UNCHANGED <<mode, gone, bucket, absent, answer>>,
         \/ UNCHANGED <<item, call>>
         \/ item' = None
         \/ item'.at # "confirm"
  PROVE  Absence'
<1>1. item' # None /\ item'.at = "confirm" => Key' \in absent
  BY DEF Absence, Key
<1> QED BY <1>1, AbsenceKept

\* A header is no outcome of absence.
LEMMA HeaderAbsence ==
  ASSUME Inv, Absence, item # None, Elsewhere,
         NEW o, NEW tag, NEW size, NEW left, NEW ahead, Header(o, tag, size, left, ahead)
  PROVE  Absence'
<1>1. UNCHANGED <<mode, gone, bucket, absent>> /\ item \in Items /\ answer \in [Keys -> AnswerRecords]
  BY DEF Elsewhere, storeVars, Inv, ReadTypes
<1>2. item'.at = "body"
  BY <1>1 DEF Header, Items
<1>3. \A k \in Keys : answer'[k].outcome = answer[k].outcome \/ answer'[k].outcome = "OK"
  BY <1>1 DEF Header
<1> QED BY <1>1, <1>2, <1>3, AbsenceKept

LEMMA OpenedAbsence ==
  ASSUME Inv, Absence, item # None, Elsewhere, NEW o, NEW tag, Opened(o, tag)
  PROVE  Absence'
<1>0. UNCHANGED <<mode, gone, bucket, absent>> /\ item \in Items
  BY DEF Elsewhere, storeVars, Inv, ReadTypes
<1>1. CASE Told("TOO_LARGE")
  BY <1>1, ToldAbsence DEF Outcomes
<1>2. CASE /\ item' = [item EXCEPT !.at = "learn", !.tag = tag, !.left = o.size, !.lazy = Lazy]
           /\ UNCHANGED <<stage, status, call, answer>>
  <2>1. item'.at = "learn"
    BY <1>0, <1>2 DEF Items
  <2> QED BY <1>0, <1>2, <2>1, SilentAbsence
<1>3. CASE \E size \in Declared(o) : Header(o, tag, size, o.size, FALSE)
  BY <1>0, <1>3, HeaderAbsence
<1> QED BY <1>1, <1>2, <1>3 DEF Opened

\* A 404 tells of an object only where the bucket is there, or is MinIO's.
LEMMA NotFoundAbsence ==
  ASSUME Inv, Absence, stage = "read", item # None, Elsewhere, NotFound, Stored = None
  PROVE  Absence'
<1>0. UNCHANGED <<mode, gone, bucket, absent>> /\ item \in Items /\ Key \in Keys
  BY KeyIsOfCall DEF Elsewhere, storeVars, Inv, ReadTypes
<1>1. ~gone => Key \in absent
  BY <1>0 DEF Absence, Stored
<1>2. CASE mode.kind = "gcs"
  <2>1. Key \in absent /\ Key' = Key /\ answer' = answer
    BY <1>1, <1>2 DEF Absence, NotFound, Key
  <2> QED BY <1>0, <2>1, AbsenceKept
<1>3. CASE Ends("BucketNotFound")
  BY <1>0, <1>3, SilentAbsence DEF Ends, readVars
<1>4. CASE (gone => mode.kind = "minio") /\ Told("NOT_FOUND")
  BY <1>1, <1>4, ToldAbsence DEF Hidden, Outcomes
<1> QED BY <1>2, <1>3, <1>4 DEF NotFound

\* The steps of an item.
LEMMA ItemAbsence ==
  ASSUME Inv, Absence,
         ItemOpen \/ ItemPinned \/ ItemConfirm \/ ItemFetch \/ ItemLearn \/ Relay \/ ItemEnd
  PROVE  Absence'
<1>1. stage = "read" /\ item # None /\ Elsewhere /\ item \in Items
  BY DEF ItemOpen, ItemPinned, ItemConfirm, ItemFetch, ItemLearn, Relay, ItemEnd, Elsewhere, Inv, ReadTypes
<1>2. UNCHANGED <<mode, gone, bucket, absent>>
  BY <1>1 DEF Elsewhere, storeVars
<1>3. ASSUME NEW why, Ends(why) PROVE Absence'
  BY <1>2, <1>3, SilentAbsence DEF Ends, readVars
<1>4. ASSUME NEW o \in {"CHANGED", "TOO_LARGE"}, Told(o) PROVE Absence'
  BY <1>1, <1>4, ToldAbsence DEF Outcomes
<1>5. CASE ItemOpen
  <2>1. CASE Stored = None
    BY <1>1, <1>5, <2>1, NotFoundAbsence DEF ItemOpen
  <2>2. CASE Stored # None /\ IfMatch \notin {None, Stored.tag}
    BY <1>4, <1>5, <2>2 DEF ItemOpen
  <2>3. CASE Stored # None /\ IfMatch \in {None, Stored.tag} /\ mode.kind = "gcs"
    <3>1. item' = [item EXCEPT !.at = "pinned", !.tag = Stored.tag] /\ answer' = answer
      BY <1>5, <2>3 DEF ItemOpen
    <3>2. item'.at = "pinned"
      BY <1>1, <3>1 DEF Items
    <3> QED BY <1>2, <3>1, <3>2, SilentAbsence
  <2>4. CASE Stored # None /\ IfMatch \in {None, Stored.tag} /\ mode.kind # "gcs"
    BY <1>1, <1>5, <2>4, OpenedAbsence DEF ItemOpen
  <2> QED BY <2>1, <2>2, <2>3, <2>4
<1>6. CASE ItemPinned
  <2>1. CASE Stored = None
    BY <1>1, <1>6, <2>1, NotFoundAbsence DEF ItemPinned
  <2>2. CASE Stored # None /\ ~Pinned
    BY <1>4, <1>6, <2>2 DEF ItemPinned
  <2>3. CASE Stored # None /\ Pinned
    BY <1>1, <1>6, <2>3, OpenedAbsence DEF ItemPinned
  <2> QED BY <2>1, <2>2, <2>3
<1>7. CASE ItemConfirm
  <2>1. Key \in absent
    BY <1>7 DEF ItemConfirm, Absence
  <2>2. Ends("BucketNotFound") \/ Told("NOT_FOUND")
    BY <1>7 DEF ItemConfirm
  <2> QED BY <1>1, <1>3, <2>1, <2>2, ToldAbsence DEF Outcomes
<1>8. CASE ItemLearn
  <2>1. \/ Ends("ResponseTooLarge")
        \/ Told("TOO_LARGE")
        \/ \E read \in {Cap + 1, item.left} : Header([tag |-> item.tag], item.tag, read, read, TRUE)
    BY <1>8 DEF ItemLearn
  <2>2. CASE \E read \in {Cap + 1, item.left} : Header([tag |-> item.tag], item.tag, read, read, TRUE)
    BY <1>1, <2>2, HeaderAbsence
  <2> QED BY <1>3, <1>4, <2>1, <2>2
<1>9. CASE Relay
  <2>1. \/ Ends("Aborted")
        \/ Told("TOO_LARGE")
        \/ \E n \in 1..Chunk :
             /\ answer' = [answer EXCEPT ![Key].sent = answer[Key].sent + n]
             /\ item' = [item EXCEPT !.left = @ - n]
    BY <1>9 DEF Relay
  <2>2. ASSUME NEW n \in 1..Chunk,
               answer' = [answer EXCEPT ![Key].sent = answer[Key].sent + n],
               item' = [item EXCEPT !.left = @ - n]
        PROVE  Absence'
    <3>1. item'.at = "body"
      BY <1>1, <1>9, <2>2 DEF Relay, Items
    <3>2. \A k \in Keys : answer'[k].outcome = answer[k].outcome
      BY <2>2 DEF Inv, ReadTypes, AnswerRecords
    <3> QED BY <1>2, <3>1, <3>2, AbsenceKept
  <2> QED BY <1>3, <1>4, <2>1, <2>2
<1>10. CASE ItemEnd
  <2>1. Ends("Aborted") \/ (item' = None /\ answer' = answer)
    BY <1>10 DEF ItemEnd, Proceed
  <2> QED BY <1>2, <1>3, <2>1, SilentAbsence
<1>11. CASE ItemFetch
  <2>1. \/ Ends("BodyRefused")
        \/ /\ item' = [item EXCEPT !.lazy = FALSE]
           /\ answer' = answer \/ answer' = [answer EXCEPT ![Key].body = Stored.tag]
    BY <1>11 DEF ItemFetch
  <2>2. CASE /\ item' = [item EXCEPT !.lazy = FALSE]
             /\ answer' = answer \/ answer' = [answer EXCEPT ![Key].body = Stored.tag]
    <3>1. item'.at # "confirm"
      BY <1>1, <1>11, <2>2 DEF ItemFetch, Items, Inv, Dated
    <3>2. \A k \in Keys : answer'[k].outcome = answer[k].outcome
      BY <2>2 DEF Inv, ReadTypes, AnswerRecords
    <3> QED BY <1>2, <3>1, <3>2, AbsenceKept
  <2> QED BY <1>3, <2>1, <2>2
<1> QED BY <1>5, <1>6, <1>7, <1>8, <1>9, <1>10, <1>11

\* Others: a key that goes is known to have been absent, and no bucket of Google's goes.
LEMMA OthersAbsence ==
  ASSUME "gcs" \notin Removable, Inv, Absence, Others \/ RemoveBucket
  PROVE  Absence'
<1>1. UNCHANGED <<mode, item, call, answer>>
  BY DEF Others, Write, DeleteObject, RemoveBucket, readVars
<1>2. Key' = Key
  BY <1>1 DEF Key
<1>3. ASSUME NEW k \in Keys, Write(k) PROVE Absence'
  <2>1. PICK s \in Sizes : bucket' = [bucket EXCEPT ![Join(k)] = [tag |-> written + 1, size |-> s]]
    BY <1>3 DEF Write
  <2>2. [tag |-> written + 1, size |-> s] # None
    BY NoneAssumption DEF Inv, ReadTypes
  <2>3. \A j \in Keys : bucket'[Join(j)] = None => bucket[Join(j)] = None
    BY <2>1, <2>2, KeysAssumption DEF Inv, ReadTypes
  <2>4. gone' = gone /\ absent' = absent
    BY <1>3 DEF Write
  <2> QED BY <1>1, <1>2, <2>3, <2>4 DEF Absence, NotFoundIsAbsence
<1>4. ASSUME NEW k \in Keys, DeleteObject(k) PROVE Absence'
  <2>1. bucket' = [bucket EXCEPT ![Join(k)] = None] /\ gone' = gone /\ absent' = absent \cup {k}
    BY <1>4 DEF DeleteObject
  <2>2. \A j \in Keys : Join(j) = Join(k) => j = k
    BY KeysAssumption, PagingAssumption DEF Join
  <2>3. \A j \in Keys : bucket'[Join(j)] = None => bucket[Join(j)] = None \/ j = k
    BY <2>1, <2>2, KeysAssumption DEF Inv, ReadTypes
  <2> QED BY <1>1, <1>2, <2>1, <2>3 DEF Absence, NotFoundIsAbsence
<1>5. CASE RemoveBucket
  <2>1. mode.kind # "gcs" /\ bucket' = bucket /\ absent' = absent /\ gone' = TRUE
    BY <1>5 DEF RemoveBucket
  <2> QED BY <1>1, <1>2, <2>1 DEF Absence, NotFoundIsAbsence
<1> QED BY <1>3, <1>4, <1>5 DEF Others

\* Every other step tells of nothing.
LEMMA ControlAbsence ==
  ASSUME Inv, Absence,
         \/ Expire \/ StoreFails \/ ListBegin \/ ListMem \/ ListStore
         \/ CallBegin \/ Finished \/ TooMany \/ ItemBegin
  PROVE  Absence'
<1>1. UNCHANGED <<mode, gone, bucket, absent, answer>>
  BY DEF Expire, StoreFails, ListBegin, ListMem, ListStore, CallBegin, Finished, TooMany, ItemBegin,
         storeVars, readVars
<1>2. UNCHANGED <<item, call>> \/ item' = None \/ item'.at = "open"
  BY DEF Expire, StoreFails, ListBegin, ListMem, ListStore, CallBegin, Finished, TooMany, ItemBegin,
         readVars, Inv, ReadTypes
<1> QED BY <1>1, <1>2, SilentAbsence

LEMMA InitAbsence == Init => Absence
<1> SUFFICES ASSUME Init PROVE Absence
  OBVIOUS
<1>1. ~gone /\ item = None
  BY DEF Init
<1>2. \A k \in Keys : bucket[Join(k)] = None => k \in absent
  <2>1. PICK there \in SUBSET Keys :
          /\ bucket = [n \in Names |->
               IF n \in {Join(k) : k \in Keys \ there} THEN None ELSE [tag |-> 0, size |-> FirstSize[n]]]
          /\ absent = Keys \ there
    BY DEF Init
  <2> SUFFICES ASSUME NEW k \in Keys, k \in there PROVE bucket[Join(k)] # None
    BY <2>1
  <2>2. Join(k) \in Names /\ \A j \in Keys : Join(j) = Join(k) => j = k
    BY KeysAssumption, PagingAssumption DEF Join
  <2>3. bucket[Join(k)] = [tag |-> 0, size |-> FirstSize[Join(k)]]
    BY <2>1, <2>2
  <2>4. [tag |-> 0, size |-> FirstSize[Join(k)]] \in [tag : Nat, size : Sizes]
    BY <2>2, ReadBounds
  <2> QED BY <2>3, <2>4, NoneAssumption
<1>3. NotFoundIsAbsence
  BY DEF Init, NotFoundIsAbsence, NoAnswer
<1> QED BY <1>1, <1>2, <1>3 DEF Absence

\* NOT_FOUND of an object means that it was absent at some moment, where no bucket of
\* Google's is removed, and for MinIO that it was or that the bucket is gone.
THEOREM ReadsNotFoundIsAbsence ==
  ASSUME "gcs" \notin Removable
  PROVE  Spec => []NotFoundIsAbsence
<1>1. Inv /\ Absence /\ [Next]_vars => Absence'
  <2> SUFFICES ASSUME Inv, Absence, [Next]_vars PROVE Absence'
    OBVIOUS
  <2>1. CASE UNCHANGED vars
    BY <2>1, SilentAbsence DEF vars, storeVars, readVars
  <2>2. CASE Next
    BY <2>2, ItemAbsence, OthersAbsence, ControlAbsence DEF Next
  <2> QED BY <2>1, <2>2
<1>2. Absence => NotFoundIsAbsence
  BY DEF Absence
<1> QED BY <1>1, <1>2, InitAbsence, ReadsInv, PTL DEF Spec

-----------------------------------------------------------------------------
(* Where a listing is, it has all it has passed *)

\* MinIO's listing of folders may go past some: where the caller asks for more than
\* a page of its own bucket, or its own store answers more than it was asked for.
SkipsFolders ==
  /\ mode.kind = "minio" /\ mode.delimited
  /\ IF mode.bound THEN "long" \in Lies ELSE mode.limit > PageMax

\* How a name is listed, and whether it is still to come after c.
Named(n) == Entry(n, mode.delimited)

Later(n, c) == IF mode.kind = "mem" THEN n > c ELSE Named(n) > c

Known(k) == Covered(k) \/ k \in absent

AbsentIsKnown == \A k \in Keys : bucket[Join(k)] = None => k \in absent

\* A call that goes on has room for more, and nothing past the name it goes on
\* after; a MinIO call with a limit and folders does not go on.
GoesOn(p) ==
  /\ p \in Pages /\ p.open /\ p.limit = ListLimit
  /\ p.entries \subseteq 0..p.from
  /\ mode.kind = "gcs" => Cardinality(p.entries) < Size(p)
  /\ mode.kind = "minio" /\ p.limit # 0 => Cardinality(p.entries) < p.limit
  /\ mode.kind = "minio" /\ p.limit # 0 /\ mode.delimited => p.entries = {}

\* What the listing has passed, it has.
PassedIsKnown ==
  stage = "list" => \A k \in Keys :
    IF page = None THEN Later(Join(k), token) \/ Known(k)
    ELSE Later(Join(k), page.from) \/ Known(k) \/ Named(Join(k)) \in page.entries

PageGoesOn ==
  stage = "list" /\ page # None =>
    GoesOn(page) /\ \A k \in Keys : Join(k) \in page.entries => infos[k] # None

ListingInv ==
  /\ token \in Nat
  /\ AbsentIsKnown
  /\ PageGoesOn
  /\ PassedIsKnown
  /\ CompleteListing

-----------------------------------------------------------------------------
(* What a store lists *)

Top == Base + Width

Listable == Entries(Standing, mode.delimited)

\* Only a folder is listed under another name than its own, and earlier.
LEMMA EntryIsOne ==
  ASSUME NEW n \in Names, NEW d \in BOOLEAN
  PROVE  /\ Entry(n, d) \in Nat \ {0} /\ Entry(n, d) <= n
         /\ Entry(n, d) \in Names => Entry(n, d) = n
<1>1. n \in Nat \ {0} /\ FolderOf[n] \in Nat \ Names /\ FolderOf[n] < n
  BY NamesAssumption
<1> QED BY <1>1 DEF Entry

\* All that can be listed is under the prefix, and a name is listed when it is there.
LEMMA ListableIsBounded ==
  ASSUME mode \in Modes
  PROVE  /\ Top \in Nat
         /\ Standing \subseteq Names
         /\ \A n \in Standing : n \in 0..Top /\ n # 0
         /\ Listable \subseteq 0..Top
         /\ \A n \in Standing : Named(n) \in Listable /\ Named(n) \in Nat
         /\ \A n \in Names : n \in Listable => n \in Standing
<1>1. Top \in Nat
  BY PagingAssumption DEF Top
<1>2. Standing \subseteq Names
  BY DEF Standing
<1>3. ASSUME NEW n \in Standing PROVE n \in 0..Top /\ n # 0
  <2>1. n \in Nat \ {0} /\ n < Base + Width /\ Base \in Nat /\ Width \in Nat
    BY NamesAssumption, PagingAssumption DEF Standing, Under
  <2> QED BY <2>1 DEF Top
<1>4. mode.delimited \in BOOLEAN
  BY DEF Modes
<1>5. ASSUME NEW n \in Standing PROVE Entry(n, mode.delimited) \in 0..Top
  <2>1. Entry(n, mode.delimited) \in Nat /\ Entry(n, mode.delimited) <= n
    BY <1>2, <1>4, EntryIsOne
  <2>2. n \in 0..Top
    BY <1>3
  <2> QED BY <1>1, <2>1, <2>2
<1>6. \A n \in Standing : Named(n) \in Listable /\ Named(n) \in Nat
  BY <1>2, <1>4, EntryIsOne DEF Named, Listable, Entries
<1>7. ASSUME NEW n \in Names, n \in Listable PROVE n \in Standing
  <2>1. PICK m \in Standing : n = Entry(m, mode.delimited)
    BY <1>7 DEF Listable, Entries
  <2>2. n = m
    BY <1>2, <1>4, <1>7, <2>1, EntryIsOne
  <2> QED BY <2>2
<1>8. Listable \subseteq 0..Top
  BY <1>5 DEF Listable, Entries
<1> QED BY <1>1, <1>2, <1>3, <1>6, <1>7, <1>8

\* A store's answer is the front of what comes after a name, or all of it, and
\* says so when it is.
FrontOf(rest, a) ==
  /\ a.entries \subseteq rest
  /\ \A x \in a.entries : \A y \in rest : y <= x => y \in a.entries
  /\ a.more \in BOOLEAN
  /\ a.more => a.entries # {}
  /\ ~a.more => a.entries = rest

ComingAfter(c) == {e \in Listable : e > c}

\* An honest answer: no longer than asked for, and as long where there is more.
LEMMA AnswerIsFront ==
  ASSUME mode \in Modes, NEW c \in Nat, NEW n \in Nat
  PROVE  LET a == Answer(Standing, mode.delimited, c, n)
         IN /\ FrontOf(ComingAfter(c), a)
            /\ n \in 1..PageMax => /\ Cardinality(a.entries) <= n
                                   /\ a.more => Cardinality(a.entries) = n
<1> DEFINE rest == ComingAfter(c)
           m == IF n = 0 \/ n > PageMax THEN PageMax ELSE n
           a == Answer(Standing, mode.delimited, c, n)
<1>1. m \in Nat /\ m # 0 /\ (n \in 1..PageMax => m = n)
  BY PagingAssumption
<1>2. Top \in Nat /\ rest \in SUBSET (0..Top)
  BY ListableIsBounded DEF ComingAfter
<1>3. IsFiniteSet(rest) /\ rest \in SUBSET Nat
  <2> HIDE DEF rest
  <2>1. rest \in SUBSET Nat /\ \A e \in rest : e <= Top
    BY <1>2
  <2> QED BY <1>2, <2>1, FS_BoundedSetOfNaturals
<1>4. a = [entries |-> First(rest, m), more |-> First(rest, m) # rest]
  BY DEF Answer, ComingAfter, Listable
<1> HIDE DEF m, rest, a
<1>5. /\ First(rest, m) \subseteq rest
      /\ \A x \in First(rest, m) : \A y \in rest : y <= x => y \in First(rest, m)
      /\ rest # {} => First(rest, m) # {}
  BY <1>1, <1>3, FirstIsFront
<1>6. /\ Cardinality(First(rest, m)) <= m
      /\ First(rest, m) # rest => Cardinality(First(rest, m)) = m
  BY <1>1, <1>2, FirstCounts
<1>7. FrontOf(rest, a)
  BY <1>4, <1>5 DEF FrontOf
<1>8. n \in 1..PageMax => Cardinality(a.entries) <= n /\ (a.more => Cardinality(a.entries) = n)
  BY <1>1, <1>4, <1>6
<1> QED BY <1>7, <1>8 DEF rest, a

\* The largest entry of an answer is where the listing may go on.
LEMMA AnswerEnds ==
  ASSUME mode \in Modes, NEW c \in Nat, NEW a, FrontOf(ComingAfter(c), a), a.entries # {}
  PROVE  /\ Max(a.entries) \in a.entries /\ Max(a.entries) \in Nat /\ Max(a.entries) > c
         /\ \A y \in a.entries : y <= Max(a.entries)
         /\ \A n \in Standing : Named(n) > c => Named(n) \in a.entries \/ Named(n) > Max(a.entries)
<1>1. Top \in Nat /\ Listable \subseteq 0..Top /\ \A n \in Standing : Named(n) \in Listable /\ Named(n) \in Nat
  BY ListableIsBounded
<1>2. a.entries \in SUBSET (0..Top) /\ a.entries \subseteq ComingAfter(c)
  BY <1>1 DEF FrontOf, ComingAfter
<1> DEFINE m == Max(a.entries)
<1>3. m \in a.entries /\ \A y \in a.entries : y <= m
  BY <1>1, <1>2, MaxIsIn
<1> HIDE DEF m
<1>4. m \in Nat /\ m > c
  BY <1>1, <1>2, <1>3 DEF ComingAfter
<1>5. ASSUME NEW n \in Standing, Named(n) > c PROVE Named(n) \in a.entries \/ Named(n) > m
  <2>1. Named(n) \in ComingAfter(c) /\ Named(n) \in Nat
    BY <1>1, <1>5 DEF ComingAfter
  <2>2. Named(n) <= m => Named(n) \in a.entries
    BY <1>3, <2>1 DEF FrontOf
  <2> QED BY <1>4, <2>1, <2>2
<1> QED BY <1>3, <1>4, <1>5 DEF m

-----------------------------------------------------------------------------
(* What a page of each backend passes, it has *)

Passes(p) ==
  /\ page.entries \subseteq p.entries /\ p.entries \subseteq page.entries \cup Listable
  /\ p.open \in BOOLEAN /\ p.token \in Nat
  /\ p.open => GoesOn(p)
  /\ \A n \in Standing : Later(n, page.from) =>
       \/ Named(n) \in p.entries
       \/ p.open /\ Later(n, p.from)
       \/ ~p.open /\ p.token # 0 /\ Later(n, p.token)

\* The entries of a page and of an answer can be counted, and are others.
LEMMA EntriesAreFew ==
  ASSUME mode \in Modes, GoesOn(page), NEW a, FrontOf(ComingAfter(page.from), a)
  PROVE  /\ IsFiniteSet(page.entries) /\ IsFiniteSet(a.entries)
         /\ page.entries \cap a.entries = {}
<1>1. page.from \in Nat /\ page.entries \subseteq 0..page.from
  BY DEF GoesOn, Pages
<1>2. Top \in Nat /\ Listable \subseteq 0..Top
  BY ListableIsBounded
<1>3. a.entries \subseteq 0..Top /\ \A e \in a.entries : e > page.from
  BY <1>2 DEF FrontOf, ComingAfter
<1>4. IsFiniteSet(0..page.from) /\ IsFiniteSet(0..Top)
  BY <1>1, <1>2, FS_Interval
<1>5. IsFiniteSet(page.entries) /\ IsFiniteSet(a.entries)
  BY <1>1, <1>3, <1>4, FS_Subset
<1>6. ASSUME NEW e \in page.entries, e \in a.entries PROVE FALSE
  <2>1. e \in Nat /\ e <= page.from /\ e > page.from
    BY <1>1, <1>3, <1>6
  <2> QED BY <1>1, <2>1
<1> QED BY <1>5, <1>6

\* A page that ends with entries s and token t.
LEMMA ClosedPasses ==
  ASSUME GoesOn(page), NEW s \in SUBSET Listable, NEW t \in Nat,
         \A n \in Standing : Later(n, page.from) => Named(n) \in s \/ (t # 0 /\ Later(n, t))
  PROVE  Passes(Closed(page, s, t))
<1>1. page \in Pages
  BY DEF GoesOn
<1> DEFINE p == Closed(page, s, t)
<1>2. p.entries = page.entries \cup s /\ p.open = FALSE /\ p.token = t
  BY <1>1 DEF Closed, Pages
<1> HIDE DEF p
<1> QED BY <1>2 DEF Passes, p

\* A page that goes on after the last entry of an answer.
LEMMA ContinuedPasses ==
  ASSUME mode \in Modes, GoesOn(page), mode.kind # "mem",
         NEW a, FrontOf(ComingAfter(page.from), a), a.entries # {},
         mode.kind = "gcs" => Cardinality(page.entries \cup a.entries) < Size(page),
         mode.kind = "minio" /\ page.limit # 0 =>
           ~mode.delimited /\ Cardinality(page.entries \cup a.entries) < page.limit
  PROVE  Passes(Continued(page, a.entries, Max(a.entries)))
<1>1. page \in Pages /\ page.from \in Nat /\ page.open /\ page.limit = ListLimit
  BY DEF GoesOn, Pages
<1> DEFINE last == Max(a.entries)
           p == Continued(page, a.entries, last)
<1>2. /\ last \in a.entries /\ last \in Nat /\ last > page.from
      /\ \A y \in a.entries : y <= last
      /\ \A n \in Standing : Named(n) > page.from => Named(n) \in a.entries \/ Named(n) > last
  BY <1>1, AnswerEnds
<1>3. a.entries \subseteq Listable /\ Listable \subseteq Nat
  BY ListableIsBounded DEF FrontOf, ComingAfter
<1> HIDE DEF last
<1>4. /\ p.entries = page.entries \cup a.entries /\ p.from = last
      /\ p.open /\ p.limit = page.limit /\ p.token = page.token
  BY <1>1 DEF Continued, Pages
<1>5. p \in Pages
  BY <1>1, <1>2, <1>3 DEF Continued, Pages
<1> HIDE DEF p
<1>6. p.entries \subseteq 0..last
  <2>1. \A e \in page.entries : e \in Nat /\ e <= page.from
    BY <1>1 DEF GoesOn
  <2>2. \A e \in a.entries : e \in Nat /\ e <= last
    BY <1>2, <1>3
  <2>3. \A e \in page.entries : e <= last
    BY <1>1, <1>2, <2>1
  <2> QED BY <1>2, <1>4, <2>1, <2>2, <2>3
<1>7. GoesOn(p)
  BY <1>1, <1>4, <1>5, <1>6 DEF GoesOn, Size
<1>8. p.token \in Nat
  BY <1>1, <1>4 DEF Pages
<1> QED BY <1>2, <1>3, <1>4, <1>7, <1>8 DEF Passes, Later, p, last

\* S3 and Azure.
LEMMA StorePasses ==
  ASSUME mode \in Modes, GoesOn(page), mode.kind # "mem", NEW a, FrontOf(ComingAfter(page.from), a)
  PROVE  Passes(StorePage(page, a))
<1>1. page.from \in Nat
  BY DEF GoesOn, Pages
<1>2. a.entries \in SUBSET Listable /\ \A n \in Standing : Named(n) \in Listable
  BY ListableIsBounded DEF FrontOf, ComingAfter
<1>3. CASE a.more
  <2>0. a.entries # {}
    BY <1>3 DEF FrontOf
  <2>1. /\ Max(a.entries) \in Nat /\ Max(a.entries) > page.from
        /\ \A n \in Standing : Named(n) > page.from => Named(n) \in a.entries \/ Named(n) > Max(a.entries)
    BY <1>1, <2>0, AnswerEnds
  <2>2. Passes(Closed(page, a.entries, Max(a.entries)))
    BY <1>1, <1>2, <2>1, ClosedPasses DEF Later
  <2> QED BY <1>3, <2>2 DEF StorePage
<1>4. CASE ~a.more
  <2>1. \A n \in Standing : Named(n) > page.from => Named(n) \in a.entries
    BY <1>2, <1>4 DEF FrontOf, ComingAfter
  <2>2. Passes(Closed(page, a.entries, 0))
    BY <1>2, <2>1, ClosedPasses DEF Later
  <2> QED BY <1>4, <2>2 DEF StorePage
<1> QED BY <1>3, <1>4

\* Google's pager.
LEMMA GcsPasses ==
  ASSUME mode \in Modes, GoesOn(page), mode.kind = "gcs", NEW a, FrontOf(ComingAfter(page.from), a)
  PROVE  Passes(GcsPage(page, a))
<1>1. a.more \in BOOLEAN
  BY DEF FrontOf
<1>2. page.from \in Nat
  BY DEF GoesOn, Pages
<1> DEFINE full == Cardinality(page.entries \cup a.entries) >= Size(page)
<1>3. CASE a.more /\ ~full
  <2>1. a.entries # {}
    BY <1>3 DEF FrontOf
  <2>2. Cardinality(page.entries \cup a.entries) < Size(page)
    <3>2. Cardinality(page.entries \cup a.entries) \in Nat
      BY EntriesAreFew, FS_Union, FS_CardinalityType
    <3>3. Size(page) \in Nat
      BY PagingAssumption DEF Size, GoesOn, Pages
    <3> QED BY <1>3, <3>2, <3>3
  <2>3. Passes(Continued(page, a.entries, Max(a.entries)))
    BY <2>1, <2>2, ContinuedPasses
  <2> QED BY <1>3, <2>3 DEF GcsPage
<1>4. CASE ~a.more \/ full
  <2>1. Passes(StorePage(page, a))
    BY StorePasses
  <2>2. GcsPage(page, a) = StorePage(page, a)
    BY <1>1, <1>4 DEF GcsPage, StorePage
  <2> QED BY <2>1, <2>2
<1> QED BY <1>1, <1>3, <1>4

\* MinIO's library hands on all of an answer that fits in the page.
LEMMA AllIsHanded ==
  ASSUME NEW top \in Nat, NEW a, a.entries \in SUBSET (0..top), page.limit \in Nat, page.entries = {},
         Cardinality(a.entries) <= page.limit
  PROVE  Handed(page, a) = a.entries
<1> DEFINE plain == a.entries \cap Names
           inFolders == Folders(a.entries)
<1>1. plain \cup inFolders = a.entries /\ plain \cap inFolders = {}
  BY DEF Folders
<1>2. plain \in SUBSET (0..top) /\ inFolders \in SUBSET (0..top)
  BY DEF Folders
<1> HIDE DEF plain, inFolders
<1>3. IsFiniteSet(plain) /\ IsFiniteSet(inFolders)
  BY <1>2, CountedUpTo
<1>4. /\ Cardinality(plain) \in Nat /\ Cardinality(inFolders) \in Nat
      /\ Cardinality(plain) + Cardinality(inFolders) = Cardinality(a.entries)
  BY <1>1, <1>3, DisjointAdds
<1>5. page.limit - Cardinality(page.entries) = page.limit
  BY FS_EmptySet
<1>6. First(plain, page.limit) = plain
  <2>1. Cardinality(plain) <= page.limit
    BY <1>4
  <2> QED BY <1>2, <2>1, FirstCounts
<1>7. First(inFolders, page.limit - Cardinality(plain)) = inFolders
  <2>1. /\ page.limit - Cardinality(plain) \in Nat
        /\ Cardinality(inFolders) <= page.limit - Cardinality(plain)
    BY <1>4
  <2> QED BY <1>2, <2>1, FirstCounts
<1> QED BY <1>1, <1>5, <1>6, <1>7 DEF Handed, plain, inFolders

\* MinIO, with folders, where an answer is no longer than the page.
LEMMA MinioFoldedPasses ==
  ASSUME mode \in Modes, GoesOn(page), mode.kind = "minio", mode.delimited, page.limit # 0,
         NEW a, FrontOf(ComingAfter(page.from), a),
         Cardinality(a.entries) <= page.limit, a.more => Cardinality(a.entries) = page.limit
  PROVE  Passes(MinioPage(page, a))
<1>1. page.entries = {} /\ page.limit \in Nat /\ page.from \in Nat
  BY DEF GoesOn, Pages
<1>2. Top \in Nat /\ a.entries \in SUBSET (0..Top)
  BY ListableIsBounded DEF FrontOf, ComingAfter
<1>3. Handed(page, a) = a.entries
  BY <1>1, <1>2, AllIsHanded
<1>4. IsFiniteSet(a.entries) /\ Cardinality(a.entries) \in Nat
  BY EntriesAreFew, FS_CardinalityType
<1>5. a.entries \in SUBSET Listable /\ \A n \in Standing : Named(n) \in Listable
  BY ListableIsBounded DEF FrontOf, ComingAfter
<1>6. page.entries \cup Handed(page, a) = a.entries
  BY <1>1, <1>3
<1>7. CASE Cardinality(a.entries) >= page.limit
  <2> DEFINE t == LastHanded(a.entries)
  <2>1. a.entries # {}
    BY <1>1, <1>7, FS_EmptySet
  <2>2. t \in a.entries
    <3>1. CASE Folders(a.entries) # {}
      <4>1. Folders(a.entries) \in SUBSET (0..Top) /\ Folders(a.entries) \subseteq a.entries
        BY <1>2 DEF Folders
      <4> QED BY <1>2, <3>1, <4>1, MaxIsIn DEF LastHanded
    <3>2. CASE Folders(a.entries) = {}
      BY <1>2, <2>1, <3>2, MaxIsIn DEF LastHanded
    <3> QED BY <3>1, <3>2
  <2>3. /\ Max(a.entries) \in Nat
        /\ \A y \in a.entries : y <= Max(a.entries)
        /\ \A n \in Standing : Named(n) > page.from => Named(n) \in a.entries \/ Named(n) > Max(a.entries)
    BY <1>1, <2>1, AnswerEnds
  <2>4. t \in Nat /\ t > page.from
    BY <1>2, <2>2 DEF FrontOf, ComingAfter
  <2> HIDE DEF t
  <2>5. t # 0
    BY <1>1, <2>4
  <2>6. ASSUME NEW n \in Standing, Named(n) > page.from PROVE Named(n) \in a.entries \/ Named(n) > t
    <3>1. Named(n) \in Nat /\ t <= Max(a.entries)
      BY <2>2, <2>3, ListableIsBounded
    <3> QED BY <2>3, <2>4, <2>6, <3>1
  <2>7. Passes(Closed(page, a.entries, t))
    BY <1>5, <2>4, <2>5, <2>6, ClosedPasses DEF Later
  <2>8. MinioPage(page, a) = Closed(page, a.entries, t)
    <3>1. page.limit > 0
      BY <1>1
    <3> QED BY <1>3, <1>6, <1>7, <3>1 DEF MinioPage, t
  <2> QED BY <2>7, <2>8
<1>8. CASE ~ (Cardinality(a.entries) >= page.limit)
  <2>1. ~a.more
    BY <1>1, <1>4, <1>8
  <2>2. \A n \in Standing : Named(n) > page.from => Named(n) \in a.entries
    BY <1>5, <2>1 DEF FrontOf, ComingAfter
  <2>3. Passes(Closed(page, a.entries, 0))
    BY <1>5, <2>2, ClosedPasses DEF Later
  <2>4. MinioPage(page, a) = Closed(page, a.entries, 0)
    BY <1>3, <1>6, <1>8, <2>1 DEF MinioPage
  <2> QED BY <2>3, <2>4
<1> QED BY <1>7, <1>8

\* MinIO, without a limit: all there is.
LEMMA MinioUnlimitedPasses ==
  ASSUME mode \in Modes, GoesOn(page), mode.kind = "minio", page.limit = 0,
         NEW a, FrontOf(ComingAfter(page.from), a)
  PROVE  Passes(MinioPage(page, a))
<1>1. Handed(page, a) = a.entries
  BY DEF Handed
<1>2. a.more \in BOOLEAN /\ (a.more => a.entries # {})
  BY DEF FrontOf
<1>3. CASE a.more
  <2>1. Passes(Continued(page, a.entries, Max(a.entries)))
    BY <1>2, <1>3, ContinuedPasses
  <2> QED BY <1>1, <1>3, <2>1 DEF MinioPage
<1>4. CASE ~a.more
  <2>1. Passes(StorePage(page, a))
    BY StorePasses
  <2> QED BY <1>1, <1>4, <2>1 DEF MinioPage, StorePage
<1> QED BY <1>2, <1>3, <1>4

\* MinIO, without folders: the first objects of an answer that fit in the page,
\* however long it is.
LEMMA MinioFlatPasses ==
  ASSUME mode \in Modes, GoesOn(page), mode.kind = "minio", ~mode.delimited, page.limit # 0,
         NEW a, FrontOf(ComingAfter(page.from), a)
  PROVE  Passes(MinioPage(page, a))
<1> DEFINE room == page.limit - Cardinality(page.entries)
           handed == First(a.entries, room)
<1>1. page.limit \in Nat /\ page.from \in Nat /\ Cardinality(page.entries) < page.limit
  BY DEF GoesOn, Pages
<1>2. /\ IsFiniteSet(page.entries) /\ IsFiniteSet(a.entries) /\ page.entries \cap a.entries = {}
      /\ Cardinality(page.entries) \in Nat
  BY EntriesAreFew, FS_CardinalityType
<1>3. room \in Nat /\ room # 0
  BY <1>1, <1>2
<1>4. Top \in Nat /\ a.entries \in SUBSET (0..Top) /\ a.entries \in SUBSET Nat
  BY ListableIsBounded DEF FrontOf, ComingAfter
<1>5. a.entries \subseteq Names
  <2>1. Listable \subseteq Names
    BY ListableIsBounded DEF Listable, Entries, Entry
  <2> QED BY <2>1 DEF FrontOf, ComingAfter
<1>6. a.entries \cap Names = a.entries /\ Folders(a.entries) = {}
  BY <1>5 DEF Folders
<1> HIDE DEF room
<1>7. /\ handed \subseteq a.entries /\ IsFiniteSet(handed)
      /\ \A x \in handed : \A y \in a.entries : y <= x => y \in handed
      /\ handed # a.entries => Cardinality(handed) = room
  <2>1. /\ handed \subseteq a.entries /\ IsFiniteSet(handed)
        /\ \A x \in handed : \A y \in a.entries : y <= x => y \in handed
    BY <1>2, <1>3, <1>4, FirstIsFront
  <2>2. handed # a.entries => Cardinality(handed) = room
    BY <1>3, <1>4, FirstCounts
  <2> QED BY <2>1, <2>2
<1>8. Handed(page, a) = handed
  <2>1. \A n : First({}, n) = {}
    BY DEF First
  <2> QED BY <1>1, <1>6, <2>1 DEF Handed, room
<1> HIDE DEF handed
<1>9. Cardinality(page.entries \cup handed) = Cardinality(page.entries) + Cardinality(handed)
  <2>1. page.entries \cap handed = {}
    BY <1>2, <1>7
  <2> QED BY <1>2, <1>7, <2>1, DisjointAdds
<1>10. Cardinality(handed) \in Nat
  BY <1>7, FS_CardinalityType
<1>11. CASE Cardinality(page.entries \cup handed) >= page.limit
  <2> DEFINE f == [entries |-> handed, more |-> TRUE]
  <2>1. handed # {}
    BY <1>1, <1>2, <1>9, <1>11, FS_EmptySet
  <2>2. FrontOf(ComingAfter(page.from), f)
    <3>1. ASSUME NEW x \in handed, NEW y \in ComingAfter(page.from), y <= x PROVE y \in handed
      BY <1>7, <3>1 DEF FrontOf
    <3> QED BY <1>7, <2>1, <3>1 DEF FrontOf
  <2>3. Passes(StorePage(page, f))
    BY <2>2, StorePasses
  <2>4. StorePage(page, f) = Closed(page, handed, Max(handed))
    BY DEF StorePage
  <2>5. LastHanded(handed) = Max(handed)
    BY <1>5, <1>7 DEF LastHanded, Folders
  <2>6. MinioPage(page, a) = Closed(page, handed, Max(handed))
    BY <1>1, <1>8, <1>11, <2>5 DEF MinioPage
  <2> QED BY <2>3, <2>4, <2>6
<1>12. CASE ~ (Cardinality(page.entries \cup handed) >= page.limit)
  <2>1. handed = a.entries
    <3> SUFFICES ASSUME Cardinality(handed) = room PROVE FALSE
      BY <1>7
    <3> QED BY <1>1, <1>2, <1>9, <1>12 DEF room
  <2>2. a.more \in BOOLEAN /\ (a.more => a.entries # {})
    BY DEF FrontOf
  <2>3. CASE a.more
    <3>1. Cardinality(page.entries \cup a.entries) < page.limit
      BY <1>1, <1>2, <1>9, <1>10, <1>12, <2>1
    <3>2. Passes(Continued(page, a.entries, Max(a.entries)))
      BY <2>2, <2>3, <3>1, ContinuedPasses
    <3>3. MinioPage(page, a) = Continued(page, a.entries, Max(a.entries))
      BY <1>8, <1>12, <2>1, <2>3 DEF MinioPage
    <3> QED BY <3>2, <3>3
  <2>4. CASE ~a.more
    <3>1. Passes(StorePage(page, a))
      BY StorePasses
    <3>2. MinioPage(page, a) = StorePage(page, a)
      BY <1>8, <1>12, <2>1, <2>4 DEF MinioPage, StorePage
    <3> QED BY <3>1, <3>2
  <2> QED BY <2>2, <2>3, <2>4
<1> QED BY <1>11, <1>12

\* The memory backend's page ends at a key, in a folder or not.
LEMMA MemPasses ==
  ASSUME mode \in Modes, GoesOn(page), mode.kind = "mem"
  PROVE  Passes(MemPage(page, Standing, mode.delimited))
<1> DEFINE rest == {n \in Standing : n > page.from}
           limit == IF page.limit = 0 THEN PageMax ELSE page.limit
           Before(n) == Entries({m \in rest : m < n}, mode.delimited)
           visited == {n \in rest : Cardinality(Before(n)) < limit}
           s == Entries(visited, mode.delimited)
<1>1. page.from \in Nat /\ limit \in Nat /\ limit # 0
  BY PagingAssumption DEF GoesOn, Pages
<1>2. Top \in Nat /\ Listable \subseteq 0..Top /\ \A n \in Standing : n \in 0..Top /\ n \in Nat
  BY ListableIsBounded
<1>3. visited \subseteq rest /\ rest \subseteq Standing
  OBVIOUS
<1>4. s \in SUBSET Listable
  BY <1>3 DEF Entries, Listable
<1>5. \A n \in visited : Named(n) \in s
  BY DEF Entries, Named
<1>6. \A n \in rest : IsFiniteSet(Before(n)) /\ Cardinality(Before(n)) \in Nat
  <2> SUFFICES ASSUME NEW n \in rest PROVE IsFiniteSet(Before(n))
    BY FS_CardinalityType
  <2>1. Before(n) \subseteq Listable
    BY DEF Entries, Listable
  <2>2. Before(n) \subseteq 0..Top
    BY <1>2, <2>1
  <2> HIDE DEF Before
  <2> QED BY <1>2, <2>2, CountedUpTo
<1>7. ASSUME NEW n \in visited, NEW m \in rest, m <= n PROVE m \in visited
  <2>1. n \in rest /\ n \in Nat /\ m \in Nat
    BY <1>2, <1>3
  <2>2. Before(m) \subseteq Before(n)
    <3>1. {x \in rest : x < m} \subseteq {x \in rest : x < n}
      <4> SUFFICES ASSUME NEW x \in rest, x < m PROVE x < n
        OBVIOUS
      <4>1. x \in Nat
        BY <1>2, <1>3
      <4> QED BY <1>7, <2>1, <4>1
    <3> QED BY <3>1 DEF Entries
  <2>3. Cardinality(Before(m)) <= Cardinality(Before(n))
    BY <1>6, <2>1, <2>2, FS_Subset
  <2>4. Cardinality(Before(n)) < limit
    OBVIOUS
  <2>5. Cardinality(Before(m)) \in Nat /\ Cardinality(Before(n)) \in Nat
    BY <1>6, <2>1
  <2>6. Cardinality(Before(m)) < limit
    BY <1>1, <2>3, <2>4, <2>5
  <2> QED BY <2>6
<1>8. ASSUME rest # {} PROVE visited # {}
  <2>1. rest \in SUBSET Nat
    BY <1>2, <1>3
  <2>2. Min(rest) \in rest /\ \A y \in rest : Min(rest) <= y
    BY <1>8, <2>1, MinIsIn
  <2>3. {m \in rest : m < Min(rest)} = {}
    <3> SUFFICES ASSUME NEW m \in rest, m < Min(rest) PROVE FALSE
      OBVIOUS
    <3>1. m \in Nat /\ Min(rest) \in Nat /\ Min(rest) <= m
      BY <2>1, <2>2
    <3> QED BY <3>1
  <2>4. Before(Min(rest)) = {}
    BY <2>3 DEF Entries
  <2>5. Cardinality(Before(Min(rest))) < limit
    BY <1>1, <2>4, FS_EmptySet
  <2> QED BY <2>2, <2>5
<1>9. MemPage(page, Standing, mode.delimited)
        = Closed(page, s, IF visited # rest THEN Max(visited) ELSE 0)
  BY DEF MemPage
<1> HIDE DEF rest, visited, s
<1>10. CASE visited # rest
  <2>1. visited \in SUBSET (0..Top) /\ visited # {}
    BY <1>2, <1>3, <1>8, <1>10
  <2>2. Max(visited) \in visited /\ \A y \in visited : y <= Max(visited)
    BY <1>2, <2>1, MaxIsIn
  <2> DEFINE t == Max(visited)
  <2>3. t \in Nat /\ t > page.from
    BY <1>2, <1>3, <2>2 DEF rest
  <2>4. ASSUME NEW n \in Standing, n > page.from PROVE Named(n) \in s \/ n > t
    <3>1. n \in rest /\ n \in Nat
      BY <1>2, <2>4 DEF rest
    <3>2. n <= t => n \in visited
      BY <1>7, <2>2, <3>1
    <3> QED BY <1>5, <2>3, <3>1, <3>2
  <2> HIDE DEF t
  <2>5. t # 0
    BY <1>1, <2>3
  <2>6. Passes(Closed(page, s, t))
    BY <1>4, <2>3, <2>4, <2>5, ClosedPasses DEF Later
  <2> QED BY <1>9, <1>10, <2>6 DEF t
<1>11. CASE visited = rest
  <2>1. ASSUME NEW n \in Standing, n > page.from PROVE Named(n) \in s
    BY <1>5, <1>11, <2>1 DEF rest
  <2>2. Passes(Closed(page, s, 0))
    BY <1>4, <2>1, ClosedPasses DEF Later
  <2> QED BY <1>9, <1>11, <2>2
<1> QED BY <1>10, <1>11

-----------------------------------------------------------------------------
(* A listing passes nothing by *)

\* The limit of a page, and where it is within what one answer of MinIO's holds.
LEMMA LimitIsNatural ==
  ASSUME mode \in Modes
  PROVE  /\ ListLimit \in Nat
         /\ ~SkipsFolders /\ mode.kind = "minio" /\ mode.delimited /\ ListLimit # 0 => ListLimit \in 1..PageMax
<1>1. mode.limit \in Nat /\ mode.bound \in BOOLEAN
  BY ReadBounds DEF Modes
<1>2. MaxList \in Nat /\ MaxList >= 1 /\ MaxList <= PageMax /\ PageMax \in Nat
  BY ReadBounds, PagingAssumption
<1>3. CASE mode.bound
  <2>1. ListLimit \in 1..MaxList
    BY <1>1, <1>2, <1>3 DEF ListLimit
  <2> QED BY <1>2, <2>1
<1>4. CASE ~mode.bound
  BY <1>1, <1>2, <1>4 DEF ListLimit, SkipsFolders
<1> QED BY <1>1, <1>3, <1>4

\* A store's answers are fronts of what comes next, an over-long one is all of
\* it; one without a token to go on with is refused.
LEMMA StoresAnswerFronts ==
  ASSUME mode \in Modes, GoesOn(page), ~SkipsFolders, NEW a \in StoreAnswers, ~Incomplete(a)
  PROVE  LET f == [entries |-> a.entries, more |-> a.token]
         IN /\ FrontOf(ComingAfter(page.from), f)
            /\ mode.kind = "minio" /\ mode.delimited /\ page.limit # 0 =>
                 /\ Cardinality(f.entries) <= page.limit
                 /\ f.more => Cardinality(f.entries) = page.limit
<1> DEFINE b == Answer(Standing, mode.delimited, page.from, Asks)
           rest == ComingAfter(page.from)
<1>1. page \in Pages /\ page.from \in Nat /\ page.limit \in Nat /\ page.limit = ListLimit
  BY DEF GoesOn, Pages
<1>2. Asks \in Nat /\ (mode.kind = "minio" => Asks = page.limit)
  <2>1. CASE mode.kind = "gcs"
    <3>1. Size(page) \in Nat /\ Cardinality(page.entries) < Size(page)
      BY <1>1, <2>1, PagingAssumption DEF GoesOn, Size
    <3>2. Cardinality(page.entries) \in Nat
      BY <1>1, CountedUpTo DEF GoesOn
    <3> QED BY <2>1, <3>1, <3>2 DEF Asks, GcsAsks
  <2>2. CASE mode.kind # "gcs"
    BY <1>1, <2>2 DEF Asks
  <2> QED BY <2>1, <2>2
<1>3. /\ FrontOf(rest, b)
      /\ Asks \in 1..PageMax => /\ Cardinality(b.entries) <= Asks
                                /\ b.more => Cardinality(b.entries) = Asks
  BY <1>1, <1>2, AnswerIsFront
<1>4. LongAnswer(Standing, mode.delimited, page.from).entries = rest
  BY DEF LongAnswer, ComingAfter, Listable
<1>5. \/ a.entries = b.entries /\ a.token = b.more
      \/ a.entries = rest /\ a.token = FALSE /\ mode.bound /\ "long" \in Lies
      \/ a.entries = b.entries /\ a.more = b.more /\ a.token = FALSE
  BY <1>4 DEF StoreAnswers
<1> HIDE DEF b, rest
<1>6. CASE a.entries = b.entries /\ a.token = b.more
  <2>1. mode.kind = "minio" /\ mode.delimited /\ page.limit # 0 => Asks = page.limit /\ Asks \in 1..PageMax
    BY <1>1, <1>2, LimitIsNatural
  <2> QED BY <1>3, <1>6, <2>1 DEF FrontOf, rest
<1>7. CASE a.entries = rest /\ a.token = FALSE /\ mode.bound /\ "long" \in Lies
  <2>1. ~ (mode.kind = "minio" /\ mode.delimited)
    BY <1>7 DEF SkipsFolders
  <2>2. FrontOf(rest, [entries |-> a.entries, more |-> a.token])
    BY <1>7 DEF FrontOf
  <2> QED BY <2>1, <2>2 DEF rest
<1>8. CASE a.entries = b.entries /\ a.more = b.more /\ a.token = FALSE
  <2>1. b.more = FALSE
    BY <1>3, <1>8 DEF Incomplete, FrontOf
  <2> QED BY <1>6, <1>8, <2>1
<1> QED BY <1>5, <1>6, <1>7, <1>8

\* Whatever a store answers, its backend's page passes nothing by.
LEMMA PageOfPasses ==
  ASSUME mode \in Modes, GoesOn(page), mode.kind # "mem", ~SkipsFolders, NEW a \in StoreAnswers, ~Incomplete(a)
  PROVE  Passes(PageOf(a))
<1> DEFINE f == [entries |-> a.entries, more |-> a.token]
<1>1. /\ FrontOf(ComingAfter(page.from), f)
      /\ mode.kind = "minio" /\ mode.delimited /\ page.limit # 0 =>
           Cardinality(f.entries) <= page.limit /\ (f.more => Cardinality(f.entries) = page.limit)
  BY StoresAnswerFronts
<1>2. mode.delimited \in BOOLEAN
  BY DEF Modes
<1>3. PageOf(a) = CASE mode.kind = "minio" -> MinioPage(page, f)
                    [] mode.kind = "gcs"   -> GcsPage(page, f)
                    [] OTHER               -> StorePage(page, f)
  BY DEF PageOf
<1> HIDE DEF f
<1>4. CASE mode.kind = "minio"
  BY <1>1, <1>2, <1>3, <1>4, MinioUnlimitedPasses, MinioFoldedPasses, MinioFlatPasses
<1>5. CASE mode.kind = "gcs"
  BY <1>1, <1>3, <1>5, GcsPasses
<1>6. CASE mode.kind \notin {"minio", "gcs"}
  BY <1>1, <1>3, <1>6, StorePasses
<1> QED BY <1>4, <1>5, <1>6

\* An entry that was read has an ETag.
LEMMA GatheredHasETag ==
  ASSUME ReadTypes, NEW p, p.entries \subseteq page.entries \cup Listable,
         \A k \in Keys : Join(k) \in page.entries => infos[k] # None,
         NEW k \in Keys, Join(k) \in p.entries
  PROVE  Gathered(p)[k] # None
<1>1. CASE Join(k) \in page.entries
  BY <1>1 DEF Gathered
<1>2. CASE Join(k) \notin page.entries
  <2>1. mode \in Modes /\ Join(k) \in Names /\ Join(k) \in Listable
    BY <1>2, KeysAssumption DEF ReadTypes
  <2>2. bucket[Join(k)] # None
    BY <2>1, ListableIsBounded DEF Standing
  <2>3. bucket[Join(k)].tag \in Nat
    BY <2>1, <2>2 DEF ReadTypes, Objects
  <2>4. Gathered(p)[k] = bucket[Join(k)].tag
    BY <1>2 DEF Gathered
  <2> QED BY <2>3, <2>4, NoneAssumption
<1> QED BY <1>1, <1>2

\* A key that is not known to have been absent is there, and a page that passes
\* it has it.
LEMMA PassedByPage ==
  ASSUME ReadTypes, ListingInv, stage = "list", page # None, NEW p, Passes(p), NEW k \in Keys
  PROVE  \/ Known(k)
         \/ Named(Join(k)) \in p.entries
         \/ p.open /\ Later(Join(k), p.from)
         \/ ~p.open /\ p.token # 0 /\ Later(Join(k), p.token)
<1>1. Later(Join(k), page.from) \/ Known(k) \/ Named(Join(k)) \in page.entries
  BY DEF ListingInv, PassedIsKnown
<1>2. ~Known(k) => Join(k) \in Standing
  BY KeysAssumption DEF Known, ListingInv, AbsentIsKnown, Standing
<1> QED BY <1>1, <1>2 DEF Passes

\* Nor does the listing, when the page is handed to the caller or goes on.
LEMMA TakePageListed ==
  ASSUME ReadTypes, ListingInv, stage = "list", page # None, NEW p, Passes(p), TakePage(p),
         UNCHANGED <<mode, bucket, absent>>
  PROVE  ListingInv'
<1>1. token \in Nat /\ AbsentIsKnown'
  BY DEF ListingInv, AbsentIsKnown
<1>2. GoesOn(page) /\ \A k \in Keys : Join(k) \in page.entries => infos[k] # None
  BY DEF ListingInv, PageGoesOn
<1>3. \A k \in Keys : Join(k) \in p.entries => Gathered(p)[k] # None
  BY <1>2, GatheredHasETag DEF Passes
<1>4. CASE p.open
  <2>1. page' = p /\ infos' = Gathered(p) /\ UNCHANGED <<stage, token, listed, folders>>
    BY <1>4 DEF TakePage
  <2>2. GoesOn(p) /\ p # None
    BY <1>4, NoneAssumption DEF Passes, GoesOn
  <2>3. PageGoesOn'
    BY <1>3, <2>1, <2>2 DEF PageGoesOn, GoesOn, ListLimit
  <2>4. ASSUME NEW k \in Keys PROVE (Later(Join(k), page.from) \/ Known(k) \/ Named(Join(k)) \in page.entries)'
    <3>1. Known(k) \/ Named(Join(k)) \in p.entries \/ Later(Join(k), p.from)
      BY <1>4, PassedByPage
    <3> QED BY <2>1, <3>1 DEF Later, Known, Covered, Named
  <2>5. PassedIsKnown'
    BY <2>1, <2>2, <2>4 DEF PassedIsKnown
  <2> QED BY <1>1, <2>1, <2>3, <2>5 DEF ListingInv, CompleteListing
<1>5. CASE ~p.open /\ mode.bound /\ Cardinality(p.entries) > p.limit
  <2>1. stage' = "failed" /\ token' = token
    BY <1>5 DEF TakePage, Fails, listVars
  <2> QED BY <1>1, <2>1 DEF ListingInv, PageGoesOn, PassedIsKnown, CompleteListing
<1>6. CASE ~p.open /\ ~ (mode.bound /\ Cardinality(p.entries) > p.limit)
  <2>1. /\ page' = None
        /\ token' = p.token
        /\ listed' = [k \in Keys |-> IF Join(k) \in p.entries THEN Gathered(p)[k] ELSE listed[k]]
        /\ folders' = folders \cup {Strip(f) : f \in Folders(p.entries)}
        /\ stage' = IF p.token # 0 THEN "list" ELSE IF mode.delimited THEN "done" ELSE "read"
    BY <1>6 DEF TakePage
  <2>2. ASSUME NEW k \in Keys, Known(k) \/ Named(Join(k)) \in p.entries PROVE Known(k)'
    <3>1. CASE Known(k)
      BY <1>3, <2>1, <3>1 DEF Known, Covered
    <3>2. CASE Named(Join(k)) \in p.entries
      <4>1. CASE Named(Join(k)) = Join(k)
        BY <1>3, <2>1, <3>2, <4>1 DEF Known, Covered
      <4>2. CASE Named(Join(k)) # Join(k)
        <5>1. mode.delimited /\ Named(Join(k)) = FolderOf[Join(k)]
          BY <4>2 DEF Named, Entry
        <5>2. Named(Join(k)) \notin Names
          BY <5>1, KeysAssumption, NamesAssumption
        <5>3. FolderOf[Join(k)] \in Folders(p.entries)
          BY <3>2, <5>1, <5>2 DEF Folders
        <5> QED BY <2>1, <5>1, <5>3 DEF Known, Covered
      <4> QED BY <4>1, <4>2
    <3> QED BY <2>2, <3>1, <3>2
  <2>3. \A k \in Keys : Known(k)' \/ (p.token # 0 /\ Later(Join(k), p.token))
    BY <1>6, <2>2, PassedByPage
  <2>4. PassedIsKnown'
    BY <2>1, <2>3 DEF PassedIsKnown, Later, Named
  <2>5. CompleteListing'
    <3> SUFFICES ASSUME stage' \in {"read", "done"}, NEW k \in Keys PROVE Known(k)'
      BY DEF CompleteListing, Known
    <3>1. p.token = 0
      BY <2>1
    <3> QED BY <2>3, <3>1
  <2>6. PageGoesOn'
    BY <2>1 DEF PageGoesOn
  <2>7. token' \in Nat
    BY <2>1 DEF Passes
  <2> QED BY <1>1, <2>4, <2>5, <2>6, <2>7 DEF ListingInv
<1> QED BY <1>4, <1>5, <1>6

-----------------------------------------------------------------------------
(* The other steps leave the listing as it is *)

\* Who only adds to the keys known to have been absent leaves it complete.
LEMMA ListingKept ==
  ASSUME ListingInv, UNCHANGED <<mode, listVars>>, AbsentIsKnown', absent \subseteq absent',
         stage' = stage \/ stage' = "failed" \/ (stage = "read" /\ stage' = "done")
  PROVE  ListingInv'
<1>1. UNCHANGED <<page, infos, token, listed, folders>>
  BY DEF listVars
<1>2. \A k \in Keys : Known(k) => Known(k)'
  BY <1>1 DEF Known, Covered
<1>3. PageGoesOn'
  BY <1>1 DEF ListingInv, PageGoesOn, GoesOn, Size, ListLimit
<1>4. PassedIsKnown'
  BY <1>1, <1>2 DEF ListingInv, PassedIsKnown, Later, Named
<1>5. CompleteListing'
  BY <1>2 DEF ListingInv, CompleteListing, Known
<1> QED BY <1>1, <1>3, <1>4, <1>5 DEF ListingInv

\* Others do, in the same step that takes an object away.
LEMMA OthersListed ==
  ASSUME Inv, ListingInv, Others \/ RemoveBucket
  PROVE  ListingInv'
<1>1. UNCHANGED <<mode, stage, listVars>>
  BY DEF Others, Write, DeleteObject, RemoveBucket
<1>2. AbsentIsKnown /\ bucket \in [Names -> Objects \cup {None}] /\ written \in Nat
  BY DEF ListingInv, Inv, ReadTypes
<1>3. ASSUME NEW k \in Keys, Write(k) PROVE AbsentIsKnown' /\ absent \subseteq absent'
  <2>1. PICK s \in Sizes : bucket' = [bucket EXCEPT ![Join(k)] = [tag |-> written + 1, size |-> s]]
    BY <1>3 DEF Write
  <2>2. [tag |-> written + 1, size |-> s] # None
    BY <1>2, NoneAssumption
  <2>3. \A j \in Keys : bucket'[Join(j)] = None => bucket[Join(j)] = None
    BY <1>2, <2>1, <2>2, KeysAssumption
  <2>4. absent' = absent
    BY <1>3 DEF Write
  <2> QED BY <1>2, <2>3, <2>4 DEF AbsentIsKnown
<1>4. ASSUME NEW k \in Keys, DeleteObject(k) PROVE AbsentIsKnown' /\ absent \subseteq absent'
  <2>1. bucket' = [bucket EXCEPT ![Join(k)] = None] /\ absent' = absent \cup {k}
    BY <1>4 DEF DeleteObject
  <2>2. \A j \in Keys : Join(j) = Join(k) => j = k
    BY KeysAssumption, PagingAssumption DEF Join
  <2>3. \A j \in Keys : bucket'[Join(j)] = None => bucket[Join(j)] = None \/ j = k
    BY <1>2, <2>1, <2>2, KeysAssumption
  <2> QED BY <1>2, <2>1, <2>3 DEF AbsentIsKnown
<1>5. ASSUME RemoveBucket PROVE AbsentIsKnown' /\ absent \subseteq absent'
  <2>1. bucket' = bucket /\ absent' = absent
    BY <1>5 DEF RemoveBucket
  <2> QED BY <1>2, <2>1 DEF AbsentIsKnown
<1>6. AbsentIsKnown' /\ absent \subseteq absent'
  <2>1. CASE Others
    BY <1>3, <1>4, <2>1 DEF Others
  <2>2. CASE RemoveBucket
    BY <1>5, <2>2
  <2> QED BY <2>1, <2>2
<1> QED BY <1>1, <1>6, ListingKept

\* A page begins after what the last one passed.
LEMMA ListBeginListed ==
  ASSUME Inv, ListingInv, ListBegin
  PROVE  ListingInv'
<1>1. /\ page' = NewPage(token, ListLimit) /\ stage = "list" /\ page = None
      /\ UNCHANGED <<mode, bucket, absent, stage, token, listed, folders>>
  BY DEF ListBegin, storeVars
<1>2. token \in Nat /\ ListLimit \in Nat
  BY LimitIsNatural DEF ListingInv, Inv, ReadTypes
<1> DEFINE p == NewPage(token, ListLimit)
<1>3. p \in Pages /\ p.open /\ p.limit = ListLimit /\ p.entries = {} /\ p.from = token
  BY <1>2 DEF NewPage, Pages
<1>4. Size(p) \in Nat /\ Size(p) > 0 /\ Cardinality({}) = 0
  BY <1>2, <1>3, PagingAssumption, FS_EmptySet DEF Size
<1> HIDE DEF p
<1>5. GoesOn(p) /\ p # None
  BY <1>2, <1>3, <1>4, NoneAssumption DEF GoesOn
<1>6. page' = p
  BY <1>1 DEF p
<1>7. PageGoesOn'
  BY <1>1, <1>3, <1>5, <1>6 DEF PageGoesOn, GoesOn, ListLimit, Size
<1>8. \A k \in Keys : Later(Join(k), token) \/ Known(k)
  BY <1>1 DEF ListingInv, PassedIsKnown
<1>9. PassedIsKnown'
  BY <1>1, <1>3, <1>5, <1>6, <1>8 DEF PassedIsKnown, Later, Named, Known, Covered
<1> QED BY <1>1, <1>2, <1>7, <1>9 DEF ListingInv, CompleteListing, AbsentIsKnown

\* The requests of a page.
LEMMA ListingListed ==
  ASSUME Inv, ListingInv, ~SkipsFolders, ListMem \/ ListStore
  PROVE  ListingInv'
<1>1. stage = "list" /\ page # None /\ UNCHANGED <<mode, bucket, absent>>
  BY DEF ListMem, ListStore, storeVars
<1>2. ReadTypes /\ mode \in Modes /\ GoesOn(page)
  BY <1>1 DEF Inv, ReadTypes, ListingInv, PageGoesOn
<1>3. CASE ListMem
  <2>1. Passes(MemPage(page, Standing, mode.delimited))
    BY <1>2, <1>3, MemPasses DEF ListMem
  <2> QED BY <1>1, <1>2, <1>3, <2>1, TakePageListed DEF ListMem
<1>4. CASE ListStore
  <2>1. PICK a \in StoreAnswers :
          IF gone THEN Fails("BucketNotFound") /\ UNCHANGED listVars
          ELSE IF Incomplete(a) THEN Fails("ListingIncomplete") /\ UNCHANGED listVars
          ELSE TakePage(PageOf(a))
    BY <1>4 DEF ListStore
  <2>2. CASE gone \/ Incomplete(a)
    <3>1. stage' = "failed" /\ UNCHANGED listVars
      BY <2>1, <2>2 DEF Fails
    <3>2. AbsentIsKnown'
      BY <1>1 DEF ListingInv, AbsentIsKnown
    <3> QED BY <1>1, <3>1, <3>2, ListingKept
  <2>3. CASE ~gone /\ ~Incomplete(a)
    <3>1. Passes(PageOf(a))
      BY <1>2, <1>4, <2>3, PageOfPasses DEF ListStore
    <3>2. TakePage(PageOf(a))
      BY <2>1, <2>3
    <3> QED BY <1>1, <1>2, <3>1, <3>2, TakePageListed
  <2> QED BY <2>2, <2>3
<1> QED BY <1>3, <1>4

\* A call is read to its end, or fails.
LEMMA ReadingStage ==
  ASSUME Inv,
         \/ Expire \/ StoreFails \/ CallBegin \/ Finished \/ TooMany \/ ItemBegin
         \/ ItemOpen \/ ItemPinned \/ ItemConfirm \/ ItemFetch \/ ItemLearn \/ Relay \/ ItemEnd
  PROVE  /\ UNCHANGED <<mode, storeVars, listVars>>
         /\ stage' = stage \/ stage' = "failed" \/ (stage = "read" /\ stage' = "done")
<1> USE DEF Fails, Ends, Told, Header, Opened, NotFound
<1>1. CASE Expire \/ StoreFails \/ CallBegin \/ Finished \/ TooMany \/ ItemBegin
  BY <1>1 DEF Expire, StoreFails, CallBegin, Finished, TooMany, ItemBegin
<1>2. CASE ItemOpen
  BY <1>2 DEF ItemOpen
<1>3. CASE ItemPinned
  BY <1>3 DEF ItemPinned
<1>4. CASE ItemConfirm
  BY <1>4 DEF ItemConfirm
<1>5. CASE ItemLearn
  BY <1>5 DEF ItemLearn
<1>6. CASE Relay
  BY <1>6 DEF Relay
<1>7. CASE ItemEnd
  BY <1>7 DEF ItemEnd
<1>8. CASE ItemFetch
  BY <1>8 DEF ItemFetch
<1> QED BY <1>1, <1>2, <1>3, <1>4, <1>5, <1>6, <1>7, <1>8

LEMMA ModeStays == ASSUME [Next]_vars PROVE mode' = mode
BY DEF Next, vars, Others, Write, DeleteObject, RemoveBucket, Expire, StoreFails, ListBegin, ListMem,
       ListStore, CallBegin, Finished, TooMany, ItemBegin, ItemOpen, ItemPinned, ItemConfirm,
       ItemFetch, ItemLearn, Relay, ItemEnd

LEMMA ListedNext ==
  ASSUME Inv, SkipsFolders \/ ListingInv, [Next]_vars
  PROVE  (SkipsFolders \/ ListingInv)'
<1>1. mode' = mode
  BY ModeStays
<1> SUFFICES ASSUME ListingInv, ~SkipsFolders PROVE ListingInv'
  BY <1>1 DEF SkipsFolders
<1>2. ASSUME UNCHANGED <<mode, storeVars, listVars>>,
             stage' = stage \/ stage' = "failed" \/ (stage = "read" /\ stage' = "done")
      PROVE  ListingInv'
  <2>1. AbsentIsKnown' /\ absent' = absent
    BY <1>2 DEF storeVars, ListingInv, AbsentIsKnown
  <2> QED BY <1>2, <2>1, ListingKept
<1>3. CASE UNCHANGED vars
  BY <1>2, <1>3 DEF vars
<1>4. CASE Next
  BY <1>2, <1>4, ReadingStage, OthersListed, ListBeginListed, ListingListed DEF Next
<1> QED BY <1>3, <1>4

\* At first every name is still to come.
LEMMA InitListed == Init => ListingInv
<1> SUFFICES ASSUME Init PROVE ListingInv
  OBVIOUS
<1>1. stage = "list" /\ page = None /\ token = 0 /\ mode \in Modes
  BY DEF Init
<1>2. AbsentIsKnown
  BY InitAbsence DEF Absence, AbsentIsKnown, Init
<1>3. ASSUME NEW k \in Keys PROVE Later(Join(k), token)
  <2>1. Join(k) \in Names /\ Join(k) \in Nat \ {0} /\ mode.delimited \in BOOLEAN
    BY <1>1, KeysAssumption, NamesAssumption DEF Modes
  <2>2. Named(Join(k)) \in Nat \ {0}
    BY <2>1, EntryIsOne DEF Named
  <2> QED BY <1>1, <2>1, <2>2 DEF Later
<1> QED BY <1>1, <1>2, <1>3 DEF ListingInv, PageGoesOn, PassedIsKnown, CompleteListing

\* Whatever pages, tokens and lies a listing is made of, and whatever others do
\* to the bucket meanwhile, a key that it does not have was absent at some
\* moment; only MinIO's may skip folders, and only as SkipsFolders says.
THEOREM ReadsListsAll == Spec => [](CompleteListing \/ SkipsFolders)
<1>1. Inv /\ (SkipsFolders \/ ListingInv) /\ [Next]_vars => (SkipsFolders \/ ListingInv)'
  BY ListedNext
<1>2. (SkipsFolders \/ ListingInv) => CompleteListing \/ SkipsFolders
  BY DEF ListingInv
<1>3. Init => SkipsFolders \/ ListingInv
  BY InitListed
<1> QED BY <1>1, <1>2, <1>3, ReadsInv, PTL DEF Spec

\* So the listing is complete where no limit on MinIO is above a page and its
\* answers are no longer than asked for.
THEOREM ReadsCompleteListing ==
  ASSUME "minio" \in Kinds => "long" \notin Lies /\ \A l \in Limits : l <= PageMax
  PROVE  Spec => []CompleteListing
<1> DEFINE Chosen == mode \in Modes /\ (mode.bound \/ mode.limit \in Limits)
<1>1. Init => Chosen
  BY DEF Init
<1>2. Chosen /\ [Next]_vars => Chosen'
  <2> SUFFICES ASSUME Chosen, [Next]_vars PROVE Chosen'
    OBVIOUS
  <2>1. mode' = mode
    BY ModeStays
  <2> QED BY <2>1 DEF Modes
<1>3. Chosen => ~SkipsFolders
  <2> SUFFICES ASSUME Chosen, SkipsFolders PROVE FALSE
    OBVIOUS
  <2>1. mode.kind = "minio" /\ mode.kind \in Kinds /\ mode.bound \in BOOLEAN
    BY DEF SkipsFolders, Modes
  <2>2. "long" \notin Lies /\ \A l \in Limits : l <= PageMax
    BY <2>1
  <2>3. CASE mode.bound
    BY <2>2, <2>3 DEF SkipsFolders
  <2>4. CASE ~mode.bound
    <3>1. mode.limit \in Limits /\ mode.limit \in Nat /\ PageMax \in Nat /\ mode.limit > PageMax
      BY <2>4, ReadBounds, PagingAssumption DEF SkipsFolders
    <3> QED BY <2>2, <3>1
  <2> QED BY <2>3, <2>4
<1> HIDE DEF Chosen
<1> QED BY <1>1, <1>2, <1>3, ReadsListsAll, PTL DEF Spec
=============================================================================
