------------------------------ MODULE Listing ------------------------------
(***************************************************************************)
(* One page of a listing as the five backends of src/internal/backend make *)
(* it.  Names are numbers, in the order of the strings they stand for.  A  *)
(* folder (a common prefix) is a name of its own: smaller than the names   *)
(* it folds together, greater than those before them.  0 is no name.       *)
(*                                                                         *)
(* The memory backend pages over a map.  The others send requests to a     *)
(* store, one for each Answer.                                             *)
(***************************************************************************)
EXTENDS Integers, FiniteSets, FiniteSetsExt

CONSTANTS
  Names,     \* the names of the bucket
  FolderOf,  \* FolderOf[n]: the folder n is folded into, or 0
  Base,      \* where the names under the configured prefix begin
  Width,     \* how many there may be
  PageMax,   \* the most entries of one answer, whatever is asked for
  None

ASSUME NamesAssumption ==
  /\ Names \subseteq Nat \ {0}
  /\ IsFiniteSet(Names)
  /\ FolderOf \in [Names -> Nat \ Names]
  /\ \A n \in Names : FolderOf[n] < n
ASSUME PagingAssumption ==
  /\ Base \in Nat /\ Width \in Nat
  /\ PageMax \in Nat \ {0}

\* The first n of S.
First(S, n) == {x \in S : Cardinality({y \in S : y < x}) < n}

-----------------------------------------------------------------------------
(* The prefix wrapper: a key of the caller is a name under Base *)

Join(k) == Base + k

Strip(n) == n - Base

Under(n) == n > Base /\ n < Base + Width

-----------------------------------------------------------------------------
(* Entries: what a listing reports of the names that are present *)

Entry(n, delimited) == IF delimited /\ FolderOf[n] # 0 THEN FolderOf[n] ELSE n

Entries(present, delimited) == {Entry(n, delimited) : n \in present}

Folders(entries) == entries \ Names

\* A store's answer to one request for at most n entries (0: as many as it
\* likes) after a name.  A folder counts as one entry; a store that goes on
\* after a folder goes on after all that is in it.
Answer(present, delimited, after, n) ==
  LET rest == {e \in Entries(present, delimited) : e > after}
      entries == First(rest, IF n = 0 \/ n > PageMax THEN PageMax ELSE n)
  IN [entries |-> entries, more |-> entries # rest]

\* An answer with more entries than asked for.
LongAnswer(present, delimited, after) ==
  [entries |-> {e \in Entries(present, delimited) : e > after}, more |-> FALSE]

-----------------------------------------------------------------------------
(* A List call of a backend.  page: the entries so far, the name to go on   *)
(* after, the limit; token: what the caller is handed to go on, 0 for the   *)
(* end of the listing; open: another request follows.                       *)

Pages == [entries : SUBSET Nat, from : Nat, limit : Nat, open : BOOLEAN, token : Nat]

NewPage(after, limit) ==
  [entries |-> {}, from |-> after, limit |-> limit, open |-> TRUE, token |-> 0]

Closed(page, entries, token) ==
  [page EXCEPT !.entries = @ \cup entries, !.open = FALSE, !.token = token]

Continued(page, entries, after) ==
  [page EXCEPT !.entries = @ \cup entries, !.from = after]

\* The loop over the sorted keys stops at the limit.  Its token is the last key
\* it visited, in a folder or not.
MemPage(page, present, delimited) ==
  LET rest == {n \in present : n > page.from}
      limit == IF page.limit = 0 THEN PageMax ELSE page.limit
      visited == {n \in rest : Cardinality(Entries({m \in rest : m < n}, delimited)) < limit}
  IN Closed(page, Entries(visited, delimited),
            IF visited # rest THEN Max(visited) ELSE 0)

\* S3 and Azure: one request, and the store's own token.
StorePage(page, answer) ==
  Closed(page, answer.entries, IF answer.more THEN Max(answer.entries) ELSE 0)

Size(page) == IF page.limit = 0 THEN PageMax ELSE page.limit

\* Google Cloud Storage: the pager asks for what is missing until the page is full.
GcsPage(page, answer) ==
  CASE ~answer.more -> Closed(page, answer.entries, 0)
    [] answer.more /\ Cardinality(page.entries \cup answer.entries) >= Size(page) ->
         Closed(page, answer.entries, Max(answer.entries))
    [] OTHER -> Continued(page, answer.entries, Max(answer.entries))

GcsAsks(page) == Size(page) - Cardinality(page.entries)

\* MinIO: the client library hands on the objects of an answer and then its
\* folders.  The backend stops at the limit, and its token is the last entry it
\* was handed.
Handed(page, answer) ==
  LET objects == answer.entries \cap Names
      folders == Folders(answer.entries)
      room == page.limit - Cardinality(page.entries)
  IN IF page.limit = 0 THEN answer.entries
     ELSE First(objects, room) \cup First(folders, room - Cardinality(First(objects, room)))

LastHanded(handed) == Max(IF Folders(handed) # {} THEN Folders(handed) ELSE handed)

MinioPage(page, answer) ==
  LET handed == Handed(page, answer)
      full == page.limit > 0 /\ Cardinality(page.entries \cup handed) >= page.limit
  IN CASE full -> Closed(page, handed, LastHanded(handed))
       [] ~full /\ answer.more -> Continued(page, handed, Max(answer.entries))
       [] OTHER -> Closed(page, handed, 0)
=============================================================================
