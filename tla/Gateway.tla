------------------------------ MODULE Gateway ------------------------------
(***************************************************************************)
(* The write path of one gateway replica and its Watch streams,            *)
(* internal/server/server.go over internal/events/events.go.               *)
(*                                                                         *)
(* Put, Copy, Delete and DeleteMany call the backend first and publish to  *)
(* the hub afterwards: the two are separate steps, and calls run           *)
(* concurrently.  A Watch handler subscribes, sends its header, then       *)
(* forwards events.  The client of a Watch keeps an index of the keys it   *)
(* watches the way the WriteEvent contract asks: it reads every key once   *)
(* the header arrives and a key again when an event names it.              *)
(*                                                                         *)
(* A call is named by its id, and so is the content it writes.             *)
(***************************************************************************)
EXTENDS Hub

CONSTANTS Calls,     \* write RPCs, each served once
          Requests,  \* what a call may ask: [op, src, keys]
          Outside,   \* contents written past this replica
          Absent,    \* no object under the key
          Lossy      \* whether the store may apply a write and answer an error

Content == Calls \cup Outside

RequestTypes == [op : {"put", "copy", "delete", "deletemany"}, src : Keys, keys : Seq(Keys)]

ASSUME GatewayAssumption ==
  /\ Requests \subseteq RequestTypes
  /\ \A r \in Requests : r.keys # <<>>
  /\ \A r \in Requests : r.op # "deletemany" => Len(r.keys) = 1
  /\ Absent \notin Content
  /\ Lossy \in BOOLEAN
  /\ Event = [call : Calls, key : Keys, op : {"put", "delete"}, ver : Content \cup {Absent}]

VARIABLES objects,   \* the bucket: the content under each key
          call,      \* each write RPC: phase, request, keys left, events to publish
          watch,     \* each Watch handler's phase
          seen,      \* the client's index: the content it last read under each key
          stale,     \* the keys the client has to read again
          outside,   \* contents not yet written past this replica
          unhinted,  \* history: keys changed with no event to come, per client
          commits,   \* history: every write this replica's calls made, as its event
          lost,      \* history: the places in commits whose call got an error
          before     \* history: the calls already answered when a call began

callVars == <<objects, call, outside, commits, lost, before>>
clientVars == <<seen, stale>>
vars == <<hubVars, callVars, watch, clientVars, unhinted>>

NoRequest == [op |-> "none", src |-> Absent, keys |-> <<>>]

Init ==
  /\ HubInit
  /\ objects = [k \in Keys |-> Absent]
  /\ call = [c \in Calls |-> [phase |-> "idle", req |-> NoRequest, todo |-> <<>>, hints |-> <<>>]]
  /\ watch = [w \in Watchers |-> "idle"]
  /\ seen = [w \in Watchers |-> [k \in Keys |-> Absent]]
  /\ stale = [w \in Watchers |-> {}]
  /\ outside = Outside
  /\ unhinted = [w \in Watchers |-> {}]
  /\ commits = <<>>
  /\ lost = {}
  /\ before = [c \in Calls |-> {}]

-----------------------------------------------------------------------------
(* The write RPCs *)

Answered(c) == call[c].phase \in {"done", "failed"}

Begin(c, r) ==
  /\ call[c].phase = "idle"
  /\ call' = [call EXCEPT ![c] = [phase |-> "store", req |-> r, todo |-> r.keys, hints |-> <<>>]]
  /\ before' = [before EXCEPT ![c] = {b \in Calls : Answered(b)}]
  /\ UNCHANGED <<hubVars, objects, outside, commits, lost, watch, clientVars, unhinted>>

Target(c) == Head(call[c].todo)

\* What the call leaves under its next key.
Effect(c) ==
  CASE call[c].req.op = "put"  -> c
    [] call[c].req.op = "copy" -> objects[call[c].req.src]
    [] OTHER                   -> Absent

EventOf(c) == [call |-> c, key |-> Target(c), ver |-> Effect(c),
               op |-> IF call[c].req.op \in {"put", "copy"} THEN "put" ELSE "delete"]

\* A copy whose source is gone cannot succeed; a delete of an absent key can.
CanCommit(c) ==
  /\ call[c].phase = "store"
  /\ call[c].req.op = "copy" => objects[call[c].req.src] # Absent

\* Mutant: Delete publishes nothing.
KeyDoneWithoutDeletes(c, hints) ==
  LET todo == Tail(call[c].todo)
      kept == IF call[c].req.op = "delete" THEN <<>> ELSE hints
  IN  call' = [call EXCEPT ![c].todo = todo,
                           ![c].hints = kept,
                           ![c].phase = IF todo # <<>> THEN "store" ELSE "publish"]

\* The backend is done with one key.  A unary call that got an error answers it
\* and publishes nothing; DeleteMany reports errors per entry and goes on to
\* publish the entries without one.
KeyDone(c, hints) ==
  LET todo == Tail(call[c].todo)
  IN  call' = [call EXCEPT ![c].todo = todo,
                           ![c].hints = hints,
                           ![c].phase = IF todo # <<>> THEN "store"
                                        ELSE IF hints = <<>> /\ call[c].req.op # "deletemany"
                                             THEN "failed"
                                             ELSE "publish"]

Apply(c) ==
  /\ objects' = [objects EXCEPT ![Target(c)] = Effect(c)]
  /\ commits' = Append(commits, EventOf(c))

\* The store applies the write and the backend returns success.
StoreCommit(c) ==
  /\ CanCommit(c)
  /\ Apply(c)
  /\ KeyDone(c, Append(call[c].hints, EventOf(c)))
  /\ UNCHANGED <<hubVars, outside, lost, before, watch, clientVars, unhinted>>

\* Mutant: an entry that failed takes the hints of the others with it.
StoreRefuseAll(c) ==
  /\ call[c].phase = "store"
  /\ KeyDone(c, <<>>)
  /\ UNCHANGED <<hubVars, objects, outside, commits, lost, before, watch,
                 clientVars, unhinted>>

\* Mutant: an entry is announced whether or not it has an error.
StoreRefuseAnnounced(c) ==
  /\ call[c].phase = "store"
  /\ KeyDone(c, Append(call[c].hints, EventOf(c)))
  /\ UNCHANGED <<hubVars, objects, outside, commits, lost, before, watch,
                 clientVars, unhinted>>

\* The backend returns an error and the store is as it was.
StoreRefuse(c) ==
  /\ call[c].phase = "store"
  /\ KeyDone(c, call[c].hints)
  /\ UNCHANGED <<hubVars, objects, outside, commits, lost, before, watch,
                 clientVars, unhinted>>

Unhint(k) == unhinted' = [w \in Watchers |-> unhinted[w] \cup {k}]

\* The store applies the write but the answer is lost (a timeout, a broken
\* connection, a cancelled call): the backend returns an error all the same.
StoreLose(c) ==
  /\ Lossy
  /\ CanCommit(c)
  /\ Apply(c)
  /\ KeyDone(c, call[c].hints)
  /\ lost' = lost \cup {Len(commits) + 1}
  /\ Unhint(Target(c))
  /\ UNCHANGED <<hubVars, outside, before, watch, clientVars>>

\* s.hub.Publish, once per written key, in the order of the entries.
Publish(c) ==
  /\ call[c].phase # "store"
  /\ call[c].hints # <<>>
  /\ Dispatch(Head(call[c].hints))
  /\ call' = [call EXCEPT ![c].hints = Tail(@)]
  /\ UNCHANGED <<objects, outside, commits, lost, before, watch, clientVars, unhinted>>

\* Mutant: the answer does not wait for the events.
ReplyEarly(c) ==
  /\ call[c].phase = "publish"
  /\ call' = [call EXCEPT ![c].phase = "done"]
  /\ UNCHANGED <<hubVars, objects, outside, commits, lost, before, watch,
                 clientVars, unhinted>>

Reply(c) ==
  /\ call[c].phase = "publish"
  /\ call[c].hints = <<>>
  /\ call' = [call EXCEPT ![c].phase = "done"]
  /\ UNCHANGED <<hubVars, objects, outside, commits, lost, before, watch,
                 clientVars, unhinted>>

\* Another replica, a presigned URL or a client of the bucket itself writes.
WriteOutside(k, o) ==
  /\ o \in outside
  /\ objects' = [objects EXCEPT ![k] = o]
  /\ outside' = outside \ {o}
  /\ Unhint(k)
  /\ UNCHANGED <<hubVars, call, commits, lost, before, watch, clientVars>>

-----------------------------------------------------------------------------
(* The Watch handler and its client *)

WatchSubscribe(w, sc) ==
  /\ watch[w] = "idle"
  /\ Subscribe(w, sc)
  /\ watch' = [watch EXCEPT ![w] = "subscribed"]
  /\ UNCHANGED <<callVars, clientVars, unhinted>>

\* stream.SendHeader: the client reads every key of its prefix from here on.
WatchHeader(w) ==
  /\ watch[w] = "subscribed"
  /\ watch' = [watch EXCEPT ![w] = "live"]
  /\ stale' = [stale EXCEPT ![w] = scope[w]]
  /\ UNCHANGED <<hubVars, callVars, seen, unhinted>>

\* The select's event branch.
WatchSend(w) ==
  /\ watch[w] = "live"
  /\ Receive(w)
  /\ stale' = [stale EXCEPT ![w] = @ \cup {log[stream[w][taken[w] + 1]].key}]
  /\ UNCHANGED <<callVars, watch, seen, unhinted>>

\* Mutant: the !ok receive is taken for an event and the loop goes on.
WatchBehindIgnored(w) == watch[w] = "live" /\ Drained(w) /\ UNCHANGED vars

\* The channel is closed and drained: RESOURCE_EXHAUSTED, WATCH_CONSUMER_BEHIND.
WatchBehind(w) ==
  /\ watch[w] = "live"
  /\ Drained(w)
  /\ watch' = [watch EXCEPT ![w] = "behind"]
  /\ CloseSubscription(w)
  /\ UNCHANGED <<callVars, clientVars, unhinted>>

\* The header or a Send fails, or the stream's context is done.
WatchGone(w) ==
  /\ watch[w] \in {"subscribed", "live"}
  /\ watch' = [watch EXCEPT ![w] = "gone"]
  /\ CloseSubscription(w)
  /\ UNCHANGED <<callVars, clientVars, unhinted>>

\* The client reads one key it has to read again.
Refresh(w, k) ==
  /\ watch[w] = "live"
  /\ k \in stale[w]
  /\ seen' = [seen EXCEPT ![w][k] = objects[k]]
  /\ stale' = [stale EXCEPT ![w] = @ \ {k}]
  /\ unhinted' = [unhinted EXCEPT ![w] = @ \ {k}]
  /\ UNCHANGED <<hubVars, callVars, watch>>

\* run's deferred hub.Close, which handlers that outlive Stop may see happen.
Shutdown ==
  /\ CloseHub
  /\ UNCHANGED <<callVars, watch, clientVars, unhinted>>

CallStep(c) ==
  \/ \E r \in Requests : Begin(c, r)
  \/ StoreCommit(c)
  \/ StoreRefuse(c)
  \/ StoreLose(c)
  \/ Publish(c)
  \/ Reply(c)

WatchStep(w) ==
  \/ \E sc \in Scopes : WatchSubscribe(w, sc)
  \/ WatchHeader(w)
  \/ WatchSend(w)
  \/ WatchBehind(w)
  \/ WatchGone(w)
  \/ \E k \in Keys : Refresh(w, k)

Next ==
  \/ \E c \in Calls : CallStep(c)
  \/ \E w \in Watchers : WatchStep(w)
  \/ \E k \in Keys, o \in Outside : WriteOutside(k, o)
  \/ Shutdown

Spec == Init /\ [][Next]_vars

\* A handler that was called runs on, a backend call returns in the end, and a
\* client that keeps its stream reads it.
Fairness ==
  /\ \A c \in Calls : WF_vars(StoreCommit(c) \/ StoreRefuse(c) \/ Publish(c) \/ Reply(c))
  /\ \A w \in Watchers : /\ WF_vars(WatchHeader(w))
                         /\ WF_vars(WatchSend(w))
                         /\ WF_vars(WatchBehind(w))
                         /\ \A k \in Keys : WF_vars(Refresh(w, k))

FairSpec == Spec /\ Fairness

-----------------------------------------------------------------------------
(* Properties *)

\* The state's types.
TypeOK ==
  /\ HubTypeOK
  /\ objects \in [Keys -> Content \cup {Absent}]
  /\ call \in [Calls -> [phase : {"idle", "store", "publish", "done", "failed"},
                         req : RequestTypes \cup {NoRequest},
                         todo : Seq(Keys),
                         hints : Seq(Event)]]
  /\ watch \in [Watchers -> {"idle", "subscribed", "live", "behind", "gone"}]
  /\ seen \in [Watchers -> [Keys -> Content \cup {Absent}]]
  /\ stale \in [Watchers -> SUBSET Keys]
  /\ outside \subseteq Outside
  /\ unhinted \in [Watchers -> SUBSET Keys]
  /\ commits \in Seq(Event)
  /\ lost \subseteq 1..Len(commits)
  /\ before \in [Calls -> SUBSET Calls]

\* The client of a stream that was not cut off.
InTouch(w) == watch[w] = "live" /\ chan[w] = "open"

\* An event about k that has not reached w's client yet: in its channel, or
\* still to be published by a call whose write the store has made.
HintPending(w, k) ==
  \/ \E i \in (taken[w] + 1)..Len(stream[w]) : log[stream[w][i]].key = k
  \/ \E c \in Calls : \E i \in 1..Len(call[c].hints) : call[c].hints[i].key = k

\* The contract of the change hints: wherever the index of a client that is in
\* touch differs from the bucket, the client knows it has to read the key, or an
\* event that says so is on its way, or the write was one this replica never
\* announces.  It holds although events are published after the write, outside
\* any lock shared with it, and so in another order than the writes.
EveryChangeIsHinted ==
  \A w \in Watchers : InTouch(w) =>
    \A k \in scope[w] :
      \/ seen[w][k] = objects[k]
      \/ k \in stale[w]
      \/ k \in unhinted[w]
      \/ HintPending(w, k)

\* Events of calls that do not overlap come in the order of the calls: no event
\* follows that of a call which began after the event's own call was answered.
OrderOfCalls ==
  \A i, j \in 1..Len(log) : i < j => log[j].call \notin before[log[i].call]

\* A write the store has made and whose caller is told so.
Announced(e) == \E i \in 1..Len(commits) : i \notin lost /\ commits[i] = e

\* An event is published only for a write the store has made and the caller is
\* told of: nothing for a call or an entry that failed.
NoPhantomEvent == \A n \in 1..Len(log) : Announced(log[n])

\* A client that was cut off is told so, or has left, in the end.
CutOffIsTold ==
  \A w \in Watchers : (watch[w] = "live" /\ chan[w] = "closed") ~> watch[w] \in {"behind", "gone"}

\* Once the calls are over, the index of a client that is in touch settles on the
\* content of the bucket, writes never announced aside.
IndexSettles ==
  <>[](\A w \in Watchers : InTouch(w) =>
         \A k \in scope[w] : seen[w][k] = objects[k] \/ k \in unhinted[w])
=============================================================================
