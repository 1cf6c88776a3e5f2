-------------------------------- MODULE Hub --------------------------------
(***************************************************************************)
(* The write-event hub of one gateway replica, internal/events/events.go.  *)
(*                                                                         *)
(* A subscription is a buffered Go channel registered under the hub's      *)
(* mutex.  Every method takes the mutex for its whole body, so each is one *)
(* action here.  Receiving from a channel takes no mutex: it is an action  *)
(* of its own.  dispatch sends to each channel separately, but a receive   *)
(* touches one channel only and commutes with the sends to the others, so  *)
(* one step for the loop loses no behaviour.                               *)
(*                                                                         *)
(* A channel is modelled by everything ever sent into it and by how much   *)
(* of that was received.  An event is named by its place in log, the       *)
(* sequence of all events dispatched by the hub.                           *)
(***************************************************************************)
EXTENDS Integers, Sequences

CONSTANTS Watchers,   \* one subscription each: the ids h.nextID hands out
          Keys,       \* object keys
          Scopes,     \* the prefixes, each as the set of keys that have it
          Event,      \* what is published: records with a field "key"
          subBuffer   \* capacity of a subscription's channel

ASSUME HubAssumption ==
  /\ Scopes \subseteq SUBSET Keys
  /\ \A e \in Event : e.key \in Keys
  /\ subBuffer \in Nat \ {0}

VARIABLES subs,      \* h.subs: the registered subscriptions
          chan,      \* the Go state of each subscription's channel
          scope,     \* s.prefix
          stream,    \* everything sent into the channel, as places in log
          taken,     \* how many of those were received from the channel
          closed,    \* h.closed
          panicked,  \* a closed channel was closed again or sent on
          log,       \* history: every event dispatched, in order
          since      \* history: Len(log) when the subscription was made

hubVars == <<subs, chan, scope, stream, taken, closed, panicked, log, since>>

Backlog(w) == Len(stream[w]) - taken[w]

\* strings.HasPrefix(e.Key, s.prefix)
Matches(e, w) == e.key \in scope[w]

HubInit ==
  /\ subs = {}
  /\ chan = [w \in Watchers |-> "none"]
  /\ scope = [w \in Watchers |-> {}]
  /\ stream = [w \in Watchers |-> <<>>]
  /\ taken = [w \in Watchers |-> 0]
  /\ closed = FALSE
  /\ panicked = FALSE
  /\ log = <<>>
  /\ since = [w \in Watchers |-> 0]

\* close(ch) of every channel in S: closing a closed one panics.
CloseChannels(S) ==
  /\ chan' = [w \in Watchers |-> IF w \in S THEN "closed" ELSE chan[w]]
  /\ panicked' = (panicked \/ \E w \in S : chan[w] # "open")

\* Subscribe does not look at h.closed.
Subscribe(w, sc) ==
  /\ chan[w] = "none"
  /\ subs' = subs \cup {w}
  /\ chan' = [chan EXCEPT ![w] = "open"]
  /\ scope' = [scope EXCEPT ![w] = sc]
  /\ since' = [since EXCEPT ![w] = Len(log)]
  /\ UNCHANGED <<stream, taken, closed, panicked, log>>

\* Mutant: the default branch skips the event and keeps the subscriber.
FullIsKept(e) == {}

\* The subscribers whose buffer is full when e reaches them: the default branch
\* of dispatch's select.
Full(e) == {w \in subs : Matches(e, w) /\ Backlog(w) >= subBuffer}

Reached(e) == {w \in subs : Matches(e, w) /\ Backlog(w) < subBuffer}

Dispatch(e) ==
  /\ log' = Append(log, e)
  /\ stream' = [w \in Watchers |-> IF w \in Reached(e)
                                   THEN Append(stream[w], Len(log) + 1)
                                   ELSE stream[w]]
  /\ subs' = subs \ Full(e)
  /\ chan' = [w \in Watchers |-> IF w \in Full(e) THEN "closed" ELSE chan[w]]
  /\ panicked' = (panicked \/ \E w \in Full(e) \cup Reached(e) : chan[w] # "open")
  /\ UNCHANGED <<scope, taken, closed, since>>

\* Mutant: the channel is closed without a look at h.subs.
UnsubscribedAnyway(w) == {w}

\* Subscription.Close: only a subscription still registered closes its channel.
Unsubscribed(w) == subs \cap {w}

CloseSubscription(w) ==
  /\ chan[w] # "none"
  /\ subs' = subs \ {w}
  /\ CloseChannels(Unsubscribed(w))
  /\ UNCHANGED <<scope, stream, taken, closed, log, since>>

\* Hub.Close returns early the second time.
CloseHub ==
  /\ ~closed
  /\ closed' = TRUE
  /\ subs' = {}
  /\ CloseChannels(subs)
  /\ UNCHANGED <<scope, stream, taken, log, since>>

\* <-sub.Events(): a closed channel still yields what its buffer holds.
Receive(w) ==
  /\ Backlog(w) > 0
  /\ taken' = [taken EXCEPT ![w] = @ + 1]
  /\ UNCHANGED <<subs, chan, scope, stream, closed, panicked, log, since>>

\* The !ok receive: closed and drained.
Drained(w) == chan[w] = "closed" /\ Backlog(w) = 0

HubNext ==
  \/ \E w \in Watchers :
       \/ \E sc \in Scopes : Subscribe(w, sc)
       \/ CloseSubscription(w)
       \/ Receive(w)
  \/ \E e \in Event : Dispatch(e)
  \/ CloseHub

HubSpec == HubInit /\ [][HubNext]_hubVars

-----------------------------------------------------------------------------
(* Properties *)

\* The state's types, with the buffer bound that make(chan Event, subBuffer)
\* gives the channel.
HubTypeOK ==
  /\ subs \subseteq Watchers
  /\ chan \in [Watchers -> {"none", "open", "closed"}]
  /\ scope \in [Watchers -> SUBSET Keys]
  /\ stream \in [Watchers -> Seq(Nat \ {0})]
  /\ taken \in [Watchers -> Nat]
  /\ closed \in BOOLEAN
  /\ panicked \in BOOLEAN
  /\ log \in Seq(Event)
  /\ since \in [Watchers -> Nat]
  /\ \A w \in Watchers : Backlog(w) \in 0..subBuffer

\* No order of dispatch's drop, Subscription.Close and Hub.Close closes a
\* channel twice or sends on a closed one, either of which would panic the whole
\* process: the registered subscriptions are exactly those whose channel is open.
ChannelDiscipline ==
  /\ ~panicked
  /\ \A w \in Watchers : w \in subs <=> chan[w] = "open"

\* What a subscriber is sent is in dispatch order, matches its prefix and was
\* dispatched after it subscribed: nothing is replayed, repeated or reordered.
InOrder(w) ==
  /\ \A i \in 1..Len(stream[w]) :
       /\ stream[w][i] \in (since[w] + 1)..Len(log)
       /\ Matches(log[stream[w][i]], w)
  /\ \A i, j \in 1..Len(stream[w]) : i < j => stream[w][i] < stream[w][j]

\* A place in log that w must have been sent: it matches, w had subscribed, and
\* w was still registered then, which a later event in its channel shows once
\* the channel is closed.
Due(w, n) ==
  /\ n > since[w]
  /\ Matches(log[n], w)
  /\ \/ chan[w] = "open"
     \/ \E i \in 1..Len(stream[w]) : stream[w][i] >= n

NoGap(w) == \A n \in 1..Len(log) :
              Due(w, n) => \E i \in 1..Len(stream[w]) : stream[w][i] = n

\* A subscriber sees a contiguous run of the matching events, in order, from the
\* moment it subscribed: when it falls behind it is cut off, never thinned out.
ContiguousUntilDropped ==
  \A w \in Watchers : chan[w] # "none" => InOrder(w) /\ NoGap(w)

\* dispatch drops only a subscriber the event was for and whose buffer is full.
SlowAreDropped ==
  \A w \in subs \ subs' :
    log' # log => Backlog(w) = subBuffer /\ Matches(log'[Len(log')], w)

DropsOnlyTheSlow == [][SlowAreDropped]_hubVars
=============================================================================
