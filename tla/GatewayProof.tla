---------------------------- MODULE GatewayProof ----------------------------
(* Proofs about Hub and Gateway, for every set of calls, watchers, keys and  *)
(* prefixes and every buffer size: first the hub's own invariants, then that *)
(* the gateway implements the hub, the contract of its change hints, and     *)
(* what its events say of its writes and of the order of its calls.          *)
EXTENDS Gateway, TLAPS

-----------------------------------------------------------------------------
(* The hub *)

\* A subscription that was not made yet has been sent nothing; one that was
\* made remembers a place in log.
Fresh ==
  \A w \in Watchers :
    /\ chan[w] = "none" => stream[w] = <<>> /\ taken[w] = 0
    /\ since[w] <= Len(log)

HubInv == HubTypeOK /\ ChannelDiscipline /\ Fresh /\ ContiguousUntilDropped

LEMMA HubInitInv == HubInit => HubInv
<1> SUFFICES ASSUME HubInit PROVE HubInv
  OBVIOUS
<1> USE DEF HubInit
<1>1. HubTypeOK
  <2>1. \A w \in Watchers : Backlog(w) \in 0..subBuffer
    <3>1. ASSUME NEW w \in Watchers PROVE Backlog(w) = 0
      <4>1. stream[w] = <<>> /\ taken[w] = 0
        OBVIOUS
      <4>2. Len(stream[w]) = 0
        BY <4>1
      <4> HIDE DEF HubInit
      <4> QED BY <4>1, <4>2 DEF Backlog
    <3>2. 0 \in 0..subBuffer
      BY HubAssumption
    <3> HIDE DEF HubInit
    <3> QED BY <3>1, <3>2
  <2>2. <<>> \in Seq(Nat \ {0}) /\ <<>> \in Seq(Event)
    OBVIOUS
  <2>3. stream \in [Watchers -> Seq(Nat \ {0})]
    BY <2>2
  <2> QED BY <2>1, <2>2, <2>3 DEF HubTypeOK
<1>2. ChannelDiscipline
  BY DEF ChannelDiscipline
<1>3. Fresh
  <2>1. Len(log) = 0
    OBVIOUS
  <2>2. ASSUME NEW w \in Watchers
        PROVE  stream[w] = <<>> /\ taken[w] = 0 /\ since[w] <= Len(log)
    BY <2>1
  <2> HIDE DEF HubInit
  <2> QED BY <2>2 DEF Fresh
<1>4. ContiguousUntilDropped
  BY DEF ContiguousUntilDropped
<1> QED BY <1>1, <1>2, <1>3, <1>4 DEF HubInv

\* What one watcher's run of events depends on: its channel, its prefix, what it
\* was sent, since when, and the log.
LEMMA RunUnchanged ==
  ASSUME NEW w \in Watchers, InOrder(w), NoGap(w),
         scope'[w] = scope[w], stream'[w] = stream[w], since'[w] = since[w],
         chan'[w] = "open" => chan[w] = "open", log' = log
  PROVE  InOrder(w)' /\ NoGap(w)'
BY DEF InOrder, NoGap, Due, Matches

LEMMA SubscribeInv ==
  ASSUME HubInv, NEW w \in Watchers, NEW sc \in Scopes, Subscribe(w, sc)
  PROVE  HubInv'
<1> USE HubAssumption DEF Subscribe
<1>1. HubTypeOK'
  BY DEF HubInv, HubTypeOK, Backlog
<1>2. ChannelDiscipline'
  BY DEF HubInv, HubTypeOK, ChannelDiscipline
<1>3. Fresh'
  BY DEF HubInv, HubTypeOK, Fresh
<1>4. ASSUME NEW v \in Watchers, chan'[v] # "none"
      PROVE  InOrder(v)' /\ NoGap(v)'
  <2>1. CASE v = w
    <3>1. stream'[v] = <<>> /\ since'[v] = Len(log) /\ log' = log
      BY <2>1 DEF HubInv, HubTypeOK, Fresh
    <3>2. Len(log) \in Nat
      BY DEF HubInv, HubTypeOK
    <3> QED BY <3>1, <3>2 DEF InOrder, NoGap, Due
  <2>2. CASE v # w
    BY <1>4, <2>2, RunUnchanged DEF HubInv, HubTypeOK, ContiguousUntilDropped
  <2> QED BY <2>1, <2>2
<1> QED BY <1>1, <1>2, <1>3, <1>4 DEF HubInv, ContiguousUntilDropped

LEMMA CloseSubscriptionInv ==
  ASSUME HubInv, NEW w \in Watchers, CloseSubscription(w)
  PROVE  HubInv'
<1> USE DEF CloseSubscription, CloseChannels, Unsubscribed
<1>1. HubTypeOK'
  BY DEF HubInv, HubTypeOK, Backlog
<1>2. ChannelDiscipline'
  BY DEF HubInv, HubTypeOK, ChannelDiscipline
<1>3. Fresh'
  BY DEF HubInv, HubTypeOK, Fresh
<1>4. ASSUME NEW v \in Watchers, chan'[v] # "none"
      PROVE  InOrder(v)' /\ NoGap(v)'
  BY <1>4, RunUnchanged DEF HubInv, HubTypeOK, ChannelDiscipline, ContiguousUntilDropped
<1> QED BY <1>1, <1>2, <1>3, <1>4 DEF HubInv, ContiguousUntilDropped

LEMMA CloseHubInv ==
  ASSUME HubInv, CloseHub
  PROVE  HubInv'
<1> USE DEF CloseHub, CloseChannels
<1>1. HubTypeOK'
  BY DEF HubInv, HubTypeOK, Backlog
<1>2. ChannelDiscipline'
  BY DEF HubInv, HubTypeOK, ChannelDiscipline
<1>3. Fresh'
  BY DEF HubInv, HubTypeOK, Fresh, ChannelDiscipline
<1>4. ASSUME NEW v \in Watchers, chan'[v] # "none"
      PROVE  InOrder(v)' /\ NoGap(v)'
  BY <1>4, RunUnchanged DEF HubInv, HubTypeOK, ChannelDiscipline, ContiguousUntilDropped
<1> QED BY <1>1, <1>2, <1>3, <1>4 DEF HubInv, ContiguousUntilDropped

LEMMA ReceiveInv ==
  ASSUME HubInv, NEW w \in Watchers, Receive(w)
  PROVE  HubInv'
<1> USE DEF Receive
<1>1. HubTypeOK'
  BY HubAssumption DEF HubInv, HubTypeOK, Backlog
<1>2. ChannelDiscipline'
  BY DEF HubInv, ChannelDiscipline
<1>3. Fresh'
  BY DEF HubInv, HubTypeOK, Fresh, Backlog
<1>4. ASSUME NEW v \in Watchers, chan'[v] # "none"
      PROVE  InOrder(v)' /\ NoGap(v)'
  BY <1>4, RunUnchanged DEF HubInv, ContiguousUntilDropped
<1> QED BY <1>1, <1>2, <1>3, <1>4 DEF HubInv, ContiguousUntilDropped

LEMMA DispatchInv ==
  ASSUME HubInv, NEW e \in Event, Dispatch(e)
  PROVE  HubInv'
<1> USE HubAssumption
<1>0. /\ Len(log) \in Nat
      /\ Len(log') = Len(log) + 1
      /\ log'[Len(log) + 1] = e
      /\ \A n \in 1..Len(log) : log'[n] = log[n]
  BY DEF HubInv, HubTypeOK, Dispatch
<1>1. ASSUME NEW v \in Watchers
      PROVE  /\ v \in Reached(e) => /\ Len(stream'[v]) = Len(stream[v]) + 1
                                    /\ stream'[v][Len(stream[v]) + 1] = Len(log) + 1
                                    /\ \A i \in 1..Len(stream[v]) :
                                         stream'[v][i] = stream[v][i]
             /\ v \notin Reached(e) => stream'[v] = stream[v]
             /\ Len(stream[v]) \in Nat
             /\ stream'[v] \in Seq(Nat \ {0})
             /\ scope'[v] = scope[v]
             /\ since'[v] = since[v]
             /\ since[v] \in Nat /\ since[v] <= Len(log)
  <2>1. stream[v] \in Seq(Nat \ {0}) /\ Len(log) + 1 \in Nat \ {0}
    BY <1>0, <1>1 DEF HubInv, HubTypeOK
  <2>2. stream'[v] = IF v \in Reached(e) THEN Append(stream[v], Len(log) + 1)
                                         ELSE stream[v]
    BY <1>1 DEF Dispatch
  <2>3. since[v] \in Nat /\ since[v] <= Len(log) /\ scope' = scope /\ since' = since
    BY <1>1 DEF HubInv, HubTypeOK, Fresh, Dispatch
  <2> QED BY <2>1, <2>2, <2>3
<1>2. HubTypeOK'
  <2>1. \A v \in Watchers : Backlog(v)' \in 0..subBuffer
    BY <1>1 DEF HubInv, HubTypeOK, Backlog, Dispatch, Reached
  <2>2. stream' \in [Watchers -> Seq(Nat \ {0})]
    BY <1>1 DEF Dispatch
  <2> QED BY <2>1, <2>2 DEF HubInv, HubTypeOK, Dispatch
<1>3. ChannelDiscipline'
  BY DEF HubInv, HubTypeOK, ChannelDiscipline, Dispatch, Full, Reached
<1>4. Fresh'
  BY <1>0, <1>1 DEF HubInv, HubTypeOK, Fresh, ChannelDiscipline, Dispatch, Full, Reached
<1>5. ASSUME NEW v \in Watchers, chan'[v] # "none"
      PROVE  InOrder(v)' /\ NoGap(v)'
  <2>0. chan[v] # "none" /\ InOrder(v) /\ NoGap(v)
    BY <1>5 DEF HubInv, HubTypeOK, ChannelDiscipline, ContiguousUntilDropped,
                Dispatch, Full
  <2>1. CASE v \in Reached(e)
    <3>0. /\ Len(stream[v]) \in Nat
          /\ Len(stream'[v]) = Len(stream[v]) + 1
          /\ stream'[v][Len(stream[v]) + 1] = Len(log) + 1
          /\ \A i \in 1..Len(stream[v]) : stream'[v][i] = stream[v][i]
          /\ since'[v] = since[v] /\ since[v] \in Nat /\ since[v] <= Len(log)
          /\ scope'[v] = scope[v]
      BY <1>1, <2>1
    <3>1. chan[v] = "open" /\ chan'[v] = "open" /\ Matches(e, v)
      BY <2>1 DEF HubInv, HubTypeOK, ChannelDiscipline, Dispatch, Full, Reached
    <3>2. InOrder(v)'
      <4>1. ASSUME NEW i \in 1..Len(stream'[v]), i <= Len(stream[v])
            PROVE  /\ i \in 1..Len(stream[v])
                   /\ stream'[v][i] = stream[v][i]
                   /\ stream[v][i] \in (since[v] + 1)..Len(log)
                   /\ Matches(log[stream[v][i]], v)
        <5>1. i \in 1..Len(stream[v])
          BY <3>0, <4>1
        <5> QED BY <2>0, <3>0, <5>1 DEF InOrder
      <4>2. ASSUME NEW i \in 1..Len(stream'[v]), i > Len(stream[v])
            PROVE  i = Len(stream[v]) + 1 /\ stream'[v][i] = Len(log) + 1
        <5>1. i = Len(stream[v]) + 1
          BY <3>0, <4>2
        <5> QED BY <3>0, <5>1
      <4>3. ASSUME NEW i \in 1..Len(stream'[v])
            PROVE  /\ stream'[v][i] \in (since[v] + 1)..(Len(log) + 1)
                   /\ Matches(log[stream[v][i]], v)'
        <5>1. CASE i <= Len(stream[v])
          <6>1. stream[v][i] \in 1..Len(log)
            BY <3>0, <4>1, <5>1
          <6>2. log'[stream[v][i]] = log[stream[v][i]]
            BY <1>0, <6>1
          <6> QED BY <1>0, <3>0, <4>1, <5>1, <6>1, <6>2 DEF Matches
        <5>2. CASE i > Len(stream[v])
          BY <1>0, <3>0, <3>1, <4>2, <5>2 DEF Matches
        <5> QED BY <3>0, <5>1, <5>2
      <4>4. ASSUME NEW i \in 1..Len(stream'[v]), NEW j \in 1..Len(stream'[v]), i < j
            PROVE  stream'[v][i] < stream'[v][j]
        <5>1. i <= Len(stream[v])
          BY <3>0, <4>4
        <5>2. CASE j <= Len(stream[v])
          BY <2>0, <3>0, <4>1, <4>4, <5>1, <5>2 DEF InOrder
        <5>3. CASE j > Len(stream[v])
          BY <1>0, <3>0, <4>1, <4>2, <5>1, <5>3
        <5> QED BY <3>0, <5>2, <5>3
      <4> QED BY <1>0, <3>0, <4>3, <4>4 DEF InOrder
    <3>3. NoGap(v)'
      <4> SUFFICES ASSUME NEW n \in 1..Len(log'), Due(v, n)'
                   PROVE  \E i \in 1..Len(stream'[v]) : stream'[v][i] = n
        BY DEF NoGap
      <4>1. CASE n = Len(log) + 1
        <5>1. Len(stream[v]) + 1 \in 1..Len(stream'[v])
          BY <3>0
        <5>2. stream'[v][Len(stream[v]) + 1] = n
          BY <3>0, <4>1
        <5> QED BY <5>1, <5>2
      <4>2. CASE n # Len(log) + 1
        <5>1. n \in 1..Len(log) /\ log'[n] = log[n]
          BY <1>0, <4>2
        <5>2. Due(v, n)
          BY <3>0, <3>1, <5>1 DEF Due, Matches
        <5>3. PICK i \in 1..Len(stream[v]) : stream[v][i] = n
          BY <2>0, <5>1, <5>2 DEF NoGap
        <5>4. i \in 1..Len(stream'[v]) /\ stream'[v][i] = n
          BY <3>0, <5>3
        <5> QED BY <5>4
      <4> QED BY <4>1, <4>2
    <3> QED BY <3>2, <3>3
  <2>2. CASE v \notin Reached(e)
    <3>1. stream'[v] = stream[v]
      BY <1>1, <2>2
    <3>2. InOrder(v)'
      BY <1>0, <1>1, <2>0, <3>1 DEF InOrder, Matches
    <3>3. NoGap(v)'
      <4> SUFFICES ASSUME NEW n \in 1..Len(log'), Due(v, n)'
                   PROVE  \E i \in 1..Len(stream[v]) : stream[v][i] = n
        BY <3>1 DEF NoGap
      <4>1. n # Len(log) + 1
        <5> SUFFICES ASSUME n = Len(log) + 1 PROVE FALSE
          OBVIOUS
        <5>1. Matches(e, v)
          BY <1>0, <1>1 DEF Due, Matches
        <5>2. CASE chan'[v] = "open"
          <6>1. v \in subs
            BY <5>2 DEF HubInv, HubTypeOK, ChannelDiscipline, Dispatch, Full
          <6>2. v \in Full(e)
            BY <2>2, <5>1, <6>1 DEF HubInv, HubTypeOK, Full, Reached
          <6> QED BY <5>2, <6>2 DEF Dispatch
        <5>3. CASE chan'[v] # "open"
          BY <1>0, <2>0, <3>1, <5>3 DEF Due, InOrder
        <5> QED BY <5>2, <5>3
      <4>2. n \in 1..Len(log)
        BY <1>0, <4>1
      <4>3. Due(v, n)
        BY <1>0, <1>1, <3>1, <4>2 DEF Due, Matches, Dispatch
      <4> QED BY <2>0, <4>2, <4>3 DEF NoGap
    <3> QED BY <3>2, <3>3
  <2> QED BY <2>1, <2>2
<1> QED BY <1>2, <1>3, <1>4, <1>5 DEF HubInv, ContiguousUntilDropped

LEMMA HubStutterInv == HubInv /\ UNCHANGED hubVars => HubInv'
BY DEF HubInv, hubVars, HubTypeOK, ChannelDiscipline, Fresh, ContiguousUntilDropped,
   Backlog, InOrder, NoGap, Due, Matches

LEMMA HubNextInv == HubInv /\ [HubNext]_hubVars => HubInv'
<1> SUFFICES ASSUME HubInv, [HubNext]_hubVars PROVE HubInv'
  OBVIOUS
<1>1. ASSUME NEW w \in Watchers, NEW sc \in Scopes, Subscribe(w, sc) PROVE HubInv'
  BY <1>1, SubscribeInv
<1>2. ASSUME NEW w \in Watchers, CloseSubscription(w) PROVE HubInv'
  BY <1>2, CloseSubscriptionInv
<1>3. ASSUME NEW w \in Watchers, Receive(w) PROVE HubInv'
  BY <1>3, ReceiveInv
<1>4. ASSUME NEW e \in Event, Dispatch(e) PROVE HubInv'
  BY <1>4, DispatchInv
<1>5. CASE CloseHub
  BY <1>5, CloseHubInv
<1>6. CASE UNCHANGED hubVars
  BY <1>6, HubStutterInv
<1> QED BY <1>1, <1>2, <1>3, <1>4, <1>5, <1>6 DEF HubNext

\* The hub's state stays well typed and no buffer exceeds its capacity, whatever
\* order events.go's methods are called in.
THEOREM HubTypeCorrect == HubSpec => []HubTypeOK
<1>1. HubInv => HubTypeOK
  BY DEF HubInv
<1> QED BY <1>1, HubInitInv, HubNextInv, PTL DEF HubSpec

\* No order of dispatch, Subscription.Close and Hub.Close closes a channel twice
\* or sends on a closed one.
THEOREM HubNeverPanics == HubSpec => []ChannelDiscipline
<1>1. HubInv => ChannelDiscipline
  BY DEF HubInv
<1> QED BY <1>1, HubInitInv, HubNextInv, PTL DEF HubSpec

\* Each subscriber sees a contiguous run of the matching events, in order, until
\* dispatch or a Close cuts it off.
THEOREM HubContiguous == HubSpec => []ContiguousUntilDropped
<1>1. HubInv => ContiguousUntilDropped
  BY DEF HubInv
<1> QED BY <1>1, HubInitInv, HubNextInv, PTL DEF HubSpec

\* Only a subscriber whose buffer is full loses its place to a publication.
THEOREM HubDropsOnlyTheSlow == HubSpec => DropsOnlyTheSlow
<1>1. HubInv /\ [HubNext]_hubVars => [SlowAreDropped]_hubVars
  <2> SUFFICES ASSUME HubInv, HubNext, NEW w \in subs \ subs', log' # log
               PROVE  Backlog(w) = subBuffer /\ Matches(log'[Len(log')], w)
    BY DEF SlowAreDropped
  <2>1. PICK e \in Event : Dispatch(e)
    BY DEF HubNext, Subscribe, CloseSubscription, CloseHub, Receive
  <2>2. w \in Full(e)
    BY <2>1 DEF Dispatch
  <2>3. log'[Len(log')] = e
    BY <2>1 DEF Dispatch, HubInv, HubTypeOK
  <2> QED BY <2>2, <2>3, HubAssumption DEF Full, HubInv, HubTypeOK
<1> QED BY <1>1, HubInitInv, HubNextInv, PTL DEF HubSpec, DropsOnlyTheSlow

-----------------------------------------------------------------------------
(* The gateway *)

\* A call that has not begun has nothing to publish; one that is at the store
\* has a key left.
Phases ==
  \A c \in Calls : /\ call[c].phase = "idle" => call[c].hints = <<>>
                   /\ call[c].phase = "store" => call[c].todo # <<>>

CallRecord == [phase : {"idle", "store", "publish", "done", "failed"},
               req : RequestTypes \cup {NoRequest},
               todo : Seq(Keys),
               hints : Seq(Event)]

GatewayInv == TypeOK /\ HubInv /\ Phases /\ EveryChangeIsHinted

-----------------------------------------------------------------------------
(* The hub's variables: each step of the gateway is a method of the hub or    *)
(* leaves the hub alone, so the hub's invariant carries over.                 *)

LEMMA HubSteps ==
  ASSUME TypeOK, [Next]_vars
  PROVE  [HubNext]_hubVars
<1>1. ASSUME NEW c \in Calls, CallStep(c) PROVE [HubNext]_hubVars
  <2>1. CASE Publish(c)
    <3>1. Head(call[c].hints) \in Event
      BY <2>1 DEF Publish, TypeOK
    <3> QED BY <2>1, <3>1 DEF Publish, HubNext
  <2> QED BY <1>1, <2>1 DEF CallStep, Begin, StoreCommit, StoreRefuse, StoreLose, Reply
<1>2. ASSUME NEW w \in Watchers, WatchStep(w) PROVE [HubNext]_hubVars
  BY <1>2 DEF WatchStep, WatchSubscribe, WatchHeader, WatchSend, WatchBehind, WatchGone,
              Refresh, HubNext
<1>3. ASSUME NEW k \in Keys, NEW o \in Outside, WriteOutside(k, o)
      PROVE  [HubNext]_hubVars
  BY <1>3 DEF WriteOutside
<1>4. CASE Shutdown
  BY <1>4 DEF Shutdown, HubNext
<1>5. CASE UNCHANGED vars
  BY <1>5 DEF vars
<1> QED BY <1>1, <1>2, <1>3, <1>4, <1>5 DEF Next

LEMMA HubInvKept ==
  ASSUME TypeOK, HubInv, [Next]_vars
  PROVE  HubInv'
BY HubSteps, HubNextInv

-----------------------------------------------------------------------------
(* Types *)

LEMMA GatewayInit == Init => GatewayInv
<1> SUFFICES ASSUME Init PROVE GatewayInv
  OBVIOUS
<1>1. HubInv
  BY HubInitInv DEF Init
<1>2. TypeOK
  <2>1. NoRequest \in RequestTypes \cup {NoRequest} /\ <<>> \in Seq(Keys) /\ <<>> \in Seq(Event)
    OBVIOUS
  <2>2. call \in [Calls -> CallRecord]
    BY <2>1 DEF Init, CallRecord
  <2> QED BY <1>1, <2>1, <2>2 DEF Init, TypeOK, CallRecord, HubInv
<1>3. Phases
  BY DEF Init, Phases
<1>4. EveryChangeIsHinted
  BY DEF Init, EveryChangeIsHinted, InTouch
<1> QED BY <1>1, <1>2, <1>3, <1>4 DEF GatewayInv

\* The next key of a call at the store, what the call leaves there, its event.
LEMMA EventTyped ==
  ASSUME TypeOK, Phases, NEW c \in Calls, CanCommit(c)
  PROVE  /\ Target(c) \in Keys
         /\ Effect(c) \in Content \cup {Absent}
         /\ EventOf(c) \in Event
         /\ EventOf(c).key = Target(c)
<1>1. call[c].todo \in Seq(Keys) /\ call[c].todo # <<>>
  BY DEF TypeOK, Phases, CanCommit
<1>2. Target(c) \in Keys
  BY <1>1 DEF Target
<1>3. Effect(c) \in Content \cup {Absent}
  <2>1. CASE call[c].req.op = "copy"
    <3>1. call[c].req \in RequestTypes
      BY <2>1 DEF TypeOK, NoRequest
    <3>2. call[c].req.src \in Keys
      BY <3>1 DEF RequestTypes
    <3> QED BY <2>1, <3>2 DEF Effect, TypeOK
  <2>2. CASE call[c].req.op # "copy"
    BY <2>2 DEF Effect, Content
  <2> QED BY <2>1, <2>2
<1>4. EventOf(c) \in Event
  <2>1. (IF call[c].req.op \in {"put", "copy"} THEN "put" ELSE "delete") \in {"put", "delete"}
    OBVIOUS
  <2> QED BY <1>2, <1>3, <2>1, GatewayAssumption DEF EventOf
<1> QED BY <1>2, <1>3, <1>4 DEF EventOf

\* The backend is done with a key: only this call's record changes.
LEMMA KeyDoneTyped ==
  ASSUME TypeOK, Phases, NEW c \in Calls, call[c].phase = "store",
         NEW hints \in Seq(Event), KeyDone(c, hints)
  PROVE  /\ call' \in [Calls -> CallRecord]
         /\ Phases'
         /\ call'[c].hints = hints
         /\ \A d \in Calls \ {c} : call'[d] = call[d]
<1> DEFINE todo == Tail(call[c].todo)
           phase == IF todo # <<>> THEN "store"
                    ELSE IF hints = <<>> /\ call[c].req.op # "deletemany"
                         THEN "failed" ELSE "publish"
<1>1. call \in [Calls -> CallRecord]
  BY DEF TypeOK, CallRecord
<1>2. todo \in Seq(Keys)
  BY <1>1 DEF Phases, CallRecord
<1>3. /\ call' = [call EXCEPT ![c] = call'[c]]
      /\ call'[c] = [call[c] EXCEPT !.todo = todo, !.hints = hints, !.phase = phase]
  BY <1>1 DEF KeyDone
<1> HIDE DEF todo
<1>4. phase \in {"store", "failed", "publish"} /\ (phase = "store" => todo # <<>>)
  OBVIOUS
<1> HIDE DEF phase
<1>5. call'[c] \in CallRecord /\ call'[c].phase = phase
      /\ call'[c].todo = todo /\ call'[c].hints = hints
  BY <1>1, <1>2, <1>3, <1>4 DEF CallRecord
<1>6. \A d \in Calls \ {c} : call'[d] = call[d]
  BY <1>1, <1>3
<1>7. call' \in [Calls -> CallRecord]
  BY <1>1, <1>3, <1>5
<1> QED BY <1>4, <1>5, <1>6, <1>7 DEF Phases

LEMMA CallStepTyped ==
  ASSUME GatewayInv, HubInv', NEW c \in Calls, CallStep(c)
  PROVE  TypeOK' /\ Phases'
<1> USE DEF GatewayInv
<1>0. HubTypeOK' /\ call \in [Calls -> CallRecord]
  BY DEF HubInv, TypeOK, CallRecord
<1>1. ASSUME NEW r \in Requests, Begin(c, r) PROVE TypeOK' /\ Phases'
  <2> DEFINE new == [phase |-> "store", req |-> r, todo |-> r.keys, hints |-> <<>>]
  <2>1. r \in RequestTypes /\ r.keys \in Seq(Keys) /\ r.keys # <<>>
    BY GatewayAssumption DEF RequestTypes
  <2>2. new \in CallRecord
    BY <2>1 DEF CallRecord
  <2>3. new.phase = "store" /\ new.todo # <<>> /\ call' = [call EXCEPT ![c] = new]
    BY <1>1, <2>1 DEF Begin
  <2> HIDE DEF new
  <2>4. call' \in [Calls -> CallRecord] /\ Phases'
    BY <1>0, <2>2, <2>3 DEF Phases
  <2>5. before' \in [Calls -> SUBSET Calls]
    BY <1>1 DEF Begin, TypeOK
  <2> QED BY <1>0, <1>1, <2>4, <2>5 DEF Begin, TypeOK, CallRecord, callVars, clientVars
<1>2. CASE StoreCommit(c)
  <2>1. /\ Target(c) \in Keys /\ Effect(c) \in Content \cup {Absent}
        /\ EventOf(c) \in Event /\ call[c].phase = "store"
    BY <1>2, EventTyped DEF StoreCommit, CanCommit
  <2>2. Append(call[c].hints, EventOf(c)) \in Seq(Event)
    BY <1>0, <2>1 DEF CallRecord
  <2>3. call' \in [Calls -> CallRecord] /\ Phases'
    BY <1>2, <2>1, <2>2, KeyDoneTyped DEF StoreCommit
  <2>4. lost' \subseteq 1..Len(commits')
    <3>1. commits' = Append(commits, EventOf(c)) /\ lost' = lost
      BY <1>2 DEF StoreCommit, Apply
    <3>2. Len(commits') = Len(commits) + 1 /\ Len(commits) \in Nat
      BY <2>1, <3>1 DEF TypeOK
    <3> QED BY <3>1, <3>2 DEF TypeOK
  <2> QED BY <1>0, <1>2, <2>1, <2>3, <2>4
      DEF StoreCommit, Apply, TypeOK, CallRecord, clientVars
<1>3. CASE StoreRefuse(c)
  <2>1. call' \in [Calls -> CallRecord] /\ Phases'
    <3>1. call[c].hints \in Seq(Event) /\ call[c].phase = "store"
      BY <1>0, <1>3 DEF StoreRefuse, CallRecord
    <3> QED BY <1>3, <3>1, KeyDoneTyped DEF StoreRefuse
  <2> QED BY <1>0, <1>3, <2>1 DEF StoreRefuse, TypeOK, CallRecord, clientVars
<1>4. CASE StoreLose(c)
  <2>1. /\ Target(c) \in Keys /\ Effect(c) \in Content \cup {Absent}
        /\ EventOf(c) \in Event /\ call[c].phase = "store"
    BY <1>4, EventTyped DEF StoreLose, CanCommit
  <2>2. call[c].hints \in Seq(Event)
    BY <1>0 DEF CallRecord
  <2>3. call' \in [Calls -> CallRecord] /\ Phases'
    BY <1>4, <2>1, <2>2, KeyDoneTyped DEF StoreLose
  <2>4. unhinted' \in [Watchers -> SUBSET Keys] /\ lost' \subseteq 1..Len(commits')
    <3>1. commits' = Append(commits, EventOf(c)) /\ lost' = lost \cup {Len(commits) + 1}
      BY <1>4 DEF StoreLose, Apply
    <3>2. Len(commits') = Len(commits) + 1 /\ Len(commits) \in Nat
      BY <2>1, <3>1 DEF TypeOK
    <3>4. \A i \in lost : i \in 1..Len(commits)
      BY DEF TypeOK
    <3>5. \A i \in lost' : i \in lost \/ i = Len(commits) + 1
      BY <3>1
    <3>3. ASSUME NEW i \in lost' PROVE i \in 1..Len(commits')
      <4>1. i \in 1..Len(commits) \/ i = Len(commits) + 1
        BY <3>4, <3>5
      <4> QED BY <3>2, <4>1
    <3> QED BY <1>4, <2>1, <3>3 DEF StoreLose, Unhint, TypeOK
  <2> QED BY <1>0, <1>4, <2>1, <2>3, <2>4
      DEF StoreLose, Apply, TypeOK, CallRecord, clientVars
<1>5. CASE Publish(c)
  <2>1. Tail(call[c].hints) \in Seq(Event)
    BY <1>0, <1>5 DEF Publish, CallRecord
  <2>2. /\ call' = [call EXCEPT ![c] = call'[c]]
        /\ call'[c] = [call[c] EXCEPT !.hints = Tail(call[c].hints)]
    BY <1>0, <1>5 DEF Publish
  <2>5. call[c].phase \notin {"idle", "store"}
    BY <1>0, <1>5 DEF Publish, Phases
  <2>3. /\ call'[c] \in CallRecord
        /\ call'[c].phase = call[c].phase
    <3>1. call[c] \in CallRecord
      BY <1>0
    <3> QED BY <2>1, <2>2, <3>1 DEF CallRecord
  <2>4. call' \in [Calls -> CallRecord] /\ Phases'
    BY <1>0, <2>2, <2>3, <2>5 DEF Phases
  <2> QED BY <1>0, <1>5, <2>4 DEF Publish, TypeOK, CallRecord, clientVars
<1>6. CASE Reply(c)
  <2>1. /\ call' = [call EXCEPT ![c] = call'[c]]
        /\ call'[c] = [call[c] EXCEPT !.phase = "done"]
    BY <1>0, <1>6 DEF Reply
  <2>2. call'[c] \in CallRecord /\ call'[c].phase = "done"
    BY <1>0, <2>1 DEF CallRecord
  <2>3. call' \in [Calls -> CallRecord] /\ Phases'
    BY <1>0, <2>1, <2>2 DEF Phases
  <2> QED BY <1>0, <1>6, <2>3 DEF Reply, TypeOK, CallRecord, clientVars
<1> QED BY <1>1, <1>2, <1>3, <1>4, <1>5, <1>6 DEF CallStep

LEMMA PhasesKept == Phases /\ UNCHANGED call => Phases'
BY DEF Phases

LEMMA OtherStepTyped ==
  ASSUME GatewayInv, HubInv',
         \/ \E w \in Watchers : WatchStep(w)
         \/ \E k \in Keys, o \in Outside : WriteOutside(k, o)
         \/ Shutdown
         \/ UNCHANGED vars
  PROVE  TypeOK' /\ Phases'
<1> USE DEF GatewayInv, callVars, clientVars
<1>0. HubTypeOK'
  BY DEF HubInv
<1>1. ASSUME NEW w \in Watchers, WatchStep(w) PROVE TypeOK' /\ Phases'
  <2>1. Phases' /\ UNCHANGED callVars
    BY <1>1, PhasesKept DEF WatchStep, WatchSubscribe, WatchHeader, WatchSend, WatchBehind,
                WatchGone, Refresh
  <2>2. ASSUME NEW sc \in Scopes, WatchSubscribe(w, sc) PROVE TypeOK'
    BY <1>0, <2>2 DEF WatchSubscribe, TypeOK
  <2>3. CASE WatchHeader(w)
    <3>1. scope[w] \in SUBSET Keys
      BY DEF HubInv, HubTypeOK
    <3> QED BY <1>0, <2>1, <2>3, <3>1 DEF WatchHeader, TypeOK
  <2>4. CASE WatchSend(w)
    <3>1. log[stream[w][taken[w] + 1]].key \in Keys
      <4>1. taken[w] + 1 \in 1..Len(stream[w]) /\ chan[w] # "none"
        BY <2>4 DEF WatchSend, Receive, HubInv, HubTypeOK, Backlog, Fresh
      <4>2. stream[w][taken[w] + 1] \in 1..Len(log)
        BY <4>1 DEF HubInv, HubTypeOK, ContiguousUntilDropped, InOrder
      <4>3. log[stream[w][taken[w] + 1]] \in Event
        BY <4>2 DEF HubInv, HubTypeOK
      <4> QED BY <4>3, HubAssumption
    <3> QED BY <1>0, <2>1, <2>4, <3>1 DEF WatchSend, TypeOK
  <2>5. CASE WatchBehind(w)
    BY <1>0, <2>1, <2>5 DEF WatchBehind, TypeOK
  <2>6. CASE WatchGone(w)
    BY <1>0, <2>1, <2>6 DEF WatchGone, TypeOK
  <2>7. ASSUME NEW k \in Keys, Refresh(w, k) PROVE TypeOK'
    BY <1>0, <2>7 DEF Refresh, TypeOK
  <2> QED BY <1>1, <2>1, <2>2, <2>3, <2>4, <2>5, <2>6, <2>7 DEF WatchStep
<1>2. ASSUME NEW k \in Keys, NEW o \in Outside, WriteOutside(k, o)
      PROVE  TypeOK' /\ Phases'
  <2>1. /\ objects' \in [Keys -> Content \cup {Absent}]
        /\ outside' \subseteq Outside
        /\ unhinted' \in [Watchers -> SUBSET Keys]
    BY <1>2 DEF WriteOutside, Unhint, TypeOK, Content
  <2>2. Phases'
    BY <1>2, PhasesKept DEF WriteOutside
  <2> QED BY <1>0, <1>2, <2>1, <2>2 DEF WriteOutside, TypeOK
<1>3. CASE Shutdown
  <2>1. Phases'
    BY <1>3, PhasesKept DEF Shutdown
  <2> QED BY <1>0, <1>3, <2>1 DEF Shutdown, TypeOK
<1>4. CASE UNCHANGED vars
  <2>1. Phases'
    BY <1>4, PhasesKept DEF vars
  <2> QED BY <1>0, <1>4, <2>1 DEF vars, TypeOK
<1> QED BY <1>1, <1>2, <1>3, <1>4

LEMMA GatewayTyped ==
  ASSUME GatewayInv, [Next]_vars
  PROVE  TypeOK' /\ Phases' /\ HubInv'
<1>1. HubInv'
  BY HubInvKept DEF GatewayInv
<1> QED BY <1>1, CallStepTyped, OtherStepTyped DEF Next

-----------------------------------------------------------------------------
(* The contract of the change hints *)

\* One key of one client's index is accounted for.
Hinted(w, k) ==
  \/ seen[w][k] = objects[k]
  \/ k \in stale[w]
  \/ k \in unhinted[w]
  \/ HintPending(w, k)

\* What is in w's channel: places in log, of events about keys.
LEMMA InChannel ==
  ASSUME HubInv, NEW w \in Watchers, NEW i \in (taken[w] + 1)..Len(stream[w])
  PROVE  /\ i \in 1..Len(stream[w])
         /\ stream[w][i] \in 1..Len(log)
<1>1. taken[w] \in Nat /\ Len(stream[w]) \in Nat /\ since[w] \in Nat /\ Len(log) \in Nat
  BY DEF HubInv, HubTypeOK
<1>2. i \in 1..Len(stream[w])
  BY <1>1
<1>3. chan[w] # "none"
  BY <1>2 DEF HubInv, Fresh
<1>4. stream[w][i] \in (since[w] + 1)..Len(log)
  BY <1>2, <1>3 DEF HubInv, ContiguousUntilDropped, InOrder
<1> QED BY <1>1, <1>2, <1>4

\* A pending hint stays pending while the channel and the log stand still and no
\* call loses an event it has to publish.
LEMMA PendingKept ==
  ASSUME NEW w \in Watchers, NEW k \in Keys, HintPending(w, k),
         UNCHANGED <<stream, taken, log>>,
         \A c \in Calls : \A i \in 1..Len(call[c].hints) :
           i \in 1..Len(call'[c].hints) /\ call'[c].hints[i] = call[c].hints[i]
  PROVE  HintPending(w, k)'
BY DEF HintPending

\* The backend finishing a key never drops an event from the call's list.
LEMMA KeyDoneKeepsHints ==
  ASSUME TypeOK, Phases, NEW c \in Calls, call[c].phase = "store",
         NEW hints \in Seq(Event), KeyDone(c, hints),
         \A i \in 1..Len(call[c].hints) : i \in 1..Len(hints) /\ hints[i] = call[c].hints[i],
         UNCHANGED <<stream, taken, log>>
  PROVE  \A w \in Watchers, k \in Keys : HintPending(w, k) => HintPending(w, k)'
<1>1. \A d \in Calls : \A i \in 1..Len(call[d].hints) :
        i \in 1..Len(call'[d].hints) /\ call'[d].hints[i] = call[d].hints[i]
  BY KeyDoneTyped
<1> QED BY <1>1, PendingKept

LEMMA CallStepHinted ==
  ASSUME GatewayInv, HubInv', NEW c \in Calls, CallStep(c),
         NEW w \in Watchers, InTouch(w)', NEW k \in scope'[w]
  PROVE  Hinted(w, k)'
<1> USE DEF GatewayInv
<1>0. /\ InTouch(w) /\ k \in scope[w] /\ k \in Keys /\ scope' = scope
      /\ Hinted(w, k)
  <2>1. scope' = scope /\ watch' = watch
    BY DEF CallStep, Begin, StoreCommit, StoreRefuse, StoreLose, Publish, Reply, Dispatch,
           hubVars
  <2>2. chan'[w] = "open" => chan[w] = "open"
    BY DEF CallStep, Begin, StoreCommit, StoreRefuse, StoreLose, Publish, Reply, Dispatch,
           hubVars, HubInv, HubTypeOK, ChannelDiscipline, Full
  <2> QED BY <2>1, <2>2 DEF InTouch, EveryChangeIsHinted, Hinted, HubInv, HubTypeOK
<1>c. call \in [Calls -> CallRecord]
  BY DEF TypeOK, CallRecord
<1>1. ASSUME NEW r \in Requests, Begin(c, r) PROVE Hinted(w, k)'
  <2>1. \A d \in Calls : \A i \in 1..Len(call[d].hints) :
          i \in 1..Len(call'[d].hints) /\ call'[d].hints[i] = call[d].hints[i]
    BY <1>1, <1>c DEF Begin, Phases
  <2>2. HintPending(w, k) => HintPending(w, k)'
    BY <1>0, <1>1, <2>1, PendingKept DEF Begin, hubVars
  <2> QED BY <1>0, <1>1, <2>2 DEF Hinted, Begin, clientVars
<1>2. CASE StoreCommit(c)
  <2>1. /\ Target(c) \in Keys /\ EventOf(c) \in Event /\ EventOf(c).key = Target(c)
        /\ call[c].phase = "store"
    BY <1>2, EventTyped DEF StoreCommit, CanCommit
  <2> DEFINE hints == Append(call[c].hints, EventOf(c))
  <2>2. /\ hints \in Seq(Event)
        /\ \A i \in 1..Len(call[c].hints) : i \in 1..Len(hints) /\ hints[i] = call[c].hints[i]
        /\ Len(hints) \in 1..Len(hints) /\ hints[Len(hints)] = EventOf(c)
    BY <1>c, <2>1 DEF CallRecord
  <2>3. KeyDone(c, hints) /\ UNCHANGED <<stream, taken, log>>
    BY <1>2 DEF StoreCommit, hubVars
  <2> HIDE DEF hints
  <2>4. call'[c].hints = hints
    BY <2>1, <2>2, <2>3, KeyDoneTyped
  <2>5. CASE k = Target(c)
    BY <2>1, <2>2, <2>4, <2>5 DEF Hinted, HintPending
  <2>6. CASE k # Target(c)
    <3>1. HintPending(w, k) => HintPending(w, k)'
      BY <1>0, <2>1, <2>2, <2>3, KeyDoneKeepsHints
    <3>2. objects'[k] = objects[k]
      BY <1>0, <1>2, <2>6 DEF StoreCommit, Apply, TypeOK
    <3> QED BY <1>0, <1>2, <3>1, <3>2 DEF Hinted, StoreCommit, clientVars
  <2> QED BY <2>5, <2>6
<1>3. CASE StoreRefuse(c)
  <2>1. HintPending(w, k) => HintPending(w, k)'
    <3>1. call[c].hints \in Seq(Event) /\ call[c].phase = "store"
      BY <1>c, <1>3 DEF CallRecord, StoreRefuse
    <3> QED BY <1>0, <1>3, <3>1, KeyDoneKeepsHints DEF StoreRefuse, hubVars
  <2> QED BY <1>0, <1>3, <2>1 DEF Hinted, StoreRefuse, clientVars
<1>4. CASE StoreLose(c)
  <2>1. HintPending(w, k) => HintPending(w, k)'
    <3>1. call[c].hints \in Seq(Event) /\ call[c].phase = "store"
      BY <1>c, <1>4 DEF CallRecord, StoreLose, CanCommit
    <3> QED BY <1>0, <1>4, <3>1, KeyDoneKeepsHints DEF StoreLose, hubVars
  <2>2. k = Target(c) \/ objects'[k] = objects[k]
    BY <1>0, <1>4 DEF StoreLose, Apply, TypeOK
  <2>3. unhinted'[w] = unhinted[w] \cup {Target(c)}
    BY <1>4 DEF StoreLose, Unhint
  <2> QED BY <1>0, <1>4, <2>1, <2>2, <2>3 DEF Hinted, StoreLose, clientVars
<1>5. CASE Publish(c)
  <2> DEFINE e == Head(call[c].hints)
  <2>1. /\ e \in Event /\ Dispatch(e)
        /\ call[c].hints \in Seq(Event) /\ call[c].hints # <<>>
        /\ call'[c].hints = Tail(call[c].hints)
        /\ \A d \in Calls \ {c} : call'[d] = call[d]
    BY <1>c, <1>5 DEF Publish, CallRecord
  <2>2. /\ taken'[w] = taken[w] /\ taken[w] \in Nat /\ Len(log) \in Nat
        /\ stream[w] \in Seq(Nat \ {0})
        /\ \A n \in 1..Len(log) : log'[n] = log[n]
        /\ log'[Len(log) + 1] = e
        /\ stream'[w] = IF w \in Reached(e) THEN Append(stream[w], Len(log) + 1)
                                            ELSE stream[w]
        /\ Backlog(w) \in 0..subBuffer
    BY <2>1 DEF Dispatch, HubInv, HubTypeOK
  <2>3. ASSUME NEW i \in (taken[w] + 1)..Len(stream[w])
        PROVE  /\ i \in (taken'[w] + 1)..Len(stream'[w])
               /\ log'[stream'[w][i]] = log[stream[w][i]]
    <3>1. i \in 1..Len(stream[w]) /\ stream[w][i] \in 1..Len(log)
      BY <2>3, InChannel
    <3>2. i \in 1..Len(stream'[w]) /\ stream'[w][i] = stream[w][i]
      BY <2>2, <3>1
    <3> QED BY <2>2, <2>3, <3>1, <3>2
  <2>4. ASSUME e.key = k PROVE HintPending(w, k)'
    <3>1. w \in Reached(e)
      <4>1. w \in subs /\ w \in subs'
        BY <1>0 DEF InTouch, HubInv, ChannelDiscipline
      <4>2. w \notin Full(e)
        BY <2>1, <4>1 DEF Dispatch
      <4> QED BY <1>0, <2>2, <2>4, <4>1, <4>2, HubAssumption DEF Full, Reached, Matches
    <3>2. /\ Len(stream'[w]) = Len(stream[w]) + 1
          /\ stream'[w][Len(stream[w]) + 1] = Len(log) + 1
      BY <2>2, <3>1
    <3>3. Len(stream[w]) + 1 \in (taken'[w] + 1)..Len(stream'[w])
      BY <2>2, <3>2 DEF Backlog
    <3> QED BY <2>2, <2>4, <3>2, <3>3 DEF HintPending
  <2>5. HintPending(w, k) => HintPending(w, k)'
    <3>1. ASSUME NEW i \in (taken[w] + 1)..Len(stream[w]), log[stream[w][i]].key = k
          PROVE  HintPending(w, k)'
      BY <2>3, <3>1 DEF HintPending
    <3>2. ASSUME NEW d \in Calls, NEW i \in 1..Len(call[d].hints), call[d].hints[i].key = k
          PROVE  HintPending(w, k)'
      <4>1. CASE d # c
        BY <2>1, <3>2, <4>1 DEF HintPending
      <4>2. CASE d = c /\ i = 1
        BY <2>1, <2>4, <3>2, <4>2
      <4>3. CASE d = c /\ i # 1
        <5>1. i - 1 \in 1..Len(call'[c].hints) /\ call'[c].hints[i - 1] = call[c].hints[i]
          BY <2>1, <3>2, <4>3
        <5> QED BY <3>2, <4>3, <5>1 DEF HintPending
      <4> QED BY <4>1, <4>2, <4>3
    <3> QED BY <3>1, <3>2 DEF HintPending
  <2> QED BY <1>0, <1>5, <2>5 DEF Hinted, Publish, clientVars
<1>6. CASE Reply(c)
  <2>1. \A d \in Calls : call'[d].hints = call[d].hints
    BY <1>c, <1>6 DEF Reply, CallRecord
  <2>2. HintPending(w, k) => HintPending(w, k)'
    BY <1>0, <1>6, <2>1, PendingKept DEF Reply, hubVars
  <2> QED BY <1>0, <1>6, <2>2 DEF Hinted, Reply, clientVars
<1> QED BY <1>1, <1>2, <1>3, <1>4, <1>5, <1>6 DEF CallStep

LEMMA WatchStepHinted ==
  ASSUME GatewayInv, HubInv', NEW v \in Watchers, WatchStep(v),
         NEW w \in Watchers, InTouch(w)', NEW k \in scope'[w]
  PROVE  Hinted(w, k)'
<1> USE DEF GatewayInv
<1>1. ASSUME NEW sc \in Scopes, WatchSubscribe(v, sc) PROVE Hinted(w, k)'
  <2>1. w # v
    BY <1>1 DEF WatchSubscribe, InTouch, TypeOK
  <2>2. InTouch(w) /\ k \in scope[w] /\ k \in Keys
    BY <1>1, <2>1 DEF WatchSubscribe, Subscribe, InTouch, HubInv, HubTypeOK, TypeOK
  <2>3. HintPending(w, k) => HintPending(w, k)'
    BY <1>1, <2>2, PendingKept DEF WatchSubscribe, Subscribe, callVars
  <2> QED BY <1>1, <2>2, <2>3
      DEF EveryChangeIsHinted, Hinted, WatchSubscribe, callVars, clientVars
<1>2. CASE WatchHeader(v)
  <2>1. k \in scope[w] /\ k \in Keys
    BY <1>2 DEF WatchHeader, hubVars, HubInv, HubTypeOK
  <2>2. CASE w = v
    BY <1>2, <2>1, <2>2 DEF WatchHeader, Hinted, TypeOK
  <2>3. CASE w # v
    <3>1. InTouch(w)
      BY <1>2, <2>3 DEF WatchHeader, hubVars, InTouch, TypeOK
    <3>2. HintPending(w, k) => HintPending(w, k)'
      BY <1>2, <2>1, PendingKept DEF WatchHeader, hubVars, callVars
    <3> QED BY <1>2, <2>1, <2>3, <3>1, <3>2
        DEF EveryChangeIsHinted, Hinted, WatchHeader, callVars, TypeOK
  <2> QED BY <2>2, <2>3
<1>3. CASE WatchSend(v)
  <2> DEFINE n == taken[v] + 1
  <2>1. InTouch(w) /\ k \in scope[w] /\ k \in Keys
    BY <1>3 DEF WatchSend, Receive, InTouch, HubInv, HubTypeOK
  <2>2. UNCHANGED <<stream, log, call, objects, seen, unhinted>>
    BY <1>3 DEF WatchSend, Receive, callVars
  <2>3. stale[w] \subseteq stale'[w]
    BY <1>3 DEF WatchSend, TypeOK
  <2>4. CASE w # v
    <3>1. taken'[w] = taken[w]
      BY <1>3, <2>4 DEF WatchSend, Receive, HubInv, HubTypeOK
    <3> QED BY <2>1, <2>2, <2>3, <3>1 DEF EveryChangeIsHinted, Hinted, HintPending
  <2>5. CASE w = v
    <3>1. taken'[w] = n /\ taken[w] \in Nat /\ Len(stream[w]) \in Nat
      BY <1>3, <2>5 DEF WatchSend, Receive, HubInv, HubTypeOK
    <3>2. log[stream[w][n]].key \in stale'[w]
      BY <1>3, <2>5 DEF WatchSend, TypeOK
    <3>3. ASSUME NEW i \in (taken[w] + 1)..Len(stream[w]), log[stream[w][i]].key = k
          PROVE  Hinted(w, k)'
      <4>1. CASE i = n
        BY <3>2, <3>3, <4>1 DEF Hinted
      <4>2. CASE i # n
        <5>1. i \in (taken'[w] + 1)..Len(stream[w])
          BY <2>5, <3>1, <3>3, <4>2
        <5> QED BY <2>2, <3>3, <5>1 DEF Hinted, HintPending
      <4> QED BY <4>1, <4>2
    <3> QED BY <2>1, <2>2, <2>3, <3>3 DEF EveryChangeIsHinted, Hinted, HintPending
  <2> QED BY <2>4, <2>5
<1>4. CASE WatchBehind(v) \/ WatchGone(v)
  <2>1. w # v
    BY <1>4 DEF WatchBehind, WatchGone, InTouch, TypeOK
  <2>2. InTouch(w) /\ k \in scope[w] /\ k \in Keys
    BY <1>4, <2>1 DEF WatchBehind, WatchGone, CloseSubscription, CloseChannels,
                      Unsubscribed, InTouch, HubInv, HubTypeOK, TypeOK
  <2>3. UNCHANGED <<stream, taken, log, call, objects, seen, stale, unhinted>>
    BY <1>4 DEF WatchBehind, WatchGone, CloseSubscription, callVars, clientVars
  <2> QED BY <2>2, <2>3 DEF EveryChangeIsHinted, Hinted, HintPending
<1>5. ASSUME NEW r \in Keys, Refresh(v, r) PROVE Hinted(w, k)'
  <2>1. InTouch(w) /\ k \in scope[w] /\ k \in Keys
    BY <1>5 DEF Refresh, hubVars, InTouch, HubInv, HubTypeOK
  <2>2. CASE w = v /\ k = r
    BY <1>5, <2>1, <2>2 DEF Refresh, Hinted, TypeOK, callVars
  <2>3. CASE ~(w = v /\ k = r)
    <3>1. /\ seen'[w][k] = seen[w][k]
          /\ k \in stale[w] => k \in stale'[w]
          /\ k \in unhinted[w] => k \in unhinted'[w]
          /\ UNCHANGED <<stream, taken, log, call, objects>>
      BY <1>5, <2>1, <2>3 DEF Refresh, TypeOK, hubVars, callVars
    <3> QED BY <2>1, <3>1 DEF EveryChangeIsHinted, Hinted, HintPending
  <2> QED BY <2>2, <2>3
<1> QED BY <1>1, <1>2, <1>3, <1>4, <1>5 DEF WatchStep

LEMMA OutsideStepHinted ==
  ASSUME GatewayInv, HubInv', NEW w \in Watchers, InTouch(w)', NEW k \in scope'[w],
         \/ \E j \in Keys, o \in Outside : WriteOutside(j, o)
         \/ Shutdown
         \/ UNCHANGED vars
  PROVE  Hinted(w, k)'
<1> USE DEF GatewayInv
<1>1. ASSUME NEW j \in Keys, NEW o \in Outside, WriteOutside(j, o) PROVE Hinted(w, k)'
  <2>1. InTouch(w) /\ k \in scope[w] /\ k \in Keys
    BY <1>1 DEF WriteOutside, hubVars, InTouch, HubInv, HubTypeOK
  <2>2. k \in unhinted'[w] \/ objects'[k] = objects[k]
    BY <1>1, <2>1 DEF WriteOutside, Unhint, TypeOK
  <2>3. /\ unhinted[w] \subseteq unhinted'[w]
        /\ UNCHANGED <<stream, taken, log, call, seen, stale>>
    BY <1>1 DEF WriteOutside, Unhint, hubVars, clientVars
  <2> QED BY <2>1, <2>2, <2>3 DEF EveryChangeIsHinted, Hinted, HintPending
<1>2. CASE Shutdown \/ UNCHANGED vars
  <2>1. InTouch(w) /\ k \in scope[w]
    BY <1>2 DEF Shutdown, CloseHub, CloseChannels, vars, hubVars, InTouch, HubInv,
                HubTypeOK, ChannelDiscipline
  <2>2. UNCHANGED <<stream, taken, log, call, objects, seen, stale, unhinted>>
    BY <1>2 DEF Shutdown, CloseHub, vars, hubVars, callVars, clientVars
  <2> QED BY <2>1, <2>2 DEF EveryChangeIsHinted, Hinted, HintPending
<1> QED BY <1>1, <1>2

LEMMA GatewayNext == GatewayInv /\ [Next]_vars => GatewayInv'
<1> SUFFICES ASSUME GatewayInv, [Next]_vars PROVE GatewayInv'
  OBVIOUS
<1>1. TypeOK' /\ Phases' /\ HubInv'
  BY GatewayTyped
<1>2. ASSUME NEW w \in Watchers, InTouch(w)', NEW k \in scope'[w]
      PROVE  Hinted(w, k)'
  BY <1>1, <1>2, CallStepHinted, WatchStepHinted, OutsideStepHinted DEF Next
<1> QED BY <1>1, <1>2 DEF GatewayInv, EveryChangeIsHinted, Hinted

\* The gateway's state, and the hub's under it, stays well typed whatever order
\* the steps of the calls and of the streams come in.
THEOREM GatewayTypeCorrect == Spec => []TypeOK
<1>1. GatewayInv => TypeOK
  BY DEF GatewayInv
<1> QED BY <1>1, GatewayInit, GatewayNext, PTL DEF Spec

\* Publishing after the write, outside any lock, still hints every change: where
\* the index of a client in touch is out of date, the client knows or a hint that
\* says so is on its way.
THEOREM GatewayHints == Spec => []EveryChangeIsHinted
<1>1. GatewayInv => EveryChangeIsHinted
  BY DEF GatewayInv
<1> QED BY <1>1, GatewayInit, GatewayNext, PTL DEF Spec

-----------------------------------------------------------------------------
(* What the events say of the writes and of the order of the calls *)

\* A call's events are its own, of writes made and told of; it is answered only
\* when none is left, and it has begun when one is in the log.  A call that began
\* after another began after the other's answer.
Promises ==
  /\ \A c \in Calls : \A i \in 1..Len(call[c].hints) :
       call[c].hints[i].call = c /\ Announced(call[c].hints[i])
  /\ \A c \in Calls : Answered(c) => call[c].hints = <<>>
  /\ \A c \in Calls : \A d \in before[c] : Answered(d)
  /\ \A n \in 1..Len(log) : call[log[n].call].phase # "idle"

PromiseInv == GatewayInv /\ Promises /\ NoPhantomEvent /\ OrderOfCalls

\* A step of a call is about that call alone: what it may do to the call's
\* record, to the hub's log and to the history of the writes.
LEMMA CallStepShape ==
  ASSUME GatewayInv, Promises, NEW c \in Calls, CallStep(c)
  PROVE  /\ \A d \in Calls \ {c} : call'[d] = call[d]
         /\ call'[c].phase # "idle" /\ ~Answered(c)
         /\ call'[c].phase \in {"done", "failed"} => call'[c].hints = <<>>
         /\ \/ UNCHANGED log
            \/ /\ call[c].phase # "idle" /\ call[c].hints # <<>>
               /\ log' = Append(log, Head(call[c].hints))
         /\ \/ call[c].phase = "idle" /\ before' = [before EXCEPT ![c] = {b \in Calls : Answered(b)}]
            \/ before' = before
<1> USE DEF GatewayInv
<1>0. call \in [Calls -> CallRecord]
  BY DEF TypeOK, CallRecord
<1>1. ASSUME NEW r \in Requests, Begin(c, r)
      PROVE  /\ \A d \in Calls \ {c} : call'[d] = call[d]
             /\ call'[c].phase = "store" /\ call[c].phase = "idle"
             /\ log' = log /\ before' = [before EXCEPT ![c] = {b \in Calls : Answered(b)}]
  BY <1>0, <1>1 DEF Begin, hubVars
<1>2. ASSUME NEW hints \in Seq(Event), call[c].phase = "store", KeyDone(c, hints)
      PROVE  /\ \A d \in Calls \ {c} : call'[d] = call[d]
             /\ call'[c].phase \in {"store", "publish", "failed"}
             /\ call'[c].phase = "failed" => call'[c].hints = <<>>
  <2>1. \A d \in Calls \ {c} : call'[d] = call[d]
    BY <1>2, KeyDoneTyped
  <2>2. /\ call'[c].hints = hints
        /\ call'[c].phase = IF Tail(call[c].todo) # <<>> THEN "store"
                            ELSE IF hints = <<>> /\ call[c].req.op # "deletemany"
                                 THEN "failed" ELSE "publish"
    BY <1>0, <1>2 DEF KeyDone, CallRecord
  <2> QED BY <2>1, <2>2
<1>3. call[c].hints \in Seq(Event)
  BY <1>0 DEF CallRecord
<1>4. CASE StoreCommit(c)
  <2>1. EventOf(c) \in Event /\ call[c].phase = "store"
    BY <1>4, EventTyped DEF StoreCommit, CanCommit
  <2>2. Append(call[c].hints, EventOf(c)) \in Seq(Event)
    BY <1>3, <2>1
  <2> QED BY <1>2, <1>4, <2>1, <2>2 DEF StoreCommit, Answered, hubVars
<1>5. CASE StoreRefuse(c) \/ StoreLose(c)
  BY <1>2, <1>3, <1>5 DEF StoreRefuse, StoreLose, CanCommit, Answered, hubVars
<1>6. CASE Publish(c)
  <2>1. call[c].hints # <<>> /\ call[c].phase \notin {"idle", "done", "failed"}
    BY <1>6 DEF Publish, Phases, Promises, Answered
  <2>2. /\ \A d \in Calls \ {c} : call'[d] = call[d]
        /\ call'[c].phase = call[c].phase
    BY <1>0, <1>6 DEF Publish, CallRecord
  <2> QED BY <1>6, <2>1, <2>2 DEF Publish, Dispatch, Answered
<1>7. CASE Reply(c)
  <2>1. /\ \A d \in Calls \ {c} : call'[d] = call[d]
        /\ call'[c].phase = "done" /\ call'[c].hints = call[c].hints
    BY <1>0, <1>7 DEF Reply, CallRecord
  <2> QED BY <1>7, <2>1 DEF Reply, Answered, hubVars
<1> QED BY <1>1, <1>4, <1>5, <1>6, <1>7 DEF CallStep, Answered

\* A write that was announced stays so: a later write has a later place.
LEMMA AnnouncedKept ==
  ASSUME TypeOK, NEW e, NEW x \in Event, Announced(e),
         \/ UNCHANGED <<commits, lost>>
         \/ commits' = Append(commits, x) /\ lost' \subseteq lost \cup {Len(commits) + 1}
  PROVE  Announced(e)'
<1>1. PICK i \in 1..Len(commits) : i \notin lost /\ commits[i] = e
  BY DEF Announced
<1>2. commits \in Seq(Event) /\ Len(commits) \in Nat
  BY DEF TypeOK
<1>3. i \in 1..Len(commits') /\ i \notin lost' /\ commits'[i] = e
  BY <1>1, <1>2
<1> QED BY <1>3 DEF Announced

\* After a step of a call, the call has only events it had, and the one of a
\* write just made and told of.
LEMMA CallStepHints ==
  ASSUME GatewayInv, Promises, NEW c \in Calls, CallStep(c)
  PROVE  /\ \A e : Announced(e) => Announced(e)'
         /\ \A i \in 1..Len(call'[c].hints) : \A e :
              e = call'[c].hints[i] => e.call = c /\ Announced(e)'
<1> USE DEF GatewayInv
<1>0. call \in [Calls -> CallRecord] /\ call[c].hints \in Seq(Event)
  BY DEF TypeOK, CallRecord
<1>1. \A i \in 1..Len(call[c].hints) :
        call[c].hints[i].call = c /\ Announced(call[c].hints[i])
  BY DEF Promises
<1>2. ASSUME UNCHANGED <<commits, lost>> PROVE \A e : Announced(e) => Announced(e)'
  BY <1>2 DEF Announced
<1>3. ASSUME CanCommit(c), Apply(c), lost' \subseteq lost \cup {Len(commits) + 1}
      PROVE  \A e : Announced(e) => Announced(e)'
  <2>1. EventOf(c) \in Event
    BY <1>3, EventTyped
  <2> QED BY <1>3, <2>1, AnnouncedKept DEF Apply
<1>4. ASSUME NEW r \in Requests, Begin(c, r)
      PROVE  call'[c].hints = <<>> /\ UNCHANGED <<commits, lost>>
  BY <1>0, <1>4 DEF Begin
<1>5. CASE StoreCommit(c)
  <2> DEFINE hints == Append(call[c].hints, EventOf(c))
  <2>1. EventOf(c) \in Event /\ call[c].phase = "store" /\ EventOf(c).call = c
    BY <1>5, EventTyped DEF StoreCommit, CanCommit, EventOf
  <2>2. /\ hints \in Seq(Event)
        /\ \A i \in 1..Len(hints) :
             (i \in 1..Len(call[c].hints) /\ hints[i] = call[c].hints[i]) \/ hints[i] = EventOf(c)
    BY <1>0, <2>1
  <2>3. KeyDone(c, hints)
    BY <1>5 DEF StoreCommit
  <2> HIDE DEF hints
  <2>4. call'[c].hints = hints
    BY <2>1, <2>2, <2>3, KeyDoneTyped
  <2>5. \A e : Announced(e) => Announced(e)'
    BY <1>3, <1>5 DEF StoreCommit
  <2>6. ASSUME NEW e, e = EventOf(c) PROVE Announced(e)'
    <3>1. commits' = Append(commits, EventOf(c)) /\ lost' = lost
      BY <1>5 DEF StoreCommit, Apply
    <3>2. /\ Len(commits') = Len(commits) + 1 /\ Len(commits) \in Nat
          /\ commits'[Len(commits) + 1] = EventOf(c)
      BY <2>1, <3>1 DEF TypeOK
    <3>3. Len(commits) + 1 \notin lost'
      BY <3>1, <3>2 DEF TypeOK
    <3>4. \E i \in 1..Len(commits') : i \notin lost' /\ commits'[i] = e
      BY <2>6, <3>2, <3>3
    <3> QED BY <3>4 DEF Announced
  <2> QED BY <1>1, <2>1, <2>2, <2>4, <2>5, <2>6
<1>6. CASE StoreRefuse(c)
  <2>0. KeyDone(c, call[c].hints) /\ call[c].phase = "store" /\ call[c].hints \in Seq(Event)
    BY <1>0, <1>6 DEF StoreRefuse
  <2>1. call'[c].hints = call[c].hints
    BY <2>0, KeyDoneTyped
  <2> QED BY <1>1, <1>2, <1>6, <2>1 DEF StoreRefuse
<1>7. CASE StoreLose(c)
  <2>0. KeyDone(c, call[c].hints) /\ call[c].phase = "store" /\ call[c].hints \in Seq(Event)
    BY <1>0, <1>7 DEF StoreLose, CanCommit
  <2>1. call'[c].hints = call[c].hints
    BY <2>0, KeyDoneTyped
  <2> QED BY <1>1, <1>3, <1>7, <2>1 DEF StoreLose
<1>8. CASE Publish(c)
  <2>1. call'[c].hints = Tail(call[c].hints)
    BY <1>0, <1>8 DEF Publish, CallRecord
  <2>2. \A i \in 1..Len(Tail(call[c].hints)) :
          i + 1 \in 1..Len(call[c].hints) /\ Tail(call[c].hints)[i] = call[c].hints[i + 1]
    BY <1>0, <1>8 DEF Publish
  <2> QED BY <1>1, <1>2, <1>8, <2>1, <2>2 DEF Publish
<1>9. CASE Reply(c)
  <2>1. call'[c].hints = call[c].hints
    BY <1>0, <1>9 DEF Reply, CallRecord
  <2> QED BY <1>1, <1>2, <1>9, <2>1 DEF Reply
<1> QED BY <1>2, <1>4, <1>5, <1>6, <1>7, <1>8, <1>9 DEF CallStep

LEMMA PromisesInit == Init => Promises /\ NoPhantomEvent /\ OrderOfCalls
<1> SUFFICES ASSUME Init PROVE Promises /\ NoPhantomEvent /\ OrderOfCalls
  OBVIOUS
<1>1. Len(log) = 0
  BY DEF Init, HubInit
<1>2. \A c \in Calls : call[c].hints = <<>> /\ before[c] = {}
  BY DEF Init
<1> QED BY <1>1, <1>2 DEF Promises, NoPhantomEvent, OrderOfCalls

\* Nothing of this depends on more than the calls, their writes and the log.
LEMMA PromisesFrame ==
  Promises /\ NoPhantomEvent /\ OrderOfCalls /\ UNCHANGED <<callVars, log>>
    => Promises' /\ NoPhantomEvent' /\ OrderOfCalls'
BY DEF Promises, NoPhantomEvent, OrderOfCalls, Announced, Answered, callVars

LEMMA CallStepPromises ==
  ASSUME PromiseInv, NEW c \in Calls, CallStep(c)
  PROVE  Promises' /\ NoPhantomEvent' /\ OrderOfCalls'
<1> USE DEF PromiseInv
<1>0. /\ call[c].hints \in Seq(Event) /\ log \in Seq(Event) /\ Len(log) \in Nat
      /\ before \in [Calls -> SUBSET Calls]
  BY DEF GatewayInv, TypeOK, HubTypeOK
<1>1. /\ \A d \in Calls \ {c} : call'[d] = call[d]
      /\ call'[c].phase # "idle" /\ ~Answered(c)
      /\ call'[c].phase \in {"done", "failed"} => call'[c].hints = <<>>
      /\ \/ UNCHANGED log
         \/ /\ call[c].phase # "idle" /\ call[c].hints # <<>>
            /\ log' = Append(log, Head(call[c].hints))
      /\ \/ call[c].phase = "idle" /\ before' = [before EXCEPT ![c] = {b \in Calls : Answered(b)}]
         \/ before' = before
  BY CallStepShape
<1>2. /\ \A e : Announced(e) => Announced(e)'
      /\ \A i \in 1..Len(call'[c].hints) : \A e :
           e = call'[c].hints[i] => e.call = c /\ Announced(e)'
  BY CallStepHints
<1>3. \A n \in 1..Len(log) : log[n].call \in Calls
  <2>1. \A n \in 1..Len(log) : log[n] \in Event
    BY <1>0
  <2>2. \A e \in Event : e.call \in Calls
    BY GatewayAssumption
  <2> QED BY <2>1, <2>2
<1>4. ASSUME NEW n \in 1..Len(log')
      PROVE  \/ n \in 1..Len(log) /\ log'[n] = log[n]
             \/ /\ n = Len(log) + 1 /\ log'[n].call = c /\ call[c].phase # "idle"
                /\ \A e : e = log'[n] => Announced(e)
  <2>1. CASE UNCHANGED log
    BY <2>1
  <2>2. CASE ~UNCHANGED log
    <3>1. /\ call[c].phase # "idle" /\ call[c].hints # <<>>
          /\ log' = Append(log, Head(call[c].hints))
      BY <1>1, <2>2
    <3>2. /\ 1 \in 1..Len(call[c].hints) /\ Head(call[c].hints) = call[c].hints[1]
          /\ Head(call[c].hints) \in Event
      BY <1>0, <3>1
    <3>3. Head(call[c].hints).call = c /\ Announced(Head(call[c].hints))
      BY <3>2 DEF Promises
    <3> QED BY <1>0, <3>1, <3>2, <3>3
  <2> QED BY <2>1, <2>2
<1>5. \A d \in Calls : \A b \in before'[d] :
        Answered(b) /\ (b \in before[d] \/ (d = c /\ call[c].phase = "idle"))
  BY <1>0, <1>1 DEF Promises
<1>6. Promises'
  <2>1. ASSUME NEW d \in Calls, NEW i \in 1..Len(call'[d].hints), NEW e, e = call'[d].hints[i]
        PROVE  e.call = d /\ Announced(e)'
    BY <1>1, <1>2, <2>1 DEF Promises
  <2>2. \A d \in Calls : Answered(d)' => call'[d].hints = <<>>
    BY <1>1 DEF Promises, Answered
  <2>3. \A d \in Calls : \A b \in before'[d] : Answered(b)'
    <3>1. \A d \in Calls : before'[d] \subseteq Calls
      BY <1>0, <1>1
    <3> QED BY <1>1, <1>5, <3>1 DEF Answered
  <2>4. ASSUME NEW n \in 1..Len(log') PROVE call'[log'[n].call].phase # "idle"
    BY <1>1, <1>3, <1>4 DEF Promises
  <2>5. ASSUME NEW d \in Calls, NEW i \in 1..Len(call'[d].hints)
        PROVE  /\ call'[d].hints[i].call = d
               /\ \E m \in 1..Len(commits') : m \notin lost' /\ commits'[m] = call'[d].hints[i]
    BY <2>1 DEF Announced
  <2> QED BY <2>2, <2>3, <2>4, <2>5 DEF Promises, Announced
<1>7. NoPhantomEvent'
  <2>1. ASSUME NEW n \in 1..Len(log'), NEW e, e = log'[n] PROVE Announced(e)'
    BY <1>2, <1>4, <2>1 DEF NoPhantomEvent
  <2> QED BY <2>1 DEF NoPhantomEvent, Announced
<1>8. OrderOfCalls'
  <2> SUFFICES ASSUME NEW i \in 1..Len(log'), NEW j \in 1..Len(log'), i < j
               PROVE  log'[j].call \notin before'[log'[i].call]
    BY DEF OrderOfCalls
  <2>1. i \in 1..Len(log) /\ log'[i] = log[i] /\ log[i].call \in Calls
    <3>1. i # Len(log) + 1
      BY <1>0, <1>4
    <3> QED BY <1>3, <1>4, <3>1
  <2>2. log[i].call # c \/ call[c].phase # "idle"
    BY <2>1 DEF Promises
  <2>3. CASE j \in 1..Len(log) /\ log'[j] = log[j]
    BY <1>5, <2>1, <2>2, <2>3 DEF OrderOfCalls
  <2>4. CASE log'[j].call = c
    BY <1>1, <1>5, <2>1, <2>4
  <2> QED BY <1>4, <2>3, <2>4
<1> QED BY <1>6, <1>7, <1>8

LEMMA PromisesNext == PromiseInv /\ [Next]_vars => PromiseInv'
<1> SUFFICES ASSUME PromiseInv, [Next]_vars PROVE PromiseInv'
  OBVIOUS
<1>1. GatewayInv'
  BY GatewayNext DEF PromiseInv
<1>2. ASSUME NEW c \in Calls, CallStep(c) PROVE PromiseInv'
  BY <1>1, <1>2, CallStepPromises DEF PromiseInv
<1>3. CASE UNCHANGED <<callVars, log>>
  BY <1>1, <1>3, PromisesFrame DEF PromiseInv
<1>4. ASSUME NEW w \in Watchers, WatchStep(w) PROVE UNCHANGED <<callVars, log>>
  BY <1>4 DEF WatchStep, WatchSubscribe, Subscribe, WatchHeader, WatchSend, Receive,
              WatchBehind, WatchGone, CloseSubscription, Refresh, hubVars
<1>5. ASSUME NEW k \in Keys, NEW o \in Outside, WriteOutside(k, o) PROVE PromiseInv'
  <2>1. UNCHANGED <<call, commits, lost, before, log>>
    BY <1>5 DEF WriteOutside, hubVars
  <2> QED BY <1>1, <2>1 DEF PromiseInv, Promises, NoPhantomEvent, OrderOfCalls, Announced, Answered
<1>6. CASE Shutdown \/ UNCHANGED vars
  BY <1>3, <1>6 DEF Shutdown, CloseHub, vars, hubVars
<1> QED BY <1>2, <1>3, <1>4, <1>5, <1>6 DEF Next

\* However calls overlap, fail or lose their answers, an event is published only
\* for a write the store made and whose caller is told of it.
THEOREM GatewayNoPhantom == Spec => []NoPhantomEvent
<1>1. Init => PromiseInv
  BY GatewayInit, PromisesInit DEF PromiseInv
<1>2. PromiseInv => NoPhantomEvent
  BY DEF PromiseInv
<1> QED BY <1>1, <1>2, PromisesNext, PTL DEF Spec

\* No event follows that of a call which began after the event's own call was
\* answered: a call publishes its last event before it answers.
THEOREM GatewayOrder == Spec => []OrderOfCalls
<1>1. Init => PromiseInv
  BY GatewayInit, PromisesInit DEF PromiseInv
<1>2. PromiseInv => OrderOfCalls
  BY DEF PromiseInv
<1> QED BY <1>1, <1>2, PromisesNext, PTL DEF Spec

\* The gateway implements the hub: under any schedule of calls and streams, what
\* happens to the subscriptions is a run of the methods of events.go.
THEOREM GatewayImplementsHub == Spec => HubSpec
<1>1. Init => HubInit
  BY DEF Init
<1>2. GatewayInv /\ [Next]_vars => [HubNext]_hubVars
  BY HubSteps DEF GatewayInv
<1> QED BY <1>1, <1>2, GatewayInit, GatewayNext, PTL DEF Spec, HubSpec

\* So no order of calls, streams and shutdown panics the process, and each
\* stream's events are a contiguous run of those its prefix matches.
THEOREM GatewayStreams == Spec => [](ChannelDiscipline /\ ContiguousUntilDropped)
<1>1. GatewayInv => ChannelDiscipline /\ ContiguousUntilDropped
  BY DEF GatewayInv, HubInv
<1> QED BY <1>1, GatewayInit, GatewayNext, PTL DEF Spec
=============================================================================
