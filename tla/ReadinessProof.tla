--------------------------- MODULE ReadinessProof ---------------------------
(* Proofs about Readiness: what a verdict says and how old it can be, what a *)
(* success of the agent's wait says and when the wait cannot fail, for every *)
(* interval, timeout and budget.                                             *)
EXTENDS Readiness, TLAPS

vAgent == {"idle", "checking", "asking", "pausing", "ready", "rejected", "gaveUp", "cancelled"}

\* Of two clocks that run together, the one behind stays behind.
LEMMA RunTogether ==
  ASSUME NEW h \in Nat, NEW gap \in Nat, NEW a \in Nat, NEW b \in Nat,
         NEW a1 \in Nat, NEW b1 \in Nat,
         a <= b + gap, a1 <= a + 1, a1 <= h, b1 = b + 1 \/ b1 = h
  PROVE  a1 <= b1 + gap
OBVIOUS

\* What is due by a tick is due by it one later.
LEMMA TickDue ==
  ASSUME NEW p \in Nat, NEW a \in Nat, NEW a1 \in Nat, NEW t \in Nat,
         t > 0, a + t <= p, a1 <= a + 1
  PROVE  a1 <= p /\ a1 + (t - 1) <= p
OBVIOUS

LEMMA TimesArePositive ==
  /\ Interval \in Nat \ {0} /\ Timeout \in Nat \ {0} /\ Attempt \in Nat \ {0}
  /\ Poll \in Nat \ {0} /\ Budget \in Nat \ {0} /\ Grace \in Nat \ {0}
  /\ Horizon \in Nat \ {0} /\ Attempt <= Budget
BY TimesAssumption

-----------------------------------------------------------------------------
(* Types *)

LEMMA TypeInit == Init => TypeOK
<1> SUFFICES ASSUME Init PROVE TypeOK
  OBVIOUS
<1>1. 0 \in Times /\ Horizon \in Times /\ 0 \in 0..Grace /\ 0 \in 0..Timeout
      /\ 0 \in 0..Interval /\ 0 \in 0..Budget /\ 0 \in 0..Attempt /\ Poll \in 1..Poll
  BY TimesArePositive DEF Times
<1>2. sinceUp \in Times
  BY <1>1 DEF Init
<1> QED BY <1>1, <1>2, Zenon DEF Init, TypeOK, Statuses

LEMMA MonitorTyped == TypeOK /\ Monitor => TypeOK'
<1> SUFFICES ASSUME TypeOK, Monitor PROVE TypeOK'
  OBVIOUS
<1> USE DEF TypeOK, procVars, agentVars
<1>0. 0 \in Times /\ 0 \in 0..Timeout /\ Interval \in 0..Interval /\ {} \in SUBSET BOOLEAN
  BY TimesArePositive DEF Times
<1>1. CASE ProbeReturns
  BY <1>1 DEF ProbeReturns
<1>2. CASE Discard
  BY <1>0, <1>2 DEF Discard, ProbeIsOver, TickerRuns
<1>3. CASE Judge
  <2>1. verdict' \in {"ready", "unready"} /\ last' \in Statuses /\ mon' \in {"publishing", "waiting"}
    BY <1>3 DEF Judge, StatusOf, Statuses
  <2> QED BY <1>0, <1>3, <2>1 DEF Judge, ProbeIsOver, TickerRuns
<1>4. CASE Publish
  BY <1>4 DEF Publish
<1>5. CASE NextProbe
  <2>1. {up} \in SUBSET BOOLEAN
    OBVIOUS
  <2> QED BY <1>5, <2>1 DEF NextProbe
<1>6. CASE MonitorStops
  BY <1>6 DEF MonitorStops
<1> QED BY <1>1, <1>2, <1>3, <1>4, <1>5, <1>6 DEF Monitor

LEMMA ProcessTyped ==
  ASSUME TypeOK,
         \/ Process
         \/ Signal
         \/ ServeFails
         \/ \E s \in Streams : OpenStream(s) \/ CloseStream(s)
  PROVE  TypeOK'
<1> USE DEF TypeOK, monVars, agentVars
<1>0. 0 \in Times
  BY TimesArePositive DEF Times
<1>1. CASE Process
  BY <1>1 DEF Process, Serve, Drained, Stop, Unwind
<1>2. CASE Signal \/ ServeFails
  BY <1>0, <1>2 DEF Signal, ServeFails
<1>3. ASSUME NEW s \in Streams, OpenStream(s) \/ CloseStream(s) PROVE TypeOK'
  BY <1>3 DEF OpenStream, CloseStream
<1> QED BY <1>1, <1>2, <1>3

LEMMA AgentTyped ==
  ASSUME TypeOK, Wait \/ Agent \/ Cancel
  PROVE  TypeOK'
<1> USE DEF TypeOK, procVars, monVars
<1>0. 0 \in 0..Attempt /\ 0 \in 0..Budget /\ Poll \in 1..Poll
  BY TimesArePositive
<1>1. ASSUME NEW how \in vAgent, Return(how), UNCHANGED <<up, procVars, monVars, age, sinceUp, good>>
      PROVE  TypeOK'
  <2>1. /\ agent' \in vAgent /\ waited' \in 0..Budget /\ asked' \in 0..Attempt
        /\ toPoll' \in 1..Poll /\ polled' \in BOOLEAN
    BY <1>0, <1>1 DEF Return
  <2> QED BY <1>1, <2>1, Zenon DEF vAgent
<1>2. ASSUME Pause, UNCHANGED <<up, procVars, monVars, age, sinceUp, good>>
      PROVE  TypeOK'
  BY <1>0, <1>2 DEF Pause
<1>3. CASE Wait \/ Ask \/ Again
  BY <1>3 DEF Wait, Ask, Again
<1>4. CASE Answered \/ NotAnswered \/ GiveUp \/ Cancel
  BY <1>1, <1>2, <1>4 DEF Answered, NotAnswered, GiveUp, Cancel, vAgent
<1> QED BY <1>3, <1>4 DEF Agent

LEMMA ElapseTyped == TypeOK /\ Elapse => TypeOK'
<1> SUFFICES ASSUME TypeOK, Elapse PROVE TypeOK'
  OBVIOUS
<1>1. spent' \in 0..Timeout /\ stopping' \in 0..Grace /\ waited' \in 0..Budget /\ asked' \in 0..Attempt
  BY TimesArePositive DEF TypeOK, Elapse, Later
<1>2. toTick' \in 0..Interval /\ toPoll' \in 1..Poll
  BY TimesArePositive DEF TypeOK, Elapse, Sooner
<1>3. age' \in Times /\ sinceUp' \in Times /\ good' \in Times
  BY TimesArePositive DEF TypeOK, Elapse, Later, Times
<1>4. ticked' \in BOOLEAN /\ polled' \in BOOLEAN
  BY Zenon DEF Elapse
<1> QED BY <1>1, <1>2, <1>3, <1>4 DEF TypeOK, Elapse

LEMMA TypeNext == TypeOK /\ [Next]_vars => TypeOK'
<1> SUFFICES ASSUME TypeOK, [Next]_vars PROVE TypeOK'
  OBVIOUS
<1>1. CASE Flip
  <2>0. 0 \in Times
    BY TimesArePositive DEF Times
  <2>1. up' \in BOOLEAN /\ saw' \in SUBSET BOOLEAN
    <3>1. (~up) \in BOOLEAN /\ saw \in SUBSET BOOLEAN
      BY DEF TypeOK
    <3>2. saw \cup {~up} \in SUBSET BOOLEAN
      BY <3>1, Zenon
    <3> QED BY <1>1, <3>1, <3>2, Zenon DEF Flip
  <2> QED BY <1>1, <2>0, <2>1 DEF Flip, TypeOK, procVars, agentVars
<1>2. CASE UNCHANGED vars
  BY <1>2 DEF vars, procVars, monVars, agentVars, TypeOK
<1> QED BY <1>1, <1>2, MonitorTyped, ProcessTyped, AgentTyped, ElapseTyped DEF Next

\* Every clock of the process, the monitor and the agent stays within its bound.
THEOREM ReadinessTypeCorrect == Spec => []TypeOK
BY TypeInit, TypeNext, PTL DEF Spec

-----------------------------------------------------------------------------
(* What the monitor's clocks say, while its context is alive *)

AtProbe == mon \in {"probing", "judging"}

\* A verdict is due when the probe in hand is over or at the next tick; a tick
\* that came during a probe waits, and was not there before the verdict.
Due ==
  /\ toTick = 0 => AtProbe /\ age <= spent
  /\ AtProbe => age <= Interval + spent
  /\ mon = "publishing" => age = 0
  /\ mon = "waiting" /\ ticked => age <= Interval
  /\ mon = "waiting" /\ ~ticked => age + toTick <= Interval
  /\ mon # "stopped"
  /\ mon \notin {"probing", "judging"} => spent = 0

\* A probe returns what it met: what the store was during a probe, it was no
\* longer ago than the probe began.
Met ==
  /\ mon = "judging" => \/ outcome = "access" /\ TRUE \in saw
                        \/ outcome = "error" /\ FALSE \in saw
  /\ up => sinceUp = 0
  /\ ~up => good = 0
  /\ AtProbe /\ TRUE \in saw => sinceUp <= spent
  /\ AtProbe /\ FALSE \in saw => good <= spent

\* A verdict speaks of the time since the probe it came from began.
Speaks ==
  /\ verdict = "ready" => sinceUp <= age + Timeout
  /\ verdict = "unready" => good <= age + Timeout
  /\ verdict = "none" => good <= age

Monitored == ~MonitorCtxDone => Due /\ Met /\ Speaks

Inv == TypeOK /\ VerdictIsObserved /\ (~Serving => good = 0) /\ Monitored

\* How long the store can be within reach with no verdict that says so.
Unnoticed == Interval + 2 * Timeout

\* The wait gives up after a look at the gateway that it took no more than a
\* tick ago, and that found no verdict or a bad one.
LookedLately ==
  /\ agent = "idle" => waited = 0
  /\ agent = "checking" => waited = 0 \/ good <= Unnoticed + Poll
  /\ agent = "pausing" /\ polled => good <= Unnoticed + Poll
  /\ agent = "pausing" /\ ~polled => good + toPoll <= Unnoticed + Poll

\* Once the monitor's context is done it stays so.
LEMMA ContextStaysDone ==
  ASSUME [Next]_vars, ~MonitorCtxDone'
  PROVE  ~MonitorCtxDone /\ Runs
<1>1. CASE UNCHANGED proc
  BY <1>1 DEF MonitorCtxDone, Runs
<1>2. CASE Process \/ Signal \/ ServeFails
  <2>1. proc' \in {"returned", "draining", "serving"} => ~MonitorCtxDone /\ Runs
    BY <1>2 DEF MonitorCtxDone, Runs, Process, Serve, Drained, Stop, OutOfGrace,
           Unwind, Signal, ServeFails
  <2>2. proc' \in {"returned", "draining", "serving", "cancelled", "closed", "exited"}
    BY <1>2 DEF Process, Serve, Drained, Stop, Unwind, Signal, ServeFails
  <2> QED BY <2>1, <2>2 DEF MonitorCtxDone
<1>3. ASSUME NEW s \in Streams, OpenStream(s) \/ CloseStream(s) PROVE UNCHANGED proc
  BY <1>3 DEF OpenStream, CloseStream
<1>4. Flip \/ Monitor \/ Elapse \/ UNCHANGED vars => UNCHANGED proc
  BY DEF Flip, Monitor, ProbeReturns, Discard, Judge, Publish, NextProbe, MonitorStops,
         Elapse, procVars, vars
<1>5. Wait \/ Agent \/ Cancel => UNCHANGED proc
  BY DEF Wait, Agent, Ask, Answered, NotAnswered, Again, GiveUp, Cancel, procVars
<1> QED BY <1>1, <1>2, <1>3, <1>4, <1>5 DEF Next

\* The variables the monitor's clocks are about.
clocked == <<up, monVars, age, sinceUp, good>>

LEMMA InvInit == Init => Inv
<1> SUFFICES ASSUME Init PROVE Inv
  OBVIOUS
<1>1. TypeOK
  BY TypeInit
<1>2. VerdictIsObserved /\ good = 0
  BY DEF Init, VerdictIsObserved
<1>3. Due
  BY TimesArePositive DEF Init, Due, AtProbe
<1>4. Met
  <2>1. (TRUE \in saw => up) /\ (FALSE \in saw => ~up)
    BY Zenon DEF Init
  <2>2. mon = "probing" /\ spent = 0 /\ good = 0 /\ (up => sinceUp = 0)
    BY DEF Init
  <2>3. (up => sinceUp <= spent) /\ (~up => good <= spent)
    BY <2>2
  <2> QED BY <2>1, <2>2, <2>3 DEF Met, AtProbe
<1>5. Speaks
  BY DEF Init, Speaks
<1> QED BY <1>1, <1>2, <1>3, <1>4, <1>5 DEF Inv, Monitored

LEMMA MonitoredFrame ==
  ASSUME Monitored, ~MonitorCtxDone, UNCHANGED clocked
  PROVE  (Due /\ Met /\ Speaks)'
BY DEF Monitored, Due, Met, Speaks, AtProbe, clocked, monVars

LEMMA MonitorMonitored ==
  ASSUME Inv, Monitor, ~MonitorCtxDone
  PROVE  (Due /\ Met /\ Speaks)'
<1>0. /\ Due /\ Met /\ Speaks
      /\ age \in Nat /\ sinceUp \in Nat /\ good \in Nat /\ toTick \in 0..Interval
      /\ spent \in 0..Timeout /\ Interval \in Nat \ {0} /\ Timeout \in Nat \ {0}
      /\ up \in BOOLEAN /\ ticked \in BOOLEAN
  BY TimesArePositive DEF Inv, Monitored, TypeOK, Times
<1>1. CASE ProbeReturns
  <2>1. Due' /\ Speaks'
    BY <1>0, <1>1 DEF ProbeReturns, Due, Speaks, AtProbe
  <2>2. Met'
    BY <1>0, <1>1 DEF ProbeReturns, Met, AtProbe
  <2> QED BY <2>1, <2>2
<1>2. CASE Judge
  <2>1. /\ mon = "judging" /\ age' = 0 /\ spent' = 0 /\ mon' \in {"publishing", "waiting"}
        /\ toTick' = IF toTick = 0 THEN Interval ELSE toTick
        /\ UNCHANGED <<up, ticked, sinceUp, good>>
        /\ verdict' = IF outcome = "access" THEN "ready" ELSE "unready"
    BY <1>2 DEF Judge, ProbeIsOver, TickerRuns
  <2>2. Due'
    BY <1>0, <2>1 DEF Due, AtProbe
  <2>3. Met'
    BY <1>0, <2>1 DEF Met, AtProbe
  <2>4. Speaks'
    <3>1. \/ outcome = "access" /\ sinceUp <= spent
          \/ outcome = "error" /\ good <= spent
      BY <1>0, <2>1 DEF Met, AtProbe
    <3> QED BY <1>0, <2>1, <3>1 DEF Speaks
  <2> QED BY <2>2, <2>3, <2>4
<1>3. CASE Publish
  <2>1. Due'
    BY <1>0, <1>3 DEF Publish, Due, AtProbe
  <2>2. Met' /\ Speaks'
    BY <1>0, <1>3 DEF Publish, Met, Speaks, AtProbe
  <2> QED BY <2>1, <2>2
<1>4. CASE NextProbe
  <2>1. Due' /\ Speaks'
    BY <1>0, <1>4 DEF NextProbe, Due, Speaks, AtProbe
  <2>2. Met'
    <3>1. saw' = {up} /\ mon' = "probing" /\ UNCHANGED <<up, sinceUp, good, spent>>
      BY <1>4 DEF NextProbe
    <3>2. (TRUE \in saw' => up) /\ (FALSE \in saw' => ~up)
      <4>1. up = TRUE \/ up = FALSE
        BY DEF Inv, TypeOK
      <4>2. CASE up = TRUE
        BY <3>1, <4>2, Zenon
      <4>3. CASE up = FALSE
        BY <3>1, <4>3, Zenon
      <4> QED BY <4>1, <4>2, <4>3, Zenon
    <3>3. (up => sinceUp = 0) /\ (~up => good = 0) /\ 0 <= spent
      BY <1>0 DEF Met
    <3>4. (up => sinceUp' <= spent') /\ (~up => good' <= spent')
      BY <3>1, <3>3
    <3> QED BY <3>1, <3>2, <3>3, <3>4 DEF Met
  <2> QED BY <2>1, <2>2
<1>5. ~Discard /\ ~MonitorStops
  BY DEF Discard, MonitorStops, CutShort
<1> QED BY <1>1, <1>2, <1>3, <1>4, <1>5 DEF Monitor

LEMMA FlipMonitored ==
  ASSUME Inv, Flip, ~MonitorCtxDone
  PROVE  (Due /\ Met /\ Speaks)'
<1>0. /\ Due /\ Met /\ Speaks /\ age \in Nat /\ spent \in Nat /\ Timeout \in Nat
      /\ up \in BOOLEAN
  BY TimesArePositive DEF Inv, Monitored, TypeOK, Times
<1>1. good' = 0 /\ sinceUp' = 0 /\ UNCHANGED <<mon, spent, outcome, toTick, ticked, verdict, age>>
  BY DEF Flip
<1>2. mon = "judging" => saw' = saw
  BY DEF Flip
<1>3. Due' /\ Speaks'
  BY <1>0, <1>1 DEF Due, Speaks, AtProbe
<1>4. Met'
  <2>1. mon' = "judging" => (outcome' = "access" /\ TRUE \in saw') \/ (outcome' = "error" /\ FALSE \in saw')
    BY <1>0, <1>1, <1>2 DEF Met
  <2>2. AtProbe' = AtProbe /\ (AtProbe => sinceUp' <= spent' /\ good' <= spent')
    BY <1>0, <1>1 DEF AtProbe
  <2>3. sinceUp' = 0 /\ good' = 0
    BY <1>1
  <2> QED BY <2>1, <2>2, <2>3 DEF Met
<1> QED BY <1>3, <1>4

LEMMA ElapseMonitored ==
  ASSUME Inv, Elapse, ~MonitorCtxDone
  PROVE  (Due /\ Met /\ Speaks)'
<1>0. /\ age \in 0..Horizon /\ sinceUp \in 0..Horizon /\ good \in 0..Horizon
      /\ toTick \in 0..Interval /\ spent \in 0..Timeout
      /\ Interval \in Nat \ {0} /\ Timeout \in Nat \ {0} /\ Horizon \in Nat \ {0}
  BY TimesArePositive DEF Inv, TypeOK, Times
<1>b. ticked \in BOOLEAN /\ up \in BOOLEAN /\ Runs
  BY DEF Inv, TypeOK, MonitorCtxDone, Runs
<1>i. Due /\ Met /\ Speaks
  BY DEF Inv, Monitored
<1>1. /\ mon \in {"probing", "waiting"} /\ UNCHANGED <<up, mon, saw, outcome, verdict>>
      /\ mon = "probing" => spent < Timeout
      /\ mon = "waiting" => ~ticked
  BY <1>0, <1>b, <1>i DEF Elapse, AtOnce, ProbeIsOut, Inv, TypeOK, Due
<1>2. /\ mon = "probing" => spent' = spent + 1
      /\ mon = "waiting" => spent' = spent
      /\ toTick' = IF toTick > 0 THEN IF toTick = 1 THEN Interval ELSE toTick - 1 ELSE toTick
  BY <1>0, <1>b, <1>1 DEF Elapse, Later, Sooner
<1>3. toTick # 1 => ticked' = ticked
  BY <1>b, Zenon DEF Elapse
<1>4. /\ age' \in Nat /\ age' <= age + 1 /\ age' <= Horizon /\ (age' = age + 1 \/ age' = Horizon)
      /\ sinceUp' \in Nat /\ sinceUp' <= sinceUp + 1 /\ sinceUp' <= Horizon
      /\ good' \in Nat /\ good' <= good + 1 /\ good' <= Horizon
  BY <1>0 DEF Elapse, Later
<1>u. (up => sinceUp' = 0) /\ (~up => good' = 0)
  BY DEF Elapse
<1>5. Due'
  <2>1. CASE mon = "probing"
    BY <1>0, <1>i, <1>1, <1>2, <1>4, <2>1 DEF Due, AtProbe
  <2>2. CASE mon = "waiting"
    <3>1. toTick > 0 /\ age + toTick <= Interval /\ spent = 0
      BY <1>0, <1>i, <1>1, <2>2 DEF Due, AtProbe
    <3>2. CASE toTick = 1
      <4>1. toTick' = Interval /\ age' <= Interval /\ spent' = 0 /\ mon' = "waiting"
        BY <1>0, <1>1, <1>2, <1>4, <2>2, <3>1, <3>2, TickDue
      <4>2. ticked'
        BY <1>b, <3>2, Zenon DEF Elapse
      <4> QED BY <1>0, <4>1, <4>2 DEF Due, AtProbe
    <3>3. CASE toTick # 1
      <4>1. /\ toTick' = toTick - 1 /\ toTick' > 0 /\ age' + toTick' <= Interval
            /\ spent' = 0 /\ mon' = "waiting"
        <5>1. toTick' = toTick - 1 /\ spent' = 0 /\ mon' = "waiting" /\ toTick' > 0
          BY <1>0, <1>1, <1>2, <2>2, <3>1, <3>3
        <5>2. age' + (toTick - 1) <= Interval
          <6>1. toTick \in Nat /\ age \in Nat /\ Interval \in Nat
            BY <1>0
          <6> QED BY <1>4, <3>1, <6>1, TickDue
        <5> QED BY <5>1, <5>2
      <4>2. ~ticked'
        BY <1>1, <1>3, <2>2, <3>3
      <4> QED BY <1>0, <4>1, <4>2 DEF Due, AtProbe
    <3> QED BY <3>2, <3>3
  <2> QED BY <1>1, <2>1, <2>2
<1>6. Met'
  <2>1. AtProbe' => AtProbe /\ spent' = spent + 1
    BY <1>1, <1>2 DEF AtProbe
  <2>2. AtProbe' /\ TRUE \in saw' => sinceUp' <= spent'
    BY <1>0, <1>i, <1>1, <1>4, <2>1 DEF Met
  <2>3. AtProbe' /\ FALSE \in saw' => good' <= spent'
    BY <1>0, <1>i, <1>1, <1>4, <2>1 DEF Met
  <2>4. mon' # "judging"
    BY <1>1
  <2> QED BY <1>1, <1>u, <2>2, <2>3, <2>4 DEF Met
<1>7. Speaks'
  <2>0. age \in Nat /\ sinceUp \in Nat /\ good \in Nat /\ Timeout \in Nat /\ Horizon \in Nat
    BY <1>0
  <2>1. sinceUp <= age + Timeout => sinceUp' <= age' + Timeout
    BY <1>4, <2>0, RunTogether
  <2>2. good <= age + Timeout => good' <= age' + Timeout
    BY <1>4, <2>0, RunTogether
  <2>3. good <= age => good' <= age'
    BY <1>0, <1>4
  <2> QED BY <1>i, <1>1, <2>1, <2>2, <2>3 DEF Speaks
<1> QED BY <1>5, <1>6, <1>7

LEMMA MonitoredNext ==
  ASSUME Inv, [Next]_vars
  PROVE  Monitored'
<1> SUFFICES ASSUME ~MonitorCtxDone' PROVE (Due /\ Met /\ Speaks)'
  BY DEF Monitored
<1>0. ~MonitorCtxDone /\ Monitored
  BY ContextStaysDone DEF Inv
<1>1. CASE UNCHANGED clocked
  BY <1>0, <1>1, MonitoredFrame
<1>2. CASE Process \/ UNCHANGED vars
  BY <1>1, <1>2 DEF Process, Serve, Drained, Stop, Unwind, vars, clocked
<1>3. ASSUME Signal \/ ServeFails PROVE (Due /\ Met /\ Speaks)'
  <2>1. good' = 0 /\ UNCHANGED <<up, monVars, age, sinceUp>>
    BY <1>3 DEF Signal, ServeFails
  <2>2. spent \in Nat /\ age \in Nat /\ Timeout \in Nat
    BY TimesArePositive DEF Inv, TypeOK, Times
  <2>3. 0 <= spent /\ 0 <= age /\ 0 <= age + Timeout
    BY <2>2
  <2>4. Due /\ Met /\ Speaks
    BY <1>0 DEF Monitored
  <2> QED BY <2>1, <2>3, <2>4 DEF Due, Met, Speaks, AtProbe, monVars
<1>4. ASSUME NEW s \in Streams, OpenStream(s) \/ CloseStream(s) PROVE UNCHANGED clocked
  BY <1>4 DEF OpenStream, CloseStream, clocked
<1>5. CASE Wait \/ Agent \/ Cancel
  BY <1>1, <1>5 DEF Wait, Agent, Ask, Answered, NotAnswered, Again, GiveUp, Cancel, clocked
<1> QED BY <1>0, <1>1, <1>2, <1>3, <1>4, <1>5, FlipMonitored, MonitorMonitored, ElapseMonitored
    DEF Next

LEMMA ObservedNext ==
  ASSUME Inv, [Next]_vars
  PROVE  VerdictIsObserved'
<1>1. CASE UNCHANGED <<verdict, basis>>
  BY <1>1 DEF Inv, VerdictIsObserved
<1>2. CASE Judge
  <2>1. mon = "judging" /\ ~MonitorCtxDone /\ basis' = saw
        /\ verdict' = IF outcome = "access" THEN "ready" ELSE "unready"
    BY <1>2 DEF Judge, CutShort
  <2>2. (outcome = "access" /\ TRUE \in saw) \/ (outcome = "error" /\ FALSE \in saw)
    BY <2>1 DEF Inv, Monitored, Met
  <2> QED BY <2>1, <2>2 DEF VerdictIsObserved
<1>3. Flip \/ Process \/ Signal \/ ServeFails \/ Elapse \/ UNCHANGED vars => UNCHANGED <<verdict, basis>>
  BY DEF Flip, Process, Serve, Drained, Stop, Unwind, Signal, ServeFails, Elapse, monVars, vars
<1>4. Monitor => Judge \/ UNCHANGED <<verdict, basis>>
  BY DEF Monitor, ProbeReturns, Discard, Publish, NextProbe, MonitorStops
<1>5. Wait \/ Agent \/ Cancel => UNCHANGED <<verdict, basis>>
  BY DEF Wait, Agent, Ask, Answered, NotAnswered, Again, GiveUp, Cancel, monVars
<1>6. ASSUME NEW s \in Streams, OpenStream(s) \/ CloseStream(s) PROVE UNCHANGED <<verdict, basis>>
  BY <1>6 DEF OpenStream, CloseStream, monVars
<1> QED BY <1>1, <1>2, <1>3, <1>4, <1>5, <1>6 DEF Next

LEMMA GoodNext ==
  ASSUME Inv, [Next]_vars
  PROVE  (~Serving => good = 0)'
<1>0. ~Serving => good = 0
  BY DEF Inv
<1>1. CASE UNCHANGED <<proc, good>>
  BY <1>0, <1>1 DEF Serving
<1>2. CASE Process
  BY <1>0, <1>2 DEF Process, Serve, Drained, Stop, OutOfGrace, Unwind, Serving
<1>3. CASE Flip \/ Signal \/ ServeFails
  BY <1>3 DEF Flip, Signal, ServeFails
<1>4. CASE Elapse
  BY <1>4 DEF Elapse, Serving
<1>5. Monitor \/ UNCHANGED vars => UNCHANGED <<proc, good>>
  BY DEF Monitor, ProbeReturns, Discard, Judge, Publish, NextProbe, MonitorStops, procVars, vars
<1>6. Wait \/ Agent \/ Cancel => UNCHANGED <<proc, good>>
  BY DEF Wait, Agent, Ask, Answered, NotAnswered, Again, GiveUp, Cancel, procVars
<1>7. ASSUME NEW s \in Streams, OpenStream(s) \/ CloseStream(s) PROVE UNCHANGED <<proc, good>>
  BY <1>7 DEF OpenStream, CloseStream
<1> QED BY <1>1, <1>2, <1>3, <1>4, <1>5, <1>6, <1>7 DEF Next

LEMMA InvNext == Inv /\ [Next]_vars => Inv'
<1> SUFFICES ASSUME Inv, [Next]_vars PROVE Inv'
  OBVIOUS
<1>1. TypeOK'
  BY TypeNext DEF Inv
<1> QED BY <1>1, MonitoredNext, ObservedNext, GoodNext DEF Inv

\* While the monitor runs, its verdict is no older than an interval and a timeout.
LEMMA FreshInv == Inv => VerdictIsFresh
<1> SUFFICES ASSUME Inv, ~MonitorCtxDone PROVE age <= Interval + Timeout
  BY DEF VerdictIsFresh
<1>0. /\ age \in Nat /\ toTick \in 0..Interval /\ spent \in 0..Timeout /\ Interval \in Nat /\ Timeout \in Nat
      /\ mon \in {"probing", "judging", "publishing", "waiting", "stopped"}
  BY TimesArePositive DEF Inv, TypeOK, Times
<1>1. Due
  BY DEF Inv, Monitored
<1>2. CASE AtProbe
  BY <1>0, <1>1, <1>2 DEF Due
<1>3. CASE ~AtProbe
  BY <1>0, <1>1, <1>3 DEF Due, AtProbe
<1> QED BY <1>2, <1>3

-----------------------------------------------------------------------------
(* The agent *)

\* Behind a gateway that serves, no verdict or a bad one is no older than that.
LEMMA UnreadyIsRecent ==
  ASSUME Inv, ~MonitorCtxDone, ~Ready
  PROVE  good <= Unnoticed
<1>0. age \in Nat /\ good \in Nat /\ Interval \in Nat /\ Timeout \in Nat /\ verdict \in {"none", "unready"}
  BY TimesArePositive DEF Inv, TypeOK, Times, Ready
<1>1. Speaks /\ age <= Interval + Timeout
  BY FreshInv DEF Inv, Monitored, VerdictIsFresh
<1> QED BY <1>0, <1>1 DEF Speaks, Unnoticed

LEMMA LookedInit == Init => LookedLately
BY DEF Init, LookedLately

\* A clock that is no later is within what the other was.
LEMMA NoLater ==
  ASSUME NEW g \in Nat, NEW g1 \in Nat, NEW t \in Nat, NEW max \in Nat, g1 <= g
  PROVE  (g <= max => g1 <= max) /\ (g + t <= max => g1 + t <= max)
OBVIOUS

\* Of a step other than Elapse the good time is no later.
LEMMA GoodGrowsInElapse ==
  ASSUME Inv, [Next]_vars, ~Elapse
  PROVE  good' = good \/ good' = 0
<1>1. Flip \/ Signal \/ ServeFails \/ Process \/ UNCHANGED vars => good' = good \/ good' = 0
  BY DEF Flip, Signal, ServeFails, Process, Serve, Drained, Stop, Unwind, vars
<1>2. Monitor => good' = good
  BY DEF Monitor, ProbeReturns, Discard, Judge, Publish, NextProbe, MonitorStops
<1>3. Wait \/ Agent \/ Cancel => good' = good
  BY DEF Wait, Agent, Ask, Answered, NotAnswered, Again, GiveUp, Cancel
<1>4. ASSUME NEW s \in Streams, OpenStream(s) \/ CloseStream(s) PROVE good' = good
  BY <1>4 DEF OpenStream, CloseStream
<1> QED BY <1>1, <1>2, <1>3, <1>4 DEF Next

LEMMA AgentSteps ==
  ASSUME [Next]_vars
  PROVE  UNCHANGED agentVars \/ Wait \/ Agent \/ Cancel \/ Elapse
<1>1. Flip \/ Signal \/ ServeFails \/ Process \/ UNCHANGED vars => UNCHANGED agentVars
  BY DEF Flip, Signal, ServeFails, Process, Serve, Drained, Stop, Unwind, vars
<1>2. Monitor => UNCHANGED agentVars
  BY DEF Monitor, ProbeReturns, Discard, Judge, Publish, NextProbe, MonitorStops
<1>3. ASSUME NEW s \in Streams, OpenStream(s) \/ CloseStream(s) PROVE UNCHANGED agentVars
  BY <1>3 DEF OpenStream, CloseStream
<1> QED BY <1>1, <1>2, <1>3 DEF Next

LEMMA LookedNext ==
  ASSUME Inv, TypeOK', LookedLately, [Next]_vars
  PROVE  LookedLately'
<1> DEFINE max == Unnoticed + Poll
<1>0. /\ good \in Nat /\ good' \in Nat /\ Unnoticed \in Nat /\ Poll \in Nat \ {0} /\ max \in Nat
      /\ toPoll \in Nat /\ toPoll \in 1..Poll /\ toPoll' \in 1..Poll
  BY TimesArePositive DEF Inv, TypeOK, Times, Unnoticed
<1>1. CASE UNCHANGED agentVars /\ ~Elapse
  <2>1. good' <= good
    BY <1>0, <1>1, GoodGrowsInElapse
  <2>2. (good <= max => good' <= max) /\ (good + toPoll <= max => good' + toPoll <= max)
    BY <1>0, <2>1, NoLater
  <2> QED BY <1>1, <2>2 DEF LookedLately, agentVars
<1>2. CASE Wait
  BY <1>2 DEF Wait, LookedLately
<1>3. CASE Ask \/ Cancel \/ GiveUp
  BY <1>3 DEF Ask, Cancel, GiveUp, Return, LookedLately
<1>4. CASE Again
  BY <1>4 DEF Again, LookedLately
<1>5. ASSUME Pause, UNCHANGED good, good <= Unnoticed PROVE LookedLately'
  <2>1. good' <= max /\ good' + toPoll' <= max
    <3>1. toPoll' = toPoll /\ good' = good
      BY <1>5 DEF Pause
    <3>2. good <= max /\ good + toPoll <= max
      BY <1>0, <1>5
    <3> QED BY <3>1, <3>2
  <2>2. agent' = "pausing"
    BY <1>5 DEF Pause
  <2> QED BY <2>1, <2>2 DEF LookedLately
<1>6. CASE Answered
  <2>1. ~Ready => good <= Unnoticed
    BY <1>6, UnreadyIsRecent DEF Answered, Serving, MonitorCtxDone
  <2>2. ASSUME NEW how \in {"ready", "rejected"}, Return(how) PROVE LookedLately'
    BY <2>2 DEF Return, LookedLately
  <2> QED BY <1>5, <1>6, <2>1, <2>2 DEF Answered
<1>7. CASE NotAnswered
  <2>1. good = 0 /\ 0 <= Unnoticed
    BY <1>0, <1>7 DEF NotAnswered, Inv
  <2> QED BY <1>5, <1>7, <2>1 DEF NotAnswered
<1>8. CASE Elapse
  <2>0. agent' = agent /\ agent # "checking" /\ (agent = "pausing" => ~polled)
    BY <1>8 DEF Elapse, AtOnce
  <2>1. CASE agent = "pausing"
    <3>1. /\ good + toPoll <= max
          /\ toPoll' = IF toPoll = 1 THEN Poll ELSE toPoll - 1
      BY <1>8, <2>0, <2>1 DEF LookedLately, Elapse, Asking, Sooner
    <3>2. good' <= good + 1
      BY <1>0, <1>8, TimesArePositive DEF Elapse, Later
    <3>3. good' <= max /\ good' + (toPoll - 1) <= max
      <4>1. toPoll > 0
        BY <1>0
      <4> HIDE DEF max
      <4> QED BY <1>0, <3>1, <3>2, <4>1, TickDue
    <3>4. toPoll = 1 => polled'
      BY <1>8, <2>1, Zenon DEF Elapse, Asking
    <3> QED BY <1>0, <2>0, <2>1, <3>1, <3>3, <3>4 DEF LookedLately
  <2>2. CASE agent # "pausing"
    <3>1. agent = "idle" => waited' = waited
      BY <1>8 DEF Elapse, Asking
    <3> QED BY <2>0, <2>2, <3>1 DEF LookedLately
  <2> QED BY <2>1, <2>2
<1> QED BY <1>1, <1>2, <1>3, <1>4, <1>6, <1>7, <1>8, AgentSteps DEF Agent

\* A verdict that says ready is of a probe that met the store within reach.
LEMMA ReadyIsRecent ==
  ASSUME Inv, ~MonitorCtxDone, Ready
  PROVE  sinceUp <= Interval + 2 * Timeout
<1>0. age \in Nat /\ sinceUp \in Nat /\ Interval \in Nat /\ Timeout \in Nat
  BY TimesArePositive DEF Inv, TypeOK, Times
<1>1. Speaks /\ age <= Interval + Timeout
  BY FreshInv DEF Inv, Monitored, VerdictIsFresh
<1>2. sinceUp <= age + Timeout
  BY <1>1 DEF Speaks, Ready
<1> QED BY <1>0, <1>1, <1>2

LEMMA WaitReturns ==
  ASSUME [Next]_vars, agent' # agent
  PROVE  /\ agent' = "ready" => Answered /\ Ready
         /\ agent' = "gaveUp" => GiveUp
<1>1. Wait \/ Agent \/ Cancel
  BY AgentSteps DEF agentVars, Elapse
<1>2. Wait \/ Ask \/ Again \/ Cancel => agent' \notin {"ready", "gaveUp"}
  BY DEF Wait, Ask, Again, Cancel, Return
<1>3. NotAnswered => agent' = "pausing"
  BY DEF NotAnswered, Pause
<1>4. GiveUp => agent' = "gaveUp"
  BY DEF GiveUp, Return
<1>5. Answered => agent' \in {"pausing", "rejected"} \/ (agent' = "ready" /\ Ready)
  BY DEF Answered, Return, Pause
<1> QED BY <1>1, <1>2, <1>3, <1>4, <1>5 DEF Agent

\* A verdict is what its probe met, whatever the shutdown cut short.
THEOREM ReadinessVerdictIsObserved == Spec => []VerdictIsObserved
<1>1. Inv => VerdictIsObserved
  BY DEF Inv
<1> QED BY <1>1, InvInit, InvNext, PTL DEF Spec

\* No verdict outlives an interval and a timeout, however long probes take and
\* whatever ticks are dropped meanwhile.
THEOREM ReadinessVerdictIsFresh == Spec => []VerdictIsFresh
BY FreshInv, InvInit, InvNext, PTL DEF Spec

\* The agent's success rests on access to the store no longer ago than a verdict
\* and its probe take.
THEOREM ReadinessSuccessIsRecent == Spec => ReadyOnRecentAccess
<1>1. Inv /\ [Next]_vars
        => [agent' = "ready" /\ agent # "ready" => sinceUp <= Interval + 2 * Timeout]_vars
  <2> SUFFICES ASSUME Inv, [Next]_vars, agent' = "ready", agent # "ready"
               PROVE  sinceUp <= Interval + 2 * Timeout
    OBVIOUS
  <2>1. Answered /\ Ready
    BY WaitReturns
  <2>2. ~MonitorCtxDone
    BY <2>1 DEF Answered, Serving, MonitorCtxDone
  <2> QED BY <2>1, <2>2, ReadyIsRecent
<1> QED BY <1>1, InvInit, InvNext, PTL DEF Spec, ReadyOnRecentAccess

\* The wait never gives up on a gateway that serves over a store which has been
\* within reach for an interval, two timeouts and a tick.
THEOREM ReadinessGoodIsNotGivenUp == Spec => GoodIsNotGivenUp
<1>1. Inv /\ LookedLately /\ [Next]_vars => Inv' /\ LookedLately'
  BY InvNext, LookedNext DEF Inv
<1>2. Inv /\ LookedLately /\ [Next]_vars
        => [agent' = "gaveUp" /\ agent # "gaveUp" => good <= Interval + 2 * Timeout + Poll]_vars
  <2> SUFFICES ASSUME Inv, LookedLately, [Next]_vars, agent' = "gaveUp", agent # "gaveUp"
               PROVE  good <= Interval + 2 * Timeout + Poll
    OBVIOUS
  <2>1. GiveUp
    BY WaitReturns
  <2>2. /\ waited \in Nat /\ good \in Nat /\ toPoll \in Nat
        /\ Interval \in Nat /\ Timeout \in Nat /\ Poll \in Nat
    BY TimesArePositive DEF Inv, TypeOK, Times
  <2>3. CASE agent = "checking"
    <3>1. waited # 0
      BY <2>1, <2>3, TimesArePositive DEF GiveUp
    <3> QED BY <2>3, <3>1 DEF LookedLately, Unnoticed
  <2>4. CASE agent = "pausing"
    <3>1. good <= Unnoticed + Poll \/ good + toPoll <= Unnoticed + Poll
      BY <2>4 DEF LookedLately
    <3> QED BY <2>2, <3>1 DEF Unnoticed
  <2> QED BY <2>1, <2>3, <2>4 DEF GiveUp
<1> QED BY <1>1, <1>2, InvInit, LookedInit, PTL DEF Spec, GoodIsNotGivenUp
=============================================================================
