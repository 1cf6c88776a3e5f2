----------------------------- MODULE Readiness -----------------------------
(***************************************************************************)
(* One gateway from its start to its exit, and the agent that waits for    *)
(* it: run and gracefulStop of cmd/service-object-storage/main.go, the     *)
(* monitor of internal/health/health.go, the Ready RPC, and WaitForReady   *)
(* of runtime.go.                                                          *)
(*                                                                         *)
(* Time is discrete.  What code does without waiting takes none, so time   *)
(* passes (Elapse) only when nobody has anything to do at once.  A ticker  *)
(* keeps one tick for a reader that is late, as Go's do.                   *)
(***************************************************************************)
EXTENDS Naturals

CONSTANTS
  Interval,  \* between the monitor's ticks
  Timeout,   \* of a probe
  Attempt,   \* of one Ready call of the agent
  Poll,      \* between the agent's ticks
  Budget,    \* of the agent's whole wait
  Grace,     \* of a shutdown
  Streams,   \* streams that may be open
  Horizon    \* the history of times past is kept up to here

ASSUME TimesAssumption ==
  /\ {Interval, Timeout, Attempt, Poll, Budget, Grace, Horizon} \subseteq Nat \ {0}
  /\ Attempt <= Budget

VARIABLES
  up,        \* the store answers and grants access
  (* the process *)
  proc,      \* how far run is
  open,      \* the streams whose handlers run
  stopping,  \* time since the signal
  (* the monitor *)
  mon,       \* where its goroutine is
  spent,     \* time in the current probe
  saw,       \* what up was during the current probe
  outcome,   \* how the probe returned
  toTick,    \* time to the ticker's next tick; 0 before there is a ticker
  ticked,    \* a tick waits in the ticker's channel
  verdict,   \* Monitor.verdict
  last,      \* Monitor.last
  status,    \* what the health service says of ObjectStorage
  (* the agent *)
  agent,     \* where WaitForReady is
  waited,    \* time since it began
  asked,     \* time in the current attempt
  toPoll,    \* time to the next tick of its ticker
  polled,    \* a tick waits in its channel
  (* history *)
  basis,     \* what up was during the probe of the verdict
  age,       \* time since the verdict, or since the start
  sinceUp,   \* time since the store was last up
  good       \* for how long the store has been up behind a serving gateway

procVars == <<proc, open, stopping>>
monVars == <<mon, spent, saw, outcome, toTick, ticked, verdict, last, status, basis>>
agentVars == <<agent, waited, asked, toPoll, polled>>
vars == <<up, procVars, monVars, agentVars, age, sinceUp, good>>

Serving == proc = "serving"
MonitorCtxDone == proc \in {"cancelled", "closed", "exited"}
Runs == proc # "exited"
Asking == agent \in {"checking", "asking", "pausing"}

Init ==
  /\ up \in BOOLEAN
  /\ proc = "starting"
  /\ open = {}
  /\ stopping = 0
  /\ mon = "probing"
  /\ spent = 0
  /\ saw = {up}
  /\ outcome = "none"
  /\ toTick = 0
  /\ ticked = FALSE
  /\ verdict = "none"
  /\ last = "UNKNOWN"
  /\ status = "UNKNOWN"
  /\ agent = "idle"
  /\ waited = 0
  /\ asked = 0
  /\ toPoll = Poll
  /\ polled = FALSE
  /\ basis = {}
  /\ age = 0
  /\ sinceUp = IF up THEN 0 ELSE Horizon
  /\ good = 0

\* Access to the store comes and goes: an outage, a revoked grant, a network that
\* is not attached yet.
Flip ==
  /\ up' = ~up
  /\ saw' = IF mon = "probing" THEN saw \cup {~up} ELSE saw
  /\ good' = 0
  /\ sinceUp' = 0
  /\ UNCHANGED <<procVars, mon, spent, outcome, toTick, ticked, verdict, last, status, basis, agentVars, age>>

-----------------------------------------------------------------------------
(* The monitor *)

\* The probe returns: with access, if it was there at some moment; with an error,
\* if it was not, or because the monitor's context was cancelled or the store closed.
ProbeReturns ==
  /\ Runs
  /\ mon = "probing"
  /\ \/ TRUE \in saw /\ proc # "closed" /\ outcome' = "access"
     \/ FALSE \in saw /\ outcome' = "error"
     \/ MonitorCtxDone /\ outcome' = "error"
  /\ mon' = "judging"
  /\ UNCHANGED <<up, procVars, spent, saw, toTick, ticked, verdict, last, status, basis, agentVars, age, sinceUp, good>>

\* Run makes its ticker after the first check.
TickerRuns == toTick' = IF toTick = 0 THEN Interval ELSE toTick

\* Mutant: the context is not looked at.
CutShortUnseen == FALSE

\* A probe cut short by the shutdown says nothing about the store.
CutShort == MonitorCtxDone

ProbeIsOver ==
  /\ spent' = 0
  /\ saw' = {}
  /\ outcome' = "none"

Discard ==
  /\ Runs
  /\ mon = "judging"
  /\ CutShort
  /\ mon' = "waiting"
  /\ ProbeIsOver
  /\ TickerRuns
  /\ UNCHANGED <<up, procVars, ticked, verdict, last, status, basis, agentVars, age, sinceUp, good>>

StatusOf(v) ==
  CASE v = "none"    -> "UNKNOWN"
    [] v = "ready"   -> "SERVING"
    [] v = "unready" -> "NOT_SERVING"

Changed(v) == StatusOf(v) # last

Judge ==
  /\ Runs
  /\ mon = "judging"
  /\ ~CutShort
  /\ verdict' = IF outcome = "access" THEN "ready" ELSE "unready"
  /\ last' = StatusOf(verdict')
  /\ mon' = IF Changed(verdict') THEN "publishing" ELSE "waiting"
  /\ basis' = saw
  /\ age' = 0
  /\ ProbeIsOver
  /\ TickerRuns
  /\ UNCHANGED <<up, procVars, ticked, status, agentVars, sinceUp, good>>

\* After the lock: a Ready call in between sees the verdict first.
Publish ==
  /\ Runs
  /\ mon = "publishing"
  /\ status' = last
  /\ mon' = "waiting"
  /\ UNCHANGED <<up, procVars, spent, saw, outcome, toTick, ticked, verdict, last, basis, agentVars, age, sinceUp, good>>

NextProbe ==
  /\ Runs
  /\ mon = "waiting"
  /\ ticked
  /\ ticked' = FALSE
  /\ mon' = "probing"
  /\ saw' = {up}
  /\ UNCHANGED <<up, procVars, spent, outcome, toTick, verdict, last, status, basis, agentVars, age, sinceUp, good>>

MonitorStops ==
  /\ Runs
  /\ mon = "waiting"
  /\ MonitorCtxDone
  /\ mon' = "stopped"
  /\ UNCHANGED <<up, procVars, spent, saw, outcome, toTick, ticked, verdict, last, status, basis, agentVars, age, sinceUp, good>>

Monitor == ProbeReturns \/ Discard \/ Judge \/ Publish \/ NextProbe \/ MonitorStops

-----------------------------------------------------------------------------
(* The process *)

Serve ==
  /\ proc = "starting"
  /\ proc' = "serving"
  /\ UNCHANGED <<up, open, stopping, monVars, agentVars, age, sinceUp, good>>

\* A Get, a Put or a Watch: it lasts as long as its client wants.
OpenStream(s) ==
  /\ Serving
  /\ s \notin open
  /\ open' = open \cup {s}
  /\ UNCHANGED <<up, proc, stopping, monVars, agentVars, age, sinceUp, good>>

CloseStream(s) ==
  /\ s \in open
  /\ open' = open \ {s}
  /\ UNCHANGED <<up, proc, stopping, monVars, agentVars, age, sinceUp, good>>

\* GracefulStop takes no new call.
Signal ==
  /\ proc \in {"starting", "serving"}
  /\ proc' = "draining"
  /\ good' = 0
  /\ UNCHANGED <<up, open, stopping, monVars, agentVars, age, sinceUp>>

\* The listener fails, and Serve with it.
ServeFails ==
  /\ proc \in {"starting", "serving"}
  /\ proc' = "returned"
  /\ good' = 0
  /\ UNCHANGED <<up, open, stopping, monVars, agentVars, age, sinceUp>>

Drained ==
  /\ proc = "draining"
  /\ open = {}
  /\ proc' = "returned"
  /\ UNCHANGED <<up, open, stopping, monVars, agentVars, age, sinceUp, good>>

\* Mutant: there is no hard stop.
OutOfGraceNever == FALSE

OutOfGrace == proc = "draining" /\ stopping = Grace

Stop ==
  /\ OutOfGrace
  /\ open' = {}
  /\ proc' = "returned"
  /\ UNCHANGED <<up, stopping, monVars, agentVars, age, sinceUp, good>>

\* The deferred calls, the last one first: stopMonitor, hub.Close, store.Close.
Unwind ==
  /\ \/ proc = "returned" /\ proc' = "cancelled"
     \/ proc = "cancelled" /\ proc' = "closed"
     \/ proc = "closed" /\ proc' = "exited"
  /\ UNCHANGED <<up, open, stopping, monVars, agentVars, age, sinceUp, good>>

Process == Serve \/ Drained \/ Stop \/ Unwind

-----------------------------------------------------------------------------
(* The agent *)

Wait ==
  /\ agent = "idle"
  /\ agent' = "checking"
  /\ UNCHANGED <<up, procVars, monVars, waited, asked, toPoll, polled, age, sinceUp, good>>

\* No attempt is begun that the budget would cut.
Ask ==
  /\ agent = "checking"
  /\ Budget - waited >= Attempt
  /\ agent' = "asking"
  /\ UNCHANGED <<up, procVars, monVars, waited, asked, toPoll, polled, age, sinceUp, good>>

Pause ==
  /\ agent' = "pausing"
  /\ asked' = 0
  /\ UNCHANGED <<waited, toPoll, polled>>

Return(how) ==
  /\ agent' = how
  /\ asked' = 0
  /\ waited' = 0
  /\ toPoll' = Poll
  /\ polled' = FALSE

\* Mutant: any answer will do, as of Capabilities.
ReadyOfAny == TRUE

\* The Ready RPC answers from the verdict it holds; without one it is not ready.
Ready == verdict = "ready"

\* Another run may have replaced the gateway: it enforces another token.
Answered ==
  /\ agent = "asking"
  /\ Serving
  /\ \/ Ready /\ Return("ready")
     \/ ~Ready /\ Pause
     \/ Return("rejected")
  /\ UNCHANGED <<up, procVars, monVars, age, sinceUp, good>>

NotAnswered ==
  /\ agent = "asking"
  /\ ~Serving
  /\ Pause
  /\ UNCHANGED <<up, procVars, monVars, age, sinceUp, good>>

\* Mutant: each attempt has a budget of its own.
AgainRenewed ==
  /\ agent = "pausing"
  /\ polled
  /\ polled' = FALSE
  /\ agent' = "checking"
  /\ waited' = 0
  /\ UNCHANGED <<up, procVars, monVars, asked, toPoll, age, sinceUp, good>>

Again ==
  /\ agent = "pausing"
  /\ polled
  /\ polled' = FALSE
  /\ agent' = "checking"
  /\ UNCHANGED <<up, procVars, monVars, waited, asked, toPoll, age, sinceUp, good>>

GiveUp ==
  /\ \/ agent = "checking" /\ Budget - waited < Attempt
     \/ agent = "pausing" /\ waited = Budget
  /\ Return("gaveUp")
  /\ UNCHANGED <<up, procVars, monVars, age, sinceUp, good>>

\* The caller of Start cancels its context.
Cancel ==
  /\ agent \in {"asking", "pausing"}
  /\ Return("cancelled")
  /\ UNCHANGED <<up, procVars, monVars, age, sinceUp, good>>

Agent == Ask \/ Answered \/ NotAnswered \/ Again \/ GiveUp

-----------------------------------------------------------------------------
(* Time *)

\* Mutant: the probe has no timeout.
ProbeIsOutNever == FALSE

ProbeIsOut == mon = "probing" /\ spent = Timeout

AtOnce ==
  \/ /\ Runs
     /\ \/ mon \in {"judging", "publishing"}
        \/ mon = "waiting" /\ (ticked \/ MonitorCtxDone)
        \/ ProbeIsOut
  \/ proc \in {"returned", "cancelled", "closed"}
  \/ proc = "draining" /\ open = {}
  \/ OutOfGrace
  \/ agent = "checking"
  \/ agent = "asking" /\ asked = Attempt
  \/ agent = "pausing" /\ (polled \/ waited = Budget)

\* One more, up to max.
Later(t, max) == IF t < max THEN t + 1 ELSE t

\* A ticker with period p, t before its next tick.
Sooner(t, p) == IF t = 1 THEN p ELSE t - 1

Elapse ==
  /\ ~AtOnce
  /\ spent' = IF Runs /\ mon = "probing" THEN Later(spent, Timeout) ELSE spent
  /\ toTick' = IF Runs /\ toTick > 0 THEN Sooner(toTick, Interval) ELSE toTick
  /\ ticked' = (ticked \/ (Runs /\ toTick = 1))
  /\ stopping' = IF proc = "draining" THEN Later(stopping, Grace) ELSE stopping
  /\ waited' = IF Asking THEN Later(waited, Budget) ELSE waited
  /\ asked' = IF agent = "asking" THEN Later(asked, Attempt) ELSE asked
  /\ toPoll' = IF Asking THEN Sooner(toPoll, Poll) ELSE toPoll
  /\ polled' = (polled \/ (Asking /\ toPoll = 1))
  /\ age' = Later(age, Horizon)
  /\ sinceUp' = IF up THEN 0 ELSE Later(sinceUp, Horizon)
  /\ good' = IF up /\ Serving THEN Later(good, Horizon) ELSE 0
  /\ UNCHANGED <<up, proc, open, mon, saw, outcome, verdict, last, status, basis, agent>>

Next ==
  \/ Flip
  \/ Monitor
  \/ Process
  \/ \E s \in Streams : OpenStream(s) \/ CloseStream(s)
  \/ Signal
  \/ ServeFails
  \/ Wait
  \/ Agent
  \/ Cancel
  \/ Elapse

Fairness == WF_vars(Monitor) /\ WF_vars(Process) /\ WF_vars(Agent) /\ WF_vars(Elapse)

Spec == Init /\ [][Next]_vars
FairSpec == Spec /\ Fairness

-----------------------------------------------------------------------------
(* Properties *)

Statuses == {"UNKNOWN", "SERVING", "NOT_SERVING"}
Times == 0..Horizon

\* The state is well formed.
TypeOK ==
  /\ up \in BOOLEAN
  /\ proc \in {"starting", "serving", "draining", "returned", "cancelled", "closed", "exited"}
  /\ open \in SUBSET Streams
  /\ stopping \in 0..Grace
  /\ mon \in {"probing", "judging", "publishing", "waiting", "stopped"}
  /\ spent \in 0..Timeout
  /\ saw \in SUBSET BOOLEAN
  /\ outcome \in {"none", "access", "error"}
  /\ toTick \in 0..Interval
  /\ ticked \in BOOLEAN
  /\ verdict \in {"none", "ready", "unready"}
  /\ last \in Statuses
  /\ status \in Statuses
  /\ agent \in {"idle", "checking", "asking", "pausing", "ready", "rejected", "gaveUp", "cancelled"}
  /\ waited \in 0..Budget
  /\ asked \in 0..Attempt
  /\ toPoll \in 1..Poll
  /\ polled \in BOOLEAN
  /\ basis \in SUBSET BOOLEAN
  /\ age \in Times
  /\ sinceUp \in Times
  /\ good \in Times

\* A verdict is what its probe met: neither a probe that the shutdown cut off nor
\* one on a store that is being closed says that the store is out of reach.
VerdictIsObserved ==
  /\ verdict = "ready" => TRUE \in basis
  /\ verdict = "unready" => FALSE \in basis

\* While the monitor runs a verdict is replaced within an interval and a timeout,
\* however long probes take and whatever ticks are dropped meanwhile.  (The interval
\* alone, as config.go:39 has it, is not enough: a probe takes its time.)
VerdictIsFresh == ~MonitorCtxDone => age <= Interval + Timeout

\* Start succeeds only on access that is recent: no older than a verdict, and the
\* probe it comes from.
ReadyOnRecentAccess ==
  [][agent' = "ready" /\ agent # "ready" => sinceUp <= Interval + 2 * Timeout]_vars

\* A gateway that serves, over a store that has long been within reach, is not
\* given up.
GoodIsNotGivenUp ==
  [][agent' = "gaveUp" /\ agent # "gaveUp" => good <= Interval + 2 * Timeout + Poll]_vars

\* The wait comes to an end, whatever the gateway does.
WaitEnds == Asking ~> ~Asking

\* A stream whose client stays does not keep the process from its exit.
SignalStops == proc = "draining" ~> proc = "exited"
=============================================================================
