--------------------------- MODULE ExecutionScheduler ---------------------------
(***************************************************************************)
(* trading/executionScheduler.mjs: three timers (FAST, MID, SLOW) that run *)
(* the engines, and the position monitor that FAST and MID share.          *)
(*                                                                         *)
(* Node never waits for the callback of a timer, so a tick may find the    *)
(* previous one at an await.  What keeps them apart are the four flags of  *)
(* _running; `at' counts the calls that really are under way, flag or no   *)
(* flag.  A call stands at one await of one stage:                         *)
(*   FAST  monitor (not awaited by the tick) and scalping, side by side    *)
(*   MID   momentum (the monitor, awaited), then eventAlpha                *)
(*   SLOW  swing, then breakout, then futures                              *)
(***************************************************************************)
EXTENDS Naturals

CONSTANT MaxStops    \* bound on the calls of stopScheduler

ASSUME SchedulerAssumption == MaxStops \in Nat

Loop == {"fast", "mid", "slow"}
Lock == Loop \cup {"monitor"}
Stage == {"monitor", "scalping", "momentum", "eventAlpha", "swing", "breakout", "futures"}

VARIABLES
  started,    \* _started
  timers,     \* the intervals of each loop that are ticking: _timers
  delayed,    \* the pending one-shot timers that will start a loop
  running,    \* _running
  at,         \* how many calls are at each stage
  stops       \* calls of stopScheduler so far

vars == <<started, timers, delayed, running, at, stops>>

TypeOK ==
  /\ started \in BOOLEAN
  /\ timers \in [Loop -> Nat]
  /\ delayed \in [Loop -> Nat]
  /\ running \in [Lock -> BOOLEAN]
  /\ at \in [Stage -> Nat]
  /\ stops \in 0..MaxStops

Init ==
  /\ started = FALSE
  /\ timers = [l \in Loop |-> 0]
  /\ delayed = [l \in Loop |-> 0]
  /\ running = [l \in Lock |-> FALSE]
  /\ at = [s \in Stage |-> 0]
  /\ stops = 0

-------------------------------------------------------------------------------
(***************************************************************************)
(* The engine runners: what one call does before its first await, and at   *)
(* the far side of each.                                                   *)
(***************************************************************************)
Take(locks) == running' = [l \in Lock |-> l \in locks \/ running[l]]
Free(locks) == running' = [l \in Lock |-> l \notin locks /\ running[l]]
Enter(stages) == at' = [s \in Stage |-> IF s \in stages THEN at[s] + 1 ELSE at[s]]

\* The call at one stage goes on to the next ones, or is over.
Leave(stage, stages) ==
  /\ at[stage] > 0
  /\ at' = [s \in Stage |->
              IF s = stage THEN at[s] - 1
              ELSE IF s \in stages THEN at[s] + 1 ELSE at[s]]

Skip == UNCHANGED <<running, at>>

\* Mutant: the fast tick starts a monitor whether or not one is running.
runFastUnshared ==
  \/ running["fast"] /\ Skip
  \/ ~running["fast"] /\ Take({"fast", "monitor"}) /\ Enter({"monitor", "scalping"})

runFast ==
  \/ running["fast"] /\ Skip
  \/ ~running["fast"] /\ running["monitor"] /\ Take({"fast"}) /\ Enter({"scalping"})
  \/ /\ ~running["fast"] /\ ~running["monitor"]
     /\ Take({"fast", "monitor"}) /\ Enter({"monitor", "scalping"})

runMid ==
  \/ running["mid"] /\ Skip
  \/ ~running["mid"] /\ running["monitor"] /\ Take({"mid"}) /\ Enter({"eventAlpha"})
  \/ /\ ~running["mid"] /\ ~running["monitor"]
     /\ Take({"mid", "monitor"}) /\ Enter({"momentum"})

\* Mutant: the slow tick does not look at its flag.
runSlowUnlocked == Take({"slow"}) /\ Enter({"swing"})

runSlow ==
  \/ running["slow"] /\ Skip
  \/ ~running["slow"] /\ Take({"slow"}) /\ Enter({"swing"})

Run(l) ==
  \/ l = "fast" /\ runFast
  \/ l = "mid" /\ runMid
  \/ l = "slow" /\ runSlow

\* The .finally of the monitor that FAST does not await.
MonitorEnds == Leave("monitor", {}) /\ Free({"monitor"})

\* The finally of the scalping cycle, whether it returned or threw.
ScalpingEnds == Leave("scalping", {}) /\ Free({"fast"})

\* Mutant: MID frees the monitor only when it has returned.
MomentumEndsHolding ==
  \/ Leave("momentum", {"eventAlpha"}) /\ Free({"monitor"})
  \/ Leave("momentum", {}) /\ Free({"mid"})

\* The monitor of MID returns, or throws past the engine to the end of the tick.
MomentumEnds ==
  \/ Leave("momentum", {"eventAlpha"}) /\ Free({"monitor"})
  \/ Leave("momentum", {}) /\ Free({"monitor", "mid"})

EventAlphaEnds == Leave("eventAlpha", {}) /\ Free({"mid"})

\* Mutant: an engine that throws leaves the flag of its loop up.
SwingEndsHolding ==
  \/ Leave("swing", {"breakout"}) /\ UNCHANGED running
  \/ Leave("swing", {}) /\ UNCHANGED running

\* Only the swing engine's errors end the tick; the other two are caught.
SwingEnds ==
  \/ Leave("swing", {"breakout"}) /\ UNCHANGED running
  \/ Leave("swing", {}) /\ Free({"slow"})

BreakoutEnds == Leave("breakout", {"futures"}) /\ UNCHANGED running

FuturesEnds == Leave("futures", {}) /\ Free({"slow"})

Return(s) ==
  /\ \/ s = "monitor" /\ MonitorEnds
     \/ s = "scalping" /\ ScalpingEnds
     \/ s = "momentum" /\ MomentumEnds
     \/ s = "eventAlpha" /\ EventAlphaEnds
     \/ s = "swing" /\ SwingEnds
     \/ s = "breakout" /\ BreakoutEnds
     \/ s = "futures" /\ FuturesEnds
  /\ UNCHANGED <<started, timers, delayed, stops>>

-------------------------------------------------------------------------------
(***************************************************************************)
(* Timers.                                                                 *)
(***************************************************************************)

\* FAST runs at once, MID after 10 seconds, SLOW after 30.
startScheduler ==
  /\ ~started
  /\ started' = TRUE
  /\ runFast
  /\ timers' = [timers EXCEPT !["fast"] = @ + 1]
  /\ delayed' = [delayed EXCEPT !["mid"] = @ + 1, !["slow"] = @ + 1]
  /\ UNCHANGED stops

\* A one-shot timer fires: stopScheduler does not know of it and cannot clear it.
StartLoop(l) ==
  /\ delayed[l] > 0
  /\ Run(l)
  /\ delayed' = [delayed EXCEPT ![l] = @ - 1]
  /\ timers' = [timers EXCEPT ![l] = @ + 1]
  /\ UNCHANGED <<started, stops>>

Tick(l) ==
  /\ timers[l] > 0
  /\ Run(l)
  /\ UNCHANGED <<started, timers, delayed, stops>>

\* triggerFast, triggerMid, triggerSlow.
Trigger(l) == Run(l) /\ UNCHANGED <<started, timers, delayed, stops>>

\* Mutant: one interval of each loop is cleared, there or not.
StopOneOfEach ==
  /\ stops < MaxStops
  /\ stops' = stops + 1
  /\ timers' = [l \in Loop |-> timers[l] - 1]
  /\ started' = FALSE
  /\ UNCHANGED <<delayed, running, at>>

stopScheduler ==
  /\ stops < MaxStops
  /\ stops' = stops + 1
  /\ timers' = [l \in Loop |-> 0]
  /\ started' = FALSE
  /\ UNCHANGED <<delayed, running, at>>

Next ==
  \/ startScheduler \/ stopScheduler
  \/ \E l \in Loop : StartLoop(l) \/ Tick(l) \/ Trigger(l)
  \/ \E s \in Stage : Return(s)

Spec == Init /\ [][Next]_vars

\* Intervals go on firing, and what an engine awaits comes to an end: requests
\* to the exchange carry an abort timeout.
Fairness ==
  /\ \A l \in Loop : WF_vars(StartLoop(l)) /\ WF_vars(Tick(l))
  /\ \A s \in Stage : WF_vars(Return(s))

FairSpec == Spec /\ Fairness

-------------------------------------------------------------------------------
\* The monitor of a fast tick and the one of a mid tick are never under way
\* together, nor two of either - also when a stop and a start within 30 seconds
\* have left two timers ticking for one loop.
OneMonitor == at["monitor"] + at["momentum"] <= 1

\* No engine is run by two calls at a time, and the engines of one loop take turns.
OneCallPerLoop ==
  /\ at["scalping"] <= 1
  /\ at["momentum"] + at["eventAlpha"] <= 1
  /\ at["swing"] + at["breakout"] + at["futures"] <= 1

\* A flag is up exactly while a call holds it: no path, thrown errors included,
\* loses a flag, or leaves one up that would stop its loop for good.
FlagsAreHeld ==
  /\ running["monitor"] <=> at["monitor"] + at["momentum"] > 0
  /\ running["fast"] <=> at["scalping"] > 0
  /\ running["mid"] <=> at["momentum"] + at["eventAlpha"] > 0
  /\ running["slow"] <=> at["swing"] + at["breakout"] + at["futures"] > 0

\* As long as the scheduler is not stopped, the open positions are looked at
\* again and again.
PositionsAreWatched ==
  []<>(at["monitor"] + at["momentum"] > 0 \/ ~started)

\* Every loop goes round for good once its timer ticks.
LoopsGoRound ==
  \A l \in Loop : [](timers[l] > 0 => <>(~running[l] \/ timers[l] = 0))
===============================================================================
