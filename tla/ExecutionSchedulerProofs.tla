------------------------ MODULE ExecutionSchedulerProofs ------------------------
(***************************************************************************)
(* The flags of the scheduler keep its calls apart, for any number of      *)
(* stops and starts.                                                       *)
(***************************************************************************)
EXTENDS ExecutionScheduler, TLAPS

\* The flags are exact, which is what makes the exclusion inductive: a call that
\* finds a flag down finds nobody behind it.
SchedulerInv == TypeOK /\ FlagsAreHeld /\ OneMonitor /\ OneCallPerLoop

\* The part of it that speaks of the calls.
Calls == FlagsAreHeld /\ OneMonitor /\ OneCallPerLoop

-------------------------------------------------------------------------------
\* What the helpers do to one flag or one stage.
LEMMA FlagsMove ==
  ASSUME NEW locks, running \in [Lock -> BOOLEAN]
  PROVE  /\ Take(locks) => /\ running' \in [Lock -> BOOLEAN]
                           /\ \A l \in Lock : running'[l] <=> l \in locks \/ running[l]
         /\ Free(locks) => /\ running' \in [Lock -> BOOLEAN]
                           /\ \A l \in Lock : running'[l] <=> l \notin locks /\ running[l]
BY Zenon DEF Take, Free

LEMMA StagesEnter ==
  ASSUME NEW stages, at \in [Stage -> Nat], Enter(stages)
  PROVE  /\ at' \in [Stage -> Nat]
         /\ \A s \in Stage : at'[s] = IF s \in stages THEN at[s] + 1 ELSE at[s]
BY DEF Enter

LEMMA StagesMove ==
  ASSUME NEW stages, NEW stage \in Stage, at \in [Stage -> Nat], Leave(stage,
     stages)
  PROVE  /\ at[stage] > 0
         /\ at' \in [Stage -> Nat]
         /\ \A s \in Stage : at'[s] = IF s = stage THEN at[s] - 1
                                      ELSE IF s \in stages THEN at[s] + 1 ELSE at[s]
BY DEF Leave

Members ==
  /\ "fast" \in Lock /\ "mid" \in Lock /\ "slow" \in Lock /\ "monitor" \in Lock
  /\ "monitor" \in Stage /\ "scalping" \in Stage /\ "momentum" \in Stage
  /\ "eventAlpha" \in Stage /\ "swing" \in Stage /\ "breakout" \in Stage
  /\ "futures" \in Stage

LEMMA Names == Members
BY DEF Members, Lock, Loop, Stage

\* Every stage has a count.
LEMMA Counts ==
  ASSUME SchedulerInv
  PROVE  \A s \in {"monitor", "scalping", "momentum", "eventAlpha", "swing",
                   "breakout", "futures"} : at[s] \in Nat
BY Names DEF SchedulerInv, TypeOK, Members, Stage

\* A call that starts, or does not.
LEMMA RunKeeps ==
  ASSUME SchedulerInv, NEW l \in Loop, Run(l)
  PROVE  Calls' /\ running' \in [Lock -> BOOLEAN] /\ at' \in [Stage -> Nat]
<1>1. CASE Skip
  BY <1>1 DEF Skip, SchedulerInv, TypeOK, Calls, FlagsAreHeld, OneMonitor,
     OneCallPerLoop
<1>2. CASE ~running["fast"] /\ running["monitor"] /\ Take({"fast"}) /\ Enter({"scalping"})
  <2>1. /\ running'["fast"] /\ (running'["mid"] <=> running["mid"])
        /\ (running'["slow"] <=> running["slow"])
        /\ (running'["monitor"] <=> running["monitor"])
        /\ running' \in [Lock -> BOOLEAN]
    BY <1>2, Names, FlagsMove DEF SchedulerInv, TypeOK, Members
  <2>2. /\ at'["monitor"] = at["monitor"] /\ at'["scalping"] = at["scalping"] + 1
        /\ at'["momentum"] = at["momentum"]
        /\ at'["eventAlpha"] = at["eventAlpha"] /\ at'["swing"] = at["swing"]
        /\ at'["breakout"] = at["breakout"] /\ at'["futures"] = at["futures"]
        /\ at' \in [Stage -> Nat]
    BY <1>2, Names, StagesEnter DEF SchedulerInv, TypeOK, Members
  <2>3. QED
    BY <1>2, <2>1, <2>2, Counts DEF SchedulerInv, Calls, FlagsAreHeld,
       OneMonitor, OneCallPerLoop
<1>3. CASE ~running["fast"] /\ ~running["monitor"]
           /\ Take({"fast", "monitor"}) /\ Enter({"monitor", "scalping"})
  <2>1. /\ running'["fast"] /\ (running'["mid"] <=> running["mid"])
        /\ (running'["slow"] <=> running["slow"]) /\ running'["monitor"]
        /\ running' \in [Lock -> BOOLEAN]
    BY <1>3, Names, FlagsMove DEF SchedulerInv, TypeOK, Members
  <2>2. /\ at'["monitor"] = at["monitor"] + 1
        /\ at'["scalping"] = at["scalping"] + 1
        /\ at'["momentum"] = at["momentum"]
        /\ at'["eventAlpha"] = at["eventAlpha"] /\ at'["swing"] = at["swing"]
        /\ at'["breakout"] = at["breakout"] /\ at'["futures"] = at["futures"]
        /\ at' \in [Stage -> Nat]
    BY <1>3, Names, StagesEnter DEF SchedulerInv, TypeOK, Members
  <2>3. QED
    BY <1>3, <2>1, <2>2, Counts DEF SchedulerInv, Calls, FlagsAreHeld,
       OneMonitor, OneCallPerLoop
<1>4. CASE ~running["mid"] /\ running["monitor"] /\ Take({"mid"}) /\ Enter({"eventAlpha"})
  <2>1. /\ (running'["fast"] <=> running["fast"]) /\ running'["mid"]
        /\ (running'["slow"] <=> running["slow"])
        /\ (running'["monitor"] <=> running["monitor"])
        /\ running' \in [Lock -> BOOLEAN]
    BY <1>4, Names, FlagsMove DEF SchedulerInv, TypeOK, Members
  <2>2. /\ at'["monitor"] = at["monitor"] /\ at'["scalping"] = at["scalping"]
        /\ at'["momentum"] = at["momentum"]
        /\ at'["eventAlpha"] = at["eventAlpha"] + 1 /\ at'["swing"] = at["swing"]
        /\ at'["breakout"] = at["breakout"] /\ at'["futures"] = at["futures"]
        /\ at' \in [Stage -> Nat]
    BY <1>4, Names, StagesEnter DEF SchedulerInv, TypeOK, Members
  <2>3. QED
    BY <1>4, <2>1, <2>2, Counts DEF SchedulerInv, Calls, FlagsAreHeld,
       OneMonitor, OneCallPerLoop
<1>5. CASE ~running["mid"] /\ ~running["monitor"]
           /\ Take({"mid", "monitor"}) /\ Enter({"momentum"})
  <2>1. /\ (running'["fast"] <=> running["fast"]) /\ running'["mid"]
        /\ (running'["slow"] <=> running["slow"]) /\ running'["monitor"]
        /\ running' \in [Lock -> BOOLEAN]
    BY <1>5, Names, FlagsMove DEF SchedulerInv, TypeOK, Members
  <2>2. /\ at'["monitor"] = at["monitor"] /\ at'["scalping"] = at["scalping"]
        /\ at'["momentum"] = at["momentum"] + 1
        /\ at'["eventAlpha"] = at["eventAlpha"] /\ at'["swing"] = at["swing"]
        /\ at'["breakout"] = at["breakout"] /\ at'["futures"] = at["futures"]
        /\ at' \in [Stage -> Nat]
    BY <1>5, Names, StagesEnter DEF SchedulerInv, TypeOK, Members
  <2>3. QED
    BY <1>5, <2>1, <2>2, Counts DEF SchedulerInv, Calls, FlagsAreHeld,
       OneMonitor, OneCallPerLoop
<1>6. CASE ~running["slow"] /\ Take({"slow"}) /\ Enter({"swing"})
  <2>1. /\ (running'["fast"] <=> running["fast"])
        /\ (running'["mid"] <=> running["mid"]) /\ running'["slow"]
        /\ (running'["monitor"] <=> running["monitor"])
        /\ running' \in [Lock -> BOOLEAN]
    BY <1>6, Names, FlagsMove DEF SchedulerInv, TypeOK, Members
  <2>2. /\ at'["monitor"] = at["monitor"] /\ at'["scalping"] = at["scalping"]
        /\ at'["momentum"] = at["momentum"]
        /\ at'["eventAlpha"] = at["eventAlpha"] /\ at'["swing"] = at["swing"] + 1
        /\ at'["breakout"] = at["breakout"] /\ at'["futures"] = at["futures"]
        /\ at' \in [Stage -> Nat]
    BY <1>6, Names, StagesEnter DEF SchedulerInv, TypeOK, Members
  <2>3. QED
    BY <1>6, <2>1, <2>2, Counts DEF SchedulerInv, Calls, FlagsAreHeld,
       OneMonitor, OneCallPerLoop
<1>7. QED
  BY <1>1, <1>2, <1>3, <1>4, <1>5, <1>6 DEF Run, runFast, runMid, runSlow

\* A call that comes back from an await.
LEMMA ReturnKeeps ==
  ASSUME SchedulerInv, NEW s \in Stage, Return(s)
  PROVE  Calls' /\ running' \in [Lock -> BOOLEAN] /\ at' \in [Stage -> Nat]
<1>1. CASE MonitorEnds
  <2>1. /\ (running'["fast"] <=> running["fast"])
        /\ (running'["mid"] <=> running["mid"])
        /\ (running'["slow"] <=> running["slow"]) /\ ~running'["monitor"]
        /\ running' \in [Lock -> BOOLEAN]
    BY <1>1, Names, FlagsMove DEF SchedulerInv, TypeOK, Members, MonitorEnds
  <2>2. /\ at'["monitor"] = at["monitor"] - 1 /\ at'["scalping"] = at["scalping"]
        /\ at'["momentum"] = at["momentum"]
        /\ at'["eventAlpha"] = at["eventAlpha"] /\ at'["swing"] = at["swing"]
        /\ at'["breakout"] = at["breakout"] /\ at'["futures"] = at["futures"]
        /\ at["monitor"] > 0
        /\ at' \in [Stage -> Nat]
    BY <1>1, Names, StagesMove DEF SchedulerInv, TypeOK, Members, MonitorEnds
  <2>3. QED
    BY <1>1, <2>1, <2>2, Counts DEF SchedulerInv, Calls, FlagsAreHeld,
       OneMonitor, OneCallPerLoop
<1>2. CASE ScalpingEnds
  <2>1. /\ ~running'["fast"] /\ (running'["mid"] <=> running["mid"])
        /\ (running'["slow"] <=> running["slow"])
        /\ (running'["monitor"] <=> running["monitor"])
        /\ running' \in [Lock -> BOOLEAN]
    BY <1>2, Names, FlagsMove DEF SchedulerInv, TypeOK, Members, ScalpingEnds
  <2>2. /\ at'["monitor"] = at["monitor"] /\ at'["scalping"] = at["scalping"] - 1
        /\ at'["momentum"] = at["momentum"]
        /\ at'["eventAlpha"] = at["eventAlpha"] /\ at'["swing"] = at["swing"]
        /\ at'["breakout"] = at["breakout"] /\ at'["futures"] = at["futures"]
        /\ at["scalping"] > 0
        /\ at' \in [Stage -> Nat]
    BY <1>2, Names, StagesMove DEF SchedulerInv, TypeOK, Members, ScalpingEnds
  <2>3. QED
    BY <1>2, <2>1, <2>2, Counts DEF SchedulerInv, Calls, FlagsAreHeld,
       OneMonitor, OneCallPerLoop
<1>3. CASE Leave("momentum", {"eventAlpha"}) /\ Free({"monitor"})
  <2>1. /\ (running'["fast"] <=> running["fast"])
        /\ (running'["mid"] <=> running["mid"])
        /\ (running'["slow"] <=> running["slow"]) /\ ~running'["monitor"]
        /\ running' \in [Lock -> BOOLEAN]
    BY <1>3, Names, FlagsMove DEF SchedulerInv, TypeOK, Members
  <2>2. /\ at'["monitor"] = at["monitor"] /\ at'["scalping"] = at["scalping"]
        /\ at'["momentum"] = at["momentum"] - 1
        /\ at'["eventAlpha"] = at["eventAlpha"] + 1 /\ at'["swing"] = at["swing"]
        /\ at'["breakout"] = at["breakout"] /\ at'["futures"] = at["futures"]
        /\ at["momentum"] > 0
        /\ at' \in [Stage -> Nat]
    BY <1>3, Names, StagesMove DEF SchedulerInv, TypeOK, Members
  <2>3. QED
    BY <1>3, <2>1, <2>2, Counts DEF SchedulerInv, Calls, FlagsAreHeld,
       OneMonitor, OneCallPerLoop
<1>4. CASE Leave("momentum", {}) /\ Free({"monitor", "mid"})
  <2>1. /\ (running'["fast"] <=> running["fast"]) /\ ~running'["mid"]
        /\ (running'["slow"] <=> running["slow"]) /\ ~running'["monitor"]
        /\ running' \in [Lock -> BOOLEAN]
    BY <1>4, Names, FlagsMove DEF SchedulerInv, TypeOK, Members
  <2>2. /\ at'["monitor"] = at["monitor"] /\ at'["scalping"] = at["scalping"]
        /\ at'["momentum"] = at["momentum"] - 1
        /\ at'["eventAlpha"] = at["eventAlpha"] /\ at'["swing"] = at["swing"]
        /\ at'["breakout"] = at["breakout"] /\ at'["futures"] = at["futures"]
        /\ at["momentum"] > 0
        /\ at' \in [Stage -> Nat]
    BY <1>4, Names, StagesMove DEF SchedulerInv, TypeOK, Members
  <2>3. QED
    BY <1>4, <2>1, <2>2, Counts DEF SchedulerInv, Calls, FlagsAreHeld,
       OneMonitor, OneCallPerLoop
<1>5. CASE EventAlphaEnds
  <2>1. /\ (running'["fast"] <=> running["fast"]) /\ ~running'["mid"]
        /\ (running'["slow"] <=> running["slow"])
        /\ (running'["monitor"] <=> running["monitor"])
        /\ running' \in [Lock -> BOOLEAN]
    BY <1>5, Names, FlagsMove DEF SchedulerInv, TypeOK, Members, EventAlphaEnds
  <2>2. /\ at'["monitor"] = at["monitor"] /\ at'["scalping"] = at["scalping"]
        /\ at'["momentum"] = at["momentum"]
        /\ at'["eventAlpha"] = at["eventAlpha"] - 1 /\ at'["swing"] = at["swing"]
        /\ at'["breakout"] = at["breakout"] /\ at'["futures"] = at["futures"]
        /\ at["eventAlpha"] > 0
        /\ at' \in [Stage -> Nat]
    BY <1>5, Names, StagesMove DEF SchedulerInv, TypeOK, Members, EventAlphaEnds
  <2>3. QED
    BY <1>5, <2>1, <2>2, Counts DEF SchedulerInv, Calls, FlagsAreHeld,
       OneMonitor, OneCallPerLoop
<1>6. CASE Leave("swing", {"breakout"}) /\ UNCHANGED running
  <2>1. /\ (running'["fast"] <=> running["fast"])
        /\ (running'["mid"] <=> running["mid"])
        /\ (running'["slow"] <=> running["slow"])
        /\ (running'["monitor"] <=> running["monitor"])
        /\ running' \in [Lock -> BOOLEAN]
    BY <1>6, Names, FlagsMove DEF SchedulerInv, TypeOK, Members
  <2>2. /\ at'["monitor"] = at["monitor"] /\ at'["scalping"] = at["scalping"]
        /\ at'["momentum"] = at["momentum"]
        /\ at'["eventAlpha"] = at["eventAlpha"] /\ at'["swing"] = at["swing"] - 1
        /\ at'["breakout"] = at["breakout"] + 1 /\ at'["futures"] = at["futures"]
        /\ at["swing"] > 0
        /\ at' \in [Stage -> Nat]
    BY <1>6, Names, StagesMove DEF SchedulerInv, TypeOK, Members
  <2>3. QED
    BY <1>6, <2>1, <2>2, Counts DEF SchedulerInv, Calls, FlagsAreHeld,
       OneMonitor, OneCallPerLoop
<1>7. CASE Leave("swing", {}) /\ Free({"slow"})
  <2>1. /\ (running'["fast"] <=> running["fast"])
        /\ (running'["mid"] <=> running["mid"]) /\ ~running'["slow"]
        /\ (running'["monitor"] <=> running["monitor"])
        /\ running' \in [Lock -> BOOLEAN]
    BY <1>7, Names, FlagsMove DEF SchedulerInv, TypeOK, Members
  <2>2. /\ at'["monitor"] = at["monitor"] /\ at'["scalping"] = at["scalping"]
        /\ at'["momentum"] = at["momentum"]
        /\ at'["eventAlpha"] = at["eventAlpha"] /\ at'["swing"] = at["swing"] - 1
        /\ at'["breakout"] = at["breakout"] /\ at'["futures"] = at["futures"]
        /\ at["swing"] > 0
        /\ at' \in [Stage -> Nat]
    BY <1>7, Names, StagesMove DEF SchedulerInv, TypeOK, Members
  <2>3. QED
    BY <1>7, <2>1, <2>2, Counts DEF SchedulerInv, Calls, FlagsAreHeld,
       OneMonitor, OneCallPerLoop
<1>8. CASE BreakoutEnds
  <2>1. /\ (running'["fast"] <=> running["fast"])
        /\ (running'["mid"] <=> running["mid"])
        /\ (running'["slow"] <=> running["slow"])
        /\ (running'["monitor"] <=> running["monitor"])
        /\ running' \in [Lock -> BOOLEAN]
    BY <1>8, Names, FlagsMove DEF SchedulerInv, TypeOK, Members, BreakoutEnds
  <2>2. /\ at'["monitor"] = at["monitor"] /\ at'["scalping"] = at["scalping"]
        /\ at'["momentum"] = at["momentum"]
        /\ at'["eventAlpha"] = at["eventAlpha"] /\ at'["swing"] = at["swing"]
        /\ at'["breakout"] = at["breakout"] - 1
        /\ at'["futures"] = at["futures"] + 1 /\ at["breakout"] > 0
        /\ at' \in [Stage -> Nat]
    BY <1>8, Names, StagesMove DEF SchedulerInv, TypeOK, Members, BreakoutEnds
  <2>3. QED
    BY <1>8, <2>1, <2>2, Counts DEF SchedulerInv, Calls, FlagsAreHeld,
       OneMonitor, OneCallPerLoop
<1>9. CASE FuturesEnds
  <2>1. /\ (running'["fast"] <=> running["fast"])
        /\ (running'["mid"] <=> running["mid"]) /\ ~running'["slow"]
        /\ (running'["monitor"] <=> running["monitor"])
        /\ running' \in [Lock -> BOOLEAN]
    BY <1>9, Names, FlagsMove DEF SchedulerInv, TypeOK, Members, FuturesEnds
  <2>2. /\ at'["monitor"] = at["monitor"] /\ at'["scalping"] = at["scalping"]
        /\ at'["momentum"] = at["momentum"]
        /\ at'["eventAlpha"] = at["eventAlpha"] /\ at'["swing"] = at["swing"]
        /\ at'["breakout"] = at["breakout"] /\ at'["futures"] = at["futures"] - 1
        /\ at["futures"] > 0
        /\ at' \in [Stage -> Nat]
    BY <1>9, Names, StagesMove DEF SchedulerInv, TypeOK, Members, FuturesEnds
  <2>3. QED
    BY <1>9, <2>1, <2>2, Counts DEF SchedulerInv, Calls, FlagsAreHeld,
       OneMonitor, OneCallPerLoop
<1>10. QED
  BY <1>1, <1>2, <1>3, <1>4, <1>5, <1>6, <1>7, <1>8, <1>9 DEF Return,
     MomentumEnds, SwingEnds

LEMMA SchedulerInvStep == SchedulerInv /\ [Next]_vars => SchedulerInv'
<1> SUFFICES ASSUME SchedulerInv, [Next]_vars PROVE SchedulerInv'
  OBVIOUS
<1>0. TypeOK /\ MaxStops \in Nat
  BY SchedulerAssumption DEF SchedulerInv
<1>1. CASE startScheduler
  <2>1. Run("fast") /\ "fast" \in Loop
    BY <1>1 DEF startScheduler, Run, Loop
  <2>2. Calls' /\ running' \in [Lock -> BOOLEAN] /\ at' \in [Stage -> Nat]
    BY <2>1, RunKeeps
  <2>3. started' \in BOOLEAN
    BY <1>1 DEF startScheduler
  <2>4. timers' \in [Loop -> Nat] /\ delayed' \in [Loop -> Nat] /\ stops' = stops
    BY <1>0, <1>1 DEF startScheduler, TypeOK, Loop
  <2>5. QED
    BY <1>0, <2>2, <2>3, <2>4 DEF SchedulerInv, TypeOK, Calls
<1>2. CASE stopScheduler
  <2>1. started' \in BOOLEAN
    BY <1>2 DEF stopScheduler
  <2>2. TypeOK'
    BY <1>0, <1>2, <2>1 DEF stopScheduler, TypeOK
  <2>3. QED
    BY <1>2, <2>2 DEF stopScheduler, SchedulerInv, FlagsAreHeld, OneMonitor,
       OneCallPerLoop
<1>3. ASSUME NEW l \in Loop, StartLoop(l) PROVE SchedulerInv'
  BY <1>0, <1>3, RunKeeps DEF StartLoop, SchedulerInv, TypeOK, Calls
<1>4. ASSUME NEW l \in Loop, Tick(l) \/ Trigger(l) PROVE SchedulerInv'
  BY <1>0, <1>4, RunKeeps DEF Tick, Trigger, SchedulerInv, TypeOK, Calls
<1>5. ASSUME NEW s \in Stage, Return(s) PROVE SchedulerInv'
  BY <1>0, <1>5, ReturnKeeps DEF Return, SchedulerInv, TypeOK, Calls
<1>6. CASE UNCHANGED vars
  BY <1>6 DEF vars, SchedulerInv, TypeOK, FlagsAreHeld, OneMonitor, OneCallPerLoop
<1>7. QED
  BY <1>1, <1>2, <1>3, <1>4, <1>5, <1>6 DEF Next

LEMMA SchedulerInvInit == Init => SchedulerInv
<1> SUFFICES ASSUME Init PROVE SchedulerInv
  OBVIOUS
<1>1. started \in BOOLEAN
  BY DEF Init
<1>2. TypeOK
  BY <1>1, SchedulerAssumption DEF Init, TypeOK
<1>3. FlagsAreHeld /\ OneMonitor /\ OneCallPerLoop
  BY Names DEF Init, Members, FlagsAreHeld, OneMonitor, OneCallPerLoop
<1>4. QED
  BY <1>2, <1>3 DEF SchedulerInv

LEMMA SchedulerInvariant == Spec => []SchedulerInv
<1>1. SchedulerInv /\ [Next]_vars => SchedulerInv'
  BY SchedulerInvStep
<1>2. QED
  BY SchedulerInvInit, <1>1, PTL DEF Spec

-------------------------------------------------------------------------------
\* The monitors of the fast and the mid tick never overlap, which is why
\* PaperDesk has one task Monitor.
THEOREM MonitorsNeverOverlap == Spec => []OneMonitor
<1>1. SchedulerInv => OneMonitor
  BY DEF SchedulerInv
<1>2. QED
  BY SchedulerInvariant, <1>1, PTL

\* No flag is lost or left up on any path through the three loops, whatever
\* throws and however often the scheduler is stopped and started.
THEOREM FlagsStayExact == Spec => [](FlagsAreHeld /\ OneCallPerLoop)
<1>1. SchedulerInv => FlagsAreHeld /\ OneCallPerLoop
  BY DEF SchedulerInv
<1>2. QED
  BY SchedulerInvariant, <1>1, PTL

\* The scheduler keeps its types (TypeOK), for any bound on the stops.
THEOREM SchedulerTypes == Spec => []TypeOK
<1>1. SchedulerInv => TypeOK
  BY DEF SchedulerInv
<1>2. QED
  BY SchedulerInvariant, <1>1, PTL

\* No loop has two calls under way, which the code leaves to the flags.
THEOREM OneCallHolds == Spec => []OneCallPerLoop
<1>1. SchedulerInv => OneCallPerLoop
  BY DEF SchedulerInv
<1>2. QED
  BY SchedulerInvariant, <1>1, PTL

-------------------------------------------------------------------------------
(***************************************************************************)
(* How many intervals a loop can come to have.                              *)
(***************************************************************************)
\* A start leaves a loop one interval more, at once or after its one-shot timer,
\* and only the intervals are cleared by a stop.
TimersInv ==
  /\ TypeOK
  /\ \A l \in Loop : timers[l] + delayed[l] <= stops + (IF started THEN 1 ELSE 0)
  /\ timers["fast"] = (IF started THEN 1 ELSE 0) /\ delayed["fast"] = 0

\* FAST ticks once, and exactly while the scheduler is started; any other loop has
\* at most one interval more than the scheduler was stopped.
TimersAreBounded ==
  /\ timers["fast"] = (IF started THEN 1 ELSE 0)
  /\ \A l \in Loop : timers[l] + delayed[l] <= stops + 1

LEMMA TimersStep ==
  ASSUME TimersInv, TypeOK', [Next]_vars
  PROVE  TimersInv'
<1>. USE DEF TimersInv, TypeOK
<1>0. "fast" \in Loop /\ "mid" \in Loop /\ "slow" \in Loop /\ stops \in Nat
  BY SchedulerAssumption DEF Loop
<1>1. CASE startScheduler
  <2>1. /\ timers["fast"] = 0 /\ delayed["fast"] = 0
        /\ \A l \in Loop : timers[l] + delayed[l] <= stops
        /\ started' = TRUE /\ stops' = stops
    BY <1>1 DEF startScheduler
  <2>2. \A l \in Loop : /\ timers'[l] = IF l = "fast" THEN timers[l] + 1 ELSE timers[l]
                        /\ delayed'[l] = IF l = "fast" THEN delayed[l] ELSE delayed[l] + 1
    BY <1>1 DEF startScheduler, Loop
  <2>. QED
    BY <1>0, <2>1, <2>2
<1>2. CASE stopScheduler
  <2>1. \A l \in Loop : delayed[l] <= stops + 1 /\ timers'[l] = 0
    BY <1>0, <1>2 DEF stopScheduler
  <2>. QED
    BY <1>0, <1>2, <2>1 DEF stopScheduler
<1>3. ASSUME NEW k \in Loop, StartLoop(k) PROVE TimersInv'
  <2>1. k # "fast" /\ delayed[k] > 0 /\ UNCHANGED <<started, stops>>
    BY <1>3 DEF StartLoop
  <2>2. \A l \in Loop : /\ timers'[l] = IF l = k THEN timers[l] + 1 ELSE timers[l]
                        /\ delayed'[l] = IF l = k THEN delayed[l] - 1 ELSE delayed[l]
    BY <1>3 DEF StartLoop
  <2>3. \A l \in Loop : timers'[l] + delayed'[l] = timers[l] + delayed[l]
    BY <2>1, <2>2
  <2>. QED
    BY <1>0, <2>1, <2>2, <2>3
<1>4. ASSUME NEW k \in Loop, Tick(k) \/ Trigger(k) PROVE TimersInv'
  BY <1>4 DEF Tick, Trigger
<1>5. ASSUME NEW s \in Stage, Return(s) PROVE TimersInv'
  BY <1>5 DEF Return
<1>6. CASE UNCHANGED vars
  BY <1>6 DEF vars
<1>. QED
  BY <1>1, <1>2, <1>3, <1>4, <1>5, <1>6 DEF Next

\* stopScheduler cannot clear a one-shot timer, so that stops and starts in a row
\* pile up intervals of MID and SLOW: one for each stop, and no more; FAST, which
\* starts at once, never has two.
THEOREM TimersBounded == Spec => []TimersAreBounded
<1>1. Init => TimersInv
  <2> SUFFICES ASSUME Init PROVE TimersInv
    OBVIOUS
  <2>1. TypeOK
    BY SchedulerInvInit DEF SchedulerInv
  <2>. QED
    BY <2>1 DEF Init, TimersInv, Loop
<1>2. TimersInv /\ TypeOK' /\ [Next]_vars => TimersInv'
  BY TimersStep
<1>3. TimersInv => TimersAreBounded
  BY SchedulerAssumption DEF TimersInv, TypeOK, TimersAreBounded
<1>. QED
  BY SchedulerTypes, <1>1, <1>2, <1>3, PTL DEF Spec
===============================================================================
