------------------------------ MODULE FuturesBook ------------------------------
(***************************************************************************)
(* The futures desk: the breakout cycles that open positions                *)
(* (strategies/futuresBreakoutEngine.mjs, paperExecutionEngine.mjs), the    *)
(* governor they ask (crypto/futuresGovernor.mjs), the margin they share    *)
(* (crypto/futuresCapital.mjs) and the monitor that closes.                 *)
(*                                                                          *)
(* Cycles run in several processes on one database: the agent's SLOW loop,  *)
(* which does not overlap itself, each request of the server's futures desk *)
(* with run=1, and the command line.  A runner is one such line of cycles.  *)
(* Within a process, what happens between two awaits is one step; between   *)
(* two processes, so is only one statement of SQL.                          *)
(*                                                                          *)
(* Signals, prices, economics, the verdict on a profile's last weeks, the   *)
(* council, the safe modes and the risk band only decide that a slot is     *)
(* skipped, which may always happen.  The stop that the monitor tightens is *)
(* left out.                                                                *)
(***************************************************************************)
EXTENDS Integers, Sequences

CONSTANTS
  Runner,       \* lines of cycles
  Process,      \* operating system processes
  Home,         \* the process of a runner
  MonitorHome,  \* the process of the position monitor: the agent
  Scan,         \* the profiles' pairs in the order of a cycle: records profile, pair
  MaxMargin,    \* the largest margin of a position
  Start,        \* FUTURES_DESK_START_CAPITAL
  Pnls,         \* profits and losses of a close
  MaxDailyLoss, \* SUPERVISOR_MAX_DAILY_LOSS
  MaxStreak,    \* SUPERVISOR_MAX_CONSEC_LOSSES
  MaxBar,       \* number of the bars that are told apart
  MaxTrades,    \* bound on the positions opened, in all
  MaxRestarts   \* bound on the restarts, of all processes together

ASSUME BookAssumption ==
  /\ Home \in [Runner -> Process] /\ MonitorHome \in Process
  /\ Scan \in Seq([profile : STRING, pair : STRING])
  /\ MaxMargin \in Nat \ {0} /\ Start \in Nat /\ Pnls \subseteq Int
  /\ MaxDailyLoss \in Nat \ {0} /\ MaxStreak \in Nat \ {0}
  /\ MaxBar \in Nat \ {0} /\ MaxTrades \in Nat /\ MaxRestarts \in Nat

VARIABLES
  stage,        \* what a runner awaits; "reserved" only between two statements
  at,           \* index in Scan of the slot it is at
  barTime,      \* the closed bar it enters on, 0 until the candles are there
  margin,       \* the margin that was found available
  blocked,      \* the cycle's snapshot: profiles that cool down
  lastEntryBar, \* _lastEntryBar of each process; 0 is undefined
  open,         \* trades: the open positions
  realized,     \* trades: the pnl of the closed ones
  streak,       \* consecutive losses of a profile, counted up to MaxStreak
  daily,        \* today's pnl of a profile
  cooled,       \* the cooldown's hours have passed since the profile's last close
  opened, restarts,
  began,        \* history: profiles that were cooling down when the cycle began
  disturbed,    \* history: another process wrote trades since the margin was found
  lapsed,       \* history: slots a process entered without a note, or on a bar before the noted one
  entered       \* history: the other slots it entered since its start, with their bars

cycles == <<stage, at, barTime, margin, blocked>>
trades == <<open, realized>>
governor == <<streak, daily, cooled>>
bounds == <<opened, restarts>>
history == <<began, disturbed, entered, lapsed>>
vars == <<cycles, lastEntryBar, trades, governor, bounds, history>>

Slot == {Scan[i] : i \in 1..Len(Scan)}
Profile == {s.profile : s \in Slot}
Position == [id : 1..MaxTrades, slot : Slot, by : Runner, margin : 0..MaxMargin]

TypeOK ==
  /\ stage \in [Runner -> {"idle", "fetching", "entering", "reserved"}]
  /\ at \in [Runner -> 0..Len(Scan)]
  /\ \A r \in Runner : stage[r] # "idle" => at[r] # 0
  /\ barTime \in [Runner -> 0..MaxBar]
  /\ margin \in [Runner -> 0..MaxMargin]
  /\ blocked \in [Runner -> SUBSET Profile]
  /\ lastEntryBar \in [Process -> [Slot -> 0..MaxBar]]
  /\ open \subseteq Position /\ realized \in Int
  /\ streak \in [Profile -> 0..MaxStreak]
  /\ daily \in [Profile -> Int] /\ cooled \in [Profile -> BOOLEAN]
  /\ opened \in 0..MaxTrades /\ restarts \in 0..MaxRestarts
  /\ began \in [Runner -> SUBSET Profile]
  /\ disturbed \in [Runner -> BOOLEAN]
  /\ entered \in [Process -> SUBSET (Slot \X (0..MaxBar))]
  /\ lapsed \in [Process -> SUBSET Slot]

Init ==
  /\ stage = [r \in Runner |-> "idle"]
  /\ at = [r \in Runner |-> 0] /\ barTime = [r \in Runner |-> 0]
  /\ margin = [r \in Runner |-> 0]
  /\ blocked = [r \in Runner |-> {}]
  /\ lastEntryBar = [h \in Process |-> [s \in Slot |-> 0]]
  /\ open = {} /\ realized = 0
  /\ streak = [p \in Profile |-> 0] /\ daily = [p \in Profile |-> 0]
  /\ cooled = [p \in Profile |-> TRUE]
  /\ opened = 0 /\ restarts = 0
  /\ began = [r \in Runner |-> {}] /\ disturbed = [r \in Runner |-> FALSE]
  /\ entered = [h \in Process |-> {}] /\ lapsed = [h \in Process |-> {}]

-------------------------------------------------------------------------------
(***************************************************************************)
(* A cycle.                                                                 *)
(***************************************************************************)
slot(r) == Scan[at[r]]

\* A process does nothing else while one of its runners is between the check of
\* the margin and the insert of the position.
Free(h) == \A r \in Runner : Home[r] = h => stage[r] # "reserved"

\* getSupervisorState
Cooling(p) == (streak[p] >= MaxStreak \/ daily[p] <= -MaxDailyLoss) /\ ~cooled[p]

\* The cycle is over, or something threw: runProfile catches nothing but a failed
\* fetch, and runFuturesBreakoutCycle nothing.
Ends(r) ==
  /\ stage' = [stage EXCEPT ![r] = "idle"]
  /\ at' = [at EXCEPT ![r] = 0] /\ barTime' = [barTime EXCEPT ![r] = 0]
  /\ blocked' = [blocked EXCEPT ![r] = {}] /\ began' = [began EXCEPT ![r] = {}]

\* From the i-th slot on to the next one with a signal to come, or to the end of
\* the cycle.  A profile that is blocked has none.
Goes(r, i, snapshot, cooling) ==
  \/ Ends(r)
  \/ \E j \in (i + 1)..Len(Scan) :
       /\ Scan[j].profile \notin snapshot
       /\ stage' = [stage EXCEPT ![r] = "fetching"]
       /\ at' = [at EXCEPT ![r] = j]
       /\ barTime' = [barTime EXCEPT ![r] = 0]
       /\ blocked' = [blocked EXCEPT ![r] = snapshot]
       /\ began' = [began EXCEPT ![r] = cooling]

CoolingNow == {p \in Profile : Cooling(p)}

\* Mutant: only the daily loss is looked at.
BeginsByDay(r) ==
  /\ stage[r] = "idle" /\ Free(Home[r])
  /\ Goes(r, 0, {p \in CoolingNow : daily[p] <= -MaxDailyLoss}, CoolingNow)
  /\ UNCHANGED <<margin, lastEntryBar, trades, governor, bounds, disturbed, entered, lapsed>>

\* runFuturesBreakoutCycle: one snapshot of the governor for all the profiles.
Begins(r) ==
  /\ stage[r] = "idle" /\ Free(Home[r])
  /\ Goes(r, 0, CoolingNow, CoolingNow)
  /\ UNCHANGED <<margin, lastEntryBar, trades, governor, bounds, disturbed, entered, lapsed>>

\* Mutant: goes on to a slot after the last one.
SkipsPast(r) ==
  /\ stage[r] \in {"fetching", "entering"} /\ Free(Home[r])
  /\ stage' = [stage EXCEPT ![r] = "fetching"]
  /\ at' = [at EXCEPT ![r] = @ + 1]
  /\ UNCHANGED <<barTime, margin, blocked, lastEntryBar, trades, governor, bounds, history>>

Skips(r) ==
  /\ stage[r] \in {"fetching", "entering"} /\ Free(Home[r])
  /\ Goes(r, at[r], blocked[r], began[r])
  /\ UNCHANGED <<margin, lastEntryBar, trades, governor, bounds, disturbed, entered, lapsed>>

hasOpenPosition(s) == \E o \in open : o.slot = s

\* Mutant: the open positions are not asked.
ScansBlind(r) ==
  /\ stage[r] = "fetching" /\ Free(Home[r])
  /\ \E b \in 1..MaxBar :
       /\ lastEntryBar[Home[r]][slot(r)] # b
       /\ barTime' = [barTime EXCEPT ![r] = b]
  /\ stage' = [stage EXCEPT ![r] = "entering"]
  /\ UNCHANGED <<at, margin, blocked, lastEntryBar, trades, governor, bounds, history>>

\* The candles are there, with a signal: the slot is entered unless it was entered on
\* the bar this process noted last for it, or it is open.  Bars go by at any pace, and
\* the one seen may be older than the one noted: fetchKlines falls back on a file that
\* other processes write too.  Awaits follow for the price, the council and the
\* latency; neither of the two is asked again.
Scans(r) ==
  /\ stage[r] = "fetching" /\ Free(Home[r])
  /\ \E b \in 1..MaxBar :
       /\ lastEntryBar[Home[r]][slot(r)] # b
       /\ barTime' = [barTime EXCEPT ![r] = b]
  /\ ~hasOpenPosition(slot(r))
  /\ stage' = [stage EXCEPT ![r] = "entering"]
  /\ UNCHANGED <<at, margin, blocked, lastEntryBar, trades, governor, bounds, history>>

\* getFuturesCapitalState
Reserved == LET m[n \in 0..MaxTrades] ==
                  IF n = 0 THEN 0
                  ELSE m[n - 1] + (IF \E o \in open : o.id = n
                                     THEN (CHOOSE o \in open : o.id = n).margin ELSE 0)
            IN  m[MaxTrades]
Available == Start + realized - Reserved

\* Mutant: the equity is asked, and not what is left of it.
ReservesOfEquity(r) ==
  /\ stage[r] = "entering" /\ Free(Home[r])
  /\ \E m \in 1..MaxMargin :
       /\ m <= Start + realized
       /\ margin' = [margin EXCEPT ![r] = m]
  /\ stage' = [stage EXCEPT ![r] = "reserved"]
  /\ disturbed' = [disturbed EXCEPT ![r] = FALSE]
  /\ UNCHANGED <<at, barTime, blocked, lastEntryBar, trades, governor, bounds, began, entered, lapsed>>

\* reserveFuturesCapital finds the margin available, and reserves nothing.
Reserves(r) ==
  /\ stage[r] = "entering" /\ Free(Home[r])
  /\ \E m \in 1..MaxMargin :
       /\ m <= Available
       /\ margin' = [margin EXCEPT ![r] = m]
  /\ stage' = [stage EXCEPT ![r] = "reserved"]
  /\ disturbed' = [disturbed EXCEPT ![r] = FALSE]
  /\ UNCHANGED <<at, barTime, blocked, lastEntryBar, trades, governor, bounds, began, entered, lapsed>>

\* A process writes trades: the margin that others have found may be gone.
Disturbs(h) ==
  disturbed' = [r \in Runner |-> stage[r] = "reserved" /\ Home[r] # h]

\* Mutant: the bar is noted by the profile's first slot.
NotesOther(r) == [lastEntryBar EXCEPT ![Home[r]][Scan[1]] = barTime[r]]

Notes(r) == [lastEntryBar EXCEPT ![Home[r]][slot(r)] = barTime[r]]

\* The entry is remembered, unless the slot has lapsed before.
Remembers(r) ==
  /\ entered' = [entered EXCEPT ![Home[r]] = @ \cup ({slot(r)} \ lapsed[Home[r]]) \X {barTime[r]}]
  /\ UNCHANGED lapsed

\* The slot's entries are not told apart any more.
Lapses(r) ==
  /\ entered' = [entered EXCEPT ![Home[r]] = {e \in @ : e[1] # slot(r)}]
  /\ lapsed' = [lapsed EXCEPT ![Home[r]] = @ \cup {slot(r)}]

\* The position is inserted.  Then its decision is linked and the event logged, and
\* only then the bar noted: when one of the two writes throws, the position stays, the
\* bar is not noted and the cycle ends.
Inserts(r) ==
  /\ stage[r] = "reserved"
  /\ opened < MaxTrades /\ opened' = opened + 1
  /\ open' = open \cup {[id |-> opened + 1, slot |-> slot(r), by |-> r, margin |-> margin[r]]}
  /\ \/ /\ lastEntryBar' = Notes(r) /\ Goes(r, at[r], blocked[r], began[r])
        /\ IF barTime[r] < lastEntryBar[Home[r]][slot(r)] THEN Lapses(r) ELSE Remembers(r)
     \/ UNCHANGED lastEntryBar /\ Ends(r) /\ Lapses(r)
  /\ Disturbs(Home[r])
  /\ margin' = [margin EXCEPT ![r] = 0]
  /\ UNCHANGED <<realized, governor, restarts>>

\* The insert itself throws, or a profile's numbers before it: nothing is written.
InsertThrows(r) ==
  /\ stage[r] = "reserved"
  /\ Ends(r)
  /\ margin' = [margin EXCEPT ![r] = 0]
  /\ disturbed' = [disturbed EXCEPT ![r] = FALSE]
  /\ UNCHANGED <<lastEntryBar, trades, governor, bounds, entered, lapsed>>

\* A process dies and starts again: its cycles are gone, and the bars it noted.
Restarts(h) ==
  /\ restarts < MaxRestarts /\ restarts' = restarts + 1
  /\ stage' = [r \in Runner |-> IF Home[r] = h THEN "idle" ELSE stage[r]]
  /\ lastEntryBar' = [lastEntryBar EXCEPT ![h] = [s \in Slot |-> 0]]
  /\ entered' = [entered EXCEPT ![h] = {}] /\ lapsed' = [lapsed EXCEPT ![h] = {}]
  /\ at' = [r \in Runner |-> IF Home[r] = h THEN 0 ELSE at[r]]
  /\ barTime' = [r \in Runner |-> IF Home[r] = h THEN 0 ELSE barTime[r]]
  /\ margin' = [r \in Runner |-> IF Home[r] = h THEN 0 ELSE margin[r]]
  /\ blocked' = [r \in Runner |-> IF Home[r] = h THEN {} ELSE blocked[r]]
  /\ began' = [r \in Runner |-> IF Home[r] = h THEN {} ELSE began[r]]
  /\ disturbed' = [r \in Runner |-> IF Home[r] = h THEN FALSE ELSE disturbed[r]]
  /\ UNCHANGED <<trades, governor, opened>>

-------------------------------------------------------------------------------
(***************************************************************************)
(* The monitor, and time.                                                   *)
(***************************************************************************)
Losses(p, pnl) ==
  IF pnl >= 0 THEN 0 ELSE IF streak[p] < MaxStreak THEN streak[p] + 1 ELSE MaxStreak

\* closeCryptoTrade.  The monitor, one at a time, is all that closes a position.
Closes(o, pnl) ==
  /\ o \in open /\ Free(MonitorHome)
  /\ open' = open \ {o}
  /\ realized' = realized + pnl
  /\ LET p == o.slot.profile IN
       /\ streak' = [streak EXCEPT ![p] = Losses(p, pnl)]
       /\ daily' = [daily EXCEPT ![p] = @ + pnl]
       /\ cooled' = [cooled EXCEPT ![p] = FALSE]
  /\ Disturbs(MonitorHome)
  /\ UNCHANGED <<cycles, lastEntryBar, bounds, began, entered, lapsed>>

\* The hours of the cooldown pass.
Cools(p) ==
  /\ Cooling(p)
  /\ cooled' = [cooled EXCEPT ![p] = TRUE]
  /\ UNCHANGED <<cycles, lastEntryBar, trades, streak, daily, bounds, history>>

Midnight ==
  /\ daily' = [p \in Profile |-> 0]
  /\ UNCHANGED <<cycles, lastEntryBar, trades, streak, cooled, bounds, history>>

Next ==
  \/ \E r \in Runner : Begins(r) \/ Skips(r) \/ Scans(r) \/ Reserves(r)
                       \/ Inserts(r) \/ InsertThrows(r)
  \/ \E h \in Process : Restarts(h)
  \/ \E o \in open, pnl \in Pnls : Closes(o, pnl)
  \/ \E p \in Profile : Cools(p)
  \/ Midnight

Spec == Init /\ [][Next]_vars

-------------------------------------------------------------------------------
(***************************************************************************)
(* Properties                                                               *)
(***************************************************************************)
\* However cycles overlap, a slot has at most one open position for each line of
\* cycles: hasOpenPosition is asked three awaits before the insert, so that cycles
\* that overlap may each open one, but none of them a second.
OnePerRunner ==
  \A o, q \in open : o.slot = q.slot /\ o.by = q.by => o = q

\* A position that is opened leaves the desk's margin covered, unless a process
\* other than its own wrote a trade between the check and the insert: within a
\* process nothing comes between them (openCryptoPosition).
MarginIsCovered ==
  [][\A o \in open' \ open : Available' >= 0 \/ disturbed[o.by]]_vars

\* A profile that cools down after losses opens nothing in the cycles begun since:
\* only a cycle under way, with its older snapshot, may still open a position.
CooldownStopsNewCycles ==
  [][\A o \in open' \ open : o.slot.profile \notin began[o.by]]_vars

\* A process whose cycles do not overlap enters a slot a second time on a bar ("entry
\* already attempted on this closed 4h bar") only after a lapse: an entry whose note
\* was lost to a write that threw, or one on candles older than those it had seen.
\* The note, kept for the last entry only and made after the insert, gives no more.
OneEntryPerBar ==
  [][\A o \in open' \ open :
       /\ \A r \in Runner : Home[r] = Home[o.by] => r = o.by
       /\ <<o.slot, barTime[o.by]>> \in entered[Home[o.by]]
       => o.slot \in lapsed'[Home[o.by]]]_vars
===============================================================================
