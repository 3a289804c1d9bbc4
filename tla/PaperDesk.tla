------------------------------ MODULE PaperDesk -------------------------------
(***************************************************************************)
(* The agent process of src/server: the engines that open paper trades,    *)
(* the tasks that close them, the startup reconciliation, and a crash at   *)
(* any point, all on one treasury.                                         *)
(*                                                                         *)
(* Node runs one callback at a time.  A task keeps the event loop (`loop') *)
(* from one await to the next; between two awaits it may commit several    *)
(* SQLite transactions, and each is a step of its own, because a crash can *)
(* fall between them.  What a step reads at an await's far side is what    *)
(* the database holds then; what a task read before it is in `queue'.      *)
(*                                                                         *)
(* A member of Trade is one attempt to open a position, from the signal to *)
(* the row of the trades table it may end in:                              *)
(*   Spot    scalp_v2, swing_v1, breakout_v1, through openCryptoPosition   *)
(*   Scalp   crypto_scalp, through the legacy one-minute loop              *)
(*   Binary  prediction and event_alpha, through executeTrade              *)
(* Futures positions reserve nothing in this treasury and are not here.    *)
(***************************************************************************)
EXTENDS Treasury, FiniteSets

CONSTANTS
  Spot, Scalp, Binary,   \* the attempts, by the path that opens them
  Monitor,               \* positionMonitor, under the scheduler's lock
  Managers,              \* concurrent runs of manageCryptoPositions
  Learners,              \* concurrent runs of runLearningCycle
  Reconciler,            \* runStartupReconciliation
  NoTrade,               \* no trade in hand
  Aged,                  \* trades that may stay open for over 50 days
  MaxSize,               \* largest amount an engine proposes
  Pnls,                  \* profits and losses a close may realise
  MaxOpenTrades,         \* LIMITS.maxOpenTrades
  RealTrading,           \* the REAL_TRADING flag
  MaxCrashes             \* bound on the crashes of a behaviour

Trade == Spot \cup Scalp \cup Binary
Closers == {Monitor} \cup Managers
Task == Closers \cup Learners \cup {Reconciler}

ASSUME DeskAssumption ==
  /\ IsFiniteSet(Trade)
  /\ Spot \cap Scalp = {} /\ Spot \cap Binary = {} /\ Scalp \cap Binary = {}
  /\ Monitor \notin Managers
  /\ Closers \cap Learners = {} /\ Reconciler \notin Closers \cup Learners
  /\ Trade \cap Task = {}
  /\ NoTrade \notin Trade
  /\ "free" \notin Trade \cup Task
  /\ MaxSize \in Nat
  /\ Pnls \subseteq Int
  /\ MaxOpenTrades \in Nat
  /\ RealTrading \in BOOLEAN
  /\ MaxCrashes \in Nat

VARIABLES
  status,       \* trades.status, "none" while there is no row
  capital,      \* trades.capital_used
  ticket,       \* the council decision of the attempt
  flow,         \* where the attempt to open is
  amount,       \* what the attempt has reserved
  task,         \* where each closing task is
  queue,        \* the open trades its snapshot still holds
  current,      \* the trade it has in hand
  loop,         \* who holds the event loop
  degraded,     \* reconciliation ended DEGRADED: isSafeMode()
  futuresOnly,  \* FUTURES_ONLY_MODE of this boot
  crashes,      \* crashes so far
  refunded      \* history: settlement rows written for the trade

tradeVars == <<status, capital>>
flowVars == <<flow, amount, ticket>>
taskVars == <<task, queue, current>>
bootVars == <<degraded, futuresOnly, crashes>>
vars == <<treasuryVars, tradeVars, flowVars, taskVars, loop, bootVars, refunded>>

-------------------------------------------------------------------------------
TypeOK ==
  /\ TreasuryTypeOK
  /\ status \in [Trade -> {"none", "open", "closed", "expired"}]
  /\ capital \in [Trade -> 0..MaxSize]
  /\ ticket \in [Trade -> {"none", "rejected", "approved", "consumed", "linked"}]
  /\ flow \in [Trade -> {"idle", "council", "approved", "latency", "reserved",
                         "claimed", "ordering", "inserted",
                         "done", "refused", "dead"}]
  /\ amount \in [Trade -> 0..MaxSize]
  /\ task \in [Task -> {"boot", "idle", "scanning", "waiting", "settling", "peaking"}]
  /\ queue \in [Task -> SUBSET Trade]
  /\ current \in [Task -> Trade \cup {NoTrade}]
  /\ loop \in {"free"} \cup Trade \cup Task
  /\ degraded \in BOOLEAN
  /\ futuresOnly \in BOOLEAN
  /\ crashes \in 0..MaxCrashes
  /\ refunded \in [Trade -> Nat]

Init ==
  /\ TreasuryInit
  /\ status = [t \in Trade |-> "none"]
  /\ capital = [t \in Trade |-> 0]
  /\ ticket = [t \in Trade |-> "none"]
  /\ flow = [t \in Trade |-> "idle"]
  /\ amount = [t \in Trade |-> 0]
  /\ task = [c \in Task |-> IF c = Reconciler THEN "boot" ELSE "idle"]
  /\ queue = [c \in Task |-> {}]
  /\ current = [c \in Task |-> NoTrade]
  /\ loop = "free"
  /\ degraded = FALSE
  /\ futuresOnly \in BOOLEAN
  /\ crashes = 0
  /\ refunded = [t \in Trade |-> 0]

-------------------------------------------------------------------------------
Open == {t \in Trade : status[t] = "open"}

\* The top-level await of the reconciliation is over and the loops run.
Up == task[Reconciler] = "idle"

\* Mutant: the gates never see a reconciliation that ended DEGRADED.
NeverSafeMode == FALSE

isSafeMode == degraded

\* Mutant: one position too many.
CheckAllowsOneMore ==
  /\ ~isSafeMode
  /\ ~IsPaused
  /\ Cardinality(Open) <= MaxOpenTrades

\* The checks of preTradeCheck that the model can tell apart; the others
\* (category, duplicate, daily count, loss streak, horizon) refuse a proposal
\* at will, which is a proposal never made.
PreTradeCheck ==
  /\ ~isSafeMode
  /\ ~IsPaused
  /\ Cardinality(Open) < MaxOpenTrades

-------------------------------------------------------------------------------
(***************************************************************************)
(* Opening a trade.                                                        *)
(***************************************************************************)

\* The gates of the crypto engines and of the binary-market ones, before the
\* council is asked.
CryptoSignal(p) == p \in Spot /\ ~isSafeMode
MarketSignal(p) == p \in Binary /\ PreTradeCheck

\* An engine has a signal and asks the council.
Propose(p) ==
  /\ Up /\ loop = "free"
  /\ flow[p] = "idle"
  /\ CryptoSignal(p) \/ MarketSignal(p)
  /\ flow' = [flow EXCEPT ![p] = "council"]
  /\ UNCHANGED <<treasuryVars, tradeVars, amount, ticket, taskVars, loop,
                 bootVars, refunded>>

\* evaluateTrade ends: the decision is saved, approved or rejected.
CouncilDecides(p) ==
  /\ loop = "free"
  /\ flow[p] = "council"
  /\ \E verdict \in {"approved", "rejected"} :
       /\ ticket' = [ticket EXCEPT ![p] = verdict]
       /\ flow' = [flow EXCEPT ![p] =
                     IF verdict = "approved" THEN "approved" ELSE "refused"]
  /\ UNCHANGED <<treasuryVars, tradeVars, amount, taskVars, loop, bootVars,
                 refunded>>

\* openCryptoPosition up to applyLatency.  The gates refuse when a safe mode is
\* on or the decision has expired.
PassGates(p) ==
  /\ loop = "free"
  /\ p \in Spot /\ flow[p] = "approved"
  /\ \/ /\ ~isSafeMode
        /\ ticket' = [ticket EXCEPT ![p] = "consumed"]
        /\ flow' = [flow EXCEPT ![p] = "latency"]
     \/ /\ flow' = [flow EXCEPT ![p] = "refused"]
        /\ UNCHANGED ticket
  /\ UNCHANGED <<treasuryVars, tradeVars, amount, taskVars, loop, bootVars,
                 refunded>>

\* Where an attempt calls reserveCapital: after the latency, after the council,
\* or (legacy loop) straight after its risk check.
AfterLatency(p) == p \in Spot /\ flow[p] = "latency"
AfterCouncil(p) == p \in Binary /\ flow[p] = "approved"
LegacyEntry(p) == p \in Scalp /\ flow[p] = "idle" /\ ~futuresOnly /\ PreTradeCheck

Reserving(p) ==
  /\ Up /\ loop = "free"
  /\ AfterLatency(p) \/ AfterCouncil(p) \/ LegacyEntry(p)

ReserveFor(p) ==
  /\ Reserving(p)
  /\ \E a \in 1..MaxSize :
       /\ CanReserve(a)
       /\ Reserve(a)
       /\ amount' = [amount EXCEPT ![p] = a]
  /\ flow' = [flow EXCEPT ![p] = "reserved"]
  /\ loop' = p
  /\ UNCHANGED <<tradeVars, ticket, taskVars, bootVars, refunded>>

\* The legacy loop goes on to its next asset; the other paths give up.
ReserveRefused(p) ==
  /\ Reserving(p) /\ p \notin Scalp
  /\ \E a \in 1..MaxSize : ~CanReserve(a)
  /\ flow' = [flow EXCEPT ![p] = "refused"]
  /\ UNCHANGED <<treasuryVars, tradeVars, amount, ticket, taskVars, loop,
                 bootVars, refunded>>

\* The gate of executeTrade.  Its callers have reserved the capital by now, and
\* when it refuses (the decision has expired) they release nothing.
ConsumeTicket(p) ==
  /\ loop = p
  /\ p \in Binary /\ flow[p] = "reserved"
  /\ \/ /\ ticket' = [ticket EXCEPT ![p] = "consumed"]
        /\ flow' = [flow EXCEPT ![p] = "claimed"]
        /\ UNCHANGED loop
     \/ /\ flow' = [flow EXCEPT ![p] = "refused"]
        /\ loop' = "free"
        /\ UNCHANGED ticket
  /\ UNCHANGED <<treasuryVars, tradeVars, amount, taskVars, bootVars, refunded>>

\* Real trading: the order goes out and the task awaits the answer, unless the
\* market's source takes no real orders.
PlaceOrder(p) ==
  /\ loop = p
  /\ RealTrading /\ flow[p] = "claimed"
  /\ \E next \in {"ordering", "refused"} : flow' = [flow EXCEPT ![p] = next]
  /\ loop' = "free"
  /\ UNCHANGED <<treasuryVars, tradeVars, amount, ticket, taskVars, bootVars,
                 refunded>>

\* The order failed, or was placed without an id: no trade, no release.
OrderFails(p) ==
  /\ loop = "free"
  /\ flow[p] = "ordering"
  /\ flow' = [flow EXCEPT ![p] = "refused"]
  /\ UNCHANGED <<treasuryVars, tradeVars, amount, ticket, taskVars, loop,
                 bootVars, refunded>>

\* Mutant: the fees of a paper fill come on top of the reserved amount.
FillCostsPlusFee(p) == 0..(amount[p] + 1)

\* What a fill of the reserved amount costs.  Whole (or 1/10000) shares are
\* bought, so a paper fill may cost less; a real one is booked at the amount.
FillCosts(p) == IF flow[p] = "ordering" THEN {amount[p]} ELSE 0..amount[p]

InsertTrade(p) ==
  /\ \/ loop = p /\ flow[p] = "reserved" /\ p \notin Binary
     \/ loop = p /\ flow[p] = "claimed" /\ ~RealTrading
     \/ loop = "free" /\ flow[p] = "ordering"
  /\ status' = [status EXCEPT ![p] = "open"]
  /\ \E cost \in FillCosts(p) : capital' = [capital EXCEPT ![p] = cost]
  /\ IF p \in Scalp
       THEN flow' = [flow EXCEPT ![p] = "done"] /\ loop' = "free"
       ELSE flow' = [flow EXCEPT ![p] = "inserted"] /\ loop' = p
  /\ UNCHANGED <<treasuryVars, amount, ticket, taskVars, bootVars, refunded>>

AttachTrade(p) ==
  /\ loop = p
  /\ flow[p] = "inserted"
  /\ ticket' = [ticket EXCEPT ![p] = "linked"]
  /\ flow' = [flow EXCEPT ![p] = "done"]
  /\ loop' = "free"
  /\ UNCHANGED <<treasuryVars, tradeVars, amount, taskVars, bootVars, refunded>>

Opening(p) ==
  \/ Propose(p) \/ CouncilDecides(p) \/ PassGates(p)
  \/ ReserveFor(p) \/ ReserveRefused(p) \/ ConsumeTicket(p)
  \/ PlaceOrder(p) \/ OrderFails(p) \/ InsertTrade(p) \/ AttachTrade(p)

-------------------------------------------------------------------------------
(***************************************************************************)
(* Closing trades.  A task takes a snapshot of the open trades it looks    *)
(* after, then works through them with an await (a price, a market status, *)
(* a simulated latency) before each decision.                              *)
(***************************************************************************)
Covers(c) ==
  IF c = Monitor THEN Spot
  ELSE IF c \in Managers THEN Scalp
  ELSE IF c \in Learners THEN Binary
  ELSE Trade

\* The prediction tick and the legacy loop do not run in futures-only mode.
Enabled(c) == c = Monitor \/ ~futuresOnly

\* c is done with the trade in hand and awaits its next one.
NextTrade(c) ==
  /\ task' = [task EXCEPT ![c] = "scanning"]
  /\ queue' = [queue EXCEPT ![c] = @ \ {current[c]}]
  /\ current' = [current EXCEPT ![c] = NoTrade]

StartScan(c) ==
  /\ c # Reconciler
  /\ Up /\ loop = "free" /\ Enabled(c)
  /\ task[c] = "idle"
  /\ task' = [task EXCEPT ![c] = "scanning"]
  /\ queue' = [queue EXCEPT ![c] = Open \cap Covers(c)]
  /\ UNCHANGED <<treasuryVars, tradeVars, flowVars, current, loop, bootVars,
                 refunded>>

LookUp(c) ==
  /\ loop = "free" /\ task[c] = "scanning"
  /\ c = Reconciler => ~futuresOnly
  /\ \E t \in queue[c] : current' = [current EXCEPT ![c] = t]
  /\ task' = [task EXCEPT ![c] = "waiting"]
  /\ UNCHANGED <<treasuryVars, tradeVars, flowVars, queue, loop, bootVars,
                 refunded>>

\* No exit condition holds, no price came back, the market is still open, or
\* its status is unknown.
Pass(c) ==
  /\ loop = "free" /\ task[c] = "waiting"
  /\ NextTrade(c)
  /\ UNCHANGED <<treasuryVars, tradeVars, flowVars, loop, bootVars, refunded>>

SetStatus(t, s) == status' = [status EXCEPT ![t] = s] /\ UNCHANGED capital

\* closeCryptoTrade: UPDATE ... WHERE id = ?, whatever the row's status is by now.
CloseCryptoTrade(c) ==
  /\ loop = "free" /\ task[c] = "waiting" /\ c \in Closers
  /\ SetStatus(current[c], "closed")
  /\ task' = [task EXCEPT ![c] = "settling"]
  /\ loop' = c
  /\ UNCHANGED <<treasuryVars, flowVars, queue, current, bootVars, refunded>>

\* settleTradeCapital(capital_used, pnl); an expired trade has no pnl.
Settle(c) ==
  /\ loop = c /\ task[c] = "settling"
  /\ \E pnl \in IF status[current[c]] = "expired" THEN {0} ELSE Pnls :
       AppendSettlement(capital[current[c]], pnl)
  /\ refunded' = [refunded EXCEPT ![current[c]] = @ + 1]
  /\ task' = [task EXCEPT ![c] = "peaking"]
  /\ UNCHANGED <<tradeVars, flowVars, queue, current, loop, bootVars>>

MarkPeak(c) ==
  /\ loop = c /\ task[c] = "peaking"
  /\ RaisePeak
  /\ NextTrade(c)
  /\ loop' = "free"
  /\ UNCHANGED <<tradeVars, flowVars, bootVars, refunded>>

\* Mutant: closeTrade closes the row whatever its status is by now.
RowIsThere(t) == status[t] # "none"

\* closeTrade's UPDATE ... WHERE id = ? AND status = 'open'.
RowIsOpen(t) == status[t] = "open"

\* The market resolved: closeTrade with settleCapital closes and settles in one
\* transaction, and leaves the peak alone.
ResolveTrade(c) ==
  /\ loop = "free" /\ task[c] = "waiting" /\ c \in Learners
  /\ LET t == current[c] IN
       /\ RowIsOpen(t)
       /\ SetStatus(t, "closed")
       /\ \E pnl \in Pnls : AppendSettlement(capital[t], pnl)
       /\ refunded' = [refunded EXCEPT ![t] = @ + 1]
  /\ NextTrade(c)
  /\ UNCHANGED <<flowVars, loop, bootVars>>

\* The market was cancelled: the row is expired without a look at its status,
\* then the call of settleTradeCapital, which the module does not import, throws
\* and ends the learning cycle.
CancelTrade(c) ==
  /\ loop = "free" /\ task[c] = "waiting" /\ c \in Learners
  /\ SetStatus(current[c], "expired")
  /\ task' = [task EXCEPT ![c] = "idle"]
  /\ queue' = [queue EXCEPT ![c] = {}]
  /\ current' = [current EXCEPT ![c] = NoTrade]
  /\ UNCHANGED <<treasuryVars, flowVars, loop, bootVars, refunded>>

\* Mutant: a scan that is over keeps its lock.
FinishScanLocked(c) ==
  /\ loop = "free" /\ task[c] = "scanning" /\ queue[c] = {}
  /\ task' = [task EXCEPT ![c] = IF c = Monitor THEN "scanning" ELSE "idle"]
  /\ UNCHANGED <<treasuryVars, tradeVars, flowVars, queue, current, loop,
                 bootVars, refunded>>

\* The end of a scan.  A learning cycle first expires the trades that have been
\* open for over 50 days, of any kind.
FinishScan(c) ==
  /\ loop = "free" /\ task[c] = "scanning" /\ queue[c] = {}
  /\ task' = [task EXCEPT ![c] = "idle"]
  /\ \/ UNCHANGED status
     \/ \E stale \in SUBSET (Open \cap Aged) :
          /\ c \in Learners
          /\ status' = [t \in Trade |-> IF t \in stale THEN "expired" ELSE status[t]]
  /\ UNCHANGED <<treasuryVars, capital, flowVars, queue, current, loop, bootVars,
                 refunded>>

\* A database error (another process holds the write lock for over the busy
\* timeout) ends the scan.  A trade whose row is closed by then stays unsettled.
ScanThrows(c) ==
  /\ c # Reconciler
  /\ \/ loop = "free" /\ task[c] = "waiting"
     \/ loop = c /\ task[c] = "settling"
  /\ task' = [task EXCEPT ![c] = "idle"]
  /\ queue' = [queue EXCEPT ![c] = {}]
  /\ current' = [current EXCEPT ![c] = NoTrade]
  /\ loop' = "free"
  /\ UNCHANGED <<treasuryVars, tradeVars, flowVars, bootVars, refunded>>

-------------------------------------------------------------------------------
(***************************************************************************)
(* Startup reconciliation, which runs to its end before anything else.     *)
(***************************************************************************)

\* Mutant: the boot takes every trade there is, not the open ones.
BootScanAll ==
  /\ task[Reconciler] = "boot"
  /\ task' = [task EXCEPT ![Reconciler] = "scanning"]
  /\ queue' = [queue EXCEPT ![Reconciler] = {t \in Trade : status[t] # "none"}]
  /\ degraded' = FALSE
  /\ UNCHANGED <<treasuryVars, tradeVars, flowVars, current, loop, futuresOnly,
                 crashes, refunded>>

BootScan ==
  /\ task[Reconciler] = "boot"
  /\ task' = [task EXCEPT ![Reconciler] = "scanning"]
  /\ queue' = [queue EXCEPT ![Reconciler] = Open]
  /\ degraded' = FALSE
  /\ UNCHANGED <<treasuryVars, tradeVars, flowVars, current, loop, futuresOnly,
                 crashes, refunded>>

\* Futures-only mode: every trade of this desk is expired and refunded.
ExpireLegacyTrade ==
  /\ loop = "free" /\ task[Reconciler] = "scanning" /\ futuresOnly
  /\ \E t \in queue[Reconciler] :
       /\ RowIsOpen(t)
       /\ SetStatus(t, "expired")
       /\ current' = [current EXCEPT ![Reconciler] = t]
  /\ task' = [task EXCEPT ![Reconciler] = "settling"]
  /\ loop' = Reconciler
  /\ UNCHANGED <<treasuryVars, flowVars, queue, bootVars, refunded>>

\* The exchange says cancelled or resolved; crypto positions have no exchange.
RecoverTrade ==
  /\ loop = "free" /\ task[Reconciler] = "waiting"
  /\ current[Reconciler] \in Binary
  /\ \/ SetStatus(current[Reconciler], "expired")
     \/ RowIsOpen(current[Reconciler]) /\ SetStatus(current[Reconciler], "closed")
  /\ task' = [task EXCEPT ![Reconciler] = "settling"]
  /\ loop' = Reconciler
  /\ UNCHANGED <<treasuryVars, flowVars, queue, current, bootVars, refunded>>

\* The exchange says something else: the desk ends up DEGRADED.
ReportConflict ==
  /\ loop = "free" /\ task[Reconciler] = "waiting"
  /\ current[Reconciler] \in Binary
  /\ degraded' = TRUE
  /\ NextTrade(Reconciler)
  /\ UNCHANGED <<treasuryVars, tradeVars, flowVars, loop, futuresOnly, crashes,
                 refunded>>

\* The same error in the reconciliation is caught trade by trade: the desk ends
\* up DEGRADED, with the trade expired or closed and not settled, or still open.
CatchFailure ==
  /\ \/ loop = Reconciler /\ task[Reconciler] = "settling" /\ NextTrade(Reconciler)
     \/ /\ loop = "free" /\ task[Reconciler] = "scanning" /\ futuresOnly
        /\ \E t \in queue[Reconciler] : queue' = [queue EXCEPT ![Reconciler] = @ \ {t}]
        /\ UNCHANGED <<task, current>>
  /\ degraded' = TRUE
  /\ loop' = "free"
  /\ UNCHANGED <<treasuryVars, tradeVars, flowVars, futuresOnly, crashes, refunded>>

\* An error outside those catches: the agent logs it and starts all the same,
\* under the status that some earlier reconciliation has left in org_state.
ReconciliationThrows ==
  /\ loop = "free" /\ task[Reconciler] \in {"boot", "waiting"}
  /\ task' = [task EXCEPT ![Reconciler] = "idle"]
  /\ queue' = [queue EXCEPT ![Reconciler] = {}]
  /\ current' = [current EXCEPT ![Reconciler] = NoTrade]
  /\ degraded' \in BOOLEAN
  /\ UNCHANGED <<treasuryVars, tradeVars, flowVars, loop, futuresOnly, crashes,
                 refunded>>

\* The process dies and is started again.  The database survives.
Crash ==
  /\ crashes < MaxCrashes
  /\ crashes' = crashes + 1
  /\ flow' = [p \in Trade |->
                IF flow[p] \in {"idle", "done", "refused"} THEN flow[p] ELSE "dead"]
  /\ task' = [c \in Task |-> IF c = Reconciler THEN "boot" ELSE "idle"]
  /\ queue' = [c \in Task |-> {}]
  /\ current' = [c \in Task |-> NoTrade]
  /\ loop' = "free"
  /\ futuresOnly' \in BOOLEAN
  /\ UNCHANGED <<treasuryVars, tradeVars, amount, ticket, degraded, refunded>>

Closing(c) ==
  \/ StartScan(c) \/ LookUp(c) \/ Pass(c) \/ CloseCryptoTrade(c)
  \/ Settle(c) \/ MarkPeak(c) \/ ResolveTrade(c) \/ CancelTrade(c) \/ FinishScan(c)
  \/ ScanThrows(c)

Reconciling ==
  \/ BootScan \/ ExpireLegacyTrade \/ RecoverTrade \/ ReportConflict
  \/ CatchFailure \/ ReconciliationThrows

Next ==
  \/ \E p \in Trade : Opening(p)
  \/ \E c \in Task : Closing(c)
  \/ Reconciling
  \/ Crash

Spec == Init /\ [][Next]_vars

-------------------------------------------------------------------------------
(***************************************************************************)
(* What should hold of the ledger, whatever the interleaving of engines,   *)
(* closing tasks and crashes.                                              *)
(***************************************************************************)

\* Every unit of the portfolio is either available or set aside: no settlement
\* ever takes more out of in_trades than there is in it (the MAX(0, ...) of
\* settleTradeCapital would then make money out of nothing).
LedgerBalances == available + inTrades = total

\* The units of capital committed to open positions, one by one.
OpenUnits ==
  {x \in Trade \X (1..MaxSize) : status[x[1]] = "open" /\ x[2] <= capital[x[1]]}

\* The capital of the open positions is still set aside: a second refund of one
\* trade would eat into the reservation of another.
OpenTradesAreCovered == Cardinality(OpenUnits) <= inTrades

\* The units each attempt has reserved and not been given back: all of them
\* until its trade is settled, and then what the fill left over.
OwedUnits ==
  {x \in Trade \X (1..MaxSize) :
     /\ x[2] <= amount[x[1]]
     /\ refunded[x[1]] > 0 => x[2] > capital[x[1]]}

\* in_trades is exactly what has been reserved and not given back, over any
\* number of crashes: nothing else writes it.
InTradesIsOwed == inTrades = Cardinality(OwedUnits)

\* No trade's capital is given back twice: not by two closing tasks that both
\* had it in their snapshot, not by a task and the reconciliation of a restart.
SettledOnce == \A t \in Trade : refunded[t] <= 1

\* Once the reconciliation has ended DEGRADED no position is opened until the
\* process is started again: not even by an engine that was past its own check.
DegradedOpensNothing ==
  [][\A t \in Trade : Up /\ degraded /\ status[t] = "none" => status'[t] = "none"]_vars

\* The attempts that have passed preTradeCheck and may still insert a trade: the
\* check is behind them, and with it the count of the open positions.
Passed ==
  {p \in Binary \cup Scalp :
     flow[p] \in {"council", "approved", "reserved", "claimed", "ordering"}}

\* As long as no two attempts are past the check at a time, the positions that it
\* guards never outnumber LIMITS.maxOpenTrades, whatever orders are awaited, tasks
\* close and crashes cut short.  (The other engines open spot positions without it.)
CapHoldsInTurn ==
  [](Cardinality(Passed) <= 1) => [](Cardinality(Open \ Spot) <= MaxOpenTrades)

\* The desk keeps the promise of Escrow.  An attempt holds its amount from the
\* reservation to the first settlement.
hold == [t \in Trade |->
           IF refunded[t] > 0 THEN "released"
           ELSE IF amount[t] > 0 THEN "held" ELSE "none"]

Promise == INSTANCE Escrow WITH hold <- hold, held <- amount
KeepsPromise == Promise!Spec

-------------------------------------------------------------------------------
(***************************************************************************)
(* Progress.  Node runs every callback that is ready, so code between two  *)
(* awaits runs to its end (WF) and a task waiting for the loop gets it     *)
(* (SF).  A spot position has a time limit, so lookups of it sooner or     *)
(* later find an exit, provided the price feed answers now and then (SF).  *)
(***************************************************************************)
Fairness ==
  /\ \A p \in Trade : WF_vars(loop = p /\ Opening(p))
  /\ \A c \in Task : WF_vars(loop = c /\ Closing(c))
  /\ SF_vars(Closing(Monitor))
  /\ \A t \in Spot : SF_vars(current[Monitor] = t /\ CloseCryptoTrade(Monitor))
  /\ WF_vars(Closing(Reconciler) \/ Reconciling)

FairSpec == Spec /\ Fairness

\* Every open spot position is closed in the end, whatever restarts, other
\* tasks holding the loop, and lookups without a price come in between.
SpotTradesEnd == \A t \in Spot : status[t] = "open" ~> status[t] # "open"
===============================================================================
