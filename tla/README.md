# Formal models of the Genesis HQ trading desk

TLA+ models of the part of this repository that moves money: the virtual
treasury, the engines that open paper (and, for Kalshi, real) positions, the
tasks that close them, the reconciliation of a restart, the two safe modes that
stand before every trade, the scheduler that runs the engines, the protocol of a
real order and the socket its fills come on, the futures book with its margin,
and the replication that carries it all over a redeploy. TLC checks them on
small instances; TLAPS proves the main results for every value of the constants.

Paths below are relative to `src/server/` unless they say otherwise.

## 1. Inventory

The repository is one JavaScript program: a React client, an HTTP server
(`index.mjs`), an agent process (`agentRunner.mjs`), an optimizer and a few
one-shot scripts, around one SQLite database that the processes share.
Each process is single-threaded: code between two `await`s runs undisturbed, so
interleaving happens at awaits, between processes, and at a crash between two
committed transactions.

| Component | State | Operations | Talks to | Hard about it | Correct when |
|---|---|---|---|---|---|
| Treasury (`trading/treasury.mjs`) | newest row of `capital_history`, `org_state.peak_capital` | `ensureTreasury`, `reserveCapital`, `settleTradeCapital` | every path that opens or closes | several writers, a clamp that hides errors, the peak written apart from the row | the row adds up; `in_trades` is what is really set aside |
| Spot paper execution (`trading/paperExecutionEngine.mjs`) | trades, decisions | `openCryptoPosition`, `closeCryptoPosition` | council, treasury, trades | gates, then a simulated latency, then reserve and insert; close and settle apart | no capital is paid back twice |
| Binary execution (`trading/workflow.mjs`, `trading/execution.mjs`, `strategies/eventAlphaEngine.mjs`) | same | `stepExecute`, `executeTrade`, `runLearningCycle` | Kalshi | reserve before the ticket is consumed; overlapping cycles | same |
| Legacy crypto loop (`crypto/*Workflow.mjs`, `crypto/positionManager.mjs`) | same | open, `manageCryptoPositions` | price feed | a `setInterval` without a lock | same |
| Trades (`memory/tradingMemory.mjs`) | `trades` | `saveTrade`, `closeTrade`, `getOpenTrades` | all of the above | one close checks the row's status, the other does not | a closed trade stays closed |
| Council (`crypto/decisionCouncil.mjs`, `crypto/decisionMemory.mjs`) | `council_decisions` | evaluate, consume once, attach | engines | decisions expire while they are waited on | a decision opens one trade |
| Position monitor (`trading/positionMonitor*.mjs`) | none | `monitorPositions` | price feed, `closeCryptoPosition` | snapshot, then awaits | every position is closed in the end |
| Risk check (`trading/riskManager.mjs`) | none | `preTradeCheck` | trades, treasury, safe modes | a check before an await | the limits hold |
| Startup reconciliation (`memory/reconciliationEngine.mjs`) | a row of `org_state`, a cache per process | `runStartupReconciliation`, `clearSafeMode`, `isSafeMode` | exchanges, trades, treasury | refunds after a crash; one status, two caches | nothing opens on top of unexplained positions |
| Global risk (`risk/globalRiskEngine.mjs`) | module variables of the agent | `refreshGlobalRiskScore`, `isGlobalSafeMode` | engines | hysteresis and fail-safe together | critical risk stops trading, and only a low score lifts it |
| Scheduler (`trading/executionScheduler.mjs`) | `_timers`, `_running`, `_started` | start, stop, three loops, triggers | engines, monitor | overlapping ticks, a shared flag, errors, stray one-shot timers | no engine runs twice at a time and none stops for good |
| Agent (`agentRunner.mjs`) | a few flags | boot, `tick`, loops | everything | order of the boot; restarts | |
| Futures engines and book (`strategies/futuresBreakoutEngine.mjs`, `crypto/futures*.mjs`) | `_lastEntryBar` per process; the rest derived from `trades` | breakout cycle, open, close, supervisor | council, `trades`, monitor | cycles of several processes, margin derived and not reserved, one snapshot of the governor a cycle | margin is never oversold, a cooldown holds |
| Kalshi orders (`trading/execution.mjs`, `utils/retry.mjs`) | a breaker | `placeKalshiOrder`, `withRetry`, `CircuitBreaker.execute` | Kalshi | lost answers are taken for refusals, a crash with an order on its way | one order for one decision, no order forgotten |
| Kalshi fills (`kalshi/ws.mjs`, `kalshi/adapter.mjs`, `kalshi/fillProcessor.mjs`) | socket, four timers, a set of seen fills | connect, ping, fill, reconnect | Kalshi, API server | silent death, replays, a bounded memory | one connection, renewed when it is dead, and no fill reported again |
| Replication (`persistence/*.mjs`) | a cursor per table | `replicateOnce`, `restoreFromPg` | Postgres | passes that overlap, a watermark on text timestamps, half-done upserts | what is restored is what was |
| Hosted runner (`scripts/runHostedFuturesTick.mjs`) | none | restore, one tick, replicate | all of the above | a second host | |
| API server, scanner, org commands, learning, genesis research, Solana desk, prediction-market live execution, canary, UI | | | | | listed in `PROJECT.json` with the reason they are left out |

`PROJECT.json` lists every component with its status, and under `hazards`
what is hard to test, each at its line, with the properties that watch it.

## 2. The modules

| Module | What it is |
|---|---|
| `Treasury` | the ledger: reservation, settlement row, peak, as operators the desk's actions are built from |
| `Escrow` | abstract specification: what the desk promises about capital |
| `PaperDesk` | the agent process: opening, closing, reconciling and crashing on one treasury |
| `SafeModes` | both safe modes, in two processes |
| `ExecutionScheduler` | timers, flags and engine calls |
| `KalshiOrders` | a real order: endpoints, payloads, answers, the breaker, a crash |
| `KalshiSocket` | the connection for fills and the memory of those reported |
| `FuturesBook` | breakout cycles of several processes over one margin and one supervisor |
| `Replication` | passes from SQLite to Postgres, deploys and restores |
| `MCPaperDesk`, `MCKalshiOrders`, `MCFuturesBook`, `MCReplication` | values of the constants for TLC, and the symmetries of `kalshi_orders` and `repl_copy` |
| `PaperDeskProofs`, `PaperDeskPromises`, `SafeModesProofs`, `ExecutionSchedulerProofs`, `KalshiOrdersProofs`, `KalshiSocketProofs`, `FuturesBookProofs`, `ReplicationProofs` | theorems and proofs |

### PaperDesk

A member of `Trade` is one attempt to open a position, by one of three paths:
`Spot` (scalping, swing, breakout: council, gates, latency, reserve, insert,
attach), `Binary` (prediction and event alpha: risk check, council, reserve,
consume the decision, order if `RealTrading`, insert, attach) and `Scalp` (the
legacy loop: risk check, reserve, insert). `flow` is where the attempt is,
`ticket` its council decision, `amount` what it has reserved, `status` and
`capital` its row of `trades`.

Closing is done by tasks: the `Monitor` (spot), `Managers` (runs of
`manageCryptoPositions`), `Learners` (runs of `runLearningCycle`) and the
`Reconciler` of the boot. A task takes a snapshot of open trades (`queue`), and
for each awaits a price, a market status or a latency (`waiting`), then closes
and settles. Two members of `Learners` or `Managers` are two runs that overlap.

`loop` is who has the event loop. A step that ends in an `await` sets it free; a
step that commits a transaction and goes on (close, then settle, then peak)
keeps it, so nothing interleaves there, and still each transaction is a step,
because `Crash` may fall between any two. `Crash` keeps what is in SQLite and
loses the rest; the next life starts with the reconciliation, in either mode
(`futuresOnly`).

A database error (another process holds the write lock for longer than the busy
timeout) is `ScanThrows` in a closing task, `CatchFailure` or
`ReconciliationThrows` in the boot.

What is abstracted:

- Money is an integer. `FillCosts` says that the row's `capital_used` may be
  less than the reservation (whole shares, four decimals) and not more;
  unrealised profit and loss is zero on the synchronous path of `getTreasury`.
- Signals, debates, council verdicts, exit conditions, prices and exchange
  answers are choices.
- The checks of `preTradeCheck` that look at something the model lacks
  (category, duplicate, daily count, loss streak, horizon) may refuse at will,
  and a refusal is an attempt never proposed.
- Futures positions take nothing from this treasury: they are in `FuturesBook`.
- A real order is one choice of outcome here; `KalshiOrders` is its protocol.

### SafeModes

`state` is the module variable `_state` of the agent and of the server, `row`
the row of `org_state` they share; a process reads the row once, and keeps its
copy. `CheckTrade`, `ReconciliationEnds` and `ReconciliationThrows` are the
boot; `ServerReports`, `clearSafeMode` and the restarts are what the rest of the
world does meanwhile. A failed save leaves the row as it was. The risk score is
`low` (79 or less), `middle`, `high` (85 or more), `failed`, or `unknown`, which
it is until the first computation. The model ends at the gates: what may become
of the risk in the awaits between a gate and the insert is not in it, and
nothing is said of the insert.

### ExecutionScheduler

`at[stage]` counts the engine calls that really are at an await of that stage,
independently of the flags `running`; `timers` counts the intervals of a loop
that tick, `delayed` the one-shot timers that will start one. `stopScheduler`
clears the intervals and not the one-shot timers, as the code does. `Return`
includes the engines throwing.

### KalshiOrders

An attempt is a proposal past its gates, at the call of `executeTrade`. `Begins`
enters the breaker and posts the first payload to the first endpoint. The answer
is an id, no id, a refusal, an error status for an order that was placed all
the same, an unsupported path, or nothing: `Hears...` and
`GivesUp` are what the two nested loops of `placeKalshiOrder` do with each. The
exchange is external: it takes a request out of `mail` when it likes, also after
the sender has given up or died, and that is what makes a retry dangerous.
`unheard` and `unsaved` are history variables that name the ways in which an
order may come to have no row. `breaker`, `failures` and `cooled` are the
`CircuitBreaker`; calls let through while it was closed may fail or succeed after
others have opened it.

### KalshiSocket

`socket` is `readyState`, and the three Booleans are the timers `#reconnectTimer`,
`#pingInterval` and `#pingDeadline`. `alive` says whether the exchange is still
at the other end, which the code finds out from a ping only. `seen` is the set of
order ids, which the code empties when it is full; `forgets` counts that, and
restarts, for the property. What the exchange reports while the line is down may
never come: the client subscribes again and asks for nothing it has missed.

### FuturesBook

A runner is a line of cycles that does not overlap itself: the agent's SLOW
loop, a request of the API server, the command line. Several may share a process
(`Home`). A cycle goes through the slots (profile and pair) in the order of
`Scan`; at a slot it awaits candles (`fetching`), asks `hasOpenPosition` and its
process's `_lastEntryBar`, awaits price, council and latency (`entering`), looks
at the margin (`reserved`) and inserts. Nothing of its process runs between the
last two (`Free`), and another process may. The supervisor's cooldown is read once
for the whole cycle (`blocked`). Margin is a sum over the open rows, as in
`getFuturesCapitalState`.

There is no clock of bars: a scan sees any of `MaxBar` bars, also one older than
the last, as the candles may come from a cache file that another process has
written. `Inserts` has both outcomes of an insert that commits: the bar is noted
and the cycle goes on, or one of the two writes between insert and note
(`attachTradeToDecision`, `logEvent`) throws, and then the position is open, the bar
is not noted and the cycle ends. `InsertThrows` is the insert that does not
commit. `entered` and `lapsed` are history variables for `OneEntryPerBar`: the
bars on which a process has entered a slot, and the slots of which it may have
lost one.

### Replication

One table stands for each mode of `dbReplicator.mjs`: `trades` (cursor on a
timestamp expression), `capital_history` (rowid), `org_state` (sent whole). A
pass takes them in turn: read a page, land its rows one at a time (a row of the
model is a batch of 200), then move the cursor; `Fails` may strike at any point
of it, rows landed or not. Several passes may be under way, since `setInterval`
does not wait. Stamps are numbers that keep the order of the texts: a
`datetime('now')` stamp sorts below each ISO stamp of its day. `Wipe` is a deploy
that loses the disk, `Boots` the restore, table by table. `slipped` is a history
variable: the trades of which the code will send no later version, and why. The
flush on SIGTERM is a pass like any other, cut off by a restart; the restore that
`DB_MODE=postgres` forces on a database with trades in it is not modelled. A
request of a process that has died lands before the next boot or not at all:
the model gives it up with the process.

## 3. The runs

| Run | Shows | Bounds |
|---|---|---|
| `desk_engines` | ledger, coverage, single settlement, degraded desk, refinement of `Escrow`; every open spot position ends (fair) | a spot and a binary attempt, the monitor, two learning cycles, one crash, both modes; 126,864 distinct states |
| `desk_real` | the ledger and the refinement with real orders; the cap on open positions | a legacy and a binary attempt, one manager, one learner, one crash, a cap of one position; 15,852 |
| `safe_gates` | what the safe modes guarantee | two processes, two restarts, two trades a boot; 5,376 |
| `scheduler_locks` | flags, overlap, progress (fair) | two stops, hence up to three timers for one loop |
| `kalshi_orders` | duplicates and lost orders have a cause each; the breaker counts right | three attempts, two endpoints, threshold 2, one crash; 554,000 |
| `kalshi_socket` | one line, no repeated report, a dead line is replaced (fair) | three orders, a memory of two, three forgettings; 5,382 |
| `futures_book` | slots, margin, cooldown and bars under cycles that overlap | the agent's cycle and the server's, two pairs of one profile, two bars, margins of 1 out of 2, three positions, one restart; 2.95 million |
| `repl_copy` | the ledger behind the cursor is copied, a restore is a beginning, a stale trade has a known cause | two trades, two passes, pages of one row, two ledger rows, one wipe; 1.05 million |
| `repl_live` | ledger and state get to Postgres (fair) | two passes, two ledger rows, one flip, one wipe, one restart; 50,000 |
| `desk_overlap`, `repl_watermark`, `kalshi_linked` | each finds a behaviour against a statement of the repository (section 6) | the smallest instance that has it |

`MCPaperDesk` explains the amounts: 40 units of capital and a cap of 5% make a
proposal of 1 too small, 2 accepted and 3 too large, and a loss of 2 is a
drawdown of exactly 5%, which pauses the desk; so every refusal of
`reserveCapital` occurs but the insufficient one, which needs more than
twenty positions to come before the others. A second settlement needs one trade and
two closers, and eating into another trade's reservation needs two trades: the
instances have both. One crash gives two lives, and the second life meets
everything the first can leave behind; what more crashes could do is covered by
the proofs, which have no bound. In `desk_real` the cap is one position, so
that two attempts can reach it: when they take turns the second is refused, and
when the first is still at an await the second gets through, which is the case
that `CapHoldsInTurn` sets apart. Runs with a liveness property or with
`CapHoldsInTurn` use no symmetry.

For the other bounds: two endpoints are enough for a retry after a lost answer,
and three attempts for calls that overlap an opening breaker. A socket's memory
of two is full at the third order. Two passes are enough for one to overtake the
other, pages of one row for a page cut between equal stamps, and two ledger rows
for a gap. In `futures_book` two positions take all of the margin, a single loss
starts a cooldown and two reach the limit of the day, and the third position tells whether it
holds. Closes lose 1 or come out even, since a profit only adds to what is
available; two bars are enough for an older one to be seen after a newer. The
theorems about the book have no such bounds.

Deadlock is checked in all runs but those of `KalshiOrders`, whose attempts all
end: a proposal is one call. A desk can always at least start a scan, a socket
ping, a book see midnight, and a replicator start a pass.

### What the safety properties say

- `LedgerBalances`: available + in_trades = total, that is, the `MAX(0, ...)` of
  the settlement row never has to invent money.
- `InTradesIsOwed`: `in_trades` is exactly what has been reserved and not given
  back. Crashes, failed settlements and refused attempts leave capital there for
  ever: this property says precisely how much, not that it is right to do so.
- `OpenTradesAreCovered`: the capital of the open positions is within
  `in_trades`; a double refund would eat into another trade's.
- `SettledOnce`: no trade's capital is given back twice, by two closers that had
  it in their snapshots or by a closer and the reconciliation of a restart.
- `DegradedOpensNothing`: no step inserts a row while the desk is degraded.
- `CapHoldsInTurn`: attempts that never are past `preTradeCheck` two at a time
  open no more positions than `LIMITS.maxOpenTrades`. It says what the check is
  worth, given that the count is taken before an await and never again: the cap
  itself is not kept (section 6, statement 6). Spot positions are not counted by
  it, since their engines do not ask.
- `KeepsPromise`: `PaperDesk` implements `Escrow`, with an attempt's reservation
  mapped to `hold` and `held`.
- `TroubleOpensNothing`: after a reconciliation that met a conflict, and until
  the operator clears the safe mode, the agent lets nothing through, whatever
  the server caches, reports, fails to save or restarts. Nothing is said of what
  follows a clear (section 6, statement 8).
- `LiftedByLowScore`, `NothingAtCriticalRisk`: the hysteresis holds also after a
  failure of the engine, and the gates, as far as they go, turn every trade away
  while the score is critical or has failed.
- `OneMonitor`, `OneCallPerLoop`, `FlagsAreHeld`: the flags keep calls apart and
  none leaks.
- `DuplicatesWereUnheard`: two orders for one decision mean that an answer got
  lost. It says how duplicates come about, not that there are none.
- `OrdersAreAccountedFor`: an order at the exchange has a row, is awaited, or is
  one of five known losses. An error status is a loss too: the code takes it for
  a refusal, and the order may have been placed.
- `BreakerTrips`: a closed breaker has seen fewer failures in a row than its
  threshold, in whatever order overlapping calls end.
- `OneLine`: a socket or a reconnect timer, never both and never neither.
  `DeadLineIsReplaced` is its liveness: a line that is closed, or dead without a
  word, is followed by a new attempt to connect. Whether that succeeds, ends at
  all, or brings the fills missed is up to the exchange.
- `ReportedOncePerMemory`: a replay is not reported again until the memory is
  emptied. That a second fill of the same order is not reported either is how
  the code counts (its key is the order's id), and no property praises it.
- `OnePerRunner`, `MarginIsCovered`, `CooldownStopsNewCycles`, `OneEntryPerBar`:
  what the checks of the book are worth, given how early each is made: a slot
  may be opened once by each of two overlapping cycles and not twice by one;
  margin is oversold only if another process wrote in between; a cooldown
  stops the cycles begun since; a process that keeps a single line of cycles
  enters a slot again on a bar only if the note of an entry was lost to a write
  that threw, or overwritten by one for an older bar.
- `LedgerCopiedToCursor`, `RestoresABeginning`: the ledger loses its newest rows
  in a deploy, and never one in the middle.
- `OnlySlippedTradesAreStale`: apart from stamps behind a watermark, pages cut
  between equal stamps, and a pass that overtakes another, nothing makes
  Postgres keep an old trade.

### Fairness

- `PaperDesk`: Node runs every callback that is ready, so who has the event loop
  goes on (`WF`), and the monitor, which competes for it with other tasks,
  gets it again and again (`SF`). A spot position has a time limit, so a price
  that comes back late enough is an exit; that prices come back now and then
  is the one assumption about the outside (`SF` on the close of a trade the
  monitor has in hand). Opening engines and learners get no fairness beyond
  finishing what they have begun. The number of crashes is bounded, so crashes
  end.
- `ExecutionScheduler`: an interval that ticks goes on ticking, a one-shot timer
  fires, and an engine's await ends: its requests carry
  `AbortSignal.timeout(...)` (for example `crypto/priceFeeder.mjs:140`).
  Nothing is assumed about `startScheduler`, `stopScheduler` and triggers.
- `KalshiSocket`: timers fire, a terminated socket is closed, and the constructor
  does not throw for ever (`WF` each). Nothing is assumed of the exchange: an
  attempt may stay pending for good, since no handshake timeout is set, and no
  message has to come.
- `Replication`: passes go on and requests end, one way or the other (`WF` on the
  steps of a pass and on `Boots`); what is asked of Postgres again and again does
  not fail for ever at the same point (`SF`, for each number of batches left).

## 4. The proofs

`PaperDeskProofs` proves type correctness and `SettledOnce`. `SettledOnce` is not
inductive: that a settlement is the first of its trade depends on how the
settling task came to hold it. The inductive invariant `DeskInv` adds:

- `InHand`: who has a trade in hand or the event loop, and at which step;
- `BootIsAlone`: while the reconciliation runs, no other task does;
- `Snapshots`: a task's snapshot holds trades of its own kind that have a row;
- `Attempts`: what an attempt has reserved and inserted at each point of its
  flow, and that a row never costs more than was reserved for it;
- `SettlingIsClosed`: a task between close and settlement has a closed trade in hand;
- `OpenIsUnsettled`: an open trade has not been settled;
- `UnguardedIsUnsettled`: what a task that may close without looking at the
  status (monitor, manager, reconciliation) has in its snapshot has not been
  settled by anyone else.

The last one is where the code's discipline lies: `closeTrade` checks
`status = 'open'` in its UPDATE and needs nothing else, while
`closeCryptoTrade` does not, and is safe only if one task at a time holds its
trades. For the spot desk that task is the monitor, of which the scheduler's
flag allows one (`MonitorsNeverOverlap` in `ExecutionSchedulerProofs` proves
just that, for any number of stops, timers and triggers). For the legacy loop
nothing ensures it: runs of `manageCryptoPositions` are started by a
`setInterval` without a lock. The invariant is therefore stated for a set of
trades (`InvAmong(T)`), and proved in three strengths:

- for spot and binary trades it needs nothing (`OthersSettledOnce`): whatever
  overlaps, the damage stays with the legacy loop's trades;
- for all trades it needs that no two runs of the manager overlap in time
  (`[]NoOverlap`, a condition on the behaviour: any number of runs may follow each
  other), and `desk_overlap` shows what happens without it;
- two cases meet the condition by themselves, and there it is not assumed: a desk
  that only boots in futures-only mode, the default of the agent
  (`agentRunner.mjs:84`), starts no manager at all (`FuturesOnlyKeepsBooks`), and a
  single manager overlaps with no other (`OneManagerKeepsBooks`).

The cap on open positions has an invariant of its own (`CapInv`): positions that
the check guards and attempts past the check are together at most
`MaxOpenTrades + K - 1`, as long as there are at most K such attempts. Passing
the check adds an attempt when the count is below the cap; an insert turns an
attempt into a position; nothing else adds to either. `CapIsBounded` says so for
every K, that is, by how much overlapping attempts can exceed the cap, and
`CapHolds` is its case K = 1.

`PaperDeskPromises` goes on from `DeskInv`: the books (`BooksInv`: in_trades as
the cardinality of the owed units, and the balance of the row) give
`InTradesIsOwed`, `LedgerBalances` and `OpenTradesAreCovered`; the promise of
`Escrow` follows step by step; `DegradedOpensNothing` needs only that no attempt
is past its gate when the boot ends. `SafeModesProofs` and
`ExecutionSchedulerProofs` have an invariant each (`SafeInv`, `SchedulerInv`);
`TimersInv` adds what stops and starts in a row do to the intervals: FAST never
has two, and MID and SLOW have at most one for each stop besides their own.

The other four modules need an invariant of the same kind: what someone who
waits believes, and why nothing that happens meanwhile makes it false.

- `KalshiOrdersProofs`: requests are posted in order, and one that is not the last
  can only be with the exchange (in its mail or as an order) if it was given up;
  an answer on its way is true; and the way an attempt ended says what became
  of its last request (`Posts`, `Answers`, `Ends`). From the same invariant
  follows how much one decision can leave at the exchange: at most one order
  for each request given up, and one more (`OrdersBounded`); and beside the order of
  a saved row only orders that were given up (`OthersGivenUp`). The breaker's
  part is independent of it.
- `KalshiSocketProofs`: an id reported more often than the memory was emptied
  is in the memory.
- `FuturesBookProofs`: a runner past `hasOpenPosition` has no open position of its
  own in that slot, since only it makes one; a cycle's snapshot contains what was
  cooling down when it began; and notes lead: in a process with one runner, the
  bars of a slot that has not lapsed were entered in order, none is newer than
  the one noted, and a runner past its scan holds another bar than that one
  (`NotesLead`). For the margin (`MarginInv`): what a
  runner found available when it looked is still there when it inserts, unless
  another process has traded since (`Found`), because between the two at most one
  runner of a process is at work (`OneInserts`). The available margin is a sum
  over the open rows, computed by a recursive function over the ids; that an
  insert or a close moves the sum by just its own margin (`SumMoves`) is an
  induction over the ids, done without an induction theorem: of the ids at which
  the old and the new partial sums do not differ as they should, take the
  smallest (`LeastOf`), which the recursion equation refutes. `OverdraftHolds`
  then names every way in which the available margin falls below zero, and
  `SlotIsBounded` counts what `OnePerRunner` allows: a slot has at most as many
  open positions as there are lines of cycles.
- `ReplicationProofs`: neither cursor goes past the newest row of the ledger, so no
  row is written behind one; below the cursor a pass will set, each row is copied
  or in its batch (`Copying`), and each trade also may have slipped (`Tracing`);
  while every deploy has restored the ledger, it has no gaps and Postgres
  has a beginning of it, because rows land oldest first (`Beginning`). `MaxIs`
  gets the largest element of a bounded set from the well-foundedness of `<`.

Proved, for all values of the constants that satisfy the named assumptions
(`TreasuryAssumption`, `DeskAssumption`, `SafeModesAssumption`,
`SchedulerAssumption`, `OrdersAssumption`, `SocketAssumption`, `BookAssumption`,
`ReplicationAssumption`; and `[]NoOverlap`, `[]futuresOnly` or `OneManager` where
the theorem names it): the type invariant of every module, and

- desk: `CapitalSettledOnce`, `InTradesCountsReservations`,
  `LedgerAlwaysBalances`, `OpenTradesStayCovered` and `DeskKeepsPromise` while
  managers do not overlap; `OthersSettledOnce`, `DegradedDeskOpensNothing`,
  `CapIsBounded` and `CapHolds` always; `FuturesOnlyKeepsBooks`,
  `OneManagerKeepsBooks`;
- safe modes: `TroubledAgentOpensNothing`, `OnlyLowScoreLifts`,
  `CriticalRiskOpensNothing`;
- scheduler: `MonitorsNeverOverlap`, `FlagsStayExact`, `OneCallHolds`,
  `TimersBounded`;
- orders and fills: `DuplicatesHold`, `AccountsHold`, `OrdersBounded`,
  `OthersGivenUp`, `BreakerHolds`, `OneLineHolds`, `ReportsHold`;
- futures book: `OnePerRunnerHolds`, `SlotIsBounded`, `MarginHolds`,
  `OverdraftHolds`, `CooldownHolds`, `OneEntryHolds`;
- replication: `Copies`, `OnlySlips`, `Restores`.

Only model-checked: the liveness properties (`SpotTradesEnd`,
`PositionsAreWatched`, `LoopsGoRound`, `DeadLineIsReplaced`, `LedgerGetsThere`,
`StateConverges`), as liveness under fairness is out of the prover's reach, and
the runs that find a violation. Every invariant and every action property of the
other runs is a theorem. The theorems that state no property of a run are
bounds, stronger forms and corollaries of those that do.

## 5. Not modelled, and why

- The hosted runner: a second host with a database of its own, for which no
  document says what should hold when both have written. Its futures cycle is one
  more runner of `FuturesBook`.
- `processFill` beyond its lookup: it finds no trade, as no order id is linked
  (section 6), and changes nothing.
- The governor's verdict on the last weeks, the economics of a setup, the journal,
  and the tightening of futures stops: they skip a slot, scale a margin or move
  an exit, all of which may happen in the model anyway.
- How a signal, a debate, a council or a risk score is computed: arithmetic over
  market data, with no effect on control beyond the verdict.
- Timer phases: that the MID monitor may always find a FAST one under way at the
  same instant is not expressible here.
- Statistics, lessons, calibration, timeline: best-effort writes after a trade is
  closed and settled.
- Genesis research, the Solana desk, prediction-market live execution and the
  canary: desks of their own with their own state, not called by the agent's
  loops. The Solana desk opens and closes without an await between check and write.
- The HTTP routes, the React client, the edge functions and the org simulation,
  which are most of the repository's lines: they present state, or set pauses
  that are refusals like any other. The two routes a gate depends on are in
  `SafeModes`.

## 6. Statements the code does not keep

Shown by a run:

1. `SettledOnce` under overlapping runs of `manageCryptoPositions`
   (`crypto/positionManager.mjs:43`): the caller's `if (!closedTrade) continue`
   expects null for a trade already closed, and `closeCryptoTrade` never gives
   it. Needs FUTURES_ONLY_MODE off. Run `desk_overlap`.
2. "watermark on a timestamp expr — catches inserts AND updates"
   (`persistence/dbReplicator.mjs:15`): a close stamped by `datetime('now')` sorts
   below the ISO stamp of the opening, behind the watermark, and is never
   sent. Run `repl_watermark`.
3. "Save trade with Kalshi order ID linked" (`trading/execution.mjs:84`): the id
   is passed under a name that `saveTrade` does not read. Run `kalshi_linked`.

Read off the code while modelling it; the models contain the behaviour, and no
property says otherwise:

4. "Market was delisted/cancelled — expire immediately so capital is returned"
   (`trading/workflow.mjs:350`): `settleTradeCapital` is not imported there.
5. "Evaluated BEFORE reserving capital so a rejection never leaks a reservation"
   (`trading/workflow.mjs:147-148`): `executeTrade` may refuse after the
   reservation, and nobody releases it.
6. "same limits (max 5 open positions total across both strategies)"
   (`docs/superpowers/specs/2026-06-04-crypto-scalping-design.md:40`, under
   `src/`): the count is taken before an await. `CapIsBounded` says by how much
   overlapping attempts exceed it.
7. "If any position cannot be verified (network failure, conflict) → DEGRADED"
   (`agentRunner.mjs:281`): a failed lookup is null, and null counts as open.
8. "Safe mode cleared — trading resumed" (`index.mjs:1729`), and "POST
   /api/reconciliation/clear to resume" (`memory/reconciliationEngine.mjs:344`): the
   agent has cached its own status and stays blocked until it restarts. The model
   has the cache; `TroubleOpensNothing` ends at the clear.
9. "entry already attempted on this closed 4h bar"
   (`strategies/futuresBreakoutEngine.mjs:464`): after a write that throws between the
   insert and the note, or on candles older than those seen before, the slot may be
   entered again on a bar. `OneEntryPerBar` names both.
10. "Never allow trading when system risk is unknown." (`risk/globalRiskEngine.mjs:20`):
   trades are let through before the first score.

## 7. Plan

Done: `Treasury`, `Escrow`, `PaperDesk`, `SafeModes`, `ExecutionScheduler`,
`KalshiOrders`, `KalshiSocket`, `FuturesBook`, `Replication`, with their proofs.

Next, in this order:

1. `Replication` under `PaperDesk`: a restart that loses the disk, so that the
   reconciliation meets a trade that Postgres still has open beside a ledger row
   that has settled it. Abstract specification: what is restored is an earlier
   state of SQLite, which `OnlySlippedTradesAreStale` says when it is not.
2. `CouncilDecisions`: the life of a decision across engines, expiry and restart,
   as a component under `PaperDesk` and `FuturesBook`. Theorem: a decision opens at
   most one trade.
3. The tightening of futures stops in `FuturesBook`: stops only tighten, also when
   two processes close.
4. The hosted runner as a second writer of Postgres.

## 8. Running

    tlc -config PaperDesk_engines.cfg MCPaperDesk
    tlc -config SafeModes_gates.cfg SafeModes
    tlc -config ExecutionScheduler_locks.cfg ExecutionScheduler
    tlc -config Replication_copy.cfg MCReplication
    tlc -config FuturesBook_book.cfg MCFuturesBook
    tlapm PaperDeskProofs.tla

Each file `<Module>_<run>.cfg` belongs to the run of that name in
`PROJECT.json`. The comments that begin with "Mutant:" in the modules mark
definitions no specification uses: each is a plausible slip in the code it
stands for, and putting it in place of the definition after it breaks
the properties listed under `mutants`.
