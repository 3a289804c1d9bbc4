------------------------------- MODULE Treasury -------------------------------
(***************************************************************************)
(* The virtual capital ledger of src/server/trading/treasury.mjs.  Its     *)
(* state is the newest row of capital_history and the peak_capital row of  *)
(* org_state, both in SQLite, so both survive a crash of the process.      *)
(*                                                                         *)
(* Money is an integer number of indivisible units (the code stores        *)
(* dollars and rounds to cents).  The five reinvestment buckets of a row   *)
(* are fixed shares of each positive pnl and feed back into nothing, so    *)
(* they are left out.                                                      *)
(***************************************************************************)
EXTENDS Integers

CONSTANTS
  StartingCapital,    \* total of the first row
  MinTrade,           \* smallest reservation (MIN_TRADE_USD)
  MaxPositionPct,     \* largest reservation, in percent of the total
  DrawdownPausePct    \* drawdown from the peak that pauses trading, in percent

ASSUME TreasuryAssumption ==
  /\ StartingCapital \in Nat \ {0}
  /\ MinTrade \in Nat \ {0}
  /\ MaxPositionPct \in 1..100
  /\ DrawdownPausePct \in 1..100

VARIABLES
  total,      \* capital_history.total: everything the desk owns
  available,  \* capital_history.available: what a new trade may reserve
  inTrades,   \* capital_history.in_trades: what reservations have taken out
  peak        \* org_state.peak_capital: the high-water mark of the total

treasuryVars == <<total, available, inTrades, peak>>

TreasuryTypeOK ==
  /\ total \in Int
  /\ available \in Int
  /\ inTrades \in Nat
  /\ peak \in Nat

TreasuryInit ==
  /\ total = StartingCapital
  /\ available = StartingCapital
  /\ inTrades = 0
  /\ peak = StartingCapital

-------------------------------------------------------------------------------
\* getTreasury().isPaused.  Unrealised pnl is unknown on this synchronous path
\* and counted as zero.
IsPaused ==
  peak > 0 /\ (peak - total) * 100 >= DrawdownPausePct * peak

\* The four refusals of reserveCapital, in one predicate.
CanReserve(amount) ==
  /\ ~IsPaused
  /\ amount >= MinTrade
  /\ amount <= available
  /\ amount * 100 <= total * MaxPositionPct

\* Mutant: the reservation is taken off in_trades instead of added to it.
ReserveSignSlip(amount) ==
  /\ available' = available - amount
  /\ inTrades' = inTrades - amount
  /\ UNCHANGED <<total, peak>>

\* The row reserveCapital appends.
Reserve(amount) ==
  /\ available' = available - amount
  /\ inTrades' = inTrades + amount
  /\ UNCHANGED <<total, peak>>

\* Mutant: the profit or loss moves the total only.
SettlementWithoutPnl(capitalUsed, pnl) ==
  /\ total' = total + pnl
  /\ available' = available + capitalUsed
  /\ inTrades' = IF inTrades >= capitalUsed THEN inTrades - capitalUsed ELSE 0
  /\ UNCHANGED peak

\* The row settleTradeCapital appends (and closeTrade with settleCapital: true).
AppendSettlement(capitalUsed, pnl) ==
  /\ total' = total + pnl
  /\ available' = available + capitalUsed + pnl
  /\ inTrades' = IF inTrades >= capitalUsed THEN inTrades - capitalUsed ELSE 0
  /\ UNCHANGED peak

\* The second half of settleTradeCapital: the peak follows the new total up.
\* It is a write of its own, after the row is committed.
RaisePeak ==
  /\ peak' = IF total > peak THEN total ELSE peak
  /\ UNCHANGED <<total, available, inTrades>>
===============================================================================
