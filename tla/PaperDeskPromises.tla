--------------------------- MODULE PaperDeskPromises ---------------------------
(***************************************************************************)
(* Theorems about the books of the desk, on the invariants of              *)
(* PaperDeskProofs: what in_trades counts, the balance of the ledger, the  *)
(* refinement of Escrow, and what a degraded desk does not do.             *)
(***************************************************************************)
EXTENDS PaperDeskProofs

\* While the desk is degraded, or not up yet, no attempt is on its way.
Parked == {"idle", "done", "refused", "dead"}
DegradedIsParked == degraded \/ ~Up => \A p \in Trade : flow[p] \in Parked

DegradedInv == TypeOK /\ InHand /\ Snapshots /\ DegradedIsParked

-------------------------------------------------------------------------------

\* Every way out of idle asks for safe mode first, and the boot ends every attempt.
LEMMA DegradedIsParkedStep ==
  TypeOK /\ InHand /\ DegradedIsParked /\ [Next]_vars => DegradedIsParked'
<1> SUFFICES ASSUME TypeOK, InHand, DegradedIsParked, [Next]_vars PROVE DegradedIsParked'
  OBVIOUS
<1> USE Constants DEF TypeOK, InHand, DegradedIsParked, Up, Parked, flowVars,
   isSafeMode, tradeVars, taskVars, bootVars
<1>1. ASSUME NEW p \in Trade, Propose(p) PROVE DegradedIsParked'
  BY <1>1 DEF Propose, CryptoSignal, MarketSignal, PreTradeCheck
<1>2. ASSUME NEW p \in Trade, CouncilDecides(p) PROVE DegradedIsParked'
  BY <1>2 DEF CouncilDecides
<1>3. ASSUME NEW p \in Trade, PassGates(p) PROVE DegradedIsParked'
  BY <1>3 DEF PassGates
<1>4. ASSUME NEW p \in Trade, ReserveFor(p) PROVE DegradedIsParked'
  BY <1>4 DEF ReserveFor, Reserving, AfterLatency, AfterCouncil, LegacyEntry,
     Reserve, CanReserve, PreTradeCheck
<1>5. ASSUME NEW p \in Trade, ReserveRefused(p) PROVE DegradedIsParked'
  BY <1>5 DEF ReserveRefused, Reserving, AfterLatency, AfterCouncil, LegacyEntry
<1>6. ASSUME NEW p \in Trade, ConsumeTicket(p) PROVE DegradedIsParked'
  BY <1>6 DEF ConsumeTicket
<1>7. ASSUME NEW p \in Trade, PlaceOrder(p) PROVE DegradedIsParked'
  BY <1>7 DEF PlaceOrder
<1>8. ASSUME NEW p \in Trade, OrderFails(p) PROVE DegradedIsParked'
  BY <1>8 DEF OrderFails
<1>9. ASSUME NEW p \in Trade, InsertTrade(p) PROVE DegradedIsParked'
  BY <1>9 DEF InsertTrade, FillCosts
<1>10. ASSUME NEW p \in Trade, AttachTrade(p) PROVE DegradedIsParked'
  BY <1>10 DEF AttachTrade
<1>11. ASSUME NEW c \in Task, StartScan(c) PROVE DegradedIsParked'
  BY <1>11 DEF StartScan
<1>12. ASSUME NEW c \in Task, LookUp(c) PROVE DegradedIsParked'
  BY <1>12 DEF LookUp
<1>13. ASSUME NEW c \in Task, Pass(c) PROVE DegradedIsParked'
  BY <1>13 DEF Pass, NextTrade
<1>14. ASSUME NEW c \in Task, CloseCryptoTrade(c) PROVE DegradedIsParked'
  BY <1>14 DEF CloseCryptoTrade, SetStatus
<1>15. ASSUME NEW c \in Task, Settle(c) PROVE DegradedIsParked'
  BY <1>15 DEF Settle, AppendSettlement
<1>16. ASSUME NEW c \in Task, MarkPeak(c) PROVE DegradedIsParked'
  BY <1>16 DEF MarkPeak, RaisePeak, NextTrade
<1>17. ASSUME NEW c \in Task, ResolveTrade(c) PROVE DegradedIsParked'
  BY <1>17 DEF ResolveTrade, RowIsOpen, SetStatus, AppendSettlement, NextTrade
<1>18. ASSUME NEW c \in Task, CancelTrade(c) PROVE DegradedIsParked'
  BY <1>18 DEF CancelTrade, SetStatus
<1>19. ASSUME NEW c \in Task, FinishScan(c) PROVE DegradedIsParked'
  BY <1>19 DEF FinishScan
<1>20. ASSUME NEW c \in Task, ScanThrows(c) PROVE DegradedIsParked'
  BY <1>20 DEF ScanThrows
<1>21. CASE BootScan
  BY <1>21 DEF BootScan
<1>22. CASE ExpireLegacyTrade
  BY <1>22 DEF ExpireLegacyTrade, RowIsOpen, SetStatus
<1>23. CASE RecoverTrade
  BY <1>23 DEF RecoverTrade, RowIsOpen, SetStatus
<1>24. CASE ReportConflict
  BY <1>24 DEF ReportConflict, NextTrade
<1>25. CASE CatchFailure
  BY <1>25 DEF CatchFailure, NextTrade
<1>26. CASE ReconciliationThrows
  BY <1>26 DEF ReconciliationThrows
<1>27. CASE Crash
  BY <1>27 DEF Crash
<1>28. CASE UNCHANGED vars
  BY <1>28 DEF vars
<1>29. QED
  BY <1>1, <1>2, <1>3, <1>4, <1>5, <1>6, <1>7, <1>8, <1>9, <1>10, <1>11, <1>12, <1>13, <1>14, <1>15, <1>16, <1>17, <1>18, <1>19, <1>20, <1>21, <1>22, <1>23, <1>24, <1>25, <1>26, <1>27, <1>28
     DEF Next, Opening, Closing, Reconciling

\* A desk that came up DEGRADED opens no position, not even through an engine
\* that had passed its own checks.
THEOREM DegradedDeskOpensNothing == Spec => DegradedOpensNothing
<1>1. Init => DegradedInv
  BY TypeInit, Constants
  DEF Init, DegradedInv, Snapshots, DegradedIsParked, Parked
<1>2. DegradedInv /\ [Next]_vars => DegradedInv'
  BY TypeStep, SnapshotsStep, DegradedIsParkedStep DEF DegradedInv
<1>3. DegradedInv /\ [Next]_vars =>
        [\A t \in Trade : Up /\ degraded /\ status[t] = "none" => status'[t] = "none"]_vars
  <2> SUFFICES ASSUME DegradedInv, [Next]_vars, NEW t \in Trade,
                      Up, degraded, status[t] = "none"
               PROVE  status'[t] = "none"
    OBVIOUS
  <2> USE Constants DEF DegradedInv, TypeOK, InHand, Snapshots, tradeVars, Up
  <2>1. ASSUME NEW p \in Trade, Opening(p) PROVE status'[t] = "none"
    BY <2>1, OpeningFrame DEF DegradedIsParked, Parked, InFlight
  <2>2. ASSUME NEW c \in Task, StartScan(c) PROVE status'[t] = "none"
    BY <2>2 DEF StartScan
  <2>3. ASSUME NEW c \in Task, LookUp(c) PROVE status'[t] = "none"
    BY <2>3 DEF LookUp
  <2>4. ASSUME NEW c \in Task, Pass(c) PROVE status'[t] = "none"
    BY <2>4 DEF Pass, NextTrade
  <2>5. ASSUME NEW c \in Task, CloseCryptoTrade(c) PROVE status'[t] = "none"
    BY <2>5 DEF CloseCryptoTrade, SetStatus
  <2>6. ASSUME NEW c \in Task, Settle(c) PROVE status'[t] = "none"
    BY <2>6 DEF Settle, AppendSettlement
  <2>7. ASSUME NEW c \in Task, MarkPeak(c) PROVE status'[t] = "none"
    BY <2>7 DEF MarkPeak, RaisePeak, NextTrade
  <2>8. ASSUME NEW c \in Task, ResolveTrade(c) PROVE status'[t] = "none"
    BY <2>8 DEF ResolveTrade, RowIsOpen, SetStatus, AppendSettlement, NextTrade
  <2>9. ASSUME NEW c \in Task, CancelTrade(c) PROVE status'[t] = "none"
    BY <2>9 DEF CancelTrade, SetStatus
  <2>10. ASSUME NEW c \in Task, FinishScan(c) PROVE status'[t] = "none"
    BY <2>10 DEF FinishScan, Open
  <2>11. ASSUME NEW c \in Task, ScanThrows(c) PROVE status'[t] = "none"
    BY <2>11 DEF ScanThrows
  <2>12. CASE BootScan
    BY <2>12 DEF BootScan
  <2>13. CASE ExpireLegacyTrade
    BY <2>13 DEF ExpireLegacyTrade, RowIsOpen, SetStatus
  <2>14. CASE RecoverTrade
    BY <2>14 DEF RecoverTrade, RowIsOpen, SetStatus
  <2>15. CASE ReportConflict
    BY <2>15 DEF ReportConflict, NextTrade
  <2>16. CASE CatchFailure
    BY <2>16 DEF CatchFailure, NextTrade
  <2>17. CASE ReconciliationThrows
    BY <2>17 DEF ReconciliationThrows
  <2>18. CASE Crash
    BY <2>18 DEF Crash
  <2>19. CASE UNCHANGED vars
    BY <2>19 DEF vars
  <2>20. QED
    BY <2>1, <2>2, <2>3, <2>4, <2>5, <2>6, <2>7, <2>8, <2>9, <2>10, <2>11, <2>12, <2>13, <2>14, <2>15, <2>16, <2>17, <2>18, <2>19
       DEF Next, Closing, Reconciling
<1>4. QED
  BY <1>1, <1>2, <1>3, PTL DEF Spec, DegradedOpensNothing

-------------------------------------------------------------------------------
LEMMA PromiseInit == Init => Promise!Init
BY DEF Init, TreasuryInit, Promise!Init, hold

\* Steps of the desk that move no money are steps in which the promise stutters.
LEMMA PromiseStutter ==
  ASSUME UNCHANGED <<total, available, amount, refunded>>
  PROVE  UNCHANGED Promise!escrowVars
BY DEF Promise!escrowVars, hold

LEMMA PromiseTake ==
  ASSUME DeskInv, NEW p \in Trade, ReserveFor(p)
  PROVE  Promise!Next
<1> USE Constants DEF DeskInv, TypeOK, TreasuryTypeOK
<1>1. PICK a \in 1..MaxSize : CanReserve(a) /\ Reserve(a) /\ amount' = [amount EXCEPT ![p] = a]
  BY DEF ReserveFor
<1>2. amount[p] = 0 /\ refunded[p] = 0 /\ refunded' = refunded
  BY DEF ReserveFor, Reserving, AfterLatency, AfterCouncil, LegacyEntry, Attempts,
     Unreserved, InFlight, OpenIsUnsettled
<1>3. a \in 0..available
  BY <1>1, TreasuryAssumption DEF CanReserve
<1>4. hold' = [hold EXCEPT ![p] = "held"] /\ hold[p] = "none"
  <2> DEFINE H(r, m) == IF r > 0 THEN "released" ELSE IF m > 0 THEN "held" ELSE "none"
  <2>1. hold[p] = "none"
    BY <1>2 DEF hold
  <2>2. \A t \in Trade : H(refunded[t], amount'[t]) =
                           IF t = p THEN "held" ELSE H(refunded[t], amount[t])
    BY <1>1, <1>2
  <2>3. hold' = [t \in Trade |-> IF t = p THEN "held" ELSE H(refunded[t], amount[t])]
    BY <1>2, <2>2 DEF hold
  <2>4. QED
    BY <2>1, <2>3 DEF hold
<1>5. Promise!Take(p, a)
  BY <1>1, <1>4 DEF Promise!Take, Reserve
<1>6. QED
  BY <1>3, <1>5 DEF Promise!Next

\* A settlement that is the first of its trade pays back what the promise holds.
LEMMA PromisePayBack ==
  ASSUME DeskInv, NEW t \in Trade, NEW pnl \in Pnls \cup {0},
         refunded[t] = 0, status[t] # "none",
         AppendSettlement(capital[t], pnl),
         refunded' = [refunded EXCEPT ![t] = @ + 1], UNCHANGED amount
  PROVE  Promise!Next
<1> USE Constants DEF DeskInv, TypeOK, TreasuryTypeOK
<1>1. amount[t] > 0 /\ capital[t] \in 0..amount[t]
  BY DEF Attempts
<1>2. hold[t] = "held" /\ hold' = [hold EXCEPT ![t] = "released"]
  <2> DEFINE H(u, r) == IF r > 0 THEN "released" ELSE IF amount[u] > 0 THEN "held" ELSE "none"
  <2>1. hold[t] = "held"
    BY <1>1 DEF hold
  <2>2. \A u \in Trade : H(u, refunded'[u]) =
                           IF u = t THEN "released" ELSE H(u, refunded[u])
    OBVIOUS
  <2>3. hold' = [u \in Trade |-> IF u = t THEN "released" ELSE H(u, refunded[u])]
    BY <2>2 DEF hold
  <2>4. hold = [u \in Trade |-> H(u, refunded[u])]
    BY DEF hold
  <2>5. QED
    BY <2>1, <2>3, <2>4
<1>3. Promise!PayBack(t, capital[t], pnl)
  BY <1>2 DEF Promise!PayBack, AppendSettlement
<1>4. QED
  BY <1>1, <1>3 DEF Promise!Next


\* What a task settles, and that it is the first time.
LEMMA SettleFirst ==
  ASSUME DeskInv, NEW c \in Task, Settle(c)
  PROVE  /\ current[c] \in Trade /\ refunded[current[c]] = 0
         /\ status[current[c]] # "none"
         /\ \E pnl \in Pnls \cup {0} : AppendSettlement(capital[current[c]], pnl)
<1> USE Constants DEF DeskInv, TypeOK, InHand
<1>1. current[c] \in queue[c] /\ c \in Closers \cup {Reconciler}
  BY DEF Settle, SettlingIsClosed, Task
<1>2. refunded[current[c]] = 0 /\ status[current[c]] # "none"
  BY <1>1 DEF Settle, UnguardedIsUnsettled, SettlingIsClosed
<1>3. QED
  BY <1>1, <1>2 DEF Settle

LEMMA ResolveFirst ==
  ASSUME DeskInv, NEW c \in Task, ResolveTrade(c)
  PROVE  /\ current[c] \in Trade /\ refunded[current[c]] = 0
         /\ status[current[c]] # "none"
         /\ \E pnl \in Pnls \cup {0} : AppendSettlement(capital[current[c]], pnl)
BY Constants DEF DeskInv, TypeOK, InHand, ResolveTrade, RowIsOpen, OpenIsUnsettled

\* Every step of the desk is a step of the promise, or none.
LEMMA PromiseStep == DeskInv /\ [Next]_vars => [Promise!Next]_(Promise!escrowVars)
<1> SUFFICES ASSUME DeskInv, [Next]_vars
              PROVE  Promise!Next \/ UNCHANGED Promise!escrowVars
  BY DEF Promise!escrowVars
<1> USE DEF treasuryVars, flowVars, bootVars
<1>1. ASSUME NEW p \in Trade, Propose(p) PROVE Promise!Next \/ UNCHANGED Promise!escrowVars
  BY <1>1, PromiseStutter DEF Propose, CryptoSignal, MarketSignal
<1>2. ASSUME NEW p \in Trade, CouncilDecides(p) PROVE Promise!Next \/ UNCHANGED Promise!escrowVars
  BY <1>2, PromiseStutter DEF CouncilDecides
<1>3. ASSUME NEW p \in Trade, PassGates(p) PROVE Promise!Next \/ UNCHANGED Promise!escrowVars
  BY <1>3, PromiseStutter DEF PassGates
<1>4. ASSUME NEW p \in Trade, ReserveFor(p) PROVE Promise!Next \/ UNCHANGED Promise!escrowVars
  BY <1>4, PromiseTake
<1>5. ASSUME NEW p \in Trade, ReserveRefused(p) PROVE Promise!Next \/ UNCHANGED Promise!escrowVars
  BY <1>5, PromiseStutter DEF ReserveRefused
<1>6. ASSUME NEW p \in Trade, ConsumeTicket(p) PROVE Promise!Next \/ UNCHANGED Promise!escrowVars
  BY <1>6, PromiseStutter DEF ConsumeTicket
<1>7. ASSUME NEW p \in Trade, PlaceOrder(p) PROVE Promise!Next \/ UNCHANGED Promise!escrowVars
  BY <1>7, PromiseStutter DEF PlaceOrder
<1>8. ASSUME NEW p \in Trade, OrderFails(p) PROVE Promise!Next \/ UNCHANGED Promise!escrowVars
  BY <1>8, PromiseStutter DEF OrderFails
<1>9. ASSUME NEW p \in Trade, InsertTrade(p) PROVE Promise!Next \/ UNCHANGED Promise!escrowVars
  BY <1>9, PromiseStutter DEF InsertTrade
<1>10. ASSUME NEW p \in Trade, AttachTrade(p) PROVE Promise!Next \/ UNCHANGED Promise!escrowVars
  BY <1>10, PromiseStutter DEF AttachTrade
<1>11. ASSUME NEW c \in Task, StartScan(c) PROVE Promise!Next \/ UNCHANGED Promise!escrowVars
  BY <1>11, PromiseStutter DEF StartScan
<1>12. ASSUME NEW c \in Task, LookUp(c) PROVE Promise!Next \/ UNCHANGED Promise!escrowVars
  BY <1>12, PromiseStutter DEF LookUp
<1>13. ASSUME NEW c \in Task, Pass(c) PROVE Promise!Next \/ UNCHANGED Promise!escrowVars
  BY <1>13, PromiseStutter DEF Pass
<1>14. ASSUME NEW c \in Task, CloseCryptoTrade(c) PROVE Promise!Next \/ UNCHANGED Promise!escrowVars
  BY <1>14, PromiseStutter DEF CloseCryptoTrade
<1>15. ASSUME NEW c \in Task, Settle(c) PROVE Promise!Next \/ UNCHANGED Promise!escrowVars
  BY <1>15, SettleFirst, PromisePayBack DEF Settle, flowVars
<1>16. ASSUME NEW c \in Task, MarkPeak(c) PROVE Promise!Next \/ UNCHANGED Promise!escrowVars
  BY <1>16, PromiseStutter DEF MarkPeak, RaisePeak, NextTrade
<1>17. ASSUME NEW c \in Task, ResolveTrade(c) PROVE Promise!Next \/ UNCHANGED Promise!escrowVars
  BY <1>17, ResolveFirst, PromisePayBack DEF ResolveTrade, flowVars
<1>18. ASSUME NEW c \in Task, CancelTrade(c) PROVE Promise!Next \/ UNCHANGED Promise!escrowVars
  BY <1>18, PromiseStutter DEF CancelTrade
<1>19. ASSUME NEW c \in Task, FinishScan(c) PROVE Promise!Next \/ UNCHANGED Promise!escrowVars
  BY <1>19, PromiseStutter DEF FinishScan
<1>20. ASSUME NEW c \in Task, ScanThrows(c) PROVE Promise!Next \/ UNCHANGED Promise!escrowVars
  BY <1>20, PromiseStutter DEF ScanThrows
<1>21. CASE BootScan
  BY <1>21, PromiseStutter DEF BootScan
<1>22. CASE ExpireLegacyTrade
  BY <1>22, PromiseStutter DEF ExpireLegacyTrade
<1>23. CASE RecoverTrade
  BY <1>23, PromiseStutter DEF RecoverTrade
<1>24. CASE ReportConflict
  BY <1>24, PromiseStutter DEF ReportConflict
<1>25. CASE CatchFailure
  BY <1>25, PromiseStutter DEF CatchFailure
<1>26. CASE ReconciliationThrows
  BY <1>26, PromiseStutter DEF ReconciliationThrows
<1>27. CASE Crash
  BY <1>27, PromiseStutter DEF Crash
<1>28. CASE UNCHANGED vars
  BY <1>28, PromiseStutter DEF vars
<1>29. QED
  BY <1>1, <1>2, <1>3, <1>4, <1>5, <1>6, <1>7, <1>8, <1>9, <1>10, <1>11, <1>12, <1>13, <1>14, <1>15, <1>16, <1>17, <1>18, <1>19, <1>20, <1>21, <1>22, <1>23, <1>24, <1>25, <1>26, <1>27, <1>28
     DEF Next, Opening, Closing, Reconciling

\* The desk implements Escrow: capital is taken once, and paid back once, never
\* more than was taken plus the trade's profit or loss.
THEOREM DeskKeepsPromise == Spec /\ []NoOverlap => KeepsPromise
<1>1. DeskInv /\ [Next]_vars => [Promise!Next]_(Promise!escrowVars)
  BY PromiseStep
<1>2. QED
  BY PromiseInit, DeskInvariant, <1>1, PTL DEF Spec, KeepsPromise, Promise!Spec

-------------------------------------------------------------------------------
\* The books, unit by unit.
BooksInv == DeskInv /\ InTradesIsOwed /\ LedgerBalances

\* The first n units of one trade.
UnitsOf(t, n) == {t} \X (1..n)

LEMMA UnitsOfCount ==
  ASSUME NEW t, NEW n \in Nat
  PROVE  IsFiniteSet(UnitsOf(t, n)) /\ Cardinality(UnitsOf(t, n)) = n
<1>1. IsFiniteSet({t}) /\ Cardinality({t}) = 1
  BY FS_Singleton
<1>2. IsFiniteSet(1..n) /\ Cardinality(1..n) = n
  BY FS_Interval
<1>3. /\ IsFiniteSet({t} \X (1..n))
      /\ Cardinality({t} \X (1..n)) = Cardinality({t}) * Cardinality(1..n)
  BY <1>1, <1>2, FS_Product
<1>4. QED
  BY <1>1, <1>2, <1>3 DEF UnitsOf

LEMMA OwedUnitsFinite ==
  /\ IsFiniteSet(OwedUnits) /\ Cardinality(OwedUnits) \in Nat
  /\ IsFiniteSet(OpenUnits) /\ Cardinality(OpenUnits) \in Nat
<1>1. IsFiniteSet(1..MaxSize)
  BY Constants, FS_Interval
<1>2. IsFiniteSet(Trade \X (1..MaxSize))
  BY <1>1, DeskAssumption, FS_Product
<1>3. OwedUnits \subseteq Trade \X (1..MaxSize) /\ OpenUnits \subseteq Trade \X (1..MaxSize)
  BY DEF OwedUnits, OpenUnits
<1>4. QED
  BY <1>2, <1>3, FS_Subset, FS_CardinalityType

\* A step that reserves nothing and settles nothing owes what was owed: a fill
\* fixes the cost of a trade that has not been settled.
LEMMA OwedStutter ==
  ASSUME UNCHANGED <<total, available, inTrades, amount, refunded>>, BooksInv,
         \A t \in Trade : refunded[t] > 0 => capital'[t] = capital[t]
  PROVE  InTradesIsOwed' /\ LedgerBalances'
<1>1. OwedUnits' = OwedUnits
  BY DEF OwedUnits
<1>2. QED
  BY <1>1 DEF BooksInv, InTradesIsOwed, LedgerBalances

LEMMA OwedReserve ==
  ASSUME BooksInv, NEW p \in Trade, ReserveFor(p)
  PROVE  InTradesIsOwed' /\ LedgerBalances'
<1> USE Constants DEF BooksInv, DeskInv, TypeOK, TreasuryTypeOK
<1>1. PICK a \in 1..MaxSize : Reserve(a) /\ amount' = [amount EXCEPT ![p] = a]
  BY DEF ReserveFor
<1>2. amount[p] = 0 /\ refunded[p] = 0 /\ refunded' = refunded /\ capital' = capital
  BY DEF ReserveFor, Reserving, AfterLatency, AfterCouncil, LegacyEntry, Attempts,
     Unreserved, InFlight, OpenIsUnsettled, tradeVars
<1>3. OwedUnits' = OwedUnits \cup UnitsOf(p, a) /\ OwedUnits \cap UnitsOf(p, a) = {}
  BY <1>1, <1>2 DEF OwedUnits, UnitsOf
<1>4. Cardinality(OwedUnits') = Cardinality(OwedUnits) + a
  <2>1. IsFiniteSet(UnitsOf(p, a)) /\ Cardinality(UnitsOf(p, a)) = a
    BY UnitsOfCount
  <2>2. Cardinality(OwedUnits \cup UnitsOf(p, a)) =
          Cardinality(OwedUnits) + Cardinality(UnitsOf(p, a))
            - Cardinality(OwedUnits \cap UnitsOf(p, a))
    BY <2>1, OwedUnitsFinite, FS_Union
  <2>3. Cardinality(OwedUnits \cap UnitsOf(p, a)) = 0
    BY <1>3, FS_EmptySet
  <2>4. QED
    BY <1>3, <2>1, <2>2, <2>3, OwedUnitsFinite
<1>5. QED
  BY <1>1, <1>4 DEF InTradesIsOwed, LedgerBalances, Reserve

\* A settlement takes the cost of the trade off what is owed, and finds at least
\* that much in in_trades, so the clamp at zero never bites.
LEMMA OwedPayBack ==
  ASSUME BooksInv, NEW t \in Trade, NEW pnl \in Pnls \cup {0},
         refunded[t] = 0, AppendSettlement(capital[t], pnl),
         refunded' = [refunded EXCEPT ![t] = @ + 1], UNCHANGED <<amount, capital>>
  PROVE  InTradesIsOwed' /\ LedgerBalances'
<1>0. pnl \in Int
  BY Constants
<1> USE Constants DEF BooksInv, DeskInv, TypeOK, TreasuryTypeOK
<1>1. capital[t] \in Nat /\ capital[t] <= amount[t]
  BY DEF Attempts
<1>2. UnitsOf(t, capital[t]) \subseteq OwedUnits
  BY <1>1 DEF OwedUnits, UnitsOf
<1>3. OwedUnits' = OwedUnits \ UnitsOf(t, capital[t])
  BY <1>1 DEF OwedUnits, UnitsOf
<1>4. /\ Cardinality(OwedUnits') = Cardinality(OwedUnits) - capital[t]
      /\ Cardinality(OwedUnits') \in Nat
  <2>1. OwedUnits \cap UnitsOf(t, capital[t]) = UnitsOf(t, capital[t])
    BY <1>2
  <2>2. IsFiniteSet(OwedUnits')
    BY <1>3, OwedUnitsFinite, FS_Difference
  <2>3. Cardinality(OwedUnits \ UnitsOf(t, capital[t])) =
          Cardinality(OwedUnits) - Cardinality(OwedUnits \cap UnitsOf(t, capital[t]))
    BY OwedUnitsFinite, FS_Difference
  <2>4. Cardinality(UnitsOf(t, capital[t])) = capital[t]
    BY <1>1, UnitsOfCount
  <2>5. QED
    BY <1>3, <2>1, <2>2, <2>3, <2>4, FS_CardinalityType
<1>5. inTrades >= capital[t]
  BY <1>1, <1>4, OwedUnitsFinite DEF InTradesIsOwed
<1>6. /\ inTrades' = inTrades - capital[t]
      /\ total' = total + pnl /\ available' = available + capital[t] + pnl
  BY <1>5 DEF AppendSettlement
<1>7. InTradesIsOwed'
  BY <1>4, <1>6 DEF InTradesIsOwed
<1>8. LedgerBalances'
  BY <1>0, <1>1, <1>6 DEF LedgerBalances
<1>9. QED
  BY <1>7, <1>8

LEMMA BooksStep == NoOverlap /\ BooksInv /\ [Next]_vars => BooksInv'
<1> SUFFICES ASSUME NoOverlap, BooksInv, [Next]_vars
              PROVE  InTradesIsOwed' /\ LedgerBalances'
  BY DeskInvStep DEF BooksInv
<1>0. DeskInv /\ TypeOK
  BY DEF BooksInv, DeskInv
<1> USE DEF treasuryVars, flowVars, bootVars, tradeVars
<1>1. ASSUME NEW p \in Trade, Propose(p) PROVE InTradesIsOwed' /\ LedgerBalances'
  BY <1>1, OwedStutter DEF Propose, CryptoSignal, MarketSignal
<1>2. ASSUME NEW p \in Trade, CouncilDecides(p) PROVE InTradesIsOwed' /\ LedgerBalances'
  BY <1>2, OwedStutter DEF CouncilDecides
<1>3. ASSUME NEW p \in Trade, PassGates(p) PROVE InTradesIsOwed' /\ LedgerBalances'
  BY <1>3, OwedStutter DEF PassGates
<1>4. ASSUME NEW p \in Trade, ReserveFor(p) PROVE InTradesIsOwed' /\ LedgerBalances'
  BY <1>4, OwedReserve
<1>5. ASSUME NEW p \in Trade, ReserveRefused(p) PROVE InTradesIsOwed' /\ LedgerBalances'
  BY <1>5, OwedStutter DEF ReserveRefused
<1>6. ASSUME NEW p \in Trade, ConsumeTicket(p) PROVE InTradesIsOwed' /\ LedgerBalances'
  BY <1>6, OwedStutter DEF ConsumeTicket
<1>7. ASSUME NEW p \in Trade, PlaceOrder(p) PROVE InTradesIsOwed' /\ LedgerBalances'
  BY <1>7, OwedStutter DEF PlaceOrder
<1>8. ASSUME NEW p \in Trade, OrderFails(p) PROVE InTradesIsOwed' /\ LedgerBalances'
  BY <1>8, OwedStutter DEF OrderFails
<1>9. ASSUME NEW p \in Trade, InsertTrade(p) PROVE InTradesIsOwed' /\ LedgerBalances'
  <2>1. refunded[p] = 0
    BY <1>9, <1>0 DEF InsertTrade, DeskInv, Attempts, OpenIsUnsettled, InFlight, Unreserved
  <2>2. \A t \in Trade : refunded[t] > 0 => capital'[t] = capital[t]
    BY <1>9, <1>0, <2>1 DEF InsertTrade, TypeOK
  <2>3. QED
    BY <1>9, <2>2, OwedStutter DEF InsertTrade
<1>10. ASSUME NEW p \in Trade, AttachTrade(p) PROVE InTradesIsOwed' /\ LedgerBalances'
  BY <1>10, OwedStutter DEF AttachTrade
<1>11. ASSUME NEW c \in Task, StartScan(c) PROVE InTradesIsOwed' /\ LedgerBalances'
  BY <1>11, OwedStutter DEF StartScan
<1>12. ASSUME NEW c \in Task, LookUp(c) PROVE InTradesIsOwed' /\ LedgerBalances'
  BY <1>12, OwedStutter DEF LookUp
<1>13. ASSUME NEW c \in Task, Pass(c) PROVE InTradesIsOwed' /\ LedgerBalances'
  BY <1>13, OwedStutter DEF Pass
<1>14. ASSUME NEW c \in Task, CloseCryptoTrade(c) PROVE InTradesIsOwed' /\ LedgerBalances'
  BY <1>14, OwedStutter DEF CloseCryptoTrade, SetStatus
<1>15. ASSUME NEW c \in Task, Settle(c) PROVE InTradesIsOwed' /\ LedgerBalances'
  BY <1>15, <1>0, SettleFirst, OwedPayBack DEF Settle
<1>16. ASSUME NEW c \in Task, MarkPeak(c) PROVE InTradesIsOwed' /\ LedgerBalances'
  BY <1>16, OwedStutter DEF MarkPeak, RaisePeak
<1>17. ASSUME NEW c \in Task, ResolveTrade(c) PROVE InTradesIsOwed' /\ LedgerBalances'
  BY <1>17, <1>0, ResolveFirst, OwedPayBack DEF ResolveTrade, SetStatus
<1>18. ASSUME NEW c \in Task, CancelTrade(c) PROVE InTradesIsOwed' /\ LedgerBalances'
  BY <1>18, OwedStutter DEF CancelTrade, SetStatus
<1>19. ASSUME NEW c \in Task, FinishScan(c) PROVE InTradesIsOwed' /\ LedgerBalances'
  BY <1>19, OwedStutter DEF FinishScan
<1>20. ASSUME NEW c \in Task, ScanThrows(c) PROVE InTradesIsOwed' /\ LedgerBalances'
  BY <1>20, OwedStutter DEF ScanThrows
<1>21. CASE BootScan
  BY <1>21, OwedStutter DEF BootScan
<1>22. CASE ExpireLegacyTrade
  BY <1>22, OwedStutter DEF ExpireLegacyTrade, SetStatus
<1>23. CASE RecoverTrade
  BY <1>23, OwedStutter DEF RecoverTrade, SetStatus
<1>24. CASE ReportConflict
  BY <1>24, OwedStutter DEF ReportConflict
<1>25. CASE CatchFailure
  BY <1>25, OwedStutter DEF CatchFailure
<1>26. CASE ReconciliationThrows
  BY <1>26, OwedStutter DEF ReconciliationThrows
<1>27. CASE Crash
  BY <1>27, OwedStutter DEF Crash
<1>28. CASE UNCHANGED vars
  BY <1>28, OwedStutter DEF vars
<1>29. QED
  BY <1>1, <1>2, <1>3, <1>4, <1>5, <1>6, <1>7, <1>8, <1>9, <1>10, <1>11, <1>12, <1>13, <1>14, <1>15, <1>16, <1>17, <1>18, <1>19, <1>20, <1>21, <1>22, <1>23, <1>24, <1>25, <1>26, <1>27, <1>28
     DEF Next, Opening, Closing, Reconciling

LEMMA BooksInvariant == Spec /\ []NoOverlap => []BooksInv
<1>1. Init => BooksInv
  <2> SUFFICES ASSUME Init PROVE InTradesIsOwed /\ LedgerBalances
    BY DeskInvInit DEF BooksInv
  <2>1. OwedUnits = {}
    BY Constants DEF Init, OwedUnits
  <2>2. QED
    BY <2>1, FS_EmptySet, Constants DEF Init, TreasuryInit, InTradesIsOwed, LedgerBalances
<1>2. NoOverlap /\ BooksInv /\ [Next]_vars => BooksInv'
  BY BooksStep
<1>3. QED
  BY <1>1, <1>2, PTL DEF Spec

\* in_trades is what reservations have taken and settlements not given back: no
\* interleaving and no crash makes it forget a reservation or return one twice.
THEOREM InTradesCountsReservations == Spec /\ []NoOverlap => []InTradesIsOwed
<1>1. BooksInv => InTradesIsOwed
  BY DEF BooksInv
<1>2. QED
  BY BooksInvariant, <1>1, PTL

\* Available capital and capital in trades always add up to the total.
THEOREM LedgerAlwaysBalances == Spec /\ []NoOverlap => []LedgerBalances
<1>1. BooksInv => LedgerBalances
  BY DEF BooksInv
<1>2. QED
  BY BooksInvariant, <1>1, PTL

\* Every open position's capital is still set aside in in_trades.
THEOREM OpenTradesStayCovered == Spec /\ []NoOverlap => []OpenTradesAreCovered
<1>1. BooksInv => OpenTradesAreCovered
  <2> SUFFICES ASSUME BooksInv PROVE OpenTradesAreCovered
    OBVIOUS
  <2>1. OpenUnits \subseteq OwedUnits
    BY Constants DEF BooksInv, DeskInv, TypeOK, Attempts, OpenIsUnsettled, OpenUnits, OwedUnits
  <2>2. Cardinality(OpenUnits) <= Cardinality(OwedUnits)
    BY <2>1, OwedUnitsFinite, FS_Subset
  <2>3. QED
    BY <2>2 DEF BooksInv, InTradesIsOwed, OpenTradesAreCovered
<1>2. QED
  BY BooksInvariant, <1>1, PTL

-------------------------------------------------------------------------------
\* The books of the desk are kept.
BooksKept ==
  /\ []SettledOnce /\ []InTradesIsOwed /\ []LedgerBalances /\ []OpenTradesAreCovered
  /\ KeepsPromise

\* They are kept as long as the runs of the legacy position manager do not overlap.
LEMMA BooksUnlessOverlap == Spec /\ []NoOverlap => BooksKept
BY CapitalSettledOnce, InTradesCountsReservations, LedgerAlwaysBalances,
   OpenTradesStayCovered, DeskKeepsPromise, PTL DEF BooksKept

\* In futures-only mode no run of the legacy position manager starts.
ManagersIdle == \A m \in Managers : task[m] = "idle"

LEMMA ManagersIdleStep ==
  TypeOK /\ InHand /\ ManagersIdle /\ futuresOnly /\ [Next]_vars => ManagersIdle'
<1> SUFFICES ASSUME TypeOK, InHand, ManagersIdle, futuresOnly, [Next]_vars
              PROVE  ManagersIdle'
  OBVIOUS
<1> USE Constants DEF TypeOK, InHand, ManagersIdle, taskVars
<1>1. ASSUME NEW p \in Trade, Opening(p) PROVE ManagersIdle'
  BY <1>1, OpeningFrame
<1>2. ASSUME NEW c \in Task, StartScan(c) PROVE ManagersIdle'
  BY <1>2 DEF StartScan, Enabled
<1>3. ASSUME NEW c \in Task, LookUp(c) \/ Pass(c) \/ CloseCryptoTrade(c) PROVE ManagersIdle'
  BY <1>3 DEF LookUp, Pass, CloseCryptoTrade, NextTrade
<1>4. ASSUME NEW c \in Task, Settle(c) \/ MarkPeak(c) PROVE ManagersIdle'
  BY <1>4 DEF Settle, MarkPeak, NextTrade
<1>5. ASSUME NEW c \in Task, ResolveTrade(c) \/ CancelTrade(c) PROVE ManagersIdle'
  BY <1>5 DEF ResolveTrade, CancelTrade, NextTrade
<1>6. ASSUME NEW c \in Task, FinishScan(c) \/ ScanThrows(c) PROVE ManagersIdle'
  BY <1>6 DEF FinishScan, ScanThrows
<1>7. CASE Reconciling
  <2>1. CASE BootScan
    BY <2>1 DEF BootScan
  <2>2. CASE ExpireLegacyTrade
    BY <2>2 DEF ExpireLegacyTrade
  <2>3. CASE RecoverTrade
    BY <2>3 DEF RecoverTrade
  <2>4. CASE ReportConflict
    BY <2>4 DEF ReportConflict, NextTrade
  <2>5. CASE CatchFailure
    BY <2>5 DEF CatchFailure, NextTrade
  <2>6. CASE ReconciliationThrows
    BY <2>6 DEF ReconciliationThrows
  <2>7. QED
    BY <1>7, <2>1, <2>2, <2>3, <2>4, <2>5, <2>6 DEF Reconciling
<1>8. CASE Crash
  BY <1>8 DEF Crash
<1>9. CASE UNCHANGED vars
  BY <1>9 DEF vars
<1>10. QED
  BY <1>1, <1>2, <1>3, <1>4, <1>5, <1>6, <1>7, <1>8, <1>9 DEF Next, Closing

\* A desk that always boots in futures-only mode, which is the default
\* (FUTURES_ONLY_MODE), keeps its books whatever overlaps and crashes.
THEOREM FuturesOnlyKeepsBooks == Spec /\ []futuresOnly => BooksKept
<1> DEFINE IInv == TypeOK /\ InHand /\ ManagersIdle
<1>1. Init => IInv
  BY TypeInit, Constants DEF Init, ManagersIdle
<1>2. futuresOnly /\ IInv /\ [Next]_vars => IInv'
  BY TypeStep, ManagersIdleStep
<1>3. IInv => NoOverlap
  BY DEF ManagersIdle, NoOverlap
<1> HIDE DEF IInv
<1>4. Spec /\ []futuresOnly => []NoOverlap
  BY <1>1, <1>2, <1>3, PTL DEF Spec
<1>5. QED
  BY <1>4, BooksUnlessOverlap, PTL

\* So does one with a single run of the legacy position manager.
THEOREM OneManagerKeepsBooks == ASSUME OneManager PROVE Spec => BooksKept
<1>1. NoOverlap
  BY DEF OneManager, NoOverlap
<1>2. Spec => []NoOverlap
  BY <1>1, PTL
<1>3. QED
  BY <1>2, BooksUnlessOverlap, PTL

-------------------------------------------------------------------------------
(***************************************************************************)
(* The cap on open positions.                                               *)
(***************************************************************************)
\* The positions that preTradeCheck guards.
Guarded == Open \ Spot

\* Positions and attempts past the check together fill the cap at most, and one
\* place for every attempt past the check but the last.
CapInv(K) == Cardinality(Guarded) + Cardinality(Passed) <= MaxOpenTrades + K - 1

Counted == TypeOK /\ InHand /\ Snapshots /\ Attempts

\* The sets that are counted are finite.
LEMMA CountsAre ==
  /\ IsFiniteSet(Open) /\ IsFiniteSet(Guarded) /\ IsFiniteSet(Passed)
  /\ Cardinality(Open) \in Nat /\ Cardinality(Guarded) \in Nat /\ Cardinality(Passed) \in Nat
  /\ Cardinality(Guarded) <= Cardinality(Open)
<1>1. Open \in SUBSET Trade /\ Guarded \in SUBSET Trade /\ Passed \in SUBSET Trade
  BY Constants DEF Open, Guarded, Passed
<1>2. IsFiniteSet(Open) /\ IsFiniteSet(Guarded) /\ IsFiniteSet(Passed)
  BY <1>1, DeskAssumption, FS_Subset
<1>3. Guarded \in SUBSET Open
  BY DEF Guarded
<1>4. QED
  BY <1>2, <1>3, FS_Subset, FS_CardinalityType

\* When neither set gains a member, the cap stays.
LEMMA CapShrinks ==
  ASSUME NEW K \in Nat, CapInv(K), Guarded' \subseteq Guarded, Passed' \subseteq Passed
  PROVE  CapInv(K)'
<1>1. IsFiniteSet(Guarded) /\ IsFiniteSet(Passed)
      /\ Cardinality(Guarded) \in Nat /\ Cardinality(Passed) \in Nat
  BY CountsAre
<1>2. /\ IsFiniteSet(Guarded') /\ Cardinality(Guarded') <= Cardinality(Guarded)
      /\ IsFiniteSet(Passed') /\ Cardinality(Passed') <= Cardinality(Passed)
  BY <1>1, FS_Subset
<1>3. Cardinality(Guarded') \in Nat /\ Cardinality(Passed') \in Nat
  BY <1>2, FS_CardinalityType
<1>4. QED
  BY <1>1, <1>2, <1>3, DeskAssumption DEF CapInv

\* An attempt that passes the check finds a place free.
LEMMA CapPasses ==
  ASSUME NEW K \in Nat, PreTradeCheck, UNCHANGED status, Cardinality(Passed') <= K,
         Passed' \in SUBSET Trade
  PROVE  CapInv(K)'
<1>1. Guarded' = Guarded
  BY DEF Guarded, Open
<1>2. Cardinality(Open) < MaxOpenTrades /\ Cardinality(Guarded) <= Cardinality(Open)
      /\ Cardinality(Open) \in Nat /\ Cardinality(Guarded) \in Nat
  BY CountsAre DEF PreTradeCheck
<1>3. IsFiniteSet(Passed') /\ Cardinality(Passed') \in Nat
  BY DeskAssumption, FS_Subset, FS_CardinalityType
<1>4. Cardinality(Guarded) + Cardinality(Passed') <= MaxOpenTrades + K - 1
  BY <1>2, <1>3, DeskAssumption
<1>5. QED
  BY <1>1, <1>4 DEF CapInv

\* An insert takes the place of its attempt.
LEMMA CapInserts ==
  ASSUME NEW K \in Nat, CapInv(K), NEW p \in Passed, p \notin Guarded,
         Guarded' = Guarded \cup {p}, Passed' = Passed \ {p}
  PROVE  CapInv(K)'
<1>1. IsFiniteSet(Guarded) /\ IsFiniteSet(Passed)
      /\ Cardinality(Guarded) \in Nat /\ Cardinality(Passed) \in Nat
  BY CountsAre
<1>2. /\ Cardinality(Guarded') = Cardinality(Guarded) + 1
      /\ Cardinality(Passed') = Cardinality(Passed) - 1
  BY <1>1, FS_AddElement, FS_RemoveElement
<1>3. QED
  BY <1>1, <1>2 DEF CapInv

\* Steps of an attempt to open.
LEMMA CapOpening ==
  ASSUME NEW K \in Nat, Counted, CapInv(K), NEW p \in Trade, Opening(p),
         Cardinality(Passed') <= K
  PROVE  CapInv(K)'
<1> USE Constants DEF Counted, TypeOK, tradeVars
<1>1. Passed \in SUBSET Trade /\ Passed' \in SUBSET Trade
  BY DEF Passed
<1>2. ASSUME UNCHANGED status, flow'[p] \in {"approved", "latency", "refused", "claimed", "ordering", "done"},
             \A q \in Trade : q # p => flow'[q] = flow[q],
             p \in Spot \/ p \in Passed \/ (p \in Binary /\ flow[p] = "council")
             \/ flow'[p] \in {"refused", "done"}
      PROVE  CapInv(K)'
  <2>1. Guarded' \subseteq Guarded
    BY <1>2 DEF Guarded, Open
  <2>2. Passed' \subseteq Passed
    BY <1>2, DeskAssumption DEF Passed
  <2>3. QED
    BY <2>1, <2>2, CapShrinks
<1>3. CASE Propose(p)
  <2>1. UNCHANGED status
    BY <1>3 DEF Propose
  <2>2. CASE MarketSignal(p)
    BY <1>1, <2>1, <2>2, CapPasses DEF MarketSignal
  <2>3. CASE CryptoSignal(p)
    <3>1. Guarded' \subseteq Guarded
      BY <2>1 DEF Guarded, Open
    <3>2. Passed' \subseteq Passed
      BY <1>3, <2>3, DeskAssumption DEF Propose, CryptoSignal, Passed
    <3>3. QED
      BY <3>1, <3>2, CapShrinks
  <2>4. QED
    BY <1>3, <2>2, <2>3 DEF Propose
<1>4. CASE CouncilDecides(p)
  <2>1. UNCHANGED status
    BY <1>4 DEF CouncilDecides
  <2>2. Guarded' \subseteq Guarded
    BY <2>1 DEF Guarded, Open
  <2>3. Passed' \subseteq Passed
    BY <1>4 DEF CouncilDecides, Passed
  <2>4. QED
    BY <2>2, <2>3, CapShrinks
<1>5. CASE PassGates(p)
  BY <1>2, <1>5 DEF PassGates
<1>6. CASE ReserveFor(p)
  <2>1. UNCHANGED status /\ flow' = [flow EXCEPT ![p] = "reserved"]
    BY <1>6 DEF ReserveFor
  <2>2. CASE LegacyEntry(p)
    BY <1>1, <2>1, <2>2, CapPasses DEF LegacyEntry
  <2>3. CASE AfterLatency(p) \/ AfterCouncil(p)
    <3>1. Guarded' \subseteq Guarded
      BY <2>1 DEF Guarded, Open
    <3>2. Passed' \subseteq Passed
      BY <2>1, <2>3, DeskAssumption DEF AfterLatency, AfterCouncil, Passed
    <3>3. QED
      BY <3>1, <3>2, CapShrinks
  <2>4. QED
    BY <1>6, <2>2, <2>3 DEF ReserveFor, Reserving
<1>7. CASE ReserveRefused(p)
  BY <1>2, <1>7 DEF ReserveRefused
<1>8. CASE ConsumeTicket(p)
  BY <1>2, <1>8 DEF ConsumeTicket, Passed
<1>9. CASE PlaceOrder(p)
  <2>1. UNCHANGED status /\ flow[p] = "claimed"
        /\ \E next \in {"ordering", "refused"} : flow' = [flow EXCEPT ![p] = next]
    BY <1>9 DEF PlaceOrder
  <2>2. Guarded' \subseteq Guarded
    BY <2>1 DEF Guarded, Open
  <2>3. Passed' \subseteq Passed
    BY <2>1 DEF Passed
  <2>4. QED
    BY <2>2, <2>3, CapShrinks
<1>10. CASE OrderFails(p)
  BY <1>2, <1>10 DEF OrderFails
<1>11. CASE InsertTrade(p)
  <2>1. /\ status' = [status EXCEPT ![p] = "open"]
        /\ flow[p] \in InFlight /\ status[p] = "none"
        /\ flow' = [flow EXCEPT ![p] = "done"] \/ flow' = [flow EXCEPT ![p] = "inserted"]
    BY <1>11 DEF InsertTrade, InFlight, Attempts
  <2>2. CASE p \in Spot
    <3>1. Guarded' \subseteq Guarded
      BY <2>1, <2>2 DEF Guarded, Open
    <3>2. Passed' \subseteq Passed
      BY <2>1 DEF Passed
    <3>3. QED
      BY <3>1, <3>2, CapShrinks
  <2>3. CASE p \notin Spot
    <3>1. Guarded' = Guarded \cup {p} /\ p \notin Guarded
      BY <2>1, <2>3 DEF Guarded, Open
    <3>2. p \in Passed
      BY <1>11, <2>1, <2>3, DeskAssumption DEF InsertTrade, Passed, Trade
    <3>3. Passed' = Passed \ {p}
      BY <2>1 DEF Passed
    <3>4. QED
      BY <3>1, <3>2, <3>3, CapInserts
  <2>4. QED
    BY <2>2, <2>3
<1>12. CASE AttachTrade(p)
  BY <1>2, <1>12 DEF AttachTrade
<1>13. QED
  BY <1>3, <1>4, <1>5, <1>6, <1>7, <1>8, <1>9, <1>10, <1>11, <1>12 DEF Opening

\* A task that closes opens nothing, and a crash ends every attempt.
LEMMA CapClosing ==
  ASSUME NEW K \in Nat, Counted, CapInv(K),
         (\E c \in Task : Closing(c)) \/ Reconciling \/ Crash \/ UNCHANGED vars
  PROVE  CapInv(K)'
<1> USE Constants DEF Counted, TypeOK, tradeVars, flowVars
<1>1. ASSUME UNCHANGED flow, \A t \in Trade : status'[t] \in {status[t], "closed", "expired"}
      PROVE  CapInv(K)'
  <2>1. Guarded' \subseteq Guarded
    BY <1>1 DEF Guarded, Open
  <2>2. Passed' \subseteq Passed
    BY <1>1 DEF Passed
  <2>3. QED
    BY <2>1, <2>2, CapShrinks
<1>2. ASSUME NEW c \in Task, StartScan(c) PROVE CapInv(K)'
  BY <1>1, <1>2 DEF StartScan
<1>3. ASSUME NEW c \in Task, LookUp(c) PROVE CapInv(K)'
  BY <1>1, <1>3 DEF LookUp
<1>4. ASSUME NEW c \in Task, Pass(c) PROVE CapInv(K)'
  BY <1>1, <1>4 DEF Pass
<1>5. ASSUME NEW c \in Task, CloseCryptoTrade(c) PROVE CapInv(K)'
  BY <1>1, <1>5 DEF CloseCryptoTrade, SetStatus
<1>6. ASSUME NEW c \in Task, Settle(c) PROVE CapInv(K)'
  BY <1>1, <1>6 DEF Settle
<1>7. ASSUME NEW c \in Task, MarkPeak(c) PROVE CapInv(K)'
  BY <1>1, <1>7 DEF MarkPeak
<1>8. ASSUME NEW c \in Task, ResolveTrade(c) PROVE CapInv(K)'
  BY <1>1, <1>8 DEF ResolveTrade, SetStatus
<1>9. ASSUME NEW c \in Task, CancelTrade(c) PROVE CapInv(K)'
  BY <1>1, <1>9 DEF CancelTrade, SetStatus
<1>10. ASSUME NEW c \in Task, FinishScan(c) PROVE CapInv(K)'
  BY <1>1, <1>10 DEF FinishScan
<1>11. ASSUME NEW c \in Task, ScanThrows(c) PROVE CapInv(K)'
  BY <1>1, <1>11 DEF ScanThrows
<1>12. CASE BootScan
  BY <1>1, <1>12 DEF BootScan
<1>13. CASE ExpireLegacyTrade
  BY <1>1, <1>13 DEF ExpireLegacyTrade, SetStatus
<1>14. CASE RecoverTrade
  BY <1>1, <1>14 DEF RecoverTrade, SetStatus
<1>15. CASE ReportConflict
  BY <1>1, <1>15 DEF ReportConflict
<1>16. CASE CatchFailure
  BY <1>1, <1>16 DEF CatchFailure
<1>17. CASE ReconciliationThrows
  BY <1>1, <1>17 DEF ReconciliationThrows
<1>18. CASE Crash
  <2>1. Guarded' \subseteq Guarded
    BY <1>18 DEF Crash, Guarded, Open
  <2>2. Passed' \subseteq Passed
    BY <1>18 DEF Crash, Passed
  <2>3. QED
    BY <2>1, <2>2, CapShrinks
<1>19. CASE UNCHANGED vars
  BY <1>1, <1>19 DEF vars
<1>20. QED
  BY <1>2, <1>3, <1>4, <1>5, <1>6, <1>7, <1>8, <1>9, <1>10, <1>11, <1>12, <1>13, <1>14, <1>15, <1>16, <1>17, <1>18, <1>19
     DEF Closing, Reconciling

\* The cap is an invariant where at most K attempts are past the check at a time.
CappedAt(K) == Counted /\ CapInv(K)
AtMost(K) == Cardinality(Passed) <= K

LEMMA CapBegins == ASSUME NEW K \in Nat \ {0} PROVE Init => CappedAt(K)
<1> SUFFICES ASSUME Init PROVE Counted /\ CapInv(K)
  BY DEF CappedAt
<1>1. Counted
  BY TypeInit, Constants DEF Init, Counted, Snapshots, Attempts, Unreserved, InFlight
<1>2. Guarded = {} /\ Passed = {}
  BY Constants DEF Init, Guarded, Open, Passed
<1>3. QED
  BY <1>1, <1>2, FS_EmptySet, DeskAssumption DEF CapInv

LEMMA CapStep ==
  ASSUME NEW K \in Nat, CappedAt(K), AtMost(K)', [Next]_vars
  PROVE  CappedAt(K)'
<1>1. Counted'
  BY TypeStep, SnapshotsStep, AttemptsStep DEF CappedAt, Counted
<1>2. CapInv(K)'
  BY CapOpening, CapClosing DEF Next, CappedAt, AtMost
<1>3. QED
  BY <1>1, <1>2 DEF CappedAt

LEMMA CapBounds ==
  ASSUME NEW K \in Nat, CappedAt(K)
  PROVE  Cardinality(Open \ Spot) <= MaxOpenTrades + K - 1
<1>1. Cardinality(Guarded) <= MaxOpenTrades + K - 1
  BY CountsAre, DeskAssumption DEF CappedAt, CapInv
<1>2. QED
  BY <1>1 DEF Guarded

\* Where at most K attempts are past the check at a time, the cap is exceeded by
\* K - 1 positions at most: each attempt overtakes the count of another once.
THEOREM CapIsBounded ==
  ASSUME NEW K \in Nat \ {0}
  PROVE  Spec /\ [](Cardinality(Passed) <= K)
           => [](Cardinality(Open \ Spot) <= MaxOpenTrades + K - 1)
<1>1. Init => CappedAt(K)
  BY CapBegins
<1>2. CappedAt(K) /\ (Cardinality(Passed) <= K)' /\ [Next]_vars => CappedAt(K)'
  BY CapStep DEF AtMost
<1>3. CappedAt(K) => Cardinality(Open \ Spot) <= MaxOpenTrades + K - 1
  BY CapBounds
<1>4. QED
  BY <1>1, <1>2, <1>3, PTL DEF Spec

\* So attempts that take turns keep to it: CapHoldsInTurn for every desk.
THEOREM CapHolds == Spec => CapHoldsInTurn
<1>1. 1 \in Nat \ {0} /\ MaxOpenTrades \in Nat
  BY DeskAssumption
<1>2. Init => CappedAt(1)
  BY <1>1, CapBegins
<1>3. CappedAt(1) /\ (Cardinality(Passed) <= 1)' /\ [Next]_vars => CappedAt(1)'
  BY <1>1, CapStep DEF AtMost
<1>4. CappedAt(1) => Cardinality(Open \ Spot) <= MaxOpenTrades
  <2>1. CappedAt(1) => Cardinality(Open \ Spot) <= MaxOpenTrades + 1 - 1
    BY <1>1, CapBounds
  <2>2. QED
    BY <1>1, <2>1
<1>5. QED
  BY <1>2, <1>3, <1>4, PTL DEF Spec, CapHoldsInTurn
===============================================================================
