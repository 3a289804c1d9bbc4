----------------------------- MODULE PaperDeskProofs ---------------------------
(***************************************************************************)
(* The inductive invariant of the trading desk, in named parts, and the    *)
(* proofs that every variable keeps its type and that no trade is settled  *)
(* twice.  The parts speak of the mechanics that keep money safe: who is   *)
(* in the middle of what, and what that says of the trade in hand.         *)
(***************************************************************************)
EXTENDS PaperDesk, FiniteSetTheorems, TLAPS

\* No two runs of the legacy loop's position manager overlap.  Nothing in the
\* code makes sure of that: setInterval(..., 60_000) has no lock.
NoOverlap == \A m1, m2 \in Managers : task[m1] # "idle" /\ task[m2] # "idle" => m1 = m2

\* They never do where there is one of them.
OneManager == \A m1, m2 \in Managers : m1 = m2

\* A trade in hand is one of the snapshot, and only a task that is between
\* taking it and leaving it has one.
InHand ==
  \A c \in Task :
    /\ task[c] \in {"waiting", "settling", "peaking"} => current[c] \in queue[c]
    /\ task[c] \in {"boot", "idle"} => queue[c] = {}
    /\ task[c] \in {"settling", "peaking"} => loop = c

\* Nothing else runs before the startup reconciliation is over.
BootIsAlone == ~Up => \A c \in Task \ {Reconciler} : task[c] = "idle"

\* A task has only its own kind of trade in its snapshot, and trades that exist.
Snapshots ==
  \A c \in Task : \A t \in queue[c] : t \in Covers(c) /\ status[t] # "none"

\* How far an attempt has got, and what is reserved and inserted by then.
Unreserved == {"idle", "council", "approved", "latency"}
InFlight == {"reserved", "claimed", "ordering"}
Attempts ==
  \A p \in Trade :
    /\ flow[p] \in Unreserved => amount[p] = 0
    /\ flow[p] \in InFlight => amount[p] > 0
    /\ flow[p] \in Unreserved \cup InFlight \cup {"refused"} => status[p] = "none"
    /\ status[p] # "none" => amount[p] > 0
    /\ capital[p] <= amount[p]

\* A task settles a trade it has closed or expired; a learner does it in one step.
SettlingIsClosed ==
  \A c \in Task :
    task[c] \in {"settling", "peaking"} =>
      c \notin Learners /\ status[current[c]] \in {"closed", "expired"}

\* A trade that is open, or not there yet, has not been settled ...
OpenIsUnsettled == \A t \in Trade : status[t] \in {"none", "open"} => refunded[t] = 0

\* ... and neither has one of T that a task without a guard of its own is to settle.
UnguardedIsUnsettled(T) ==
  \A c \in Closers \cup {Reconciler} : \A t \in queue[c] \cap T :
    (task[c] = "peaking" /\ t = current[c]) \/ refunded[t] = 0

\* SettledOnce of the trades of T.
OnceAmong(T) == \A t \in T : refunded[t] <= 1

\* What holds however the tasks overlap, and what else it takes for the trades of T.
Mechanics ==
  /\ TypeOK /\ InHand /\ BootIsAlone /\ Snapshots /\ Attempts
  /\ SettlingIsClosed /\ OpenIsUnsettled

InvAmong(T) == Mechanics /\ UnguardedIsUnsettled(T) /\ OnceAmong(T)

DeskInv ==
  /\ TypeOK /\ InHand /\ BootIsAlone /\ Snapshots /\ Attempts
  /\ SettlingIsClosed /\ OpenIsUnsettled /\ UnguardedIsUnsettled(Trade) /\ SettledOnce

-------------------------------------------------------------------------------
\* What the assumptions on the constants say of the tasks and trades.
LEMMA Constants ==
  /\ Closers \subseteq Task /\ Learners \subseteq Task /\ Managers \subseteq Closers
  /\ Reconciler \in Task /\ Reconciler \notin Closers /\ Reconciler \notin Learners
  /\ Monitor \in Closers /\ Monitor \notin Managers /\ Closers \cap Learners = {}
  /\ Spot \subseteq Trade /\ Scalp \subseteq Trade /\ Binary \subseteq Trade
  /\ Trade \cap Task = {} /\ "free" \notin Trade /\ "free" \notin Task
  /\ NoTrade \notin Trade /\ MaxSize \in Nat /\ Pnls \subseteq Int
  /\ MaxCrashes \in Nat /\ StartingCapital \in Nat
<1>1. Closers \subseteq Task /\ Learners \subseteq Task /\ Managers \subseteq Closers
      /\ Reconciler \in Task /\ Monitor \in Closers
      /\ Spot \subseteq Trade /\ Scalp \subseteq Trade /\ Binary \subseteq Trade
  BY DEF Task, Closers, Trade
<1>2. QED
  BY <1>1, DeskAssumption, TreasuryAssumption

LEMMA TypeInit == Init => TypeOK /\ InHand
<1> SUFFICES ASSUME Init PROVE TypeOK /\ InHand
  OBVIOUS
<1> USE Constants DEF Init, TreasuryInit
<1>1. TreasuryTypeOK
  BY DEF TreasuryTypeOK
<1>2. degraded \in BOOLEAN
  OBVIOUS
<1>3. TypeOK
  BY <1>1, <1>2 DEF TypeOK
<1>4. InHand
  BY DEF InHand
<1>5. QED
  BY <1>3, <1>4

\* Types and hands are kept by every step: a settlement needs the trade in hand
\* to be one, so neither of the two is inductive alone.
LEMMA TypeStep == TypeOK /\ InHand /\ [Next]_vars => TypeOK' /\ InHand'
<1> SUFFICES ASSUME TypeOK, InHand, [Next]_vars PROVE TypeOK' /\ InHand'
  OBVIOUS
<1> USE Constants
    DEF TypeOK, TreasuryTypeOK, InHand, treasuryVars, tradeVars, flowVars,
        taskVars, bootVars
<1>1. ASSUME NEW p \in Trade, Propose(p) PROVE TypeOK' /\ InHand'
  BY <1>1 DEF Propose, CryptoSignal, MarketSignal
<1>2. ASSUME NEW p \in Trade, CouncilDecides(p) PROVE TypeOK' /\ InHand'
  BY <1>2 DEF CouncilDecides
<1>3. ASSUME NEW p \in Trade, PassGates(p) PROVE TypeOK' /\ InHand'
  BY <1>3 DEF PassGates
<1>4. ASSUME NEW p \in Trade, ReserveFor(p) PROVE TypeOK' /\ InHand'
  BY <1>4 DEF ReserveFor, Reserving, AfterLatency, AfterCouncil, LegacyEntry, Reserve, CanReserve
<1>5. ASSUME NEW p \in Trade, ReserveRefused(p) PROVE TypeOK' /\ InHand'
  BY <1>5 DEF ReserveRefused, Reserving, AfterLatency, AfterCouncil, LegacyEntry
<1>6. ASSUME NEW p \in Trade, ConsumeTicket(p) PROVE TypeOK' /\ InHand'
  BY <1>6 DEF ConsumeTicket
<1>7. ASSUME NEW p \in Trade, PlaceOrder(p) PROVE TypeOK' /\ InHand'
  BY <1>7 DEF PlaceOrder
<1>8. ASSUME NEW p \in Trade, OrderFails(p) PROVE TypeOK' /\ InHand'
  BY <1>8 DEF OrderFails
<1>9. ASSUME NEW p \in Trade, InsertTrade(p) PROVE TypeOK' /\ InHand'
  BY <1>9 DEF InsertTrade, FillCosts
<1>10. ASSUME NEW p \in Trade, AttachTrade(p) PROVE TypeOK' /\ InHand'
  BY <1>10 DEF AttachTrade
<1>11. ASSUME NEW c \in Task, StartScan(c) PROVE TypeOK' /\ InHand'
  BY <1>11 DEF StartScan, Open
<1>12. ASSUME NEW c \in Task, LookUp(c) PROVE TypeOK' /\ InHand'
  BY <1>12 DEF LookUp
<1>13. ASSUME NEW c \in Task, Pass(c) PROVE TypeOK' /\ InHand'
  BY <1>13 DEF Pass, NextTrade
<1>14. ASSUME NEW c \in Task, CloseCryptoTrade(c) PROVE TypeOK' /\ InHand'
  BY <1>14 DEF CloseCryptoTrade, SetStatus
<1>15. ASSUME NEW c \in Task, Settle(c) PROVE TypeOK' /\ InHand'
  BY <1>15 DEF Settle, AppendSettlement
<1>16. ASSUME NEW c \in Task, MarkPeak(c) PROVE TypeOK' /\ InHand'
  BY <1>16 DEF MarkPeak, RaisePeak, NextTrade
<1>17. ASSUME NEW c \in Task, ResolveTrade(c) PROVE TypeOK' /\ InHand'
  BY <1>17 DEF ResolveTrade, RowIsOpen, SetStatus, AppendSettlement, NextTrade
<1>18. ASSUME NEW c \in Task, CancelTrade(c) PROVE TypeOK' /\ InHand'
  BY <1>18 DEF CancelTrade, SetStatus
<1>19. ASSUME NEW c \in Task, FinishScan(c) PROVE TypeOK' /\ InHand'
  BY <1>19 DEF FinishScan, Open
<1>20. ASSUME NEW c \in Task, ScanThrows(c) PROVE TypeOK' /\ InHand'
  BY <1>20 DEF ScanThrows
<1>21. CASE BootScan
  <2>1. degraded' \in BOOLEAN
    BY <1>21 DEF BootScan
  <2>2. QED
    BY <1>21, <2>1 DEF BootScan, Open
<1>22. CASE ExpireLegacyTrade
  BY <1>22 DEF ExpireLegacyTrade, RowIsOpen, SetStatus
<1>23. CASE RecoverTrade
  BY <1>23 DEF RecoverTrade, RowIsOpen, SetStatus
<1>24. CASE ReportConflict
  BY <1>24 DEF ReportConflict, NextTrade
<1>25. CASE CatchFailure
  BY <1>25 DEF CatchFailure, NextTrade
<1>26. CASE ReconciliationThrows
  BY <1>26 DEF ReconciliationThrows
<1>27. CASE Crash
  BY <1>27 DEF Crash
<1>28. CASE UNCHANGED vars
  BY <1>28 DEF vars
<1>29. QED
  BY <1>1, <1>2, <1>3, <1>4, <1>5, <1>6, <1>7, <1>8, <1>9, <1>10, <1>11, <1>12, <1>13, <1>14, <1>15, <1>16, <1>17, <1>18, <1>19, <1>20, <1>21, <1>22, <1>23, <1>24, <1>25, <1>26, <1>27, <1>28
     DEF Next, Opening, Closing, Reconciling

\* Every variable keeps its type, and a task that is settling has a trade in hand.
THEOREM TypeCorrect == Spec => []TypeOK
<1>1. TypeOK /\ InHand /\ [Next]_vars => TypeOK' /\ InHand'
  BY TypeStep
<1>2. QED
  BY TypeInit, <1>1, PTL DEF Spec

-------------------------------------------------------------------------------
\* What an attempt to open a trade leaves alone, and what it may do to a status.
LEMMA OpeningFrame ==
  ASSUME TypeOK, NEW p \in Trade, Opening(p)
  PROVE  /\ UNCHANGED <<task, queue, current, degraded, futuresOnly, crashes, refunded>>
         /\ \A t \in Trade : status'[t] = status[t] \/ (status'[t] = "open" /\ flow[t] \in InFlight)
         /\ loop \in {"free", p}
<1>1. CASE Propose(p)
  BY <1>1 DEF Propose, CryptoSignal, MarketSignal, TypeOK, InFlight, taskVars, tradeVars, bootVars
<1>2. CASE CouncilDecides(p)
  BY <1>2 DEF CouncilDecides, TypeOK, InFlight, taskVars, tradeVars, bootVars
<1>3. CASE PassGates(p)
  BY <1>3 DEF PassGates, TypeOK, InFlight, taskVars, tradeVars, bootVars
<1>4. CASE ReserveFor(p)
  BY <1>4 DEF ReserveFor, Reserving, AfterLatency, AfterCouncil, LegacyEntry,
     TypeOK, InFlight, taskVars, tradeVars, bootVars
<1>5. CASE ReserveRefused(p)
  BY <1>5 DEF ReserveRefused, Reserving, AfterLatency, AfterCouncil, LegacyEntry,
     TypeOK, InFlight, taskVars, tradeVars, bootVars
<1>6. CASE ConsumeTicket(p)
  BY <1>6 DEF ConsumeTicket, TypeOK, InFlight, taskVars, tradeVars, bootVars
<1>7. CASE PlaceOrder(p)
  BY <1>7 DEF PlaceOrder, TypeOK, InFlight, taskVars, tradeVars, bootVars
<1>8. CASE OrderFails(p)
  BY <1>8 DEF OrderFails, TypeOK, InFlight, taskVars, tradeVars, bootVars
<1>9. CASE InsertTrade(p)
  BY <1>9 DEF InsertTrade, TypeOK, InFlight, taskVars, tradeVars, bootVars
<1>10. CASE AttachTrade(p)
  BY <1>10 DEF AttachTrade, TypeOK, InFlight, taskVars, tradeVars, bootVars
<1>11. QED
  BY <1>1, <1>2, <1>3, <1>4, <1>5, <1>6, <1>7, <1>8, <1>9, <1>10 DEF Opening

\* The boot stays alone: a task starts when the desk is up, and a crash stops all.
LEMMA BootIsAloneStep ==
  TypeOK /\ BootIsAlone /\ [Next]_vars => BootIsAlone'
<1> SUFFICES ASSUME TypeOK, BootIsAlone, [Next]_vars PROVE BootIsAlone'
  OBVIOUS
<1> USE Constants DEF TypeOK, BootIsAlone, Up, tradeVars, taskVars, bootVars
<1>1. ASSUME NEW p \in Trade, Opening(p) PROVE BootIsAlone'
  BY <1>1, OpeningFrame
<1>2. ASSUME NEW c \in Task, StartScan(c) PROVE BootIsAlone'
  BY <1>2 DEF StartScan
<1>3. ASSUME NEW c \in Task, LookUp(c) PROVE BootIsAlone'
  BY <1>3 DEF LookUp
<1>4. ASSUME NEW c \in Task, Pass(c) PROVE BootIsAlone'
  BY <1>4 DEF Pass, NextTrade
<1>5. ASSUME NEW c \in Task, CloseCryptoTrade(c) PROVE BootIsAlone'
  BY <1>5 DEF CloseCryptoTrade, SetStatus
<1>6. ASSUME NEW c \in Task, Settle(c) PROVE BootIsAlone'
  BY <1>6 DEF Settle, AppendSettlement
<1>7. ASSUME NEW c \in Task, MarkPeak(c) PROVE BootIsAlone'
  BY <1>7 DEF MarkPeak, RaisePeak, NextTrade
<1>8. ASSUME NEW c \in Task, ResolveTrade(c) PROVE BootIsAlone'
  BY <1>8 DEF ResolveTrade, RowIsOpen, SetStatus, AppendSettlement, NextTrade
<1>9. ASSUME NEW c \in Task, CancelTrade(c) PROVE BootIsAlone'
  BY <1>9 DEF CancelTrade, SetStatus
<1>10. ASSUME NEW c \in Task, FinishScan(c) PROVE BootIsAlone'
  BY <1>10 DEF FinishScan
<1>11. ASSUME NEW c \in Task, ScanThrows(c) PROVE BootIsAlone'
  BY <1>11 DEF ScanThrows
<1>12. CASE BootScan
  BY <1>12 DEF BootScan
<1>13. CASE ExpireLegacyTrade
  BY <1>13 DEF ExpireLegacyTrade, RowIsOpen, SetStatus
<1>14. CASE RecoverTrade
  BY <1>14 DEF RecoverTrade, RowIsOpen, SetStatus
<1>15. CASE ReportConflict
  BY <1>15 DEF ReportConflict, NextTrade
<1>16. CASE CatchFailure
  BY <1>16 DEF CatchFailure, NextTrade
<1>17. CASE ReconciliationThrows
  BY <1>17 DEF ReconciliationThrows
<1>18. CASE Crash
  BY <1>18 DEF Crash
<1>19. CASE UNCHANGED vars
  BY <1>19 DEF vars
<1>20. QED
  BY <1>1, <1>2, <1>3, <1>4, <1>5, <1>6, <1>7, <1>8, <1>9, <1>10, <1>11, <1>12, <1>13, <1>14, <1>15, <1>16, <1>17, <1>18, <1>19
     DEF Next, Closing, Reconciling

\* A snapshot only shrinks, and no trade ceases to exist.
LEMMA SnapshotsStep ==
  TypeOK /\ InHand /\ Snapshots /\ [Next]_vars => Snapshots'
<1> SUFFICES ASSUME TypeOK, InHand, Snapshots, [Next]_vars PROVE Snapshots'
  OBVIOUS
<1> USE Constants DEF TypeOK, InHand, Snapshots, tradeVars, taskVars, bootVars
<1>1. ASSUME NEW p \in Trade, Opening(p) PROVE Snapshots'
  BY <1>1, OpeningFrame DEF Covers
<1>2. ASSUME NEW c \in Task, StartScan(c) PROVE Snapshots'
  BY <1>2 DEF StartScan, Open
<1>3. ASSUME NEW c \in Task, LookUp(c) PROVE Snapshots'
  BY <1>3 DEF LookUp
<1>4. ASSUME NEW c \in Task, Pass(c) PROVE Snapshots'
  BY <1>4 DEF Pass, NextTrade
<1>5. ASSUME NEW c \in Task, CloseCryptoTrade(c) PROVE Snapshots'
  BY <1>5 DEF CloseCryptoTrade, SetStatus
<1>6. ASSUME NEW c \in Task, Settle(c) PROVE Snapshots'
  BY <1>6 DEF Settle, AppendSettlement
<1>7. ASSUME NEW c \in Task, MarkPeak(c) PROVE Snapshots'
  BY <1>7 DEF MarkPeak, RaisePeak, NextTrade
<1>8. ASSUME NEW c \in Task, ResolveTrade(c) PROVE Snapshots'
  BY <1>8 DEF ResolveTrade, RowIsOpen, SetStatus, AppendSettlement, NextTrade
<1>9. ASSUME NEW c \in Task, CancelTrade(c) PROVE Snapshots'
  BY <1>9 DEF CancelTrade, SetStatus
<1>10. ASSUME NEW c \in Task, FinishScan(c) PROVE Snapshots'
  BY <1>10 DEF FinishScan, Open
<1>11. ASSUME NEW c \in Task, ScanThrows(c) PROVE Snapshots'
  BY <1>11 DEF ScanThrows
<1>12. CASE BootScan
  BY <1>12 DEF BootScan, Open, Covers
<1>13. CASE ExpireLegacyTrade
  BY <1>13 DEF ExpireLegacyTrade, RowIsOpen, SetStatus
<1>14. CASE RecoverTrade
  BY <1>14 DEF RecoverTrade, RowIsOpen, SetStatus
<1>15. CASE ReportConflict
  BY <1>15 DEF ReportConflict, NextTrade
<1>16. CASE CatchFailure
  BY <1>16 DEF CatchFailure, NextTrade
<1>17. CASE ReconciliationThrows
  BY <1>17 DEF ReconciliationThrows
<1>18. CASE Crash
  BY <1>18 DEF Crash
<1>19. CASE UNCHANGED vars
  BY <1>19 DEF vars
<1>20. QED
  BY <1>1, <1>2, <1>3, <1>4, <1>5, <1>6, <1>7, <1>8, <1>9, <1>10, <1>11, <1>12, <1>13, <1>14, <1>15, <1>16, <1>17, <1>18, <1>19
     DEF Next, Closing, Reconciling

\* What is reserved and what is inserted follow the attempt, and a close changes neither.
LEMMA AttemptsStep ==
  TypeOK /\ InHand /\ Snapshots /\ Attempts /\ [Next]_vars => Attempts'
<1> SUFFICES ASSUME TypeOK, InHand, Snapshots, Attempts, [Next]_vars PROVE Attempts'
  OBVIOUS
<1> USE Constants DEF TypeOK, InHand, Snapshots, Attempts, InFlight, Unreserved,
   flowVars, tradeVars, taskVars, bootVars
<1>1. ASSUME NEW p \in Trade, Propose(p) PROVE Attempts'
  BY <1>1 DEF Propose, CryptoSignal, MarketSignal
<1>2. ASSUME NEW p \in Trade, CouncilDecides(p) PROVE Attempts'
  BY <1>2 DEF CouncilDecides
<1>3. ASSUME NEW p \in Trade, PassGates(p) PROVE Attempts'
  BY <1>3 DEF PassGates
<1>4. ASSUME NEW p \in Trade, ReserveFor(p) PROVE Attempts'
  BY <1>4 DEF ReserveFor, Reserving, AfterLatency, AfterCouncil, LegacyEntry, Reserve, CanReserve
<1>5. ASSUME NEW p \in Trade, ReserveRefused(p) PROVE Attempts'
  BY <1>5 DEF ReserveRefused, Reserving, AfterLatency, AfterCouncil, LegacyEntry
<1>6. ASSUME NEW p \in Trade, ConsumeTicket(p) PROVE Attempts'
  BY <1>6 DEF ConsumeTicket
<1>7. ASSUME NEW p \in Trade, PlaceOrder(p) PROVE Attempts'
  BY <1>7 DEF PlaceOrder
<1>8. ASSUME NEW p \in Trade, OrderFails(p) PROVE Attempts'
  BY <1>8 DEF OrderFails
<1>9. ASSUME NEW p \in Trade, InsertTrade(p) PROVE Attempts'
  BY <1>9 DEF InsertTrade, FillCosts
<1>10. ASSUME NEW p \in Trade, AttachTrade(p) PROVE Attempts'
  BY <1>10 DEF AttachTrade
<1>11. ASSUME NEW c \in Task, StartScan(c) PROVE Attempts'
  BY <1>11 DEF StartScan
<1>12. ASSUME NEW c \in Task, LookUp(c) PROVE Attempts'
  BY <1>12 DEF LookUp
<1>13. ASSUME NEW c \in Task, Pass(c) PROVE Attempts'
  BY <1>13 DEF Pass, NextTrade
<1>14. ASSUME NEW c \in Task, CloseCryptoTrade(c) PROVE Attempts'
  BY <1>14 DEF CloseCryptoTrade, SetStatus
<1>15. ASSUME NEW c \in Task, Settle(c) PROVE Attempts'
  BY <1>15 DEF Settle, AppendSettlement
<1>16. ASSUME NEW c \in Task, MarkPeak(c) PROVE Attempts'
  BY <1>16 DEF MarkPeak, RaisePeak, NextTrade
<1>17. ASSUME NEW c \in Task, ResolveTrade(c) PROVE Attempts'
  BY <1>17 DEF ResolveTrade, RowIsOpen, SetStatus, AppendSettlement, NextTrade
<1>18. ASSUME NEW c \in Task, CancelTrade(c) PROVE Attempts'
  BY <1>18 DEF CancelTrade, SetStatus
<1>19. ASSUME NEW c \in Task, FinishScan(c) PROVE Attempts'
  BY <1>19 DEF FinishScan, Open
<1>20. ASSUME NEW c \in Task, ScanThrows(c) PROVE Attempts'
  BY <1>20 DEF ScanThrows
<1>21. CASE BootScan
  BY <1>21 DEF BootScan
<1>22. CASE ExpireLegacyTrade
  BY <1>22 DEF ExpireLegacyTrade, RowIsOpen, SetStatus
<1>23. CASE RecoverTrade
  BY <1>23 DEF RecoverTrade, RowIsOpen, SetStatus
<1>24. CASE ReportConflict
  BY <1>24 DEF ReportConflict, NextTrade
<1>25. CASE CatchFailure
  BY <1>25 DEF CatchFailure, NextTrade
<1>26. CASE ReconciliationThrows
  BY <1>26 DEF ReconciliationThrows
<1>27. CASE Crash
  BY <1>27 DEF Crash
<1>28. CASE UNCHANGED vars
  BY <1>28 DEF vars
<1>29. QED
  BY <1>1, <1>2, <1>3, <1>4, <1>5, <1>6, <1>7, <1>8, <1>9, <1>10, <1>11, <1>12, <1>13, <1>14, <1>15, <1>16, <1>17, <1>18, <1>19, <1>20, <1>21, <1>22, <1>23, <1>24, <1>25, <1>26, <1>27, <1>28
     DEF Next, Opening, Closing, Reconciling

\* Whoever settles has the loop, so nothing else touches the trade meanwhile.
LEMMA SettlingIsClosedStep ==
  TypeOK /\ InHand /\ Snapshots /\ SettlingIsClosed /\ [Next]_vars => SettlingIsClosed'
<1> SUFFICES ASSUME TypeOK, InHand, Snapshots, SettlingIsClosed, [Next]_vars
              PROVE  SettlingIsClosed'
  OBVIOUS
<1> USE Constants DEF TypeOK, InHand, Snapshots, SettlingIsClosed, tradeVars, taskVars, bootVars
<1>1. ASSUME NEW p \in Trade, Opening(p) PROVE SettlingIsClosed'
  BY <1>1, OpeningFrame
<1>2. ASSUME NEW c \in Task, StartScan(c) PROVE SettlingIsClosed'
  BY <1>2 DEF StartScan
<1>3. ASSUME NEW c \in Task, LookUp(c) PROVE SettlingIsClosed'
  BY <1>3 DEF LookUp
<1>4. ASSUME NEW c \in Task, Pass(c) PROVE SettlingIsClosed'
  BY <1>4 DEF Pass, NextTrade
<1>5. ASSUME NEW c \in Task, CloseCryptoTrade(c) PROVE SettlingIsClosed'
  BY <1>5 DEF CloseCryptoTrade, SetStatus
<1>6. ASSUME NEW c \in Task, Settle(c) PROVE SettlingIsClosed'
  BY <1>6 DEF Settle, AppendSettlement
<1>7. ASSUME NEW c \in Task, MarkPeak(c) PROVE SettlingIsClosed'
  BY <1>7 DEF MarkPeak, RaisePeak, NextTrade
<1>8. ASSUME NEW c \in Task, ResolveTrade(c) PROVE SettlingIsClosed'
  BY <1>8 DEF ResolveTrade, RowIsOpen, SetStatus, AppendSettlement, NextTrade
<1>9. ASSUME NEW c \in Task, CancelTrade(c) PROVE SettlingIsClosed'
  BY <1>9 DEF CancelTrade, SetStatus
<1>10. ASSUME NEW c \in Task, FinishScan(c) PROVE SettlingIsClosed'
  BY <1>10 DEF FinishScan
<1>11. ASSUME NEW c \in Task, ScanThrows(c) PROVE SettlingIsClosed'
  BY <1>11 DEF ScanThrows
<1>12. CASE BootScan
  BY <1>12 DEF BootScan
<1>13. CASE ExpireLegacyTrade
  BY <1>13 DEF ExpireLegacyTrade, RowIsOpen, SetStatus
<1>14. CASE RecoverTrade
  BY <1>14 DEF RecoverTrade, RowIsOpen, SetStatus
<1>15. CASE ReportConflict
  BY <1>15 DEF ReportConflict, NextTrade
<1>16. CASE CatchFailure
  BY <1>16 DEF CatchFailure, NextTrade
<1>17. CASE ReconciliationThrows
  BY <1>17 DEF ReconciliationThrows
<1>18. CASE Crash
  BY <1>18 DEF Crash
<1>19. CASE UNCHANGED vars
  BY <1>19 DEF vars
<1>20. QED
  BY <1>1, <1>2, <1>3, <1>4, <1>5, <1>6, <1>7, <1>8, <1>9, <1>10, <1>11, <1>12, <1>13, <1>14, <1>15, <1>16, <1>17, <1>18, <1>19
     DEF Next, Closing, Reconciling

\* A trade is settled after it has left the open ones, and never comes back.
LEMMA OpenIsUnsettledStep ==
  TypeOK /\ InHand /\ Attempts /\ SettlingIsClosed /\ OpenIsUnsettled
  /\ [Next]_vars
  => OpenIsUnsettled'
<1> SUFFICES ASSUME TypeOK, InHand, Attempts, SettlingIsClosed, OpenIsUnsettled,
                     [Next]_vars
              PROVE  OpenIsUnsettled'
  OBVIOUS
<1> USE Constants DEF TypeOK, InHand, SettlingIsClosed, OpenIsUnsettled, tradeVars,
   taskVars, bootVars
<1>1. ASSUME NEW p \in Trade, Opening(p) PROVE OpenIsUnsettled'
  BY <1>1, OpeningFrame DEF Attempts
<1>2. ASSUME NEW c \in Task, StartScan(c) PROVE OpenIsUnsettled'
  BY <1>2 DEF StartScan
<1>3. ASSUME NEW c \in Task, LookUp(c) PROVE OpenIsUnsettled'
  BY <1>3 DEF LookUp
<1>4. ASSUME NEW c \in Task, Pass(c) PROVE OpenIsUnsettled'
  BY <1>4 DEF Pass, NextTrade
<1>5. ASSUME NEW c \in Task, CloseCryptoTrade(c) PROVE OpenIsUnsettled'
  BY <1>5 DEF CloseCryptoTrade, SetStatus
<1>6. ASSUME NEW c \in Task, Settle(c) PROVE OpenIsUnsettled'
  BY <1>6 DEF Settle, AppendSettlement
<1>7. ASSUME NEW c \in Task, MarkPeak(c) PROVE OpenIsUnsettled'
  BY <1>7 DEF MarkPeak, RaisePeak, NextTrade
<1>8. ASSUME NEW c \in Task, ResolveTrade(c) PROVE OpenIsUnsettled'
  BY <1>8 DEF ResolveTrade, RowIsOpen, SetStatus, AppendSettlement, NextTrade
<1>9. ASSUME NEW c \in Task, CancelTrade(c) PROVE OpenIsUnsettled'
  BY <1>9 DEF CancelTrade, SetStatus
<1>10. ASSUME NEW c \in Task, FinishScan(c) PROVE OpenIsUnsettled'
  BY <1>10 DEF FinishScan
<1>11. ASSUME NEW c \in Task, ScanThrows(c) PROVE OpenIsUnsettled'
  BY <1>11 DEF ScanThrows
<1>12. CASE BootScan
  BY <1>12 DEF BootScan
<1>13. CASE ExpireLegacyTrade
  BY <1>13 DEF ExpireLegacyTrade, RowIsOpen, SetStatus
<1>14. CASE RecoverTrade
  BY <1>14 DEF RecoverTrade, RowIsOpen, SetStatus
<1>15. CASE ReportConflict
  BY <1>15 DEF ReportConflict, NextTrade
<1>16. CASE CatchFailure
  BY <1>16 DEF CatchFailure, NextTrade
<1>17. CASE ReconciliationThrows
  BY <1>17 DEF ReconciliationThrows
<1>18. CASE Crash
  BY <1>18 DEF Crash
<1>19. CASE UNCHANGED vars
  BY <1>19 DEF vars
<1>20. QED
  BY <1>1, <1>2, <1>3, <1>4, <1>5, <1>6, <1>7, <1>8, <1>9, <1>10, <1>11, <1>12, <1>13, <1>14, <1>15, <1>16, <1>17, <1>18, <1>19
     DEF Next, Closing, Reconciling

\* The snapshots of two tasks that settle have nothing in common, of legacy trades
\* unless their managers overlap.
LEMMA SnapshotsApart ==
  ASSUME TypeOK, InHand, BootIsAlone, Snapshots,
         NEW T \in SUBSET Trade, NoOverlap \/ T \cap Scalp = {},
         NEW c \in Task, NEW d \in Closers \cup {Reconciler}, c # d
  PROVE  queue[c] \cap queue[d] \cap T = {}
<1> USE Constants DEF InHand
<1>1. CASE c = Reconciler \/ d = Reconciler
  BY <1>1 DEF BootIsAlone, Up, Closers
<1>2. CASE c # Reconciler /\ d # Reconciler
  <2>1. CASE c \in Managers /\ d \in Managers
    <3>1. CASE NoOverlap
      <4>1. task[c] = "idle" \/ task[d] = "idle"
        BY <2>1, <3>1 DEF NoOverlap
      <4>2. QED
        BY <4>1
    <3>2. CASE T \cap Scalp = {}
      <4>1. Covers(c) = Scalp
        BY <2>1 DEF Covers
      <4>2. QED
        BY <3>2, <4>1 DEF Snapshots
    <3>3. QED
      BY <3>1, <3>2
  <2>2. CASE ~(c \in Managers /\ d \in Managers)
    <3>1. Covers(c) \cap Covers(d) = {}
      BY <1>2, <2>2, DeskAssumption DEF Covers, Task, Closers
    <3>2. QED
      BY <3>1 DEF Snapshots
  <2>3. QED
    BY <2>1, <2>2
<1>3. QED
  BY <1>1, <1>2

\* So the trade in hand is in no other snapshot that could settle it again.
LEMMA UnguardedIsUnsettledStep ==
  ASSUME NEW T \in SUBSET Trade, NoOverlap \/ T \cap Scalp = {},
         TypeOK, InHand, BootIsAlone, Snapshots, SettlingIsClosed,
         OpenIsUnsettled, UnguardedIsUnsettled(T), [Next]_vars
  PROVE  UnguardedIsUnsettled(T)'
<1> USE Constants DEF TypeOK, InHand, UnguardedIsUnsettled, tradeVars, taskVars, bootVars
<1>1. ASSUME NEW p \in Trade, Opening(p) PROVE UnguardedIsUnsettled(T)'
  BY <1>1, OpeningFrame
<1>2. ASSUME NEW c \in Task, StartScan(c) PROVE UnguardedIsUnsettled(T)'
  BY <1>2 DEF StartScan, Open, OpenIsUnsettled
<1>3. ASSUME NEW c \in Task, LookUp(c) PROVE UnguardedIsUnsettled(T)'
  BY <1>3 DEF LookUp
<1>4. ASSUME NEW c \in Task, Pass(c) PROVE UnguardedIsUnsettled(T)'
  BY <1>4 DEF Pass, NextTrade
<1>5. ASSUME NEW c \in Task, CloseCryptoTrade(c) PROVE UnguardedIsUnsettled(T)'
  BY <1>5 DEF CloseCryptoTrade, SetStatus
<1>6. ASSUME NEW c \in Task, Settle(c) PROVE UnguardedIsUnsettled(T)'
  BY <1>6, SnapshotsApart DEF Settle, AppendSettlement, SettlingIsClosed, Task
<1>7. ASSUME NEW c \in Task, MarkPeak(c) PROVE UnguardedIsUnsettled(T)'
  BY <1>7 DEF MarkPeak, RaisePeak, NextTrade
<1>8. ASSUME NEW c \in Task, ResolveTrade(c) PROVE UnguardedIsUnsettled(T)'
  BY <1>8, SnapshotsApart DEF ResolveTrade, RowIsOpen, SetStatus, AppendSettlement, NextTrade
<1>9. ASSUME NEW c \in Task, CancelTrade(c) PROVE UnguardedIsUnsettled(T)'
  BY <1>9 DEF CancelTrade, SetStatus
<1>10. ASSUME NEW c \in Task, FinishScan(c) PROVE UnguardedIsUnsettled(T)'
  BY <1>10 DEF FinishScan
<1>11. ASSUME NEW c \in Task, ScanThrows(c) PROVE UnguardedIsUnsettled(T)'
  BY <1>11 DEF ScanThrows
<1>12. CASE BootScan
  BY <1>12 DEF BootScan, Open, OpenIsUnsettled
<1>13. CASE ExpireLegacyTrade
  BY <1>13 DEF ExpireLegacyTrade, RowIsOpen, SetStatus
<1>14. CASE RecoverTrade
  BY <1>14 DEF RecoverTrade, RowIsOpen, SetStatus
<1>15. CASE ReportConflict
  BY <1>15 DEF ReportConflict, NextTrade
<1>16. CASE CatchFailure
  BY <1>16 DEF CatchFailure, NextTrade
<1>17. CASE ReconciliationThrows
  BY <1>17 DEF ReconciliationThrows
<1>18. CASE Crash
  BY <1>18 DEF Crash
<1>19. CASE UNCHANGED vars
  BY <1>19 DEF vars
<1>20. QED
  BY <1>1, <1>2, <1>3, <1>4, <1>5, <1>6, <1>7, <1>8, <1>9, <1>10, <1>11, <1>12, <1>13, <1>14, <1>15, <1>16, <1>17, <1>18, <1>19
     DEF Next, Closing, Reconciling

\* So every settlement is the first of its trade.
LEMMA OnceStep ==
  ASSUME NEW T \in SUBSET Trade, TypeOK, InHand, SettlingIsClosed, OpenIsUnsettled,
         UnguardedIsUnsettled(T), OnceAmong(T), [Next]_vars
  PROVE  OnceAmong(T)'
<1> USE Constants DEF TypeOK, InHand, OnceAmong, tradeVars, taskVars, bootVars
<1>1. ASSUME NEW p \in Trade, Opening(p) PROVE OnceAmong(T)'
  BY <1>1, OpeningFrame
<1>2. ASSUME NEW c \in Task, StartScan(c) PROVE OnceAmong(T)'
  BY <1>2 DEF StartScan
<1>3. ASSUME NEW c \in Task, LookUp(c) PROVE OnceAmong(T)'
  BY <1>3 DEF LookUp
<1>4. ASSUME NEW c \in Task, Pass(c) PROVE OnceAmong(T)'
  BY <1>4 DEF Pass, NextTrade
<1>5. ASSUME NEW c \in Task, CloseCryptoTrade(c) PROVE OnceAmong(T)'
  BY <1>5 DEF CloseCryptoTrade, SetStatus
<1>6. ASSUME NEW c \in Task, Settle(c) PROVE OnceAmong(T)'
  BY <1>6 DEF Settle, AppendSettlement, SettlingIsClosed, UnguardedIsUnsettled, Task
<1>7. ASSUME NEW c \in Task, MarkPeak(c) PROVE OnceAmong(T)'
  BY <1>7 DEF MarkPeak, RaisePeak, NextTrade
<1>8. ASSUME NEW c \in Task, ResolveTrade(c) PROVE OnceAmong(T)'
  BY <1>8 DEF ResolveTrade, RowIsOpen, SetStatus, AppendSettlement, NextTrade, OpenIsUnsettled
<1>9. ASSUME NEW c \in Task, CancelTrade(c) PROVE OnceAmong(T)'
  BY <1>9 DEF CancelTrade, SetStatus
<1>10. ASSUME NEW c \in Task, FinishScan(c) PROVE OnceAmong(T)'
  BY <1>10 DEF FinishScan
<1>11. ASSUME NEW c \in Task, ScanThrows(c) PROVE OnceAmong(T)'
  BY <1>11 DEF ScanThrows
<1>12. CASE BootScan
  BY <1>12 DEF BootScan
<1>13. CASE ExpireLegacyTrade
  BY <1>13 DEF ExpireLegacyTrade, RowIsOpen, SetStatus
<1>14. CASE RecoverTrade
  BY <1>14 DEF RecoverTrade, RowIsOpen, SetStatus
<1>15. CASE ReportConflict
  BY <1>15 DEF ReportConflict, NextTrade
<1>16. CASE CatchFailure
  BY <1>16 DEF CatchFailure, NextTrade
<1>17. CASE ReconciliationThrows
  BY <1>17 DEF ReconciliationThrows
<1>18. CASE Crash
  BY <1>18 DEF Crash
<1>19. CASE UNCHANGED vars
  BY <1>19 DEF vars
<1>20. QED
  BY <1>1, <1>2, <1>3, <1>4, <1>5, <1>6, <1>7, <1>8, <1>9, <1>10, <1>11, <1>12, <1>13, <1>14, <1>15, <1>16, <1>17, <1>18, <1>19
     DEF Next, Closing, Reconciling

LEMMA InvInit == ASSUME NEW T \in SUBSET Trade PROVE Init => InvAmong(T)
<1> SUFFICES ASSUME Init PROVE InvAmong(T)
  OBVIOUS
<1>1. TypeOK /\ InHand
  BY TypeInit
<1>2. BootIsAlone /\ Snapshots /\ Attempts /\ SettlingIsClosed
  BY Constants DEF Init, BootIsAlone, Snapshots, Attempts, SettlingIsClosed, Unreserved, InFlight
<1>3. OpenIsUnsettled /\ UnguardedIsUnsettled(T) /\ OnceAmong(T)
  BY Constants DEF Init, OpenIsUnsettled, UnguardedIsUnsettled, OnceAmong
<1>4. QED
  BY <1>1, <1>2, <1>3 DEF InvAmong, Mechanics

LEMMA MechanicsStep == Mechanics /\ [Next]_vars => Mechanics'
BY TypeStep, BootIsAloneStep, SnapshotsStep, AttemptsStep, SettlingIsClosedStep,
   OpenIsUnsettledStep DEF Mechanics

LEMMA InvStep ==
  ASSUME NEW T \in SUBSET Trade, NoOverlap \/ T \cap Scalp = {}, InvAmong(T), [Next]_vars
  PROVE  InvAmong(T)'
<1>1. TypeOK /\ InHand /\ BootIsAlone /\ Snapshots /\ SettlingIsClosed /\ OpenIsUnsettled
  BY DEF InvAmong, Mechanics
<1>2. UnguardedIsUnsettled(T)' /\ OnceAmong(T)'
  BY <1>1, UnguardedIsUnsettledStep, OnceStep DEF InvAmong
<1>3. Mechanics'
  BY MechanicsStep DEF InvAmong
<1>4. QED
  BY <1>2, <1>3 DEF InvAmong

LEMMA DeskInvInit == Init => DeskInv
<1> SUFFICES ASSUME Init PROVE DeskInv
  OBVIOUS
<1>1. InvAmong(Trade)
  BY InvInit
<1>2. QED
  BY <1>1 DEF InvAmong, Mechanics, OnceAmong, SettledOnce, DeskInv

LEMMA DeskInvStep == NoOverlap /\ DeskInv /\ [Next]_vars => DeskInv'
<1> SUFFICES ASSUME NoOverlap, DeskInv, [Next]_vars PROVE DeskInv'
  OBVIOUS
<1>1. InvAmong(Trade)
  BY DEF InvAmong, Mechanics, OnceAmong, SettledOnce, DeskInv
<1>2. InvAmong(Trade)'
  BY <1>1, InvStep
<1>3. QED
  BY <1>2 DEF InvAmong, Mechanics, OnceAmong, SettledOnce, DeskInv

LEMMA DeskInvariant == Spec /\ []NoOverlap => []DeskInv
<1>1. NoOverlap /\ DeskInv /\ [Next]_vars => DeskInv'
  BY DeskInvStep
<1>2. QED
  BY DeskInvInit, <1>1, PTL DEF Spec

\* A trade's capital is given back at most once, whatever engines, monitor,
\* learning cycles, reconciliations and crashes do - provided no two runs of the
\* legacy position manager overlap.
THEOREM CapitalSettledOnce == Spec /\ []NoOverlap => []SettledOnce
<1>1. DeskInv => SettledOnce
  BY DEF DeskInv
<1>2. QED
  BY DeskInvariant, <1>1, PTL

\* Of spot and binary trades that holds without the proviso: overlapping runs of
\* the manager, the learning cycle and the reconciliation never settle one twice.
THEOREM OthersSettledOnce == Spec => [](\A t \in Spot \cup Binary : refunded[t] <= 1)
<1> DEFINE Others == Spot \cup Binary
<1>1. Others \in SUBSET Trade /\ Others \cap Scalp = {}
  BY Constants, DeskAssumption
<1> HIDE DEF Others
<1>2. Init => InvAmong(Others)
  BY <1>1, InvInit
<1>3. InvAmong(Others) /\ [Next]_vars => InvAmong(Others)'
  BY <1>1, InvStep
<1>4. InvAmong(Others) => \A t \in Spot \cup Binary : refunded[t] <= 1
  BY DEF InvAmong, OnceAmong, Others
<1>5. QED
  BY <1>2, <1>3, <1>4, PTL DEF Spec
===============================================================================
