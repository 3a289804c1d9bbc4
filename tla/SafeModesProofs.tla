---------------------------- MODULE SafeModesProofs ----------------------------
(***************************************************************************)
(* Theorems about the safe modes, for any number of trades and restarts.   *)
(***************************************************************************)
EXTENDS SafeModes, TLAPS

\* What the agent's own reconciliation found is what its gates go by: nothing
\* but a restart writes the agent's copy of the status after that.
OwnFindingRules == outcome = "done" => state[Agent] = StatusOf(found)

\* Nothing is let through before the reconciliation is over, and nothing after
\* it when it ended DEGRADED.
NothingOpened ==
  outcome = "running" \/ (outcome = "done" /\ StatusOf(found) = "degraded")
  => opened = 0

\* The safe mode is on whenever the last score asks for it, and stays on while
\* the risk engine is failing.
ScoreRules ==
  /\ score \in {"high", "failed"} => safeMode
  /\ engineFailed => safeMode

SafeInv == TypeOK /\ OwnFindingRules /\ NothingOpened /\ ScoreRules

-------------------------------------------------------------------------------
LEMMA SafeInit == Init => SafeInv
<1> SUFFICES ASSUME Init PROVE SafeInv
  OBVIOUS
<1>1. safeMode \in BOOLEAN /\ engineFailed \in BOOLEAN /\ cleared \in BOOLEAN
  BY DEF Init
<1>2. TypeOK
  BY <1>1, SafeModesAssumption DEF Init, TypeOK
<1>3. OwnFindingRules /\ NothingOpened /\ ScoreRules
  BY DEF Init, OwnFindingRules, NothingOpened, ScoreRules
<1>4. QED
  BY <1>2, <1>3 DEF SafeInv

LEMMA TypeStep == TypeOK /\ [Next]_vars => TypeOK'
<1> SUFFICES ASSUME TypeOK, [Next]_vars PROVE TypeOK'
  OBVIOUS
<1> USE SafeModesAssumption
    DEF TypeOK, Proc, RECONCILIATION_STATUS, reconciliationVars, riskVars
<1>1. CASE CheckTrade
  BY <1>1 DEF CheckTrade, Finding
<1>2. CASE ReconciliationEnds
  <2>1. cleared' \in BOOLEAN
    BY <1>2 DEF ReconciliationEnds
  <2>2. QED
    BY <1>2, <2>1 DEF ReconciliationEnds, SaveState, StatusOf
<1>3. CASE ReconciliationThrows
  BY <1>3 DEF ReconciliationThrows
<1>4. CASE ServerReports
  BY <1>4 DEF ServerReports, Answers, Ask
<1>5. CASE clearSafeMode
  <2>1. cleared' \in BOOLEAN
    BY <1>5 DEF clearSafeMode
  <2>2. QED
    BY <1>5, <2>1 DEF clearSafeMode, SaveState
<1>6. CASE refreshGlobalRiskScore
  <2>1. CASE RiskEngineFails
    BY <1>6, <2>1 DEF refreshGlobalRiskScore, RiskEngineFails
  <2>2. ASSUME NEW s \in {"low", "middle", "high"}, RiskComputed(s) PROVE TypeOK'
    <3>1. safeMode' \in BOOLEAN
      BY <2>2 DEF RiskComputed
    <3>2. QED
      BY <1>6, <2>2, <3>1 DEF refreshGlobalRiskScore, RiskComputed
  <2>3. QED
    BY <1>6, <2>1, <2>2 DEF refreshGlobalRiskScore
<1>7. CASE LetThrough
  BY <1>7 DEF LetThrough, Answers, Ask
<1>8. CASE TurnAway
  BY <1>8 DEF TurnAway, Answers, Ask
<1>9. CASE AgentRestarts
  <2>1. safeMode' \in BOOLEAN /\ engineFailed' \in BOOLEAN /\ cleared' \in BOOLEAN
    BY <1>9 DEF AgentRestarts
  <2>2. QED
    BY <1>9, <2>1 DEF AgentRestarts
<1>10. CASE ServerRestarts
  BY <1>10 DEF ServerRestarts
<1>11. CASE UNCHANGED vars
  BY <1>11 DEF vars
<1>12. QED
  BY <1>1, <1>2, <1>3, <1>4, <1>5, <1>6, <1>7, <1>8, <1>9, <1>10, <1>11 DEF Next

LEMMA GateStep ==
  SafeInv /\ [Next]_vars => OwnFindingRules' /\ NothingOpened'
<1> SUFFICES ASSUME SafeInv, [Next]_vars PROVE OwnFindingRules' /\ NothingOpened'
  OBVIOUS
<1> USE SafeModesAssumption
    DEF SafeInv, OwnFindingRules, NothingOpened, TypeOK, Proc,
       reconciliationVars, Up
<1>0. StatusOf(found) \in RECONCILIATION_STATUS
  BY DEF StatusOf, RECONCILIATION_STATUS, SafeInv, TypeOK
<1>1. CASE CheckTrade
  BY <1>1 DEF CheckTrade
<1>2. CASE ReconciliationEnds
  BY <1>2 DEF ReconciliationEnds
<1>3. CASE ReconciliationThrows
  BY <1>3 DEF ReconciliationThrows
<1>4. CASE ServerReports
  BY <1>4 DEF ServerReports, Ask
<1>5. CASE clearSafeMode
  BY <1>5 DEF clearSafeMode
<1>6. CASE refreshGlobalRiskScore
  BY <1>6 DEF refreshGlobalRiskScore
<1>7. CASE LetThrough
  BY <1>0, <1>7 DEF LetThrough, Ask, Answers, RECONCILIATION_STATUS
<1>8. CASE TurnAway
  BY <1>0, <1>8 DEF TurnAway, Ask, Answers, RECONCILIATION_STATUS
<1>9. CASE AgentRestarts
  BY <1>9 DEF AgentRestarts
<1>10. CASE ServerRestarts
  BY <1>10 DEF ServerRestarts
<1>11. CASE UNCHANGED vars
  BY <1>11 DEF vars
<1>12. QED
  BY <1>1, <1>2, <1>3, <1>4, <1>5, <1>6, <1>7, <1>8, <1>9, <1>10, <1>11 DEF Next

LEMMA ScoreStep == ScoreRules /\ [Next]_vars => ScoreRules'
<1> SUFFICES ASSUME ScoreRules, [Next]_vars PROVE ScoreRules'
  OBVIOUS
<1> USE DEF ScoreRules
<1>1. CASE refreshGlobalRiskScore
  BY <1>1 DEF refreshGlobalRiskScore, RiskComputed, RiskEngineFails
<1>2. CASE AgentRestarts
  BY <1>2 DEF AgentRestarts
<1>3. CASE UNCHANGED riskVars
  BY <1>3 DEF riskVars
<1>4. QED
  BY <1>1, <1>2, <1>3
  DEF Next, vars, CheckTrade, ReconciliationEnds, ReconciliationThrows,
     ServerReports,
      clearSafeMode, LetThrough, TurnAway, ServerRestarts

LEMMA SafeInvariant == Spec => []SafeInv
<1>1. SafeInv /\ [Next]_vars => SafeInv'
  BY TypeStep, GateStep, ScoreStep DEF SafeInv
<1>2. QED
  BY SafeInit, <1>1, PTL DEF Spec

-------------------------------------------------------------------------------
\* The safe modes keep their types (TypeOK), for any bounds.
THEOREM SafeModesTypes == Spec => []TypeOK
<1>1. SafeInv => TypeOK
  BY DEF SafeInv
<1>2. QED
  BY SafeInvariant, <1>1, PTL

-------------------------------------------------------------------------------
\* An agent whose reconciliation met a status it cannot act on opens nothing
\* before the operator's clear (TroubleOpensNothing), whatever the server process
\* reads and whatever is left of the shared row.
THEOREM TroubledAgentOpensNothing == Spec => []TroubleOpensNothing
<1>1. SafeInv => TroubleOpensNothing
  BY DEF SafeInv, NothingOpened, TroubleOpensNothing, StatusOf
<1>2. QED
  BY SafeInvariant, <1>1, PTL

\* The hysteresis of the global safe mode holds across failures of the risk
\* engine: only a low score or a restart lifts it.
THEOREM OnlyLowScoreLifts == Spec => LiftedByLowScore
<1>1. SafeInv /\ [Next]_vars =>
        [isGlobalSafeMode /\ ~isGlobalSafeMode'
        => score' = "low" \/ restarts' > restarts]_vars
  <2> SUFFICES ASSUME SafeInv, [Next]_vars, isGlobalSafeMode, ~isGlobalSafeMode'
               PROVE  score' = "low" \/ restarts' > restarts
    OBVIOUS
  <2>1. CASE refreshGlobalRiskScore
    BY <2>1 DEF SafeInv, ScoreRules, isGlobalSafeMode, refreshGlobalRiskScore,
                RiskComputed, RiskEngineFails
  <2>2. CASE AgentRestarts
    BY <2>2, SafeModesAssumption DEF AgentRestarts, SafeInv, TypeOK
  <2>3. CASE UNCHANGED riskVars
    BY <2>3 DEF riskVars, isGlobalSafeMode
  <2>4. QED
    BY <2>1, <2>2, <2>3
    DEF Next, vars, CheckTrade, ReconciliationEnds, ReconciliationThrows,
       ServerReports,
        clearSafeMode, LetThrough, TurnAway, ServerRestarts
<1>2. QED
  BY SafeInvariant, <1>1, PTL DEF Spec, LiftedByLowScore

\* No trade is let through under a critical or failed risk score.
THEOREM CriticalRiskOpensNothing == Spec => NothingAtCriticalRisk
<1>1. SafeInv /\ [Next]_vars => [opened' > opened => score \notin {"high",
    "failed"}]_vars
  <2> SUFFICES ASSUME SafeInv, [Next]_vars, opened' > opened
               PROVE  score \notin {"high", "failed"}
    OBVIOUS
  <2>1. opened \in Nat
    BY SafeModesAssumption DEF SafeInv, TypeOK
  <2>2. CASE LetThrough
    BY <2>2 DEF LetThrough, isGlobalSafeMode, SafeInv, ScoreRules
  <2>3. CASE AgentRestarts
    BY <2>1, <2>3 DEF AgentRestarts
  <2>4. CASE UNCHANGED opened
    BY <2>1, <2>4
  <2>5. QED
    BY <2>2, <2>3, <2>4
    DEF Next, vars, CheckTrade, ReconciliationEnds, ReconciliationThrows,
       ServerReports,
        clearSafeMode, refreshGlobalRiskScore, TurnAway, ServerRestarts
<1>2. QED
  BY SafeInvariant, <1>1, PTL DEF Spec, NothingAtCriticalRisk
===============================================================================
