------------------------------- MODULE SafeModes -------------------------------
(***************************************************************************)
(* The two safe modes that stand before every trade, and who can see them. *)
(*                                                                         *)
(*   reconciliation  memory/reconciliationEngine.mjs: a status kept in a   *)
(*                   row of org_state and in a module variable of each     *)
(*                   process, which is read from the row once and cached   *)
(*   global risk     risk/globalRiskEngine.mjs: a score with hysteresis,   *)
(*                   kept in the agent process only                        *)
(*                                                                         *)
(* The agent reconciles at boot, then trades.  The API server is another   *)
(* process on the same database: it reports the status and takes the       *)
(* operator's clear.  Either may be restarted at any time.                 *)
(***************************************************************************)
EXTENDS Naturals

CONSTANTS
  Agent, Server,      \* the two processes
  PredictionTicks,    \* PREDICTION_AGENT_ENABLED: tick() runs
  MaxTrades,          \* bound on the trades of one boot
  MaxRestarts         \* bound on the restarts of a behaviour

ASSUME SafeModesAssumption ==
  /\ Agent # Server
  /\ PredictionTicks \in BOOLEAN
  /\ MaxTrades \in Nat /\ MaxRestarts \in Nat

Proc == {Agent, Server}
RECONCILIATION_STATUS == {"healthy", "recovering", "degraded"}

VARIABLES
  row,           \* status in org_state, "none" before the first one
  state,         \* _state of each process, "unloaded" until it is asked
  found,         \* the worst thing this reconciliation has found so far
  outcome,       \* how this boot's reconciliation went, "running" until it ends
  safeMode,      \* _safeMode
  engineFailed,  \* _engineFailed
  score,         \* the last score: <= 79 is low, 80..84 middle, >= 85 high
  opened,        \* trades let through since the agent booted
  restarts,      \* restarts so far
  cleared        \* history: the operator has cleared what this boot's reconciliation ended in

reconciliationVars == <<row, state, found, outcome>>
riskVars == <<safeMode, engineFailed, score>>
vars == <<reconciliationVars, riskVars, opened, restarts, cleared>>

TypeOK ==
  /\ row \in RECONCILIATION_STATUS \cup {"none"}
  /\ state \in [Proc -> RECONCILIATION_STATUS \cup {"unloaded"}]
  /\ found \in {"nothing", "exposure", "conflict"}
  /\ outcome \in {"running", "done", "threw"}
  /\ safeMode \in BOOLEAN /\ engineFailed \in BOOLEAN
  /\ score \in {"unknown", "low", "middle", "high", "failed"}
  /\ opened \in 0..MaxTrades
  /\ restarts \in 0..MaxRestarts
  /\ cleared \in BOOLEAN

Init ==
  /\ row = "none"
  /\ found = "nothing" /\ outcome = "running"
  /\ safeMode = FALSE /\ engineFailed = FALSE /\ score = "unknown"
  /\ opened = 0
  /\ state = [p \in Proc |-> "unloaded"]
  /\ restarts = 0 /\ cleared = FALSE

-------------------------------------------------------------------------------
Up == outcome # "running"

\* Mutant: no default for a row that is not there yet.
CachedOrRow(p) == IF state[p] # "unloaded" THEN {state[p]} ELSE {row}

\* getReconciliationStatus: the cached status, or the row's, or the default when
\* there is no row or the database cannot be read.
Answers(p) ==
  IF state[p] # "unloaded" THEN {state[p]}
  ELSE {"healthy"} \cup ({row} \ {"none"})

\* A process asks for the status and keeps the answer.
Ask(p, s) == s \in Answers(p) /\ state' = [state EXCEPT ![p] = s]

\* _saveStateToDB swallows its errors.
SaveState(s) == row' \in {row, s}

\* Mutant: a status nobody expected is exposure like any other.
NothingDegrades(f) == IF f = "nothing" THEN "healthy" ELSE "recovering"

StatusOf(f) ==
  CASE f = "nothing" -> "healthy"
    [] f = "exposure" -> "recovering"
    [] f = "conflict" -> "degraded"

\* What the agent's reconciliation makes of an exchange's answer about one open
\* trade ("strange" also stands for a settlement that fails).  getMarketStatus
\* turns every failure to get one (no key, a timeout, an error status) into null,
\* and null counts as open; the catch for network failures is never reached.
Finding(answer) == IF answer = "strange" THEN "conflict" ELSE "exposure"

\* One open trade is looked at.  A conflict is never taken back within a run.
CheckTrade ==
  /\ outcome = "running"
  /\ \E answer \in {"open", "unreachable", "strange"} :
       found' = IF found = "conflict" THEN found ELSE Finding(answer)
  /\ UNCHANGED <<row, state, outcome, riskVars, opened, restarts, cleared>>

ReconciliationEnds ==
  /\ outcome = "running"
  /\ outcome' = "done"
  /\ state' = [state EXCEPT ![Agent] = StatusOf(found)]
  /\ SaveState(StatusOf(found))
  /\ cleared' = FALSE
  /\ UNCHANGED <<found, riskVars, opened, restarts>>

\* agentRunner catches it, logs, and goes on to start the engines.
ReconciliationThrows ==
  /\ outcome = "running"
  /\ outcome' = "threw"
  /\ UNCHANGED <<row, state, found, riskVars, opened, restarts, cleared>>

\* Any route of the server that reports the status.
ServerReports ==
  /\ \E s \in Answers(Server) : Ask(Server, s)
  /\ UNCHANGED <<row, found, outcome, riskVars, opened, restarts, cleared>>

\* POST /api/reconciliation/clear, in the server: its own copy of the status and,
\* if that succeeds, the row.  An agent that has its copy goes on with it.
clearSafeMode ==
  /\ state' = [state EXCEPT ![Server] = "healthy"]
  /\ SaveState("healthy")
  /\ cleared' = TRUE
  /\ UNCHANGED <<found, outcome, riskVars, opened, restarts>>

-------------------------------------------------------------------------------
isGlobalSafeMode == engineFailed \/ safeMode

\* Mutant: no hysteresis, any score below the threshold lifts the safe mode.
RiskWithoutHysteresis(s) ==
  /\ engineFailed' = FALSE
  /\ score' = s
  /\ safeMode' = (s = "high")

\* A score was computed: safe mode goes on at 85 and off at 79.
RiskComputed(s) ==
  /\ engineFailed' = FALSE
  /\ score' = s
  /\ safeMode' = (s = "high" \/ (safeMode /\ s # "low"))

\* The computation threw.
RiskEngineFails ==
  /\ engineFailed' = TRUE
  /\ score' = "failed"
  /\ safeMode' = TRUE

\* refreshGlobalRiskScore, once per tick of the prediction agent and from
\* nowhere else.
refreshGlobalRiskScore ==
  /\ Up /\ PredictionTicks
  /\ (\E s \in {"low", "middle", "high"} : RiskComputed(s)) \/ RiskEngineFails
  /\ UNCHANGED <<reconciliationVars, opened, restarts, cleared>>

\* Mutant: the gate asks for the reconciliation status only.
LetThroughIfReconciled ==
  /\ Up /\ opened < MaxTrades
  /\ \E s \in Answers(Agent) \ {"degraded"} : Ask(Agent, s)
  /\ opened' = opened + 1
  /\ UNCHANGED <<row, found, outcome, riskVars, restarts, cleared>>

\* The gates at the top of openCryptoPosition (and of preTradeCheck) let a trade
\* through.  Only the gates: the awaits between them and the insert are not here,
\* nor, so, what the risk may have become at the insert.
LetThrough ==
  /\ Up /\ opened < MaxTrades
  /\ ~isGlobalSafeMode
  /\ \E s \in Answers(Agent) \ {"degraded"} : Ask(Agent, s)
  /\ opened' = opened + 1
  /\ UNCHANGED <<row, found, outcome, riskVars, restarts, cleared>>

\* They turn it away.
TurnAway ==
  /\ Up /\ ~isGlobalSafeMode
  /\ "degraded" \in Answers(Agent) /\ Ask(Agent, "degraded")
  /\ UNCHANGED <<row, found, outcome, riskVars, opened, restarts, cleared>>

\* The module variables of a fresh agent process.
AgentRestarts ==
  /\ restarts < MaxRestarts
  /\ restarts' = restarts + 1
  /\ found' = "nothing" /\ outcome' = "running"
  /\ safeMode' = FALSE /\ engineFailed' = FALSE /\ score' = "unknown"
  /\ opened' = 0 /\ cleared' = FALSE
  /\ state' = [state EXCEPT ![Agent] = "unloaded"]
  /\ UNCHANGED row

ServerRestarts ==
  /\ restarts < MaxRestarts
  /\ restarts' = restarts + 1
  /\ state' = [state EXCEPT ![Server] = "unloaded"]
  /\ UNCHANGED <<row, found, outcome, riskVars, opened, cleared>>

Next ==
  \/ CheckTrade \/ ReconciliationEnds \/ ReconciliationThrows
  \/ ServerReports \/ clearSafeMode
  \/ refreshGlobalRiskScore \/ LetThrough \/ TurnAway
  \/ AgentRestarts \/ ServerRestarts

Spec == Init /\ [][Next]_vars

-------------------------------------------------------------------------------
\* An agent whose reconciliation met a status it could not act on lets nothing
\* through until an operator clears ("blocks new trades until the operator reviews
\* and explicitly clears"): whether its row was saved or not, whatever the row held
\* before, and however often the server reads it or restarts.  Nothing is said of
\* the time after a clear, which is to lift the block.
TroubleOpensNothing ==
  outcome = "done" /\ found = "conflict" /\ ~cleared => opened = 0

\* A global safe mode is lifted by a score of 79 or less, or by a restart that
\* forgets it: not by a score in between, and not by the risk engine coming back
\* from a failure with such a score.
LiftedByLowScore ==
  [][isGlobalSafeMode /\ ~isGlobalSafeMode' => score' = "low" \/ restarts' > restarts]_vars

\* Once it has been computed, a critical or failed score lets nothing through the
\* gates.  A trade that passed them before is not stopped by a score computed
\* between the gates and its insert.
NothingAtCriticalRisk ==
  [][opened' > opened => score \notin {"high", "failed"}]_vars

===============================================================================
