----------------------------- MODULE KalshiOrders ------------------------------
(***************************************************************************)
(* Real orders: executeTrade of trading/execution.mjs for a Kalshi market,  *)
(* with the circuit breaker of utils/retry.mjs around it.  The exchange is  *)
(* external: it handles a request once, at any time after it was sent, also *)
(* when nobody waits for the answer any more.                               *)
(*                                                                          *)
(* An attempt posts one payload after the other to one endpoint after the   *)
(* other until an answer settles it.  Posting ends in a value in every case,*)
(* so that withRetry, which repeats what throws, never repeats it, and the  *)
(* breaker counts it as a success; what throws is the reading of the        *)
(* parameters before it, at an SQLite error.                                *)
(***************************************************************************)
EXTENDS Integers, FiniteSets

CONSTANTS
  Attempt,     \* proposals, each with an approved council decision
  Endpoints,   \* number of endpoints
  Payloads,    \* number of variations of the payload
  Threshold,   \* failureThreshold
  Unlinked,    \* NULL in trades.external_order_id
  MaxCrashes   \* bound on the crashes of the agent

ASSUME OrdersAssumption ==
  /\ IsFiniteSet(Attempt)
  /\ Endpoints \in Nat \ {0} /\ Payloads \in Nat \ {0} /\ Threshold \in Nat \ {0}
  /\ Unlinked \notin (1..Endpoints) \X (1..Payloads)
  /\ MaxCrashes \in Nat

VARIABLES
  flow,       \* where executeTrade is
  request,    \* the request it awaits, or awaited last
  reply,      \* the answer on its way back
  mail,       \* requests the exchange has not handled
  orders,     \* external: the requests that became orders
  row,        \* trades: the request of the order a row was saved for, and its order id
  breaker, failures,
  cooled,     \* resetTimeoutMs have passed since the last failure
  crashes,
  unheard,    \* history: requests given up without an answer
  unsaved     \* history: attempts whose order was answered and brought no row

flowVars == <<flow, request, reply>>
exchange == <<mail, orders>>
breakerVars == <<breaker, failures, cooled>>
history == <<unheard, unsaved>>
vars == <<flowVars, exchange, row, breakerVars, crashes, history>>

Request == (1..Endpoints) \X (1..Payloads)
First == <<1, 1>>
NoRow == [order |-> First, externalOrderId |-> Unlinked, saved |-> FALSE]

TypeOK ==
  /\ flow \in [Attempt -> {"ready", "waiting", "recorded", "failed", "dead"}]
  /\ request \in [Attempt -> Request]
  /\ reply \in [Attempt -> {"none", "id", "noId", "error", "refused", "unsupported"}]
  /\ mail \in [Attempt -> SUBSET Request]
  /\ orders \in [Attempt -> SUBSET Request]
  /\ row \in [Attempt -> [order : Request, externalOrderId : Request \cup {Unlinked},
                          saved : BOOLEAN]]
  /\ breaker \in {"closed", "open", "half-open"}
  /\ failures \in Nat /\ cooled \in BOOLEAN
  /\ crashes \in 0..MaxCrashes
  /\ unheard \in [Attempt -> SUBSET Request]
  /\ unsaved \subseteq Attempt

Init ==
  /\ flow = [t \in Attempt |-> "ready"]
  /\ request = [t \in Attempt |-> First]
  /\ reply = [t \in Attempt |-> "none"]
  /\ mail = [t \in Attempt |-> {}] /\ orders = [t \in Attempt |-> {}]
  /\ row = [t \in Attempt |-> NoRow]
  /\ breaker = "closed" /\ failures = 0 /\ cooled = FALSE
  /\ crashes = 0
  /\ unheard = [t \in Attempt |-> {}] /\ unsaved = {}

-------------------------------------------------------------------------------
(***************************************************************************)
(* The circuit breaker.  Half-open lets every call through, not just one.   *)
(***************************************************************************)
LetsThrough == breaker # "open" \/ cooled

\* The state a call finds after execute has let it through.
Entered == IF breaker = "open" THEN "half-open" ELSE breaker

\* onSuccess; `state' is the breaker's state at the end of the call.
OnSuccess(state) ==
  /\ failures' = 0
  /\ breaker' = IF state = "half-open" THEN "closed" ELSE state
  /\ UNCHANGED cooled

\* Mutant: opens only beyond the threshold.
OnFailureLate(state) ==
  /\ failures' = failures + 1
  /\ breaker' = IF failures + 1 > Threshold THEN "open" ELSE state
  /\ cooled' = FALSE

OnFailure(state) ==
  /\ failures' = failures + 1
  /\ breaker' = IF failures + 1 >= Threshold THEN "open" ELSE state
  /\ cooled' = FALSE

\* resetTimeoutMs pass.
Cools ==
  /\ breaker = "open" /\ ~cooled
  /\ cooled' = TRUE
  /\ UNCHANGED <<flowVars, exchange, row, breaker, failures, crashes, history>>

-------------------------------------------------------------------------------
(***************************************************************************)
(* executeTrade.  It consumes the decision first, so that an attempt is     *)
(* made once.                                                               *)
(***************************************************************************)
\* The breaker is open: nothing is asked of Kalshi.
IsBlocked(t) ==
  /\ flow[t] = "ready" /\ ~LetsThrough
  /\ flow' = [flow EXCEPT ![t] = "failed"]
  /\ UNCHANGED <<request, reply, exchange, row, breakerVars, crashes, history>>

\* getStrategyParams throws.
ParamsFail(t) ==
  /\ flow[t] = "ready" /\ LetsThrough
  /\ flow' = [flow EXCEPT ![t] = "failed"]
  /\ OnFailure(Entered)
  /\ UNCHANGED <<request, reply, exchange, row, crashes, history>>

\* No API key, no size, or no such side.
IsInvalid(t) ==
  /\ flow[t] = "ready" /\ LetsThrough
  /\ flow' = [flow EXCEPT ![t] = "failed"]
  /\ OnSuccess(Entered)
  /\ UNCHANGED <<request, reply, exchange, row, crashes, history>>

Post(t, r) ==
  /\ request' = [request EXCEPT ![t] = r]
  /\ mail' = [mail EXCEPT ![t] = @ \cup {r}]
  /\ reply' = [reply EXCEPT ![t] = "none"]
  /\ UNCHANGED orders

Begins(t) ==
  /\ flow[t] = "ready" /\ LetsThrough
  /\ flow' = [flow EXCEPT ![t] = "waiting"]
  /\ breaker' = Entered
  /\ Post(t, First)
  /\ UNCHANGED <<row, failures, cooled, crashes, history>>

\* placeKalshiOrder returns ok: false, which is a success of the breaker.
Fails(t) ==
  /\ flow' = [flow EXCEPT ![t] = "failed"]
  /\ OnSuccess(breaker)
  /\ UNCHANGED <<request, reply, exchange>>

\* The request after r: the next payload, then the next endpoint.
HasNext(r) == r # <<Endpoints, Payloads>>
Following(r) == IF r[2] < Payloads THEN <<r[1], r[2] + 1>> ELSE <<r[1] + 1, 1>>

PostNext(t, r) == Post(t, r) /\ UNCHANGED <<flow, breakerVars>>

\* fetch throws: the request was not sent, or its answer does not come within ten
\* seconds.  The next payload is tried.
GivesUp(t) ==
  /\ flow[t] = "waiting"
  /\ unheard' = [unheard EXCEPT ![t] = @ \cup {request[t]}]
  /\ IF HasNext(request[t]) THEN PostNext(t, Following(request[t])) ELSE Fails(t)
  /\ UNCHANGED <<row, crashes, unsaved>>

Hears(t, answer) == flow[t] = "waiting" /\ reply[t] = answer

\* Mutant: goes on after the last endpoint.
HearsUnsupportedPast(t) ==
  /\ Hears(t, "unsupported")
  /\ IF request[t][1] <= Endpoints THEN PostNext(t, <<request[t][1] + 1, 1>>) ELSE Fails(t)
  /\ UNCHANGED <<row, crashes, history>>

\* 404 or 405: the next endpoint.
HearsUnsupported(t) ==
  /\ Hears(t, "unsupported")
  /\ IF request[t][1] < Endpoints THEN PostNext(t, <<request[t][1] + 1, 1>>) ELSE Fails(t)
  /\ UNCHANGED <<row, crashes, history>>

\* An error status for a request that placed nothing.
HearsRefused(t) ==
  /\ Hears(t, "refused")
  /\ Fails(t)
  /\ UNCHANGED <<row, crashes, history>>

\* An error status for a request that placed an order all the same (the exchange,
\* or what stands before it, failed after that): it is taken for a refusal.
HearsError(t) ==
  /\ Hears(t, "error")
  /\ Fails(t)
  /\ unsaved' = unsaved \cup {t}
  /\ UNCHANGED <<row, crashes, unheard>>

\* Mutant: an answer without an order id is tried again with another payload.
HearsNoIdAndGoesOn(t) ==
  /\ Hears(t, "noId")
  /\ IF HasNext(request[t]) THEN PostNext(t, Following(request[t])) ELSE Fails(t)
  /\ unsaved' = unsaved \cup {t}
  /\ UNCHANGED <<row, crashes, unheard>>

\* An order was placed, and its id is not where it is looked for.
HearsNoId(t) ==
  /\ Hears(t, "noId")
  /\ Fails(t)
  /\ unsaved' = unsaved \cup {t}
  /\ UNCHANGED <<row, crashes, unheard>>

\* saveTrade reads trade.externalOrderId, and is given external_order_id.
Row(t) == [order |-> request[t], externalOrderId |-> Unlinked, saved |-> TRUE]

\* Mutant: the row is saved after the next await, if it comes to that.
HearsIdOnly(t) ==
  /\ Hears(t, "id")
  /\ flow' = [flow EXCEPT ![t] = "recorded"]
  /\ OnSuccess(breaker)
  /\ UNCHANGED <<request, reply, exchange, row, crashes, history>>

\* The row of the trade is saved, unless saveTrade throws: then executeTrade says
\* that nothing was executed.
HearsId(t) ==
  /\ Hears(t, "id")
  /\ OnSuccess(breaker)
  /\ \/ /\ row' = [row EXCEPT ![t] = Row(t)]
        /\ flow' = [flow EXCEPT ![t] = "recorded"]
        /\ UNCHANGED unsaved
     \/ /\ flow' = [flow EXCEPT ![t] = "failed"]
        /\ unsaved' = unsaved \cup {t}
        /\ UNCHANGED row
  /\ UNCHANGED <<request, reply, exchange, crashes, unheard>>

\* The agent process dies; the next one has a new breaker, and no attempt is
\* taken up again.
Crashes ==
  /\ crashes < MaxCrashes /\ crashes' = crashes + 1
  /\ flow' = [t \in Attempt |-> IF flow[t] = "waiting" THEN "dead" ELSE flow[t]]
  /\ breaker' = "closed" /\ failures' = 0 /\ cooled' = FALSE
  /\ UNCHANGED <<request, reply, exchange, row, history>>

-------------------------------------------------------------------------------
(***************************************************************************)
(* The exchange.                                                            *)
(***************************************************************************)
Handles(t, r) ==
  /\ r \in mail[t]
  /\ mail' = [mail EXCEPT ![t] = @ \ {r}]
  /\ \E answer \in {"id", "noId", "error", "refused", "unsupported"} :
       /\ orders' = IF answer \in {"id", "noId", "error"} THEN [orders EXCEPT ![t] = @ \cup {r}]
                    ELSE orders
       /\ reply' = IF flow[t] = "waiting" /\ request[t] = r
                     THEN [reply EXCEPT ![t] = answer] ELSE reply
  /\ UNCHANGED <<flow, request, row, breakerVars, crashes, history>>

Places(t) ==
  \/ IsBlocked(t) \/ ParamsFail(t) \/ IsInvalid(t) \/ Begins(t)
  \/ GivesUp(t) \/ HearsUnsupported(t) \/ HearsRefused(t) \/ HearsError(t)
  \/ HearsNoId(t) \/ HearsId(t)

Next ==
  \/ \E t \in Attempt : Places(t) \/ \E r \in Request : Handles(t, r)
  \/ Cools
  \/ Crashes

Spec == Init /\ [][Next]_vars

-------------------------------------------------------------------------------
(***************************************************************************)
(* Properties                                                               *)
(***************************************************************************)
\* An attempt leaves two orders at the exchange only if an answer to the first
\* was not heard: a refusal, true or not, an order without an id, a path that is not
\* supported never lead to a second one (placeKalshiOrder returns or breaks at each answer).
DuplicatesWereUnheard ==
  \A t \in Attempt : \A r, s \in orders[t] :
    r # s => r \in unheard[t] \/ s \in unheard[t]

\* Every order at the exchange is the one of a saved row, or is still awaited, or
\* got lost in a known way: its answer was not heard, was an error status, came
\* without an id or could not be saved, or the agent died waiting.  And no row is saved without
\* an order (executeTrade: saveTrade only after an answer with an id).
OrdersAreAccountedFor ==
  \A t \in Attempt :
    /\ row[t].saved => row[t].order \in orders[t]
    /\ \A r \in orders[t] :
         \/ row[t].saved /\ row[t].order = r
         \/ r \in unheard[t]
         \/ r = request[t] /\ (flow[t] \in {"waiting", "dead"} \/ t \in unsaved)

\* A closed breaker has seen fewer failures in a row than its threshold, however
\* calls overlap and whichever of them turn it half-open (CircuitBreaker).
BreakerTrips == breaker = "closed" => failures < Threshold

\* "Save trade with Kalshi order ID linked" (execution.mjs:84).
OrderIdLinked == \A t \in Attempt : row[t].saved => row[t].externalOrderId = row[t].order
===============================================================================
