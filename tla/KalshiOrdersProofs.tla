--------------------------- MODULE KalshiOrdersProofs --------------------------
(***************************************************************************)
(* Real orders, for any number of attempts, endpoints, payloads and crashes.*)
(***************************************************************************)
EXTENDS KalshiOrders, FiniteSetTheorems, TLAPS

-------------------------------------------------------------------------------
(***************************************************************************)
(* Requests come in an order.                                               *)
(***************************************************************************)
\* r was posted before s, or is s.
UpTo(r, s) == r[1] < s[1] \/ (r[1] = s[1] /\ r[2] <= s[2])

\* The first of all requests is one.
LEMMA FirstRequest == First \in Request
BY OrdersAssumption DEF First, Request

\* The request that follows is one, and beyond all those up to the one it follows.
LEMMA FollowingRequest ==
  ASSUME NEW r \in Request, HasNext(r)
  PROVE  /\ Following(r) \in Request
         /\ UpTo(r, Following(r))
         /\ \A s \in Request : UpTo(s, r) => UpTo(s, Following(r)) /\ s # Following(r)
<1>. USE OrdersAssumption
<1>1. PICK e \in 1..Endpoints, p \in 1..Payloads : r = <<e, p>>
  BY DEF Request
<1>2. CASE p < Payloads
  <2>1. Following(r) = <<e, p + 1>> /\ p + 1 \in 1..Payloads
    BY <1>1, <1>2 DEF Following
  <2>. QED
    BY <1>1, <2>1 DEF Request, UpTo
<1>3. CASE p = Payloads
  <2>1. e # Endpoints
    BY <1>1, <1>3 DEF HasNext
  <2>2. Following(r) = <<e + 1, 1>> /\ e + 1 \in 1..Endpoints /\ 1 \in 1..Payloads
    BY <1>1, <1>3, <2>1 DEF Following
  <2>. QED
    BY <1>1, <2>2 DEF Request, UpTo
<1>. QED
  BY <1>1, <1>2, <1>3

\* So is the first request of the next endpoint.
LEMMA NextEndpointRequest ==
  ASSUME NEW r \in Request, r[1] < Endpoints
  PROVE  /\ <<r[1] + 1, 1>> \in Request
         /\ UpTo(r, <<r[1] + 1, 1>>)
         /\ \A s \in Request : UpTo(s, r) => UpTo(s, <<r[1] + 1, 1>>) /\ s # <<r[1] + 1, 1>>
<1>. USE OrdersAssumption
<1>1. PICK e \in 1..Endpoints, p \in 1..Payloads : r = <<e, p>>
  BY DEF Request
<1>2. r[1] = e /\ e + 1 \in 1..Endpoints /\ 1 \in 1..Payloads
  BY <1>1
<1>. QED
  BY <1>1, <1>2 DEF Request, UpTo

-------------------------------------------------------------------------------
(***************************************************************************)
(* Types.                                                                   *)
(***************************************************************************)
\* What an attempt does to its request and to the mail.
Posted(t, r) ==
  /\ request' = [request EXCEPT ![t] = r]
  /\ mail' = [mail EXCEPT ![t] = @ \cup {r}]
  /\ reply' = [reply EXCEPT ![t] = "none"]
  /\ UNCHANGED orders

\* The breaker stays a breaker.
LEMMA BreakerTypes ==
  ASSUME TypeOK, NEW state \in {"closed", "half-open", "open"},
         OnSuccess(state) \/ OnFailure(state)
  PROVE  breaker' \in {"closed", "open", "half-open"} /\ failures' \in Nat /\ cooled' \in BOOLEAN
<1>0. failures \in Nat /\ cooled \in BOOLEAN /\ Threshold \in Nat
  BY OrdersAssumption DEF TypeOK
<1>1. CASE OnSuccess(state)
  BY <1>0, <1>1 DEF OnSuccess
<1>2. CASE OnFailure(state)
  <2>1. failures' = failures + 1 /\ cooled' = FALSE
    BY <1>2 DEF OnFailure
  <2>2. breaker' = "open" \/ breaker' = state
    BY <1>2 DEF OnFailure
  <2>3. cooled' \in BOOLEAN
    BY <2>1, Zenon
  <2>. QED
    BY <1>0, <2>1, <2>2, <2>3
<1>. QED
  BY <1>1, <1>2

\* Orders begin with their types.
LEMMA InitTyping == Init => TypeOK
<1>1. NoRow \in [order : Request, externalOrderId : Request \cup {Unlinked}, saved : BOOLEAN]
  BY FirstRequest DEF NoRow
<1>2. ASSUME NEW f, f = [t \in Attempt |-> {}]
      PROVE  f \in [Attempt -> SUBSET Request]
  BY <1>2
<1>3. ASSUME Init PROVE TypeOK
  <2>1. /\ mail \in [Attempt -> SUBSET Request] /\ orders \in [Attempt -> SUBSET Request]
        /\ unheard \in [Attempt -> SUBSET Request]
    BY <1>2, <1>3 DEF Init
  <2>2. row \in [Attempt -> [order : Request, externalOrderId : Request \cup {Unlinked}, saved : BOOLEAN]]
    BY <1>1, <1>3 DEF Init
  <2>3. /\ flow \in [Attempt -> {"ready", "waiting", "recorded", "failed", "dead"}]
        /\ request \in [Attempt -> Request]
        /\ reply \in [Attempt -> {"none", "id", "noId", "error", "refused", "unsupported"}]
    BY <1>3, FirstRequest DEF Init
  <2>4. /\ breaker \in {"closed", "open", "half-open"} /\ failures \in Nat
        /\ crashes \in 0..MaxCrashes /\ unsaved \subseteq Attempt
    BY <1>3, OrdersAssumption DEF Init
  <2>5. cooled \in BOOLEAN
    BY <1>3, Zenon DEF Init
  <2>. QED
    BY <2>1, <2>2, <2>3, <2>4, <2>5 DEF TypeOK
<1>. QED
  BY <1>3

\* A step of an attempt keeps the types.
LEMMA PlacesTyping ==
  ASSUME TypeOK, NEW t \in Attempt, Places(t)
  PROVE  TypeOK'
<1>. USE OrdersAssumption
<1>0. /\ request[t] \in Request /\ mail[t] \subseteq Request /\ First \in Request
      /\ Entered \in {"closed", "half-open", "open"} /\ breaker \in {"closed", "half-open", "open"}
  BY FirstRequest DEF TypeOK, Entered
<1>1. CASE IsBlocked(t)
  BY <1>1 DEF IsBlocked, TypeOK, exchange, breakerVars, history
<1>2. CASE ParamsFail(t)
  BY <1>0, <1>2, BreakerTypes DEF ParamsFail, TypeOK, exchange, history
<1>3. CASE IsInvalid(t)
  BY <1>0, <1>3, BreakerTypes DEF IsInvalid, TypeOK, exchange, history
<1>4. CASE Begins(t)
  BY <1>0, <1>4 DEF Begins, Post, TypeOK, history
<1>5. ASSUME NEW r \in Request, PostNext(t, r),
             UNCHANGED <<row, crashes, unsaved>>, unheard' \in [Attempt -> SUBSET Request]
      PROVE  TypeOK'
  BY <1>5 DEF PostNext, Post, TypeOK, breakerVars
<1>6. ASSUME Fails(t), UNCHANGED <<row, crashes>>,
             unheard' \in [Attempt -> SUBSET Request], unsaved' \subseteq Attempt
      PROVE  TypeOK'
  BY <1>0, <1>6, BreakerTypes DEF Fails, TypeOK, exchange
<1>7. CASE GivesUp(t)
  <2>1. unheard' \in [Attempt -> SUBSET Request] /\ UNCHANGED <<row, crashes, unsaved>>
    BY <1>0, <1>7 DEF GivesUp, TypeOK
  <2>. QED
    BY <1>0, <1>5, <1>6, <1>7, <2>1, FollowingRequest DEF GivesUp, TypeOK
<1>8. CASE HearsUnsupported(t)
  BY <1>0, <1>5, <1>6, <1>8, NextEndpointRequest DEF HearsUnsupported, TypeOK, history
<1>9. CASE HearsRefused(t)
  BY <1>6, <1>9 DEF HearsRefused, TypeOK, history
<1>10. CASE HearsNoId(t)
  BY <1>6, <1>10 DEF HearsNoId, TypeOK
<1>12. CASE HearsError(t)
  BY <1>6, <1>12 DEF HearsError, TypeOK
<1>11. CASE HearsId(t)
  <2>1. Row(t) \in [order : Request, externalOrderId : Request \cup {Unlinked}, saved : BOOLEAN]
    BY <1>0 DEF Row
  <2>2. /\ breaker' \in {"closed", "open", "half-open"} /\ failures' \in Nat
        /\ cooled' \in BOOLEAN
    BY <1>0, <1>11, BreakerTypes DEF HearsId, TypeOK
  <2>3. UNCHANGED <<request, reply, mail, orders, crashes, unheard>>
    BY <1>11 DEF HearsId, exchange
  <2>4. CASE /\ row' = [row EXCEPT ![t] = Row(t)] /\ flow' = [flow EXCEPT ![t] = "recorded"]
             /\ UNCHANGED unsaved
    BY <2>1, <2>2, <2>3, <2>4 DEF TypeOK
  <2>5. CASE /\ flow' = [flow EXCEPT ![t] = "failed"] /\ unsaved' = unsaved \cup {t}
             /\ UNCHANGED row
    BY <2>2, <2>3, <2>5 DEF TypeOK
  <2>. QED
    BY <1>11, <2>4, <2>5 DEF HearsId
<1>. QED
  BY <1>1, <1>2, <1>3, <1>4, <1>7, <1>8, <1>9, <1>10, <1>11, <1>12 DEF Places

\* A step keeps the types.
LEMMA StepTyping ==
  ASSUME TypeOK, [Next]_vars
  PROVE  TypeOK'
<1>1. ASSUME NEW t \in Attempt, NEW r \in Request, Handles(t, r) PROVE TypeOK'
  BY <1>1 DEF Handles, TypeOK, breakerVars, history
<1>2. CASE Cools
  BY <1>2 DEF Cools, TypeOK, flowVars, exchange, history
<1>3. CASE Crashes
  <2>1. flow' \in [Attempt -> {"ready", "waiting", "recorded", "failed", "dead"}]
    BY <1>3 DEF Crashes, TypeOK
  <2>2. /\ crashes' \in 0..MaxCrashes /\ breaker' = "closed" /\ failures' = 0 /\ cooled' = FALSE
        /\ UNCHANGED <<request, reply, mail, orders, row, unheard, unsaved>>
    BY <1>3, OrdersAssumption DEF Crashes, TypeOK, exchange, history
  <2>. QED
    BY <2>1, <2>2 DEF TypeOK
<1>4. CASE UNCHANGED vars
  BY <1>4 DEF TypeOK, vars, flowVars, exchange, breakerVars, history
<1>. QED
  BY <1>1, <1>2, <1>3, <1>4, PlacesTyping DEF Next

\* Orders keep their types (TypeOK).
THEOREM Typing == Spec => []TypeOK
<1>. QED
  BY InitTyping, StepTyping, PTL DEF Spec

-------------------------------------------------------------------------------
(***************************************************************************)
(* What became of an attempt's requests.                                    *)
(***************************************************************************)
Known(t) == mail[t] \cup orders[t] \cup unheard[t]

\* An attempt that is ready has posted nothing.
Fresh(t) == flow[t] = "ready" => Known(t) = {} /\ ~row[t].saved

\* Requests are posted in order; one is with the exchange once; and one that is not
\* the last is at the exchange only if it was given up.
Posts(t) ==
  /\ \A r \in Known(t) : UpTo(r, request[t])
  /\ mail[t] \cap orders[t] = {}
  /\ \A r \in mail[t] \cup orders[t] : r = request[t] \/ r \in unheard[t]

\* An answer on its way is true.
Answers(t) ==
  flow[t] = "waiting" =>
    /\ reply[t] \in {"id", "noId", "error"} => request[t] \in orders[t]
    /\ reply[t] \in {"refused", "unsupported"} => request[t] \notin mail[t] \cup orders[t]

\* How an attempt ended says what became of its last request.
Ends(t) ==
  /\ row[t].saved => flow[t] = "recorded"
  /\ flow[t] = "recorded" =>
       row[t].saved /\ row[t].order = request[t] /\ request[t] \in orders[t]
  /\ flow[t] = "failed" =>
       \/ request[t] \in unheard[t]
       \/ t \in unsaved
       \/ request[t] \notin mail[t] \cup orders[t]

Account(t) == Fresh(t) /\ Posts(t) /\ Answers(t) /\ Ends(t)

OrdersInv == TypeOK /\ \A t \in Attempt : Account(t)

\* The invariant is what the run's two properties rest on.
LEMMA InvImplies ==
  ASSUME OrdersInv
  PROVE  DuplicatesWereUnheard /\ OrdersAreAccountedFor
<1>1. DuplicatesWereUnheard
  BY DEF OrdersInv, Account, Posts, DuplicatesWereUnheard
<1>2. OrdersAreAccountedFor
  <2>1. ASSUME NEW t \in Attempt, row[t].saved PROVE row[t].order \in orders[t]
    BY <2>1 DEF OrdersInv, Account, Ends
  <2>2. ASSUME NEW t \in Attempt, NEW r \in orders[t]
        PROVE  \/ row[t].saved /\ row[t].order = r
               \/ r \in unheard[t]
               \/ r = request[t] /\ (flow[t] \in {"waiting", "dead"} \/ t \in unsaved)
    <3>1. flow[t] \in {"ready", "waiting", "recorded", "failed", "dead"}
      BY DEF OrdersInv, TypeOK
    <3>2. r = request[t] \/ r \in unheard[t]
      BY DEF OrdersInv, Account, Posts
    <3>3. flow[t] # "ready"
      BY DEF OrdersInv, Account, Fresh, Known
    <3>. QED
      BY <3>1, <3>2, <3>3 DEF OrdersInv, Account, Ends
  <2>. QED
    BY <2>1, <2>2 DEF OrdersAreAccountedFor
<1>. QED
  BY <1>1, <1>2

\* An attempt whose own part of the state stays keeps its account.
LEMMA Untouched ==
  ASSUME NEW t, Account(t),
         UNCHANGED <<flow[t], request[t], reply[t], mail[t], orders[t], row[t], unheard[t]>>,
         t \in unsaved => t \in unsaved'
  PROVE  Account(t)'
BY DEF Account, Fresh, Posts, Answers, Ends, Known

\* A new request is none of those known, and those come before it.
LEMMA PostKeepsAccount ==
  ASSUME OrdersInv, NEW t \in Attempt, NEW r \in Request,
         flow'[t] = "waiting", UNCHANGED <<row[t], orders[t]>>, ~row[t].saved,
         request'[t] = r, reply'[t] = "none", mail'[t] = mail[t] \cup {r},
         r \notin mail[t] \cup orders[t],
         unheard'[t] \in SUBSET Request,
         \A q \in Known(t) \cup unheard'[t] : UpTo(q, r),
         UpTo(r, r),
         \A q \in mail[t] \cup orders[t] : q \in unheard'[t]
  PROVE  Account(t)'
<1>1. mail[t] \cap orders[t] = {}
  BY DEF OrdersInv, Account, Posts
<1>2. Posts(t)'
  BY <1>1 DEF Posts, Known
<1>3. Fresh(t)' /\ Answers(t)' /\ Ends(t)'
  BY DEF Fresh, Answers, Ends
<1>. QED
  BY <1>2, <1>3 DEF Account

\* An attempt that fails keeps its requests as they were.
LEMMA FailKeepsAccount ==
  ASSUME OrdersInv, NEW t \in Attempt, flow[t] = "waiting", flow'[t] = "failed",
         UNCHANGED <<request[t], mail[t], orders[t], row[t]>>,
         unheard[t] \subseteq unheard'[t], unheard'[t] \subseteq unheard[t] \cup {request[t]},
         UpTo(request[t], request[t]),
         \/ request[t] \in unheard'[t]
         \/ t \in unsaved'
         \/ request[t] \notin mail[t] \cup orders[t]
  PROVE  Account(t)'
<1>1. Posts(t)'
  BY DEF OrdersInv, Account, Posts, Known
<1>2. ~row[t].saved
  BY DEF OrdersInv, Account, Ends
<1>3. Fresh(t)' /\ Answers(t)' /\ Ends(t)'
  BY <1>2 DEF Fresh, Answers, Ends
<1>. QED
  BY <1>1, <1>3 DEF Account

\* A step of an attempt keeps its account.
LEMMA PlacesAccount ==
  ASSUME OrdersInv, NEW t \in Attempt, Places(t)
  PROVE  Account(t)'
<1>. USE OrdersAssumption
<1>0. /\ request[t] \in Request /\ First \in Request
      /\ mail[t] \subseteq Request /\ orders[t] \subseteq Request /\ unheard[t] \subseteq Request
      /\ Account(t)
      /\ \A r \in Request : UpTo(r, r)
  BY FirstRequest DEF OrdersInv, TypeOK, UpTo, Request
<1>1. ASSUME flow[t] = "ready", flow'[t] = "failed",
             UNCHANGED <<request[t], reply[t], mail[t], orders[t], row[t], unheard[t]>>
      PROVE  Account(t)'
  BY <1>0, <1>1 DEF Account, Fresh, Posts, Answers, Ends, Known
<1>2. CASE IsBlocked(t) \/ ParamsFail(t) \/ IsInvalid(t)
  BY <1>1, <1>2 DEF IsBlocked, ParamsFail, IsInvalid, OrdersInv, TypeOK, exchange, history
<1>3. CASE Begins(t)
  <2>1. /\ flow[t] = "ready" /\ flow'[t] = "waiting" /\ UNCHANGED <<row, orders, unheard>>
        /\ request'[t] = First /\ reply'[t] = "none" /\ mail'[t] = mail[t] \cup {First}
    BY <1>3 DEF Begins, Post, OrdersInv, TypeOK, history
  <2>2. Known(t) = {} /\ ~row[t].saved
    BY <1>0, <2>1 DEF Account, Fresh
  <2>. QED
    BY <1>0, <2>1, <2>2, PostKeepsAccount DEF Known
<1>4. ASSUME flow[t] = "waiting"
      PROVE  /\ ~row[t].saved
             /\ \A q \in Known(t) : q \in Request /\ UpTo(q, request[t])
             /\ \A q \in mail[t] \cup orders[t] : q = request[t] \/ q \in unheard[t]
  BY <1>0, <1>4 DEF Account, Ends, Posts, Known
<1>5. CASE GivesUp(t)
  <2>1. /\ flow[t] = "waiting" /\ unheard'[t] = unheard[t] \cup {request[t]}
        /\ UNCHANGED <<row, unsaved>>
    BY <1>5 DEF GivesUp, OrdersInv, TypeOK
  <2>2. CASE HasNext(request[t])
    <3>. DEFINE r == Following(request[t])
    <3>1. /\ request'[t] = r /\ reply'[t] = "none" /\ mail'[t] = mail[t] \cup {r}
          /\ UNCHANGED <<flow, orders>>
      BY <1>5, <2>2 DEF GivesUp, PostNext, Post, OrdersInv, TypeOK
    <3>2. /\ r \in Request /\ UpTo(request[t], r)
          /\ \A q \in Known(t) : UpTo(q, r) /\ q # r
      BY <1>0, <1>4, <2>1, <2>2, FollowingRequest
    <3>. HIDE DEF r
    <3>3. r \notin mail[t] \cup orders[t] /\ \A q \in Known(t) \cup unheard'[t] : UpTo(q, r)
      BY <2>1, <3>2 DEF Known
    <3>4. unheard'[t] \in SUBSET Request /\ \A q \in mail[t] \cup orders[t] : q \in unheard'[t]
      BY <1>0, <1>4, <2>1
    <3>. QED
      BY <1>0, <1>4, <2>1, <3>1, <3>2, <3>3, <3>4, PostKeepsAccount
  <2>3. CASE ~HasNext(request[t])
    <3>1. flow'[t] = "failed" /\ UNCHANGED <<request, mail, orders>>
      BY <1>5, <2>3 DEF GivesUp, Fails, OrdersInv, TypeOK, exchange
    <3>. QED
      BY <1>0, <2>1, <3>1, FailKeepsAccount
  <2>. QED
    BY <2>2, <2>3
<1>6. CASE HearsUnsupported(t)
  <2>1. /\ flow[t] = "waiting" /\ reply[t] = "unsupported" /\ UNCHANGED <<row, unheard, unsaved>>
    BY <1>6 DEF HearsUnsupported, Hears, history
  <2>2. request[t] \notin mail[t] \cup orders[t]
    BY <1>0, <2>1 DEF Account, Answers
  <2>3. CASE request[t][1] < Endpoints
    <3>. DEFINE r == <<request[t][1] + 1, 1>>
    <3>1. /\ request'[t] = r /\ reply'[t] = "none" /\ mail'[t] = mail[t] \cup {r}
          /\ UNCHANGED <<flow, orders>>
      BY <1>6, <2>3 DEF HearsUnsupported, PostNext, Post, OrdersInv, TypeOK
    <3>2. /\ r \in Request
          /\ \A q \in Known(t) : UpTo(q, r) /\ q # r
      BY <1>0, <1>4, <2>1, <2>3, NextEndpointRequest
    <3>. HIDE DEF r
    <3>3. r \notin mail[t] \cup orders[t] /\ \A q \in Known(t) \cup unheard'[t] : UpTo(q, r)
      BY <2>1, <3>2 DEF Known
    <3>4. unheard'[t] \in SUBSET Request /\ \A q \in mail[t] \cup orders[t] : q \in unheard'[t]
      BY <1>0, <1>4, <2>1, <2>2
    <3>. QED
      BY <1>0, <1>4, <2>1, <3>1, <3>2, <3>3, <3>4, PostKeepsAccount
  <2>4. CASE ~(request[t][1] < Endpoints)
    <3>1. flow'[t] = "failed" /\ UNCHANGED <<request, mail, orders>>
      BY <1>6, <2>4 DEF HearsUnsupported, Fails, OrdersInv, TypeOK, exchange
    <3>. QED
      BY <1>0, <2>1, <2>2, <3>1, FailKeepsAccount
  <2>. QED
    BY <2>3, <2>4
<1>7. CASE HearsRefused(t)
  <2>1. /\ flow[t] = "waiting" /\ reply[t] = "refused" /\ UNCHANGED <<row, unheard, unsaved>>
        /\ flow'[t] = "failed" /\ UNCHANGED <<request, mail, orders>>
    BY <1>7 DEF HearsRefused, Hears, Fails, OrdersInv, TypeOK, exchange, history
  <2>2. request[t] \notin mail[t] \cup orders[t]
    BY <1>0, <2>1 DEF Account, Answers
  <2>. QED
    BY <1>0, <2>1, <2>2, FailKeepsAccount
<1>8. CASE HearsNoId(t) \/ HearsError(t)
  <2>1. /\ flow[t] = "waiting" /\ UNCHANGED <<row, unheard>> /\ t \in unsaved'
        /\ flow'[t] = "failed" /\ UNCHANGED <<request, mail, orders>>
    BY <1>8 DEF HearsNoId, HearsError, Hears, Fails, OrdersInv, TypeOK, exchange
  <2>. QED
    BY <1>0, <2>1, FailKeepsAccount
<1>9. CASE HearsId(t)
  <2>1. /\ flow[t] = "waiting" /\ reply[t] = "id"
        /\ UNCHANGED <<request, reply, mail, orders, unheard>>
    BY <1>9 DEF HearsId, Hears, exchange
  <2>2. request[t] \in orders[t]
    BY <1>0, <2>1 DEF Account, Answers
  <2>3. CASE flow'[t] = "recorded" /\ row'[t] = Row(t)
    BY <1>0, <2>1, <2>2, <2>3 DEF Account, Fresh, Posts, Answers, Ends, Known, Row
  <2>4. CASE flow'[t] = "failed" /\ t \in unsaved' /\ UNCHANGED row
    BY <1>0, <2>1, <2>4, FailKeepsAccount
  <2>. QED
    BY <1>9, <2>3, <2>4 DEF HearsId, OrdersInv, TypeOK
<1>. QED
  BY <1>2, <1>3, <1>5, <1>6, <1>7, <1>8, <1>9 DEF Places

\* A step of an attempt leaves the others alone.
LEMMA PlacesOthers ==
  ASSUME OrdersInv, NEW t \in Attempt, Places(t), NEW u \in Attempt, u # t
  PROVE  Account(u)'
<1>1. CASE IsBlocked(t) \/ ParamsFail(t) \/ IsInvalid(t)
  BY <1>1, Untouched DEF IsBlocked, ParamsFail, IsInvalid, OrdersInv, TypeOK, exchange, history
<1>2. CASE Begins(t)
  BY <1>2, Untouched DEF Begins, Post, OrdersInv, TypeOK, history
<1>3. CASE GivesUp(t) \/ HearsUnsupported(t)
  <2>1. UNCHANGED <<flow[u], request[u], reply[u], mail[u], orders[u], row[u], unheard[u], unsaved>>
    BY <1>3 DEF GivesUp, HearsUnsupported, PostNext, Post, Fails, OrdersInv, TypeOK, exchange, history
  <2>. QED
    BY <2>1, Untouched DEF OrdersInv
<1>4. CASE HearsRefused(t) \/ HearsError(t) \/ HearsNoId(t)
  <2>1. /\ UNCHANGED <<flow[u], request[u], reply[u], mail[u], orders[u], row[u], unheard[u]>>
        /\ unsaved \subseteq unsaved'
    BY <1>4 DEF HearsRefused, HearsError, HearsNoId, Fails, OrdersInv, TypeOK, exchange, history
  <2>. QED
    BY <2>1, Untouched DEF OrdersInv
<1>5. CASE HearsId(t)
  <2>1. /\ UNCHANGED <<flow[u], request[u], reply[u], mail[u], orders[u], row[u], unheard[u]>>
        /\ unsaved \subseteq unsaved'
    BY <1>5 DEF HearsId, OrdersInv, TypeOK, exchange
  <2>. QED
    BY <2>1, Untouched DEF OrdersInv
<1>. QED
  BY <1>1, <1>2, <1>3, <1>4, <1>5 DEF Places

\* The exchange handles a request: its answer, if awaited, says what it did.
LEMMA HandlesAccount ==
  ASSUME OrdersInv, NEW t \in Attempt, NEW r \in Request, Handles(t, r), NEW u \in Attempt
  PROVE  Account(u)'
<1>0. /\ UNCHANGED <<flow, request, row, unheard, unsaved>> /\ r \in mail[t]
      /\ mail' = [mail EXCEPT ![t] = @ \ {r}]
      /\ Account(t) /\ Account(u)
  BY DEF Handles, history, OrdersInv
<1>1. PICK answer \in {"id", "noId", "error", "refused", "unsupported"} :
        /\ orders' = IF answer \in {"id", "noId", "error"} THEN [orders EXCEPT ![t] = @ \cup {r}]
                     ELSE orders
        /\ reply' = IF flow[t] = "waiting" /\ request[t] = r
                      THEN [reply EXCEPT ![t] = answer] ELSE reply
  BY DEF Handles
<1>2. CASE u # t
  <2>1. UNCHANGED <<flow[u], request[u], reply[u], mail[u], orders[u], row[u], unheard[u], unsaved>>
    BY <1>0, <1>1, <1>2 DEF OrdersInv, TypeOK
  <2>. QED
    BY <1>0, <2>1, Untouched
<1>3. CASE u = t
  <2>1. /\ mail'[t] = mail[t] \ {r}
        /\ orders'[t] = IF answer \in {"id", "noId", "error"} THEN orders[t] \cup {r} ELSE orders[t]
        /\ reply'[t] = IF flow[t] = "waiting" /\ request[t] = r THEN answer ELSE reply[t]
    BY <1>0, <1>1 DEF OrdersInv, TypeOK
  <2>2. r \notin orders[t] /\ flow[t] # "ready"
    BY <1>0 DEF Account, Posts, Fresh, Known
  <2>3. Posts(t)'
    BY <1>0, <2>1 DEF Account, Posts, Known
  <2>4. Fresh(t)' /\ Ends(t)'
    BY <1>0, <2>1, <2>2 DEF Account, Fresh, Ends
  <2>5. Answers(t)'
    BY <1>0, <2>1, <2>2 DEF Account, Answers
  <2>. QED
    BY <1>3, <2>3, <2>4, <2>5 DEF Account
<1>. QED
  BY <1>2, <1>3

\* Every step keeps every account.
LEMMA StepInv ==
  ASSUME OrdersInv, [Next]_vars
  PROVE  OrdersInv'
<1>1. ASSUME NEW t \in Attempt, Places(t), NEW u \in Attempt PROVE Account(u)'
  <2>1. CASE u = t
    BY <1>1, <2>1, PlacesAccount
  <2>2. CASE u # t
    BY <1>1, <2>2, PlacesOthers
  <2>. QED
    BY <2>1, <2>2
<1>2. ASSUME Crashes, NEW u \in Attempt PROVE Account(u)'
  <2>1. /\ flow'[u] = IF flow[u] = "waiting" THEN "dead" ELSE flow[u]
        /\ UNCHANGED <<request, reply, mail, orders, row, unheard, unsaved>>
    BY <1>2 DEF Crashes, exchange, history
  <2>2. Account(u)
    BY DEF OrdersInv
  <2>. QED
    BY <2>1, <2>2 DEF Account, Fresh, Posts, Answers, Ends, Known
<1>3. ASSUME Cools \/ UNCHANGED vars, NEW u \in Attempt PROVE Account(u)'
  <2>1. UNCHANGED <<flow[u], request[u], reply[u], mail[u], orders[u], row[u], unheard[u], unsaved>>
    BY <1>3 DEF Cools, vars, flowVars, exchange, history
  <2>. QED
    BY <2>1, Untouched DEF OrdersInv
<1>4. TypeOK'
  BY StepTyping DEF OrdersInv
<1>5. \A u \in Attempt : Account(u)'
  BY <1>1, <1>2, <1>3, HandlesAccount DEF Next
<1>. QED
  BY <1>4, <1>5 DEF OrdersInv

\* The accounts hold throughout.
LEMMA Accounts == Spec => []OrdersInv
<1>1. ASSUME Init PROVE OrdersInv
  <2>1. ASSUME NEW t \in Attempt PROVE Account(t)
    BY <1>1 DEF Init, Account, Fresh, Posts, Answers, Ends, Known, NoRow
  <2>. QED
    BY <1>1, <2>1, InitTyping DEF OrdersInv
<1>. QED
  BY <1>1, StepInv, PTL DEF Spec

\* Two orders of one attempt: one of them was given up without an answer.
THEOREM DuplicatesHold == Spec => []DuplicatesWereUnheard
<1>. QED
  BY Accounts, InvImplies, PTL

\* Every order has a row, or was lost in one of the known ways.
THEOREM AccountsHold == Spec => []OrdersAreAccountedFor
<1>. QED
  BY Accounts, InvImplies, PTL

-------------------------------------------------------------------------------
(***************************************************************************)
(* How many orders one decision can leave at the exchange.                  *)
(***************************************************************************)
\* At most as many orders as requests given up, and one.
OrdersAreBounded ==
  \A t \in Attempt : Cardinality(orders[t]) <= Cardinality(unheard[t]) + 1

\* Beside the order of a saved row there are only orders that were given up.
OthersWereGivenUp ==
  \A t \in Attempt : row[t].saved => orders[t] \ {row[t].order} \subseteq unheard[t]

\* A payload goes to an endpoint at most once, so that requests are finitely many.
LEMMA FinitelyMany ==
  /\ IsFiniteSet(Request)
  /\ Cardinality(Request) = Endpoints * Payloads
<1>1. /\ IsFiniteSet(1..Endpoints) /\ Cardinality(1..Endpoints) = Endpoints
      /\ IsFiniteSet(1..Payloads) /\ Cardinality(1..Payloads) = Payloads
  BY OrdersAssumption, FS_Interval
<1>2. /\ IsFiniteSet((1..Endpoints) \X (1..Payloads))
      /\ Cardinality((1..Endpoints) \X (1..Payloads))
           = Cardinality(1..Endpoints) * Cardinality(1..Payloads)
  BY ONLY <1>1, FS_Product, Zenon
<1>. QED
  BY <1>1, <1>2, Zenon DEF Request

\* The orders that were not given up are at most one: the last request's.
LEMMA InvCounts ==
  ASSUME OrdersInv
  PROVE  OrdersAreBounded
<1>. SUFFICES ASSUME NEW t \in Attempt
              PROVE  Cardinality(orders[t]) <= Cardinality(unheard[t]) + 1
  BY DEF OrdersAreBounded
<1>1. orders[t] \in SUBSET Request /\ unheard[t] \in SUBSET Request
  BY DEF OrdersInv, TypeOK
<1>2. IsFiniteSet(unheard[t])
  BY <1>1, FinitelyMany, FS_Subset
<1>3. orders[t] \in SUBSET (unheard[t] \cup {request[t]})
  BY DEF OrdersInv, Account, Posts
<1>4. /\ IsFiniteSet(unheard[t] \cup {request[t]})
      /\ Cardinality(unheard[t] \cup {request[t]}) <= Cardinality(unheard[t]) + 1
      /\ Cardinality(unheard[t]) \in Nat
  <2>1. Cardinality(unheard[t]) \in Nat
    BY <1>2, FS_CardinalityType
  <2>. QED
    BY <1>2, <2>1, FS_AddElement
<1>5. IsFiniteSet(orders[t])
      /\ Cardinality(orders[t]) <= Cardinality(unheard[t] \cup {request[t]})
  BY <1>3, <1>4, FS_Subset
<1>. QED
  BY <1>4, <1>5, FS_CardinalityType

\* A saved row is the last request's, and what is not the last was given up.
LEMMA InvOthers ==
  ASSUME OrdersInv
  PROVE  OthersWereGivenUp
BY DEF OrdersInv, Account, Posts, Ends, OthersWereGivenUp

\* One decision leaves at most one order at the exchange for each request it gave up,
\* and one more, however long the exchange takes over which request.
THEOREM OrdersBounded == Spec => []OrdersAreBounded
<1>. QED
  BY Accounts, InvCounts, PTL

\* Once a row is saved, every other order of its decision, those the exchange makes
\* later included, is one whose answer the agent gave up.
THEOREM OthersGivenUp == Spec => []OthersWereGivenUp
<1>. QED
  BY Accounts, InvOthers, PTL

-------------------------------------------------------------------------------
(***************************************************************************)
(* The breaker.                                                             *)
(***************************************************************************)
\* The end of a call leaves a closed breaker below its threshold.
LEMMA EndTrips ==
  ASSUME TypeOK, BreakerTrips, NEW state, OnSuccess(state) \/ OnFailure(state)
  PROVE  BreakerTrips'
<1>1. failures \in Nat /\ Threshold \in Nat \ {0}
  BY OrdersAssumption DEF TypeOK
<1>2. CASE OnSuccess(state)
  BY <1>1, <1>2 DEF OnSuccess, BreakerTrips
<1>3. CASE OnFailure(state)
  <2>1. failures' = failures + 1 /\ (failures + 1 >= Threshold => breaker' = "open")
    BY <1>3 DEF OnFailure
  <2>. QED
    BY <1>1, <2>1 DEF BreakerTrips
<1>. QED
  BY <1>2, <1>3

\* A closed breaker is below its threshold, however calls overlap.
THEOREM BreakerHolds == Spec => []BreakerTrips
<1>1. Init => BreakerTrips
  BY OrdersAssumption DEF Init, BreakerTrips
<1>2. ASSUME TypeOK, BreakerTrips, [Next]_vars PROVE BreakerTrips'
  <2>. USE <1>2
  <2>1. ASSUME NEW t \in Attempt, Begins(t) PROVE BreakerTrips'
    BY <2>1 DEF Begins, Entered, BreakerTrips
  <2>2. ASSUME NEW t \in Attempt,
               \/ ParamsFail(t) \/ IsInvalid(t)
               \/ HearsRefused(t) \/ HearsError(t) \/ HearsNoId(t) \/ HearsId(t)
        PROVE  BreakerTrips'
    BY <2>2, EndTrips DEF ParamsFail, IsInvalid, HearsRefused, HearsError, HearsNoId, HearsId, Fails
  <2>3. ASSUME NEW t \in Attempt, GivesUp(t) \/ HearsUnsupported(t) PROVE BreakerTrips'
    <3>1. ASSUME NEW r, PostNext(t, r) PROVE BreakerTrips'
      BY <3>1 DEF PostNext, breakerVars, BreakerTrips
    <3>. QED
      BY <2>3, <3>1, EndTrips DEF GivesUp, HearsUnsupported, Fails
  <2>4. CASE Crashes
    BY <2>4, OrdersAssumption DEF Crashes, BreakerTrips
  <2>5. ASSUME \/ \E t \in Attempt : IsBlocked(t) \/ \E r \in Request : Handles(t, r)
               \/ Cools \/ UNCHANGED vars
        PROVE  BreakerTrips'
    BY <2>5 DEF IsBlocked, Handles, Cools, vars, breakerVars, BreakerTrips
  <2>. QED
    BY <2>1, <2>2, <2>3, <2>4, <2>5 DEF Next, Places
<1>. QED
  BY <1>1, <1>2, Typing, PTL DEF Spec
===============================================================================
