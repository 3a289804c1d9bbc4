----------------------------- MODULE KalshiSocket ------------------------------
(***************************************************************************)
(* kalshi/ws.mjs: the server's one connection to the exchange, for fills.   *)
(* It reconnects after a close, and a ping that stays unanswered for five   *)
(* seconds ends a connection whose other side is gone.  The delay before a  *)
(* reconnection, which doubles up to a minute, is a timer without a length. *)
(*                                                                          *)
(* A fill is reported (adapter.mjs: broadcast, and processFill) once for    *)
(* each order id; the exchange is external, and may send a fill again.      *)
(* processFill looks for an open trade with that order id, which no trade   *)
(* of executeTrade has (KalshiOrders!OrderIdLinked), and changes nothing.   *)
(* stop() has no caller in the server, and is not here.                     *)
(***************************************************************************)
EXTENDS Integers, FiniteSets

CONSTANTS
  Order,       \* orders at the exchange
  DedupLimit,  \* FILL_DEDUP_LIMIT
  MaxForgets   \* bound on the times the ids seen are forgotten, in all

ASSUME SocketAssumption ==
  /\ IsFiniteSet(Order)
  /\ DedupLimit \in Nat \ {0}
  /\ MaxForgets \in Nat

VARIABLES
  socket,      \* readyState of #ws; "none" when it has been closed, or never was made
  alive,       \* the exchange is still at the other end
  reconnect,   \* #reconnectTimer is set
  ping,        \* #pingInterval is set
  deadline,    \* #pingDeadline is set
  seen,        \* #seenFills
  filled,      \* external: the orders that have been filled, in part or whole
  reports,     \* history: how often a fill of an order was reported
  forgets      \* history: how often the ids seen were forgotten

line == <<socket, alive, reconnect, ping, deadline>>
fills == <<seen, filled, reports, forgets>>
vars == <<line, fills>>

TypeOK ==
  /\ socket \in {"none", "connecting", "open", "closing"}
  /\ alive \in BOOLEAN /\ reconnect \in BOOLEAN
  /\ ping \in BOOLEAN /\ deadline \in BOOLEAN
  /\ seen \subseteq Order /\ filled \subseteq Order
  /\ reports \in [Order -> Nat]
  /\ forgets \in 0..MaxForgets

\* startWS has called connect for the first time; its constructor may have thrown.
Init ==
  /\ \/ socket = "connecting" /\ reconnect = FALSE
     \/ socket = "none" /\ reconnect = TRUE
  /\ alive = TRUE /\ ping = FALSE /\ deadline = FALSE
  /\ seen = {} /\ filled = {}
  /\ reports = [o \in Order |-> 0] /\ forgets = 0

-------------------------------------------------------------------------------
(***************************************************************************)
(* The connection.                                                          *)
(***************************************************************************)
\* The reconnect timer fires: connect.  The constructor may throw, and then the
\* timer is set again.
Connects ==
  /\ reconnect
  /\ \/ socket' = "connecting" /\ alive' = TRUE /\ reconnect' = FALSE
     \/ UNCHANGED <<socket, alive, reconnect>>
  /\ UNCHANGED <<ping, deadline, fills>>

\* The attempt succeeds.  It may also never end: no time limit is set for it.
OnOpen ==
  /\ socket = "connecting" /\ alive
  /\ socket' = "open"
  /\ reconnect' = FALSE /\ deadline' = FALSE /\ ping' = TRUE
  /\ UNCHANGED <<alive, fills>>

\* The other side goes away.  When nothing tells the socket, only a ping can find out.
Vanishes ==
  /\ socket = "open" /\ alive
  /\ alive' = FALSE
  /\ UNCHANGED <<socket, reconnect, ping, deadline, fills>>

\* Mutant: a connection that failed to open is not tried again.
OnCloseOnceOpen ==
  /\ socket # "none"
  /\ socket' = "none"
  /\ reconnect' = (socket # "connecting") /\ ping' = FALSE /\ deadline' = FALSE
  /\ UNCHANGED <<alive, fills>>

\* The socket is closed, by the exchange, by an error, or after terminate.
OnClose ==
  /\ socket # "none"
  /\ socket' = "none"
  /\ reconnect' = TRUE /\ ping' = FALSE /\ deadline' = FALSE
  /\ UNCHANGED <<alive, fills>>

\* Every thirty seconds; the deadline of the ping before has passed by then.
Pings ==
  /\ ping /\ socket = "open" /\ ~deadline
  /\ deadline' = TRUE
  /\ UNCHANGED <<socket, alive, reconnect, ping, fills>>

OnPong ==
  /\ socket = "open" /\ alive /\ deadline
  /\ deadline' = FALSE
  /\ UNCHANGED <<socket, alive, reconnect, ping, fills>>

\* Mutant: a ping that is not answered is only logged.
PingTimeoutIgnored ==
  /\ deadline
  /\ deadline' = FALSE
  /\ UNCHANGED <<socket, alive, reconnect, ping, fills>>

\* No answer within five seconds: terminate, and a close is to follow.
PingTimeout ==
  /\ deadline
  /\ deadline' = FALSE
  /\ socket' = IF socket = "open" THEN "closing" ELSE socket
  /\ UNCHANGED <<alive, reconnect, ping, fills>>

-------------------------------------------------------------------------------
(***************************************************************************)
(* Fills.                                                                   *)
(***************************************************************************)
Fills(o) ==
  /\ o \notin filled
  /\ filled' = filled \cup {o}
  /\ UNCHANGED <<line, seen, reports, forgets>>

\* Mutant: the ids are emptied one too early, and counted past the bound.
RememberLate(o) ==
  /\ seen' = {o}
  /\ forgets' = IF seen = {} THEN forgets ELSE forgets + 1

\* A full Set is emptied before the id is added.
Remember(o) ==
  IF Cardinality(seen) >= DedupLimit
    THEN forgets < MaxForgets /\ seen' = {o} /\ forgets' = forgets + 1
    ELSE seen' = seen \cup {o} /\ UNCHANGED forgets

\* Mutant: a fill is known by its own id, and the orders remembered not asked.
OnMessageAgain(o) ==
  /\ socket = "open" /\ alive /\ o \in filled
  /\ Remember(o)
  /\ reports' = [reports EXCEPT ![o] = @ + 1]
  /\ UNCHANGED <<line, filled>>

\* A message with a fill of o, the first or another one, new or sent again.  What
\* the exchange reports while there is no connection may never come: the client
\* subscribes again, and asks for nothing it has missed.
OnMessage(o) ==
  /\ socket = "open" /\ alive /\ o \in filled
  /\ o \notin seen
  /\ Remember(o)
  /\ reports' = [reports EXCEPT ![o] = @ + 1]
  /\ UNCHANGED <<line, filled>>

\* The server restarts; a pending socket or timer is gone, and so are the ids.
\* (The last forgetting of the bound is left to a full Set: the bound would
\* otherwise keep the second order of a run from being remembered.)
Restarts ==
  /\ forgets + 1 < MaxForgets /\ forgets' = forgets + 1
  /\ seen' = {}
  /\ \/ socket' = "connecting" /\ reconnect' = FALSE
     \/ socket' = "none" /\ reconnect' = TRUE
  /\ alive' = TRUE /\ ping' = FALSE /\ deadline' = FALSE
  /\ UNCHANGED <<filled, reports>>

-------------------------------------------------------------------------------
Next ==
  \/ Connects \/ OnOpen \/ Vanishes \/ OnClose
  \/ Pings \/ OnPong \/ PingTimeout
  \/ \E o \in Order : Fills(o) \/ OnMessage(o)
  \/ Restarts

Spec == Init /\ [][Next]_vars

\* The client's own timers fire, a terminated socket is closed, and the constructor,
\* which throws for a malformed address or header only, does not throw for ever.
\* Nothing is asked of the exchange or the network: an attempt to connect may stay
\* one, and a fill may never be sent.
Fairness ==
  /\ WF_vars(Pings) /\ WF_vars(PingTimeout)
  /\ WF_vars(socket = "closing" /\ OnClose)
  /\ WF_vars(socket' = "connecting" /\ Connects)

FairSpec == Spec /\ Fairness

-------------------------------------------------------------------------------
(***************************************************************************)
(* Properties                                                               *)
(***************************************************************************)
\* There is always exactly one way on: a socket that will open or close, or the
\* timer of a reconnection.  Two would be two connections that report each fill,
\* none a desk that hears of no fill again.  And an open socket is watched.
OneLine ==
  /\ (socket = "none") = reconnect
  /\ (socket = "open" => ping)

\* A fill that is sent again, on this connection or the next, is not reported again
\* while its order is remembered ("deduplicated by orderId to handle reconnect replay").
ReportedOncePerMemory == \A o \in Order : reports[o] <= forgets + 1

\* A connection that was closed, or whose other side is gone without a word, is
\* followed by an attempt at a new one ("periodic ping with pong deadline to detect
\* zombie sockets"): no socket that looks open keeps the desk from its fills for good.
DeadLineIsReplaced ==
  (socket \in {"none", "closing"} \/ (socket = "open" /\ ~alive)) ~> socket = "connecting"
===============================================================================
