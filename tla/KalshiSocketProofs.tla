--------------------------- MODULE KalshiSocketProofs --------------------------
(***************************************************************************)
(* The connection for fills, for any number of orders and any limit of the  *)
(* ids remembered.                                                          *)
(***************************************************************************)
EXTENDS KalshiSocket, TLAPS

-------------------------------------------------------------------------------
\* The connection keeps its types (TypeOK).
THEOREM Typing == Spec => []TypeOK
<1>1. Init => TypeOK
  <2>1. ASSUME Init PROVE TypeOK
    <3>1. alive \in BOOLEAN /\ reconnect \in BOOLEAN /\ ping \in BOOLEAN /\ deadline \in BOOLEAN
      BY <2>1, Zenon DEF Init
    <3>2. /\ socket \in {"none", "connecting"} /\ seen \subseteq Order /\ filled \subseteq Order
          /\ reports \in [Order -> Nat] /\ forgets \in 0..MaxForgets
      BY <2>1, SocketAssumption DEF Init
    <3>. QED
      BY <3>1, <3>2 DEF TypeOK
  <2>. QED
    BY <2>1
<1>2. ASSUME TypeOK, [Next]_vars PROVE TypeOK'
  <2>. USE <1>2
  <2>1. socket' \in {"none", "connecting", "open", "closing"}
    BY DEF TypeOK, Next, Connects, OnOpen, Vanishes, OnClose, Pings, OnPong, PingTimeout, Fills, OnMessage, Restarts, vars, line
  <2>2. alive' \in BOOLEAN /\ reconnect' \in BOOLEAN /\ ping' \in BOOLEAN /\ deadline' \in BOOLEAN
    BY Zenon DEF TypeOK, Next, Connects, OnOpen, Vanishes, OnClose, Pings, OnPong, PingTimeout, Fills, OnMessage, Restarts, vars, line
  <2>3. /\ seen' \subseteq Order /\ filled' \subseteq Order
        /\ reports' \in [Order -> Nat] /\ forgets' \in 0..MaxForgets
    <3>. DEFINE Typed == /\ seen' \subseteq Order /\ filled' \subseteq Order
                        /\ reports' \in [Order -> Nat] /\ forgets' \in 0..MaxForgets
    <3>1. ASSUME NEW o \in Order, OnMessage(o) PROVE Typed
      BY <3>1, SocketAssumption DEF OnMessage, Remember, TypeOK
    <3>2. ASSUME NEW o \in Order, Fills(o) PROVE Typed
      BY <3>2 DEF Fills, TypeOK
    <3>3. CASE Restarts
      BY <3>3, SocketAssumption DEF Restarts, TypeOK
    <3>4. ASSUME UNCHANGED fills PROVE Typed
      BY <3>4 DEF fills, TypeOK
    <3>. HIDE DEF Typed
    <3>. QED
      BY <3>1, <3>2, <3>3, <3>4 DEF Next, Connects, OnOpen, Vanishes, OnClose, Pings, OnPong, PingTimeout, vars, fills, Typed
  <2>. QED
    BY <2>1, <2>2, <2>3 DEF TypeOK
<1>. QED
  BY <1>1, <1>2, PTL DEF Spec

-------------------------------------------------------------------------------
\* One way on, and an open socket watched: OneLine holds throughout.
THEOREM OneLineHolds == Spec => []OneLine
<1>1. Init => OneLine
  BY DEF Init, OneLine
<1>2. ASSUME OneLine, [Next]_vars PROVE OneLine'
  <2>. USE <1>2 DEF OneLine
  <2>1. CASE Connects
    BY <2>1 DEF Connects
  <2>2. CASE OnOpen
    BY <2>2 DEF OnOpen
  <2>3. CASE OnClose
    BY <2>3 DEF OnClose
  <2>4. CASE PingTimeout
    BY <2>4 DEF PingTimeout
  <2>5. CASE Restarts
    BY <2>5 DEF Restarts
  <2>6. ASSUME \/ Vanishes \/ Pings \/ OnPong
               \/ \E o \in Order : Fills(o) \/ OnMessage(o)
               \/ UNCHANGED vars
        PROVE  OneLine'
    <3>1. UNCHANGED <<socket, reconnect, ping>>
      BY <2>6 DEF Vanishes, Pings, OnPong, Fills, OnMessage, vars, line
    <3>. QED
      BY <3>1
  <2>. QED
    BY <2>1, <2>2, <2>3, <2>4, <2>5, <2>6 DEF Next
<1>. QED
  BY <1>1, <1>2, PTL DEF Spec

-------------------------------------------------------------------------------
(***************************************************************************)
(* Reports.                                                                 *)
(***************************************************************************)
Counts == seen \subseteq Order /\ reports \in [Order -> Nat] /\ forgets \in Nat

\* An order that is not remembered was reported at most once before each forgetting.
ReportsInv ==
  /\ Counts
  /\ \A o \in Order : reports[o] <= forgets + 1 /\ (o \notin seen => reports[o] <= forgets)

\* A fill that comes again is reported once for each time its order was forgotten.
THEOREM ReportsHold == Spec => []ReportedOncePerMemory
<1>1. Init => ReportsInv
  BY DEF Init, ReportsInv, Counts
<1>2. ASSUME ReportsInv, [Next]_vars PROVE ReportsInv'
  <2>. USE <1>2 DEF ReportsInv, Counts
  <2>1. ASSUME NEW o \in Order, OnMessage(o) PROVE ReportsInv'
    <3>1. o \notin seen /\ reports' = [reports EXCEPT ![o] = @ + 1]
      BY <2>1 DEF OnMessage
    <3>2. \/ seen' = {o} /\ forgets' = forgets + 1
          \/ seen' = seen \cup {o} /\ forgets' = forgets
      BY <2>1 DEF OnMessage, Remember
    <3>. QED
      BY <3>1, <3>2
  <2>2. CASE Restarts
    BY <2>2 DEF Restarts
  <2>3. ASSUME \/ Connects \/ OnOpen \/ Vanishes \/ OnClose
               \/ Pings \/ OnPong \/ PingTimeout
               \/ \E o \in Order : Fills(o)
               \/ UNCHANGED vars
        PROVE  ReportsInv'
    <3>1. UNCHANGED <<seen, reports, forgets>>
      BY <2>3 DEF Connects, OnOpen, Vanishes, OnClose, Pings, OnPong, PingTimeout, Fills, vars, fills
    <3>. QED
      BY <3>1
  <2>. QED
    BY <2>1, <2>2, <2>3 DEF Next
<1>3. ReportsInv => ReportedOncePerMemory
  BY DEF ReportsInv, ReportedOncePerMemory
<1>. QED
  BY <1>1, <1>2, <1>3, PTL DEF Spec
===============================================================================
