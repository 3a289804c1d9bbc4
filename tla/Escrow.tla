-------------------------------- MODULE Escrow --------------------------------
(***************************************************************************)
(* What the trading desk promises about capital, with no engines, awaits,  *)
(* tickets or crashes in sight: a reservation takes its amount out of the  *)
(* available capital, and it is paid back at most once, never more than    *)
(* the amount reserved plus the profit or loss of the trade, which is also *)
(* the only thing that moves the total.  A reservation may be kept for     *)
(* ever: the desk promises nothing about capital coming back.              *)
(***************************************************************************)
EXTENDS Integers

CONSTANTS Trade, StartingCapital, Pnls

VARIABLES total, available, hold, held

escrowVars == <<total, available, hold, held>>

Init ==
  /\ total = StartingCapital
  /\ available = StartingCapital
  /\ hold = [t \in Trade |-> "none"]
  /\ held = [t \in Trade |-> 0]

Take(t, amount) ==
  /\ hold[t] = "none"
  /\ available' = available - amount
  /\ hold' = [hold EXCEPT ![t] = "held"]
  /\ held' = [held EXCEPT ![t] = amount]
  /\ UNCHANGED total

PayBack(t, amount, pnl) ==
  /\ hold[t] = "held"
  /\ total' = total + pnl
  /\ available' = available + amount + pnl
  /\ hold' = [hold EXCEPT ![t] = "released"]
  /\ UNCHANGED held

Next ==
  \E t \in Trade :
    \/ \E amount \in 0..available : Take(t, amount)
    \/ \E amount \in 0..held[t], pnl \in Pnls \cup {0} : PayBack(t, amount, pnl)

Spec == Init /\ [][Next]_escrowVars
===============================================================================
