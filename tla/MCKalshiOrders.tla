---------------------------- MODULE MCKalshiOrders -----------------------------
(***************************************************************************)
(* Attempts are interchangeable.                                            *)
(***************************************************************************)
EXTENDS KalshiOrders, TLC

Symmetric == Permutations(Attempt)
===============================================================================
