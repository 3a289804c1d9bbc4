---- MODULE MCReplication ----
(***************************************************************************)
(* Passes are interchangeable, and so are trades.                           *)
(***************************************************************************)
EXTENDS Replication, TLC

Symmetric == Permutations(Trade) \cup Permutations(Pass)
==============================
