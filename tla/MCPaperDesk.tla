---- MODULE MCPaperDesk ----
(***************************************************************************)
(* Small desks for TLC.  With 40 units of capital and a cap of 5%, a       *)
(* proposal of 1 unit is below the minimum, one of 2 is accepted and one   *)
(* of 3 is above the cap; one losing trade is a drawdown that pauses.      *)
(***************************************************************************)
EXTENDS PaperDesk

GainOrLoss == {-2, 2}
=============================================================================
