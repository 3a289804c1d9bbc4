----------------------------- MODULE MCFuturesBook -----------------------------
(***************************************************************************)
(* Lines of cycles: the agent's, and requests of the server, which may      *)
(* overlap each other and the agent's.                                      *)
(***************************************************************************)
EXTENDS FuturesBook

MCHome == [r \in Runner |-> IF r = "agent" THEN "agent" ELSE "server"]

\* One profile with two pairs.
MCScan == <<[profile |-> "short", pair |-> "BTC"], [profile |-> "short", pair |-> "ETH"]>>

MCPnls == {-1, 0}
===============================================================================
