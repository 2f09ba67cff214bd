------------------------------ MODULE MCEngine ------------------------------
(* Values for the constants of Engine: the chain of RiskEngine.default     *)
(* with an order rate, of which the operator takes out and puts back the   *)
(* kill switch and the loss cap; a bar a minute, so that the 60 seconds of *)
(* the order rate hold two bars.                                           *)
EXTENDS Engine

MCPolicies ==
    <<"max_positions", "max_drawdown", "max_order_rate", "max_loss", "kill_switch">>
MCSwappable == {"kill_switch", "max_loss"}
MCIds == 1..3
=============================================================================
