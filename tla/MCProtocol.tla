----------------------------- MODULE MCProtocol -----------------------------
(* Values for the constants of Scores and Protocol: the returns of a fold, *)
(* none, steady, mixed, of odd length; and trades of a gain or a loss that *)
(* overlap, touch, take no minute or outlast the run.                      *)
EXTENDS Protocol

MCReturns == {<<>>, <<1, 1>>, <<1, -1, 1, 2>>, <<-1, 2, -2, 1>>, <<2, 1, 2, 1, -1>>}
T(pnl, open, close) == [pnl |-> pnl, open |-> open, close |-> close]
MCTrades == {T(1, 0, 2), T(-1, 0, 3), T(-2, 1, 2), T(2, 2, 2), T(1, 2, 5), T(-1, 3, 4)}
=============================================================================
