---------------------------- MODULE MCSimBroker ----------------------------
(* Values for the constants of SimBroker: a grid of a few price steps, two *)
(* minutes a bar, and minutes that touch either barrier, both, or none.    *)
EXTENDS SimBroker

MCMinutes ==
    {[lo |-> 0, hi |-> 0, close |-> 0],
     [lo |-> 0, hi |-> 3, close |-> 3],
     [lo |-> -2, hi |-> 3, close |-> -2]}

MCOpenOrders ==
    {[side |-> Long, size |-> 2, tp |-> 3, sl |-> 2],
     [side |-> Short, size |-> 0, tp |-> Unset, sl |-> Unset]}

MCStops == {3}
MCFractions == {<<1, 2>>}
=============================================================================
