---------------------------- MODULE InventoryBook ----------------------------
(***************************************************************************)
(* What SimBroker (wagie/io/brokers.py) promises about orders, without     *)
(* prices, sizes or time: an order is pending, then open, then closed, or  *)
(* is withdrawn while pending; there are never more than Cap of them       *)
(* pending or open; orders fill first come, first served; a position has   *)
(* one exit, for one reason, and only a take-profit takes other positions  *)
(* with it.  SimBroker implements this module; Engine is built on it.      *)
(***************************************************************************)
EXTENDS Integers, FiniteSets

CONSTANTS
    Ids,        \* the position ids that may be handed out, in this order
    Cap,        \* inventory_cap
    None        \* no exit yet

Reasons == {"manual", "tp", "sl", "safety_cap", "batched_winner"}

VARIABLES
    state,      \* id -> where in its life the order is
    exits,      \* id -> the reason of its exit
    sweeping    \* a take-profit is taking winners with it

bookVars == <<state, exits, sweeping>>

InState(s) == {i \in Ids : state[i] = s}
Live == InState("pending") \cup InState("open")

BookTypeOK ==
    /\ state \in [Ids -> {"unborn", "pending", "open", "closed", "withdrawn"}]
    /\ exits \in [Ids -> Reasons \cup {None}]
    /\ sweeping \in BOOLEAN

BookInit ==
    /\ state = [i \in Ids |-> "unborn"]
    /\ exits = [i \in Ids |-> None]
    /\ sweeping = FALSE

Submit(id) ==
    /\ state[id] = "unborn" /\ \A j \in InState("unborn") : id <= j
    /\ Cardinality(Live) < Cap
    /\ ~sweeping
    /\ state' = [state EXCEPT ![id] = "pending"]
    /\ UNCHANGED <<exits, sweeping>>

Withdraw(id) ==
    /\ state[id] = "pending"
    /\ ~sweeping
    /\ state' = [state EXCEPT ![id] = "withdrawn"]
    /\ UNCHANGED <<exits, sweeping>>

Fill(id) ==
    /\ state[id] = "pending" /\ \A j \in InState("pending") : id <= j
    /\ ~sweeping
    /\ state' = [state EXCEPT ![id] = "open"]
    /\ UNCHANGED <<exits, sweeping>>

Leave(id, reason) ==
    /\ state[id] = "open"
    /\ state' = [state EXCEPT ![id] = "closed"]
    /\ exits' = [exits EXCEPT ![id] = reason]

(* by hand, at a stop, or at the age cap: alone *)
ExitAlone(id, reason) ==
    /\ reason \in {"manual", "sl", "safety_cap"}
    /\ ~sweeping
    /\ Leave(id, reason)
    /\ UNCHANGED sweeping

ExitAtProfit(id) ==
    /\ ~sweeping
    /\ Leave(id, "tp")
    /\ sweeping' = TRUE

ExitSwept(id) ==
    /\ sweeping
    /\ Leave(id, "batched_winner")
    /\ UNCHANGED sweeping

EndSweep ==
    /\ sweeping
    /\ sweeping' = FALSE
    /\ UNCHANGED <<state, exits>>

BookNext ==
    \/ \E id \in Ids : \/ Submit(id) \/ Withdraw(id) \/ Fill(id)
                       \/ \E r \in Reasons : ExitAlone(id, r)
                       \/ ExitAtProfit(id) \/ ExitSwept(id)
    \/ EndSweep

BookSpec == BookInit /\ [][BookNext]_bookVars
=============================================================================
