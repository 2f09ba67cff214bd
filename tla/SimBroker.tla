------------------------------ MODULE SimBroker ------------------------------
(***************************************************************************)
(* The triple-barrier broker: wagie/io/brokers.py (SimBroker) with the     *)
(* immutable Position and Portfolio values it replaces as it goes          *)
(* (wagie/core/position.py, wagie/core/portfolio.py).                      *)
(*                                                                         *)
(* dispatch() is one action per kind of Action.  advance_to(bar) is a loop *)
(* over pending opens, pending scale-ins and positions; each iteration is  *)
(* one action, sequenced by `phase', because the portfolio it has replaced *)
(* so far is what portfolio() hands out to the console's thread.           *)
(*                                                                         *)
(* Prices are log-prices on an integer grid, sizes are integer units of    *)
(* which FullSize make the size 1.0, and a PnL is grid steps times units.  *)
(* Time is in half minutes, so that a minute can close before, or exactly  *)
(* when, the next one opens (CloseLag).  There is one instrument: every    *)
(* source of the package streams a single one.                             *)
(*                                                                         *)
(* A definition named Bug_... is the definition after it with a mistake a  *)
(* maintainer could make; nothing uses it but the checks that a property   *)
(* notices the mistake.                                                    *)
(***************************************************************************)
EXTENDS Integers, Sequences, FiniteSets, FiniteSetsExt

CONSTANTS
    M,              \* m_minutes: minutes in a decision bar
    L,              \* execution_latency_minutes
    InventoryCap,   \* inventory_cap
    StopLossLog,    \* stop_loss_log, NoStop for None
    TieBreak,       \* tie_break
    CostBase,       \* fee and half spread per side, in grid steps
    CostSlip,       \* slippage per unit of size, in grid steps
    DefaultTp,      \* the 41 bps an OPEN without take_profit gets
    FullSize,       \* units in the size 1.0
    MaxHoldBars,    \* MAX_HOLD_BARS
    CloseLag,       \* half minutes from a minute's open to its close_time
    NoStop,         \* an infinite stop-loss
    Unset,          \* None, in an Action's optional field
    Minutes,        \* the minute bars a source may deliver
    OpenOrders,     \* the OPEN actions strategies may emit
    Stops,          \* the distances a MODIFY_STOP may ask for
    Fractions,      \* <<numerator, denominator>> of SCALE_IN and SCALE_OUT
    MaxBars,        \* bound: bars in the stream
    ActionBars,     \* bound: no action is dispatched after so many bars
    MaxPositions,   \* bound: position ids handed out
    MaxScaleIns     \* bound: scale-ins pending at once

Long == 1
Short == -1
MANUAL == "manual"
TP == "tp"
SL == "sl"
SAFETY_CAP == "safety_cap"
BATCHED_WINNER == "batched_winner"

ASSUME ConstantsAssumption ==
    /\ M \in Nat \ {0} /\ L \in Nat /\ InventoryCap \in Nat
    /\ CostBase \in Nat /\ CostSlip \in Nat /\ DefaultTp \in Int
    /\ FullSize \in Nat \ {0} /\ MaxHoldBars \in Nat /\ CloseLag \in {1, 2}
    /\ MaxBars \in Nat /\ ActionBars \in Nat
    /\ MaxPositions \in Nat /\ MaxScaleIns \in Nat
    /\ NoStop \notin Int /\ Unset \notin Int
    /\ StopLossLog \in Int \cup {NoStop}
    /\ TieBreak \in {"pessimistic_sl_first", "optimistic_tp_first",
                     "probabilistic_hl_bridge"}
    /\ Minutes \subseteq [lo : Int, hi : Int, close : Int]
    /\ OpenOrders \subseteq [side : {Long, Short}, size : Nat,
                             tp : Int \cup {Unset},
                             sl : Int \cup {NoStop, Unset}]
    /\ Stops \subseteq Int
    /\ Fractions \subseteq {f \in Nat \X (Nat \ {0}) : f[1] <= f[2]}

VARIABLES
    nextId,          \* _next_position_id
    pendingOpens,    \* _pending_opens: id -> the OPEN; FIFO order is id order
    pendingScaleIns, \* _pending_scale_ins
    positions,       \* _portfolio.positions: id -> Position, closed ones too
    realized,        \* _portfolio.realized_pnl_log
    hwm,             \* _portfolio.high_water_mark_log
    history,         \* _closed_history, the fills the metrics read
    newFills,        \* what the last advance_to returned, as position ids
    barNo,           \* bars advance_to was given so far
    bar,             \* bar.underlying with the tie-break draw of each minute
    phase,           \* which loop of advance_to is running
    todo,            \* ids that loop has still to visit
    left,            \* pending scale-ins it has still to visit
    sweep            \* the sweep a take-profit started

vars == <<nextId, pendingOpens, pendingScaleIns, positions, realized, hwm,
          history, newFills, barNo, bar, phase, todo, left, sweep>>

book == <<positions, realized, hwm, history>>
orders == <<nextId, pendingOpens, pendingScaleIns>>
loop == <<newFills, barNo, bar, phase, todo, left, sweep>>

-----------------------------------------------------------------------------
(* Position and Portfolio                                                  *)

(* _CostSpec.cost_log_per_side *)
CostPerSide(size) == CostBase + CostSlip * size

(* log-return of a position per unit, at a price *)
Move(p, price) == p.side * (price - p.entry)

(* Position.open_at *)
OpenAt(o, price, ts) ==
    [side |-> o.side,
     openSize |-> IF o.size = 0 THEN FullSize ELSE o.size,
     curSize |-> IF o.size = 0 THEN FullSize ELSE o.size,
     entry |-> price, openTs |-> ts,
     tp |-> IF o.tp \in {Unset, 0} THEN DefaultTp ELSE o.tp,
     sl |-> IF o.sl = Unset THEN StopLossLog ELSE o.sl,
     mark |-> price, realized |-> 0, unrealized |-> 0,
     closed |-> FALSE, reason |-> Unset]

Bug_MarkIgnoresClosed(p, price) ==
    [p EXCEPT !.mark = price, !.unrealized = Move(p, price) * p.curSize]

(* Position.with_mark *)
Marked(p, price) ==
    IF p.closed \/ p.curSize <= 0 THEN p
    ELSE [p EXCEPT !.mark = price, !.unrealized = Move(p, price) * p.curSize]

Bug_CloseRemovesOpenSize(p, price, reason, cost) ==
    [p EXCEPT !.realized = @ + (Move(p, price) - 2 * cost) * p.curSize,
              !.curSize = @ - p.openSize, !.unrealized = 0, !.mark = price,
              !.closed = TRUE, !.reason = reason]

(* Position.with_close *)
Closed(p, price, reason, cost) ==
    [p EXCEPT !.realized = @ + (Move(p, price) - 2 * cost) * p.curSize,
              !.curSize = 0, !.unrealized = 0, !.mark = price,
              !.closed = TRUE, !.reason = reason]

(* Position.with_scale_out: the unrealized PnL waits for the next mark *)
ScaledOut(p, removed) ==
    LET rest == p.curSize - removed
        gain == (Move(p, p.mark) - 2 * CostPerSide(removed)) * removed
        q == [p EXCEPT !.realized = @ + gain, !.curSize = rest] IN
    IF rest = 0
    THEN [q EXCEPT !.unrealized = 0, !.closed = TRUE, !.reason = MANUAL]
    ELSE q

OpenIds == {i \in DOMAIN positions : ~positions[i].closed}

Bug_RealizeWhole(old, new) == realized + new.realized

(* Portfolio.with_realized, of what a transition of a position realized *)
Realize(old, new) == realized + (new.realized - old.realized)

(* Portfolio.with_position *)
WithPosition(id, p) ==
    [i \in DOMAIN positions \cup {id} |-> IF i = id THEN p ELSE positions[i]]

UnrealizedOf(ps) ==
    MapThenSumSet(LAMBDA i : ps[i].unrealized, {i \in DOMAIN ps : ~ps[i].closed})

(* Portfolio.equity_log *)
Equity == realized + UnrealizedOf(positions)

Bug_CountOpenOnly == Cardinality(OpenIds)

(* SimBroker.open_orders *)
OpenOrderCount ==
    Cardinality(OpenIds) + Cardinality(DOMAIN pendingOpens) + Len(pendingScaleIns)

-----------------------------------------------------------------------------
(* Time and prices within the current bar.  Minutes are numbered from 1.   *)

BarOpen == 2 * M * (barNo - 1)
BarClose == 2 * M * barNo
CloseTime(j) == BarOpen + 2 * (j - 1) + CloseLag

(* minutes[max(0, L - 1)] *)
FillMinute == IF L = 0 THEN 1 ELSE L

SlHit(p, m) ==
    /\ p.sl # NoStop
    /\ IF p.side = Long THEN m.lo <= p.entry - p.sl ELSE m.hi >= p.entry + p.sl
TpHit(p, m) ==
    IF p.side = Long THEN m.hi >= p.entry + p.tp ELSE m.lo <= p.entry - p.tp

Bug_ScanFromEntryMinute(p) == 1
Bug_ScanAlwaysDelayed(p) == L + 1

(* scan_start: a position opened in this bar skips the first L minutes *)
ScanStart(p) == IF p.openTs >= BarOpen THEN L + 1 ELSE 1
TouchMinutes(p) ==
    {j \in 1..M : j >= ScanStart(p) /\ (SlHit(p, bar[j]) \/ TpHit(p, bar[j]))}

BarsHeld(p) == (BarClose - p.openTs) \div (2 * M)

(* _resolve_tie_break: the draw depends on the minute alone *)
TieOutcomes ==
    CASE TieBreak = "pessimistic_sl_first" -> {SL}
      [] TieBreak = "optimistic_tp_first" -> {TP}
      [] TieBreak = "probabilistic_hl_bridge" -> {SL, TP}
TouchReason(p, m) ==
    IF SlHit(p, m) /\ TpHit(p, m) THEN m.tie
    ELSE IF SlHit(p, m) THEN SL ELSE TP
BarrierPrice(p, reason) ==
    IF reason = TP THEN p.entry + p.side * p.tp ELSE p.entry - p.side * p.sl

Bug_NetWithoutCost(p, price) == Move(p, price) * p.curSize

(* _sweep_winners: net of the round trip, with a tenth of a side to spare *)
NetAt(p, price) == (Move(p, price) - 2 * CostPerSide(p.curSize)) * p.curSize
Winners(price) ==
    {i \in OpenIds :
        10 * NetAt(positions[i], price)
            > CostPerSide(positions[i].curSize) * positions[i].curSize}

-----------------------------------------------------------------------------
Bug_SweepAfterAnyBarrier(reason) == reason \in {TP, SL}

(* only a take-profit sweeps; a stop-loss stays alone *)
Sweeps(reason) == reason = TP

NoSweep == [price |-> 0, minute |-> 0, count |-> 0]

Init ==
    /\ nextId = 1 /\ pendingOpens = << >> /\ pendingScaleIns = << >>
    /\ positions = << >> /\ realized = 0 /\ hwm = 0
    /\ history = << >> /\ newFills = << >>
    /\ barNo = 0 /\ bar = << >> /\ phase = "idle"
    /\ todo = {} /\ left = 0 /\ sweep = NoSweep

(* _dispatch_open *)
DispatchOpen(o) ==
    /\ phase = "idle"
    /\ nextId <= MaxPositions
    /\ OpenOrderCount < InventoryCap
    /\ nextId' = nextId + 1
    /\ pendingOpens' = [i \in DOMAIN pendingOpens \cup {nextId} |->
                            IF i = nextId THEN o ELSE pendingOpens[i]]
    /\ UNCHANGED <<pendingScaleIns, book, loop>>

(* _dispatch_scale_in: any known position, closed or not, and no cap *)
DispatchScaleIn(id, f) ==
    /\ phase = "idle"
    /\ Len(pendingScaleIns) < MaxScaleIns
    /\ pendingScaleIns' = Append(pendingScaleIns, [target |-> id, size |-> f])
    /\ UNCHANGED <<nextId, pendingOpens, book, loop>>

(* _dispatch_scale_out, on the sizes the grid can represent *)
DispatchScaleOut(id, f) ==
    LET p == positions[id]
        removed == (p.curSize * f[1]) \div f[2]
        q == ScaledOut(p, removed) IN
    /\ phase = "idle"
    /\ ~p.closed
    /\ (p.curSize * f[1]) % f[2] = 0 /\ removed > 0
    /\ positions' = WithPosition(id, q)
    /\ realized' = Realize(p, q)
    /\ UNCHANGED <<hwm, history, orders, loop>>

(* _dispatch_close: an event but no entry in _closed_history *)
DispatchClose(id) ==
    LET p == positions[id]
        q == Closed(p, p.mark, MANUAL, CostPerSide(p.curSize)) IN
    /\ phase = "idle"
    /\ ~p.closed
    /\ positions' = WithPosition(id, q)
    /\ realized' = Realize(p, q)
    /\ UNCHANGED <<hwm, history, orders, loop>>

(* _dispatch_modify_stop; Action.modify_stop wants one of the two *)
DispatchModifyStop(id, tp, sl) ==
    LET p == positions[id] IN
    /\ phase = "idle"
    /\ ~p.closed
    /\ tp # Unset \/ sl # Unset
    /\ positions' = WithPosition(id,
                        [p EXCEPT !.tp = IF tp = Unset THEN @ ELSE tp,
                                  !.sl = IF sl = Unset THEN @ ELSE sl])
    /\ UNCHANGED <<realized, hwm, history, orders, loop>>

WithoutOrder(id) == [i \in DOMAIN pendingOpens \ {id} |-> pendingOpens[i]]

(* _dispatch_cancel and cancel: pending opens only *)
DispatchCancel(id) ==
    /\ phase = "idle"
    /\ pendingOpens' = WithoutOrder(id)
    /\ UNCHANGED <<nextId, pendingScaleIns, book, loop>>

-----------------------------------------------------------------------------
(* advance_to is given a bar of M minutes *)
AdvanceTo(b) ==
    /\ phase = "idle"
    /\ barNo < MaxBars
    /\ barNo' = barNo + 1
    /\ bar' = b
    /\ newFills' = << >>
    /\ phase' = "opens"
    /\ todo' = IF Cardinality(OpenIds) < InventoryCap
               THEN DOMAIN pendingOpens ELSE {}
    /\ UNCHANGED <<left, sweep, orders, book>>

(* Step A: the oldest pending open fills, or stays pending *)
ActivateOpen ==
    LET id == Min(todo) IN
    /\ phase = "opens" /\ todo # {}
    /\ todo' = todo \ {id}
    /\ IF Cardinality(OpenIds) < InventoryCap /\ FillMinute <= M
       THEN /\ positions' = WithPosition(id,
                    OpenAt(pendingOpens[id], bar[FillMinute].close,
                           CloseTime(FillMinute)))
            /\ pendingOpens' = WithoutOrder(id)
       ELSE UNCHANGED <<positions, pendingOpens>>
    /\ UNCHANGED <<nextId, pendingScaleIns, realized, hwm, history,
                   newFills, barNo, bar, phase, left, sweep>>

OpensActivated ==
    /\ phase = "opens" /\ todo = {}
    /\ phase' = "scaleins"
    /\ left' = Len(pendingScaleIns)
    /\ UNCHANGED <<newFills, barNo, bar, todo, sweep, orders, book>>

(* Step A2: a scale-in of a position that is gone is dropped.  The mean of  *)
(* two prices is, on the log grid, some point between them.                *)
ActivateScaleIn ==
    LET s == Head(pendingScaleIns)
        p == positions[s.target]
        added == (s.size[1] * p.openSize) \div s.size[2]
        price == bar[FillMinute].close IN
    /\ phase = "scaleins" /\ left > 0
    /\ left' = left - 1
    /\ \/ /\ p.closed
          /\ pendingScaleIns' = Tail(pendingScaleIns)
          /\ UNCHANGED positions
       \/ /\ ~p.closed /\ FillMinute <= M
          /\ pendingScaleIns' = Tail(pendingScaleIns)
          /\ \E mean \in Min({p.entry, price})..Max({p.entry, price}) :
                positions' = WithPosition(s.target,
                    [p EXCEPT !.openSize = @ + added, !.curSize = @ + added,
                              !.entry = mean])
       \/ /\ ~p.closed /\ FillMinute > M
          /\ pendingScaleIns' = Append(Tail(pendingScaleIns), s)
          /\ UNCHANGED positions
    /\ UNCHANGED <<nextId, pendingOpens, realized, hwm, history,
                   newFills, barNo, bar, phase, todo, sweep>>

ScaleInsActivated ==
    /\ phase = "scaleins" /\ left = 0
    /\ phase' = "walk"
    /\ todo' = DOMAIN positions
    /\ UNCHANGED <<newFills, barNo, bar, left, sweep, orders, book>>

-----------------------------------------------------------------------------
(* Step B: the position the walk visits next; closed ones are passed over  *)
Walking == phase = "walk" /\ todo \cap OpenIds # {}
Bug_VisitClosed == Min(todo)
Visited == Min(todo \cap OpenIds)

(* _barrier_close: the per-side cost is that of the size ever opened *)
BarrierClose(id, minute, reason, price) ==
    LET p == positions[id]
        q == Closed(p, price, reason, CostPerSide(p.openSize)) IN
    /\ positions' = WithPosition(id, q)
    /\ realized' = Realize(p, q)
    /\ history' = Append(history,
            [id |-> id, reason |-> reason, entryTs |-> p.openTs,
             exitTs |-> CloseTime(minute), net |-> q.realized - p.realized])

(* The first minute that touches a barrier closes the position; a take-    *)
(* profit then sweeps the other winners at its own price.                  *)
TouchBarrier ==
    LET id == Visited
        p == positions[id]
        j == Min(TouchMinutes(p))
        reason == TouchReason(p, bar[j])
        price == BarrierPrice(p, reason) IN
    /\ Walking
    /\ TouchMinutes(p) # {}
    /\ BarrierClose(id, j, reason, price)
    /\ newFills' = Append(newFills, id)
    /\ IF Sweeps(reason)
       THEN /\ phase' = "sweep"
            /\ sweep' = [price |-> price, minute |-> j, count |-> 0]
       ELSE UNCHANGED <<phase, sweep>>
    /\ todo' = todo \ {id}
    /\ UNCHANGED <<hwm, orders, barNo, bar, left>>

(* one iteration of _sweep_winners *)
SweepWinner ==
    /\ phase = "sweep" /\ Winners(sweep.price) # {}
    /\ BarrierClose(Min(Winners(sweep.price)), sweep.minute,
                    BATCHED_WINNER, sweep.price)
    /\ sweep' = [sweep EXCEPT !.count = @ + 1]
    /\ UNCHANGED <<hwm, orders, newFills, barNo, bar, phase, todo, left>>

(* the walk collects, for each swept position, the newest fill *)
SweepDone ==
    /\ phase = "sweep" /\ Winners(sweep.price) = {}
    /\ newFills' = newFills \o
            [k \in 1..sweep.count |-> history[Len(history)].id]
    /\ phase' = "walk"
    /\ sweep' = NoSweep
    /\ UNCHANGED <<orders, book, barNo, bar, todo, left>>

(* the MAX_HOLD_BARS safety net *)
CapHoldAge ==
    LET id == Visited IN
    /\ Walking
    /\ TouchMinutes(positions[id]) = {}
    /\ BarsHeld(positions[id]) > MaxHoldBars
    /\ BarrierClose(id, M, SAFETY_CAP, bar[M].close)
    /\ newFills' = Append(newFills, id)
    /\ todo' = todo \ {id}
    /\ UNCHANGED <<hwm, orders, barNo, bar, phase, left, sweep>>

MarkPosition ==
    LET id == Visited IN
    /\ Walking
    /\ TouchMinutes(positions[id]) = {}
    /\ BarsHeld(positions[id]) <= MaxHoldBars
    /\ positions' = WithPosition(id, Marked(positions[id], bar[M].close))
    /\ todo' = todo \ {id}
    /\ UNCHANGED <<realized, hwm, history, orders,
                   newFills, barNo, bar, phase, left, sweep>>

Bug_HighWaterOfRealized ==
    LET marked == [i \in DOMAIN positions |-> Marked(positions[i], bar[M].close)] IN
    /\ phase = "walk" /\ todo \cap OpenIds = {}
    /\ positions' = marked
    /\ hwm' = Max({hwm, realized})
    /\ phase' = "idle" /\ bar' = << >> /\ todo' = {}
    /\ UNCHANGED <<realized, history, orders, newFills, barNo, left, sweep>>

(* Step C: Portfolio.with_mark, the only place the high-water mark moves *)
MarkPortfolio ==
    LET marked == [i \in DOMAIN positions |-> Marked(positions[i], bar[M].close)]
        equity == realized + UnrealizedOf(marked) IN
    /\ phase = "walk" /\ todo \cap OpenIds = {}
    /\ positions' = marked
    /\ hwm' = Max({hwm, equity})
    /\ phase' = "idle" /\ bar' = << >> /\ todo' = {}
    /\ UNCHANGED <<realized, history, orders, newFills, barNo, left, sweep>>

-----------------------------------------------------------------------------
Bars == [1..M -> {[lo |-> m.lo, hi |-> m.hi, close |-> m.close, tie |-> t] :
                        m \in Minutes, t \in TieOutcomes}]

Dispatch ==
    /\ barNo < ActionBars
    /\ \/ \E o \in OpenOrders : DispatchOpen(o)
       \/ \E id \in DOMAIN positions, f \in Fractions : DispatchScaleIn(id, f)
       \/ \E id \in DOMAIN positions, f \in Fractions : DispatchScaleOut(id, f)
       \/ \E id \in DOMAIN positions : DispatchClose(id)
       \/ \E id \in DOMAIN positions, tp, sl \in Stops \cup {Unset} :
               DispatchModifyStop(id, tp, sl)
       \/ \E id \in DOMAIN pendingOpens : DispatchCancel(id)

Advance ==
    \/ \E b \in Bars : AdvanceTo(b)
    \/ ActivateOpen
    \/ OpensActivated
    \/ ActivateScaleIn
    \/ ScaleInsActivated
    \/ TouchBarrier
    \/ SweepWinner
    \/ SweepDone
    \/ CapHoldAge
    \/ MarkPosition
    \/ MarkPortfolio

Next == Dispatch \/ Advance

Spec == Init /\ [][Next]_vars

-----------------------------------------------------------------------------
Position ==
    [side : {Long, Short}, openSize : Nat \ {0}, curSize : Nat, entry : Int,
     openTs : Nat, tp : Int, sl : Int \cup {NoStop}, mark : Int,
     realized : Int, unrealized : Int, closed : BOOLEAN,
     reason : {Unset, MANUAL, TP, SL, SAFETY_CAP, BATCHED_WINNER}]

ScaleInOrder == [target : DOMAIN positions, size : Fractions]
Fill ==
    [id : DOMAIN positions, entryTs : Nat, exitTs : Nat, net : Int,
     reason : {TP, SL, SAFETY_CAP, BATCHED_WINNER}]

(* Every variable has the shape the code gives it; positions are a record  *)
(* per id handed out, and the loops only visit ids that exist.             *)
TypeOK ==
    /\ nextId \in 1..(MaxPositions + 1)
    /\ DOMAIN pendingOpens \subseteq 1..(nextId - 1)
    /\ pendingOpens \in [DOMAIN pendingOpens -> OpenOrders]
    /\ pendingScaleIns \in Seq(ScaleInOrder)
    /\ DOMAIN positions \subseteq 1..(nextId - 1)
    /\ positions \in [DOMAIN positions -> Position]
    /\ realized \in Int
    /\ history \in Seq(Fill)
    /\ newFills \in Seq(DOMAIN positions)
    /\ barNo \in 0..MaxBars
    /\ phase \in {"idle", "opens", "scaleins", "walk", "sweep"}
    /\ (phase # "idle") => barNo > 0 /\ bar \in Bars
    /\ left \in 0..Len(pendingScaleIns)
    /\ todo \subseteq 1..(nextId - 1)
    /\ sweep \in [price : Int, minute : 0..M, count : Nat]

(* The cap holds for what is open and what is about to open, whatever the  *)
(* order of submissions, cancels, fills and closes (brokers.py 221-234,    *)
(* 344-388): a slot is never promised twice.                               *)
InventoryBound ==
    Cardinality(OpenIds) + Cardinality(DOMAIN pendingOpens) <= InventoryCap

(* An id is pending or in the portfolio, never both: activation moves it.  *)
PendingNotYetOpened == DOMAIN pendingOpens \cap DOMAIN positions = {}

(* The two "still pending" branches of Step A for a full inventory are     *)
(* never what happens: once the opens were visited, and the fill minute is *)
(* in the bar, nothing is pending.                                         *)
ActivationNeverDeferred ==
    phase \in {"scaleins", "walk", "sweep"} /\ FillMinute <= M
        => DOMAIN pendingOpens = {}

(* The ledger the metrics read and the portfolio tell one story: a fill is *)
(* of a position closed for that reason, a position has one fill at most,  *)
(* and has one unless it was closed by hand (_barrier_close, _dispatch_...). *)
LedgerAgreesWithPortfolio ==
    /\ \A k \in 1..Len(history) :
            /\ positions[history[k].id].closed
            /\ positions[history[k].id].reason = history[k].reason
    /\ \A j, k \in 1..Len(history) : history[j].id = history[k].id => j = k
    /\ \A i \in DOMAIN positions :
            positions[i].closed /\ positions[i].reason # MANUAL
                => \E k \in 1..Len(history) : history[k].id = i

(* The portfolio's running PnL is the sum of its positions': no delta is   *)
(* added twice or forgotten on any closing path, partial ones included.    *)
RealizedConserved ==
    realized = MapThenSumSet(LAMBDA i : positions[i].realized, DOMAIN positions)

Worth(p) == Move(p, p.mark) * p.curSize

(* Between bars the drawdown is not positive (portfolio.py 64-67), each    *)
(* position taken at its own mark: no fee, partial close or exit lifts the *)
(* account over the mark that only Portfolio.with_mark moves.  What        *)
(* unrealized_pnl_log shows besides is of units scaled out since, which    *)
(* with_scale_out leaves in it until the next mark.                        *)
HighWaterHolds ==
    phase = "idle" =>
        /\ realized + MapThenSumSet(LAMBDA i : Worth(positions[i]), OpenIds) <= hwm
        /\ \A i \in OpenIds :
               LET p == positions[i] IN
               \E n \in p.curSize..p.openSize : p.unrealized = Move(p, p.mark) * n

(* A batched exit follows a take-profit in the same minute, with nothing   *)
(* but batched exits in between; a stop never takes another position with  *)
(* it; and it earns money (brokers.py 488-503, 583-624).  With slippage it *)
(* may not: a winner is chosen at the cost of the size it still has, and   *)
(* charged that of the size it ever had.                                   *)
SweepFollowsTakeProfit ==
    \A k \in 1..Len(history) : history[k].reason = BATCHED_WINNER =>
        /\ CostSlip = 0 => history[k].net > 0
        /\ \E j \in 1..(k - 1) :
              /\ history[j].reason = TP
              /\ \A i \in j..k : history[i].exitTs = history[k].exitTs
              /\ \A i \in (j + 1)..k : history[i].reason = BATCHED_WINNER

(* When the walk is over, what is still open was touched in no minute that *)
(* began since it was filled, and is not older than the safety cap (417-   *)
(* 519): neither the sweep's bookkeeping nor the start of the scan hides a *)
(* minute from a position that lived through it.  One filled at the very   *)
(* end of a bar counts as filled in the next, and is skipped there.        *)
SurvivorsUntouched ==
    phase = "walk" /\ todo \cap OpenIds = {} /\ ~(L = M /\ CloseLag = 2) =>
        \A i \in OpenIds :
            LET p == positions[i] IN
            /\ \A j \in 1..M : BarOpen + 2 * (j - 1) >= p.openTs
                    => ~SlHit(p, bar[j]) /\ ~TpHit(p, bar[j])
            /\ BarsHeld(p) <= MaxHoldBars

(* A position's own barriers only close it after the minute it was filled  *)
(* at, whichever minute of the bar the latency makes that.  With none it   *)
(* is filled at the close of a minute that is scanned all the same.        *)
OwnBarrierAfterEntry ==
    \A k \in 1..Len(history) :
        history[k].reason \in {TP, SL} =>
            /\ history[k].exitTs >= history[k].entryTs
            /\ L > 0 => history[k].exitTs > history[k].entryTs

(* A closed position is never touched again: a pending scale-in, a stop    *)
(* change, a sweep or a mark that comes late finds it closed.              *)
ClosedIsFinal ==
    [][\A i \in DOMAIN positions :
            /\ i \in DOMAIN positions'
            /\ positions[i].closed => positions'[i] = positions[i]]_vars

(* The broker implements the promises of InventoryBook.                    *)
OrderState(id) ==
    IF id \in DOMAIN pendingOpens THEN "pending"
    ELSE IF id \in DOMAIN positions
         THEN IF positions[id].closed THEN "closed" ELSE "open"
    ELSE IF id < nextId THEN "withdrawn" ELSE "unborn"
ExitReason(id) ==
    IF id \in DOMAIN positions THEN positions[id].reason ELSE Unset

Book == INSTANCE InventoryBook
    WITH Ids <- 1..MaxPositions, Cap <- InventoryCap, None <- Unset,
         state <- [id \in 1..MaxPositions |-> OrderState(id)],
         exits <- [id \in 1..MaxPositions |-> ExitReason(id)],
         sweeping <- phase = "sweep"

(* Every step of dispatch and advance_to is a step of the book, or none:   *)
(* no order is filled twice or out of turn, no exit has two reasons, and a *)
(* stop takes no other position with it.                                   *)
ImplementsBook == Book!BookSpec

-----------------------------------------------------------------------------
(* What the repository says and the code does not do.                      *)

(* brokers.py 445: a position opened in a bar is only scanned "AFTER the   *)
(* entry minute"; so no exit may come at the entry minute or before.       *)
ExitAfterEntry ==
    \A k \in 1..Len(history) : history[k].exitTs > history[k].entryTs

=============================================================================
