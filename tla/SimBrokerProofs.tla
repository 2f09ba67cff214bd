--------------------------- MODULE SimBrokerProofs ---------------------------
(***************************************************************************)
(* Proofs about SimBroker, for every bar length, latency, inventory cap,   *)
(* cost, tie-break and set of bars and orders.                             *)
(*                                                                         *)
(* BInv is TypeOK strengthened with what the inventory bound rests on: an  *)
(* id is either pending or in the portfolio, the first loop of advance_to  *)
(* still has exactly the pending opens to visit (when the fill minute is   *)
(* in the bar), and a sweep has a minute and left a fill behind.           *)
(*                                                                         *)
(* LInv adds what the ledger says: that the list of fills, the running PnL *)
(* and the positions agree, what a sweep takes and what the walk over the  *)
(* minutes leaves open.  It gives the refinement of InventoryBook.         *)
(*                                                                         *)
(* HighWater stands beside it: what the account is worth between bars, and *)
(* at any time that an open position has units, no more than it ever had.  *)
(***************************************************************************)
EXTENDS SimBroker, FiniteSetTheorems, SequenceTheorems, WellFoundedInduction, TLAPS

OpensStillToVisit ==
    /\ phase = "opens" => todo \subseteq DOMAIN pendingOpens
    /\ phase = "opens" /\ FillMinute <= M => todo = DOMAIN pendingOpens
SweepStarted ==
    /\ phase = "sweep" => sweep.minute # 0
    /\ sweep.count > 0 => history # << >>

BInv ==
    /\ TypeOK
    /\ PendingNotYetOpened
    /\ OpensStillToVisit
    /\ SweepStarted
    /\ InventoryBound
    /\ ActivationNeverDeferred

-----------------------------------------------------------------------------
(* Arithmetic and finite sets.                                             *)

(* A nonempty set of naturals has its minimum in it. *)
LEMMA MinIsMember ==
    ASSUME NEW S \in SUBSET Nat, S # {}
    PROVE  Min(S) \in S /\ \A x \in S : Min(S) <= x
<1>1. PICK x \in S : \A y \in S : ~(<<y, x>> \in OpToRel(<, Nat))
    BY NatLessThanWellFounded, WFMin
<1>2. \A y \in S : ~(y < x)
    BY <1>1, Zenon DEF OpToRel
<1>3. \A y \in S : x <= y
    BY <1>2
<1> QED
    BY <1>3 DEF Min

(* A fraction of at most 1 takes at most the whole. *)
LEMMA FractionBound ==
    ASSUME NEW c \in Nat, NEW a \in Nat, NEW b \in Nat \ {0}, a <= b
    PROVE  (c * a) \div b \in 0..c
<1>1. c * a <= c * b /\ c * a >= 0
    OBVIOUS
<1>2. PICK q \in Int : q = (c * a) \div b
    OBVIOUS
<1>3. q * b <= c * a /\ c * a < (q + 1) * b
    BY <1>2
<1>4. q <= c
  <2>1. q * b <= c * b
    BY <1>1, <1>3
  <2> QED
    BY <2>1
<1>5. q >= 0
    BY <1>1, <1>3
<1> QED
    BY <1>2, <1>4, <1>5
-----------------------------------------------------------------------------
(* The transitions of a position give positions.                           *)

(* Position.open_at *)
LEMMA OpenAtType ==
    ASSUME NEW o \in OpenOrders, NEW price \in Int, NEW ts \in Nat
    PROVE  OpenAt(o, price, ts) \in Position /\ ~OpenAt(o, price, ts).closed
BY ConstantsAssumption DEF OpenAt, Position, Long, Short

(* log-return of a position at a price *)
LEMMA MoveType ==
    ASSUME NEW p \in Position, NEW price \in Int
    PROVE  Move(p, price) \in Int
BY DEF Move, Position, Long, Short

(* Position.with_mark *)
LEMMA MarkedType ==
    ASSUME NEW p \in Position, NEW price \in Int
    PROVE  /\ Marked(p, price) \in Position
           /\ Marked(p, price).closed = p.closed
           /\ p.closed => Marked(p, price) = p
<1>1. Move(p, price) * p.curSize \in Int
    BY MoveType DEF Position
<1> QED
    BY <1>1 DEF Marked, Position

(* Position.with_close *)
LEMMA ClosedType ==
    ASSUME NEW p \in Position, NEW price \in Int, NEW cost \in Int,
           NEW reason \in {MANUAL, TP, SL, SAFETY_CAP, BATCHED_WINNER}
    PROVE  Closed(p, price, reason, cost) \in Position
           /\ Closed(p, price, reason, cost).closed
<1> DEFINE total == p.realized + (Move(p, price) - 2 * cost) * p.curSize
           sold == [p EXCEPT !.realized = total, !.curSize = 0]
           flat == [sold EXCEPT !.unrealized = 0]
           marked == [flat EXCEPT !.mark = price]
           done == [marked EXCEPT !.reason = reason]
<1>1. total \in Int
    BY MoveType DEF Position
<1>2. Closed(p, price, reason, cost) = [done EXCEPT !.closed = TRUE]
    BY DEF Closed, Position
<1> HIDE DEF total
<1>3. sold \in Position
    BY <1>1 DEF Position
<1> HIDE DEF sold
<1>4. flat \in Position
    BY <1>3 DEF Position
<1> HIDE DEF flat
<1>5. marked \in Position
    BY <1>4 DEF Position
<1> HIDE DEF marked
<1>6. done \in Position
    BY <1>5 DEF Position
<1> HIDE DEF done
<1>7. [done EXCEPT !.closed = TRUE] \in Position /\ [done EXCEPT !.closed = TRUE].closed
    BY <1>6 DEF Position
<1> QED
    BY <1>2, <1>7

(* Position.with_scale_out *)
LEMMA ScaledOutType ==
    ASSUME NEW p \in Position, NEW removed \in 0..p.curSize
    PROVE  ScaledOut(p, removed) \in Position
<1> DEFINE rest == p.curSize - removed
           total == p.realized + (Move(p, p.mark) - 2 * CostPerSide(removed)) * removed
           sold == [p EXCEPT !.realized = total, !.curSize = rest]
           flat == [sold EXCEPT !.unrealized = 0]
<1>1. removed \in Nat /\ rest \in Nat
    BY DEF Position
<1>2. CostPerSide(removed) \in Int
    BY <1>1, ConstantsAssumption DEF CostPerSide
<1>3. total \in Int
    BY <1>1, <1>2, MoveType DEF Position
<1>4. ScaledOut(p, removed) =
        IF rest = 0 THEN [flat EXCEPT !.closed = TRUE, !.reason = MANUAL] ELSE sold
    BY DEF ScaledOut, Position
<1> HIDE DEF total, rest
<1>5. sold \in Position
    BY <1>1, <1>3 DEF Position
<1> HIDE DEF sold
<1>6. flat \in Position
    BY <1>5 DEF Position
<1> HIDE DEF flat
<1>7. [flat EXCEPT !.closed = TRUE, !.reason = MANUAL] \in Position
    BY <1>6 DEF Position
<1> QED
    BY <1>4, <1>5, <1>7

(* Position.with_scale_in *)
LEMMA ScaledInType ==
    ASSUME NEW p \in Position, NEW added \in Nat, NEW mean \in Int
    PROVE  LET q == [p EXCEPT !.openSize = @ + added, !.curSize = @ + added,
                              !.entry = mean]
           IN  q \in Position /\ q.closed = p.closed
<1>1. p.openSize + added \in Nat \ {0} /\ p.curSize + added \in Nat
    BY DEF Position
<1> QED
    BY <1>1 DEF Position

(* Position.with_modified_stops *)
LEMMA ModifiedStopsType ==
    ASSUME NEW p \in Position, NEW tp \in Stops \cup {Unset},
           NEW sl \in Stops \cup {Unset}
    PROVE  LET q == [p EXCEPT !.tp = IF tp = Unset THEN @ ELSE tp,
                              !.sl = IF sl = Unset THEN @ ELSE sl]
           IN  q \in Position /\ q.closed = p.closed
BY ConstantsAssumption DEF Position

(* Portfolio.with_position keeps the others. *)
LEMMA WithPositionType ==
    ASSUME positions \in [DOMAIN positions -> Position],
           NEW id, NEW q \in Position
    PROVE  /\ WithPosition(id, q) \in [DOMAIN positions \cup {id} -> Position]
           /\ DOMAIN WithPosition(id, q) = DOMAIN positions \cup {id}
           /\ WithPosition(id, q)[id] = q
           /\ \A i \in DOMAIN positions \ {id} :
                    WithPosition(id, q)[i] = positions[i]
BY DEF WithPosition

(* What a transition realized can be added to the portfolio's total. *)
LEMMA RealizeType ==
    ASSUME realized \in Int, NEW p \in Position, NEW q \in Position
    PROVE  Realize(p, q) \in Int
BY DEF Realize, Position

(* Sequences over a larger set. *)
LEMMA SeqOfLarger ==
    ASSUME NEW S, NEW T, S \subseteq T, NEW s \in Seq(S)
    PROVE  s \in Seq(T)
OBVIOUS

(* The ids at stake are finitely many. *)
LEMMA FiniteOrders ==
    ASSUME TypeOK
    PROVE  /\ IsFiniteSet(OpenIds) /\ Cardinality(OpenIds) \in Nat
           /\ IsFiniteSet(DOMAIN pendingOpens)
           /\ Cardinality(DOMAIN pendingOpens) \in Nat
<1>1. nextId - 1 \in Int /\ IsFiniteSet(1..(nextId - 1))
  <2>1. nextId \in Int
    BY ConstantsAssumption DEF TypeOK
  <2> QED
    BY <2>1, FS_Interval
<1>2. OpenIds \subseteq 1..(nextId - 1) /\ DOMAIN pendingOpens \subseteq 1..(nextId - 1)
    BY DEF TypeOK, OpenIds
<1> QED
    BY <1>1, <1>2, FS_Subset, FS_CardinalityType

(* The bound survives whatever neither opens nor submits. *)
LEMMA BoundKept ==
    ASSUME TypeOK, InventoryBound, OpenIds' \subseteq OpenIds,
           DOMAIN pendingOpens' \subseteq DOMAIN pendingOpens
    PROVE  InventoryBound'
<1>1. /\ IsFiniteSet(OpenIds') /\ Cardinality(OpenIds') <= Cardinality(OpenIds)
      /\ Cardinality(DOMAIN pendingOpens') <= Cardinality(DOMAIN pendingOpens)
      /\ IsFiniteSet(DOMAIN pendingOpens')
    BY FiniteOrders, FS_Subset
<1>2. Cardinality(OpenIds') \in Nat /\ Cardinality(DOMAIN pendingOpens') \in Nat
    BY <1>1, FS_CardinalityType
<1> QED
    BY <1>1, <1>2, FiniteOrders, ConstantsAssumption DEF InventoryBound

-----------------------------------------------------------------------------
(* The current bar.                                                        *)

LEMMA BarType ==
    ASSUME bar \in Bars, NEW j \in 1..M
    PROVE  bar[j].lo \in Int /\ bar[j].hi \in Int /\ bar[j].close \in Int
           /\ bar[j].tie \in {TP, SL}
<1>1. TieOutcomes \subseteq {TP, SL}
    BY ConstantsAssumption DEF TieOutcomes
<1>2. PICK m \in Minutes, t \in TieOutcomes :
        bar[j] = [lo |-> m.lo, hi |-> m.hi, close |-> m.close, tie |-> t]
    BY DEF Bars
<1>3. m.lo \in Int /\ m.hi \in Int /\ m.close \in Int
    BY ConstantsAssumption
<1> QED
    BY <1>1, <1>2, <1>3

LEMMA CloseTimeType ==
    ASSUME TypeOK, barNo > 0, NEW j \in 1..M
    PROVE  CloseTime(j) \in Nat
<1>1. barNo - 1 \in Nat /\ M \in Nat /\ CloseLag \in Nat
  <2>1. barNo \in 0..MaxBars
    BY DEF TypeOK
  <2> QED
    BY <2>1, ConstantsAssumption
<1>2. 2 * M * (barNo - 1) \in Nat
    BY <1>1
<1>3. 2 * (j - 1) \in Nat
    BY <1>1
<1> QED
    BY <1>1, <1>2, <1>3 DEF CloseTime, BarOpen

(* The minute a position leaves at, the reason and the price are proper.   *)
LEMMA TouchType ==
    ASSUME bar \in Bars, NEW p \in Position, TouchMinutes(p) # {}
    PROVE  LET j == Min(TouchMinutes(p)) IN
           /\ j \in 1..M
           /\ TouchReason(p, bar[j]) \in {TP, SL}
           /\ BarrierPrice(p, TouchReason(p, bar[j])) \in Int
<1> DEFINE j == Min(TouchMinutes(p))
           reason == TouchReason(p, bar[j])
<1>1. TouchMinutes(p) \in SUBSET Nat
    BY ConstantsAssumption DEF TouchMinutes
<1>2. j \in TouchMinutes(p)
    BY <1>1, MinIsMember
<1> HIDE DEF j
<1>3. j \in 1..M /\ (SlHit(p, bar[j]) \/ TpHit(p, bar[j]))
    BY <1>2 DEF TouchMinutes
<1>4. bar[j].tie \in {TP, SL}
    BY <1>3, BarType
<1>5. reason \in {TP, SL} /\ (reason = SL => SlHit(p, bar[j]))
    BY <1>3, <1>4 DEF TouchReason, TP, SL
<1> HIDE DEF reason
<1>6. reason = SL => p.sl \in Int
    BY <1>5 DEF SlHit, Position
<1>7. BarrierPrice(p, reason) \in Int
  <2>1. CASE reason = TP
    BY <2>1 DEF BarrierPrice, Position, Long, Short
  <2>2. CASE reason = SL
    BY <2>2, <1>6 DEF BarrierPrice, Position, Long, Short, TP, SL
  <2> QED
    BY <2>1, <2>2, <1>5
<1> QED
    BY <1>3, <1>5, <1>7 DEF j, reason

-----------------------------------------------------------------------------
(* What a step that replaces one position by another leaves as it was.     *)

(* The body of ClosedIsFinal. *)
ClosedKept ==
    \A i \in DOMAIN positions :
        /\ i \in DOMAIN positions'
        /\ positions[i].closed => positions'[i] = positions[i]

LEMMA OnePositionReplaced ==
    ASSUME TypeOK, NEW id \in OpenIds, NEW q \in Position,
           positions' = WithPosition(id, q)
    PROVE  /\ DOMAIN positions' = DOMAIN positions
           /\ positions' \in [DOMAIN positions' -> Position]
           /\ OpenIds' \subseteq OpenIds
           /\ ScaleInOrder' = ScaleInOrder
           /\ Fill' = Fill
           /\ ClosedKept
<1>1. /\ id \in DOMAIN positions /\ ~positions[id].closed
      /\ positions \in [DOMAIN positions -> Position]
    BY DEF OpenIds, TypeOK
<1>2. /\ positions' \in [DOMAIN positions -> Position]
      /\ DOMAIN positions' = DOMAIN positions
      /\ \A i \in DOMAIN positions \ {id} : positions'[i] = positions[i]
  <2>1. DOMAIN positions \cup {id} = DOMAIN positions
    BY <1>1
  <2>2. /\ WithPosition(id, q) \in [DOMAIN positions \cup {id} -> Position]
        /\ DOMAIN WithPosition(id, q) = DOMAIN positions \cup {id}
        /\ \A i \in DOMAIN positions \ {id} :
                WithPosition(id, q)[i] = positions[i]
    BY <1>1, WithPositionType
  <2> QED
    BY <2>1, <2>2
<1>3. OpenIds' \subseteq OpenIds
    BY <1>1, <1>2 DEF OpenIds
<1>4. ScaleInOrder' = ScaleInOrder /\ Fill' = Fill
    BY <1>2 DEF ScaleInOrder, Fill
<1>5. ClosedKept
    BY <1>1, <1>2 DEF ClosedKept
<1> QED
    BY <1>2, <1>3, <1>4, <1>5

(* _barrier_close *)
LEMMA BarrierCloseKeeps ==
    ASSUME TypeOK, phase # "idle", NEW id \in OpenIds, NEW minute \in 1..M,
           NEW reason \in {TP, SL, SAFETY_CAP, BATCHED_WINNER},
           NEW price \in Int, BarrierClose(id, minute, reason, price)
    PROVE  /\ DOMAIN positions' = DOMAIN positions
           /\ positions' \in [DOMAIN positions' -> Position]
           /\ OpenIds' \subseteq OpenIds
           /\ ScaleInOrder' = ScaleInOrder
           /\ Fill' = Fill
           /\ ClosedKept
           /\ realized' \in Int
           /\ history' \in Seq(Fill') /\ history' # << >>
<1> DEFINE p == positions[id]
           q == Closed(p, price, reason, CostPerSide(p.openSize))
           fill == [id |-> id, reason |-> reason, entryTs |-> p.openTs,
                    exitTs |-> CloseTime(minute), net |-> q.realized - p.realized]
<1>1. p \in Position /\ id \in DOMAIN positions
    BY DEF OpenIds, TypeOK
<1>2. CostPerSide(p.openSize) \in Int
    BY <1>1, ConstantsAssumption DEF CostPerSide, Position
<1>3. positions' = WithPosition(id, q) /\ realized' = Realize(p, q)
      /\ history' = Append(history, fill)
    BY DEF BarrierClose
<1> HIDE DEF p
<1>4. q \in Position
    BY <1>1, <1>2, ClosedType
<1> HIDE DEF q
<1>5. realized' \in Int
    BY <1>1, <1>3, <1>4, RealizeType DEF TypeOK
<1>6. CloseTime(minute) \in Nat
    BY CloseTimeType DEF TypeOK
<1>7. fill \in Fill
    BY <1>1, <1>4, <1>6 DEF Fill, Position
<1>8. history' \in Seq(Fill) /\ history' # << >>
  <2> HIDE DEF fill
  <2>1. history \in Seq(Fill)
    BY DEF TypeOK
  <2> QED
    BY <1>3, <1>7, <2>1
<1> QED
    BY <1>3, <1>4, <1>5, <1>8, OnePositionReplaced

-----------------------------------------------------------------------------
(* The invariant holds initially and after dispatch.                       *)

LEMMA InitInvariant == Init => BInv
<1> SUFFICES ASSUME Init PROVE BInv
    OBVIOUS
<1>1. DOMAIN pendingOpens = {} /\ DOMAIN positions = {}
    BY DEF Init
<1>2. positions \in [DOMAIN positions -> Position] /\ pendingOpens \in [DOMAIN pendingOpens -> OpenOrders]
    BY <1>1 DEF Init
<1>3. TypeOK
  <2>1. nextId \in 1..(MaxPositions + 1) /\ barNo \in 0..MaxBars
        /\ phase \in {"idle", "opens", "scaleins", "walk", "sweep"} /\ phase = "idle"
        /\ realized \in Int
    BY ConstantsAssumption DEF Init
  <2>2. pendingScaleIns \in Seq(ScaleInOrder) /\ history \in Seq(Fill)
        /\ newFills \in Seq(DOMAIN positions)
        /\ left \in 0..Len(pendingScaleIns)
    BY DEF Init
  <2>3. todo \subseteq 1..(nextId - 1)
        /\ sweep \in [price : Int, minute : 0..M, count : Nat]
    BY ConstantsAssumption DEF Init, NoSweep
  <2> QED
    BY <1>1, <1>2, <2>1, <2>2, <2>3 DEF TypeOK
<1>4. OpenIds = {}
    BY <1>1 DEF OpenIds
<1>5. InventoryBound
    BY <1>1, <1>4, FS_EmptySet, ConstantsAssumption DEF InventoryBound
<1>6. PendingNotYetOpened /\ OpensStillToVisit /\ SweepStarted /\ ActivationNeverDeferred
    BY <1>1 DEF Init, PendingNotYetOpened, OpensStillToVisit, SweepStarted,
                ActivationNeverDeferred, NoSweep
<1> QED
    BY <1>3, <1>5, <1>6 DEF BInv

(* A slot is promised only while one is free, and its id is a new one. *)
LEMMA DispatchOpenKeeps ==
    ASSUME BInv, NEW o \in OpenOrders, DispatchOpen(o)
    PROVE  BInv' /\ ClosedKept
<1> USE DEF BInv
<1>1. nextId \in Nat \ {0} /\ nextId <= MaxPositions
  <2>1. nextId \in 1..(MaxPositions + 1) /\ nextId <= MaxPositions
    BY DEF TypeOK, DispatchOpen
  <2> QED
    BY <2>1, ConstantsAssumption
<1>2. /\ DOMAIN pendingOpens' = DOMAIN pendingOpens \cup {nextId}
      /\ pendingOpens' \in [DOMAIN pendingOpens' -> OpenOrders]
    BY DEF DispatchOpen, TypeOK
<1>3. nextId \notin DOMAIN pendingOpens /\ nextId \notin DOMAIN positions
    BY <1>1 DEF TypeOK
<1>4. UNCHANGED <<pendingScaleIns, positions, realized, hwm, history, newFills,
                  barNo, bar, phase, todo, left, sweep>> /\ nextId' = nextId + 1
      /\ phase = "idle"
    BY DEF DispatchOpen, book, loop
<1>5. OpenIds' = OpenIds /\ ScaleInOrder' = ScaleInOrder /\ Fill' = Fill
    BY <1>4 DEF OpenIds, ScaleInOrder, Fill
<1>6. TypeOK'
  <2>1. 1..(nextId - 1) \subseteq 1..(nextId' - 1) /\ nextId \in 1..(nextId' - 1)
        /\ nextId' \in 1..(MaxPositions + 1)
    BY <1>1, <1>4, ConstantsAssumption
  <2> QED
    BY <1>2, <1>4, <1>5, <2>1 DEF TypeOK
<1>7. InventoryBound'
  <2>1. Cardinality(DOMAIN pendingOpens') = Cardinality(DOMAIN pendingOpens) + 1
    BY <1>2, <1>3, FiniteOrders, FS_AddElement
  <2>2. Cardinality(OpenIds) + Cardinality(DOMAIN pendingOpens)
            + Len(pendingScaleIns) < InventoryCap
    BY DEF DispatchOpen, OpenOrderCount
  <2>3. Len(pendingScaleIns) \in Nat
    BY DEF TypeOK
  <2> QED
    BY <1>5, <2>1, <2>2, <2>3, FiniteOrders, ConstantsAssumption DEF InventoryBound
<1>8. PendingNotYetOpened'
    BY <1>2, <1>3, <1>4 DEF PendingNotYetOpened
<1>9. OpensStillToVisit' /\ SweepStarted' /\ ActivationNeverDeferred'
    BY <1>4 DEF OpensStillToVisit, SweepStarted, ActivationNeverDeferred
<1> QED
    BY <1>4, <1>6, <1>7, <1>8, <1>9 DEF ClosedKept

LEMMA DispatchScaleInKeeps ==
    ASSUME BInv, NEW id \in DOMAIN positions, NEW f \in Fractions,
           DispatchScaleIn(id, f)
    PROVE  BInv' /\ ClosedKept
<1> USE DEF BInv
<1> DEFINE order == [target |-> id, size |-> f]
<1>1. /\ pendingScaleIns' = Append(pendingScaleIns, order)
      /\ UNCHANGED <<nextId, pendingOpens, positions, realized, hwm, history,
                      newFills, barNo, bar, phase, todo, left, sweep>>
      /\ phase = "idle"
    BY DEF DispatchScaleIn, book, loop
<1>2. OpenIds' = OpenIds /\ ScaleInOrder' = ScaleInOrder /\ Fill' = Fill
    BY <1>1 DEF OpenIds, ScaleInOrder, Fill
<1>3. order \in ScaleInOrder /\ pendingScaleIns \in Seq(ScaleInOrder)
    BY DEF ScaleInOrder, TypeOK
<1> HIDE DEF order
<1>4. pendingScaleIns' \in Seq(ScaleInOrder) /\ Len(pendingScaleIns') = Len(pendingScaleIns) + 1
    BY <1>1, <1>3
<1>5. left' \in 0..Len(pendingScaleIns')
  <2>1. left \in 0..Len(pendingScaleIns) /\ Len(pendingScaleIns) \in Nat
    BY <1>3 DEF TypeOK
  <2> QED
    BY <1>1, <1>4, <2>1
<1>6. TypeOK'
    BY <1>1, <1>2, <1>4, <1>5 DEF TypeOK
<1>7. InventoryBound' /\ PendingNotYetOpened' /\ OpensStillToVisit'
      /\ SweepStarted' /\ ActivationNeverDeferred'
    BY <1>1, <1>2 DEF InventoryBound, PendingNotYetOpened, OpensStillToVisit,
                      SweepStarted, ActivationNeverDeferred
<1> QED
    BY <1>1, <1>6, <1>7 DEF ClosedKept

(* Dispatches that replace one open position: scale-out, close, new stops. *)
LEMMA ReplacementKeeps ==
    ASSUME BInv, phase = "idle", NEW id \in OpenIds, NEW q \in Position,
           positions' = WithPosition(id, q), realized' \in Int,
           UNCHANGED <<hwm, history, orders, loop>>
    PROVE  BInv' /\ ClosedKept
<1> USE DEF BInv
<1>1. /\ DOMAIN positions' = DOMAIN positions
      /\ positions' \in [DOMAIN positions' -> Position]
      /\ OpenIds' \subseteq OpenIds
      /\ ScaleInOrder' = ScaleInOrder /\ Fill' = Fill
      /\ ClosedKept
    BY OnePositionReplaced
<1>2. UNCHANGED <<nextId, pendingOpens, pendingScaleIns, history, newFills,
                  barNo, bar, phase, todo, left, sweep>>
    BY DEF orders, loop
<1>3. TypeOK'
    BY <1>1, <1>2 DEF TypeOK
<1>4. InventoryBound'
    BY <1>1, <1>2, BoundKept
<1>5. PendingNotYetOpened' /\ OpensStillToVisit' /\ SweepStarted' /\ ActivationNeverDeferred'
    BY <1>1, <1>2 DEF PendingNotYetOpened, OpensStillToVisit, SweepStarted,
                      ActivationNeverDeferred
<1> QED
    BY <1>1, <1>3, <1>4, <1>5

LEMMA DispatchScaleOutKeeps ==
    ASSUME BInv, NEW id \in DOMAIN positions, NEW f \in Fractions,
           DispatchScaleOut(id, f)
    PROVE  BInv' /\ ClosedKept
<1> DEFINE p == positions[id]
           removed == (p.curSize * f[1]) \div f[2]
<1>1. p \in Position /\ realized \in Int
    BY DEF BInv, TypeOK
<1>2. id \in OpenIds
    BY DEF DispatchScaleOut, OpenIds
<1>3. f[1] \in Nat /\ f[2] \in Nat \ {0} /\ f[1] <= f[2]
    BY ConstantsAssumption
<1>4. removed \in 0..p.curSize
  <2>1. p.curSize \in Nat
    BY <1>1 DEF Position
  <2> QED
    BY <1>3, <2>1, FractionBound
<1>5. /\ positions' = WithPosition(id, ScaledOut(p, removed))
      /\ realized' = Realize(p, ScaledOut(p, removed))
      /\ phase = "idle" /\ UNCHANGED <<hwm, history, orders, loop>>
    BY DEF DispatchScaleOut
<1> HIDE DEF p, removed
<1>6. ScaledOut(p, removed) \in Position
    BY <1>1, <1>4, ScaledOutType
<1>7. realized' \in Int
    BY <1>1, <1>5, <1>6, RealizeType
<1> QED
    BY <1>2, <1>5, <1>6, <1>7, ReplacementKeeps

LEMMA DispatchCloseKeeps ==
    ASSUME BInv, NEW id \in DOMAIN positions, DispatchClose(id)
    PROVE  BInv' /\ ClosedKept
<1> DEFINE p == positions[id]
           q == Closed(p, p.mark, MANUAL, CostPerSide(p.curSize))
<1>1. p \in Position /\ realized \in Int
    BY DEF BInv, TypeOK
<1>2. id \in OpenIds
    BY DEF DispatchClose, OpenIds
<1>3. /\ positions' = WithPosition(id, q) /\ realized' = Realize(p, q)
      /\ phase = "idle" /\ UNCHANGED <<hwm, history, orders, loop>>
    BY DEF DispatchClose
<1> HIDE DEF p
<1>4. p.mark \in Int /\ CostPerSide(p.curSize) \in Int
    BY <1>1, ConstantsAssumption DEF CostPerSide, Position
<1>5. q \in Position
    BY <1>1, <1>4, ClosedType
<1> HIDE DEF q
<1>6. realized' \in Int
    BY <1>1, <1>3, <1>5, RealizeType
<1> QED
    BY <1>2, <1>3, <1>5, <1>6, ReplacementKeeps

LEMMA DispatchModifyStopKeeps ==
    ASSUME BInv, NEW id \in DOMAIN positions, NEW tp \in Stops \cup {Unset},
           NEW sl \in Stops \cup {Unset}, DispatchModifyStop(id, tp, sl)
    PROVE  BInv' /\ ClosedKept
<1> DEFINE p == positions[id]
           q == [p EXCEPT !.tp = IF tp = Unset THEN @ ELSE tp,
                          !.sl = IF sl = Unset THEN @ ELSE sl]
<1>1. p \in Position /\ realized \in Int
    BY DEF BInv, TypeOK
<1>2. id \in OpenIds
    BY DEF DispatchModifyStop, OpenIds
<1>3. q \in Position
    BY <1>1, ModifiedStopsType
<1>4. /\ positions' = WithPosition(id, q) /\ realized' = realized
      /\ phase = "idle" /\ UNCHANGED <<hwm, history, orders, loop>>
    BY DEF DispatchModifyStop
<1> HIDE DEF q
<1> QED
    BY <1>1, <1>2, <1>3, <1>4, ReplacementKeeps

LEMMA DispatchCancelKeeps ==
    ASSUME BInv, NEW id \in DOMAIN pendingOpens, DispatchCancel(id)
    PROVE  BInv' /\ ClosedKept
<1> USE DEF BInv
<1>1. /\ DOMAIN pendingOpens' \subseteq DOMAIN pendingOpens
      /\ pendingOpens' \in [DOMAIN pendingOpens' -> OpenOrders]
    BY DEF DispatchCancel, WithoutOrder, TypeOK
<1>2. UNCHANGED <<nextId, pendingScaleIns, positions, realized, history,
                  newFills, barNo, bar, phase, todo, left, sweep>>
      /\ phase = "idle"
    BY DEF DispatchCancel, book, loop
<1>3. OpenIds' = OpenIds /\ ScaleInOrder' = ScaleInOrder /\ Fill' = Fill
    BY <1>2 DEF OpenIds, ScaleInOrder, Fill
<1>4. TypeOK'
    BY <1>1, <1>2, <1>3 DEF TypeOK
<1>5. InventoryBound'
    BY <1>1, <1>3, BoundKept
<1>6. PendingNotYetOpened' /\ OpensStillToVisit' /\ SweepStarted' /\ ActivationNeverDeferred'
    BY <1>1, <1>2 DEF PendingNotYetOpened, OpensStillToVisit, SweepStarted,
                      ActivationNeverDeferred
<1> QED
    BY <1>2, <1>4, <1>5, <1>6 DEF ClosedKept

-----------------------------------------------------------------------------
(* The invariant holds through advance_to.                                 *)

LEMMA AdvanceToKeeps ==
    ASSUME BInv, NEW b \in Bars, AdvanceTo(b)
    PROVE  BInv' /\ ClosedKept
<1> USE DEF BInv
<1>1. UNCHANGED <<nextId, pendingOpens, pendingScaleIns, positions, realized,
                  history, left, sweep>>
      /\ barNo' = barNo + 1 /\ bar' = b /\ newFills' = << >> /\ phase' = "opens"
      /\ barNo < MaxBars
      /\ todo' = IF Cardinality(OpenIds) < InventoryCap THEN DOMAIN pendingOpens ELSE {}
    BY DEF AdvanceTo, orders, book
<1>2. OpenIds' = OpenIds /\ ScaleInOrder' = ScaleInOrder /\ Fill' = Fill
    BY <1>1 DEF OpenIds, ScaleInOrder, Fill
<1>3. barNo' \in 0..MaxBars /\ barNo' > 0
  <2>1. barNo \in 0..MaxBars
    BY DEF TypeOK
  <2> QED
    BY <1>1, <2>1, ConstantsAssumption
<1>4. todo' \subseteq DOMAIN pendingOpens /\ DOMAIN pendingOpens \subseteq 1..(nextId - 1)
    BY <1>1 DEF TypeOK
<1>5. newFills' \in Seq(DOMAIN positions)
    BY <1>1
<1>6. TypeOK'
    BY <1>1, <1>2, <1>3, <1>4, <1>5 DEF TypeOK
<1>7. InventoryBound' /\ PendingNotYetOpened' /\ SweepStarted' /\ ActivationNeverDeferred'
    BY <1>1, <1>2 DEF InventoryBound, PendingNotYetOpened, SweepStarted,
                      ActivationNeverDeferred
<1>8. OpensStillToVisit'
  <2>1. CASE Cardinality(OpenIds) < InventoryCap
    BY <1>1, <2>1 DEF OpensStillToVisit
  <2>2. CASE ~(Cardinality(OpenIds) < InventoryCap)
    <3>1. Cardinality(DOMAIN pendingOpens) = 0
        BY <2>2, FiniteOrders, ConstantsAssumption DEF InventoryBound
    <3>2. DOMAIN pendingOpens = {}
        BY <3>1, FiniteOrders, FS_EmptySet
    <3> QED
        BY <1>1, <2>2, <3>2 DEF OpensStillToVisit
  <2> QED
    BY <2>1, <2>2
<1> QED
    BY <1>1, <1>6, <1>7, <1>8 DEF ClosedKept

(* A pending open finds a free slot, because the bound counts it already.  *)
LEMMA ActivateOpenKeeps ==
    ASSUME BInv, ActivateOpen
    PROVE  BInv' /\ ClosedKept
<1> USE DEF BInv
<1> DEFINE id == Min(todo)
           fills == Cardinality(OpenIds) < InventoryCap /\ FillMinute <= M
<1>1. /\ phase = "opens" /\ todo # {} /\ todo' = todo \ {id}
      /\ IF fills
         THEN /\ positions' = WithPosition(id,
                    OpenAt(pendingOpens[id], bar[FillMinute].close, CloseTime(FillMinute)))
              /\ pendingOpens' = WithoutOrder(id)
         ELSE UNCHANGED <<positions, pendingOpens>>
      /\ UNCHANGED <<nextId, pendingScaleIns, realized, history, newFills,
                      barNo, bar, phase, left, sweep>>
    BY DEF ActivateOpen
<1>2. id \in todo
  <2>1. todo \in SUBSET Nat
    BY DEF TypeOK
  <2> QED
    BY <1>1, <2>1, MinIsMember
<1> HIDE DEF id
<1>3. id \in DOMAIN pendingOpens /\ id \notin DOMAIN positions /\ id \in 1..(nextId - 1)
    BY <1>1, <1>2 DEF OpensStillToVisit, PendingNotYetOpened, TypeOK
<1>4. Cardinality(OpenIds) < InventoryCap
  <2>1. Cardinality(DOMAIN pendingOpens) # 0
    BY <1>3, FiniteOrders, FS_EmptySet
  <2> QED
    BY <2>1, FiniteOrders, ConstantsAssumption DEF InventoryBound
<1>5. CASE FillMinute <= M
  <2> DEFINE p == OpenAt(pendingOpens[id], bar[FillMinute].close, CloseTime(FillMinute))
  <2>1. positions' = WithPosition(id, p) /\ pendingOpens' = WithoutOrder(id)
    BY <1>1, <1>4, <1>5
  <2>2. FillMinute \in 1..M
    BY <1>5, ConstantsAssumption DEF FillMinute
  <2>3. bar[FillMinute].close \in Int
    <3>1. bar \in Bars
        BY <1>1 DEF TypeOK
    <3> QED
        BY <2>2, <3>1, BarType
  <2>4. CloseTime(FillMinute) \in Nat
    BY <1>1, <2>2, CloseTimeType DEF TypeOK
  <2>5. pendingOpens[id] \in OpenOrders
    BY <1>3 DEF TypeOK
  <2>6. p \in Position /\ ~p.closed
    BY <2>3, <2>4, <2>5, OpenAtType
  <2> HIDE DEF p
  <2>7. /\ positions' \in [DOMAIN positions' -> Position]
        /\ DOMAIN positions' = DOMAIN positions \cup {id}
        /\ positions'[id] = p
        /\ \A i \in DOMAIN positions : positions'[i] = positions[i]
    <3>1. positions \in [DOMAIN positions -> Position]
        BY DEF TypeOK
    <3>2. DOMAIN positions \ {id} = DOMAIN positions
        BY <1>3
    <3>3. /\ WithPosition(id, p) \in [DOMAIN positions \cup {id} -> Position]
          /\ DOMAIN WithPosition(id, p) = DOMAIN positions \cup {id}
          /\ WithPosition(id, p)[id] = p
          /\ \A i \in DOMAIN positions \ {id} :
                WithPosition(id, p)[i] = positions[i]
        BY <2>6, <3>1, WithPositionType
    <3> QED
        BY <2>1, <3>2, <3>3
  <2>8. /\ DOMAIN pendingOpens' = DOMAIN pendingOpens \ {id}
        /\ pendingOpens' \in [DOMAIN pendingOpens' -> OpenOrders]
    BY <2>1 DEF WithoutOrder, TypeOK
  <2>9. OpenIds' = OpenIds \cup {id} /\ id \notin OpenIds
    BY <1>3, <2>6, <2>7 DEF OpenIds
  <2>10. InventoryBound'
    <3>1. Cardinality(OpenIds') = Cardinality(OpenIds) + 1
        BY <2>9, FiniteOrders, FS_AddElement
    <3>2. Cardinality(DOMAIN pendingOpens') = Cardinality(DOMAIN pendingOpens) - 1
        BY <1>3, <2>8, FiniteOrders, FS_RemoveElement
    <3> QED
        BY <3>1, <3>2, FiniteOrders, ConstantsAssumption DEF InventoryBound
  <2>11. /\ pendingScaleIns' \in Seq(ScaleInOrder') /\ history' \in Seq(Fill')
         /\ newFills' \in Seq(DOMAIN positions')
    <3>1. ScaleInOrder \subseteq ScaleInOrder' /\ Fill \subseteq Fill'
          /\ DOMAIN positions \subseteq DOMAIN positions'
        BY <2>7 DEF ScaleInOrder, Fill
    <3>2. /\ pendingScaleIns' \in Seq(ScaleInOrder) /\ history' \in Seq(Fill)
          /\ newFills' \in Seq(DOMAIN positions)
        BY <1>1 DEF TypeOK
    <3> QED
        BY <3>1, <3>2, SeqOfLarger
  <2>12. TypeOK'
    BY <1>1, <1>3, <2>7, <2>8, <2>11 DEF TypeOK
  <2>13. PendingNotYetOpened' /\ OpensStillToVisit'
    BY <1>1, <1>3, <2>7, <2>8 DEF PendingNotYetOpened, OpensStillToVisit
  <2>14. SweepStarted' /\ ActivationNeverDeferred'
    BY <1>1 DEF SweepStarted, ActivationNeverDeferred
  <2> QED
    BY <2>7, <2>10, <2>12, <2>13, <2>14 DEF ClosedKept
<1>6. CASE ~(FillMinute <= M)
  <2>1. UNCHANGED <<positions, pendingOpens>>
    BY <1>1, <1>6
  <2>2. OpenIds' = OpenIds /\ ScaleInOrder' = ScaleInOrder /\ Fill' = Fill
    BY <2>1 DEF OpenIds, ScaleInOrder, Fill
  <2>3. TypeOK'
    BY <1>1, <2>1, <2>2 DEF TypeOK
  <2>4. OpensStillToVisit'
    BY <1>1, <1>6, <2>1 DEF OpensStillToVisit, FillMinute
  <2>5. InventoryBound' /\ PendingNotYetOpened' /\ SweepStarted' /\ ActivationNeverDeferred'
    BY <1>1, <2>1, <2>2 DEF InventoryBound, PendingNotYetOpened, SweepStarted,
                            ActivationNeverDeferred
  <2> QED
    BY <2>1, <2>3, <2>4, <2>5 DEF ClosedKept
<1> QED
    BY <1>5, <1>6

LEMMA OpensActivatedKeeps ==
    ASSUME BInv, OpensActivated
    PROVE  BInv' /\ ClosedKept
<1> USE DEF BInv
<1>1. /\ phase = "opens" /\ todo = {} /\ phase' = "scaleins"
      /\ left' = Len(pendingScaleIns)
      /\ UNCHANGED <<nextId, pendingOpens, pendingScaleIns, positions, realized,
                      history, newFills, barNo, bar, todo, sweep>>
    BY DEF OpensActivated, orders, book
<1>2. OpenIds' = OpenIds /\ ScaleInOrder' = ScaleInOrder /\ Fill' = Fill
    BY <1>1 DEF OpenIds, ScaleInOrder, Fill
<1>3. left' \in 0..Len(pendingScaleIns')
  <2>1. Len(pendingScaleIns) \in Nat
    BY DEF TypeOK
  <2> QED
    BY <1>1, <2>1
<1>4. TypeOK'
    BY <1>1, <1>2, <1>3 DEF TypeOK
<1>5. ActivationNeverDeferred'
    BY <1>1 DEF ActivationNeverDeferred, OpensStillToVisit, FillMinute
<1>6. InventoryBound' /\ PendingNotYetOpened' /\ OpensStillToVisit' /\ SweepStarted'
    BY <1>1, <1>2 DEF InventoryBound, PendingNotYetOpened, OpensStillToVisit, SweepStarted
<1> QED
    BY <1>1, <1>4, <1>5, <1>6 DEF ClosedKept

(* The steps after the pending opens: nothing opens any more. *)
LEMMA LaterPhaseKeeps ==
    ASSUME BInv, phase \in {"scaleins", "walk", "sweep"},
           phase' \in {"scaleins", "walk", "sweep", "idle"},
           UNCHANGED <<nextId, pendingOpens, barNo, bar>>,
           DOMAIN positions' = DOMAIN positions,
           positions' \in [DOMAIN positions' -> Position],
           OpenIds' \subseteq OpenIds,
           realized' \in Int,
           pendingScaleIns' \in Seq(ScaleInOrder),
           left' \in 0..Len(pendingScaleIns'),
           history' \in Seq(Fill), newFills' \in Seq(DOMAIN positions),
           todo' \subseteq 1..(nextId - 1),
           sweep' \in [price : Int, minute : 0..M, count : Nat],
           SweepStarted'
    PROVE  BInv'
<1> USE DEF BInv
<1>1. ScaleInOrder' = ScaleInOrder /\ Fill' = Fill
    BY DEF ScaleInOrder, Fill
<1>2. TypeOK'
    BY <1>1 DEF TypeOK
<1>3. InventoryBound'
    BY BoundKept
<1>4. ActivationNeverDeferred'
    BY DEF ActivationNeverDeferred, FillMinute
<1>5. PendingNotYetOpened' /\ OpensStillToVisit'
    BY DEF PendingNotYetOpened, OpensStillToVisit
<1> QED
    BY <1>2, <1>3, <1>4, <1>5

LEMMA ActivateScaleInKeeps ==
    ASSUME BInv, ActivateScaleIn
    PROVE  BInv' /\ ClosedKept
<1> USE DEF BInv
<1> DEFINE s == Head(pendingScaleIns)
           id == s.target
           p == positions[id]
           added == (s.size[1] * p.openSize) \div s.size[2]
           grown(mean) == [p EXCEPT !.openSize = @ + added, !.curSize = @ + added,
                                    !.entry = mean]
<1>1. /\ phase = "scaleins" /\ left > 0 /\ left' = left - 1
      /\ UNCHANGED <<nextId, pendingOpens, realized, history, newFills,
                      barNo, bar, phase, todo, sweep>>
    BY DEF ActivateScaleIn
<1>2. pendingScaleIns \in Seq(ScaleInOrder) /\ pendingScaleIns # << >>
      /\ left' \in 0..(Len(pendingScaleIns) - 1) /\ Len(pendingScaleIns) \in Nat \ {0}
  <2>1. left \in 0..Len(pendingScaleIns) /\ pendingScaleIns \in Seq(ScaleInOrder)
    BY DEF TypeOK
  <2> QED
    BY <1>1, <2>1
<1>3. s \in ScaleInOrder /\ id \in DOMAIN positions
  <2>1. s \in ScaleInOrder
    BY <1>2
  <2> HIDE DEF s
  <2> QED
    BY <2>1 DEF ScaleInOrder
<1>4. p \in Position
    BY <1>3 DEF TypeOK
<1>5. Tail(pendingScaleIns) \in Seq(ScaleInOrder)
      /\ Len(Tail(pendingScaleIns)) = Len(pendingScaleIns) - 1
    BY <1>2
<1>6. realized \in Int /\ history \in Seq(Fill) /\ newFills \in Seq(DOMAIN positions)
      /\ todo \subseteq 1..(nextId - 1)
      /\ sweep \in [price : Int, minute : 0..M, count : Nat]
      /\ positions \in [DOMAIN positions -> Position]
    BY DEF TypeOK
<1>7. \/ /\ pendingScaleIns' = Tail(pendingScaleIns) \/ pendingScaleIns' = Append(Tail(pendingScaleIns), s)
         /\ UNCHANGED positions
      \/ /\ ~p.closed /\ FillMinute <= M
         /\ pendingScaleIns' = Tail(pendingScaleIns)
         /\ \E mean \in Min({p.entry, bar[FillMinute].close})..Max({p.entry, bar[FillMinute].close}) :
                positions' = WithPosition(id, grown(mean))
    BY DEF ActivateScaleIn
<1>8. left' \in 0..Len(pendingScaleIns') /\ pendingScaleIns' \in Seq(ScaleInOrder)
  <2> HIDE DEF s
  <2>1. Append(Tail(pendingScaleIns), s) \in Seq(ScaleInOrder)
        /\ Len(Append(Tail(pendingScaleIns), s)) = Len(pendingScaleIns)
    BY <1>2, <1>3, <1>5
  <2>2. pendingScaleIns' \in {Tail(pendingScaleIns), Append(Tail(pendingScaleIns), s)}
    BY <1>7
  <2> QED
    BY <1>2, <1>5, <2>1, <2>2
<1>9. CASE UNCHANGED positions
  <2>1. OpenIds' = OpenIds /\ ClosedKept
    BY <1>9 DEF OpenIds, ClosedKept
  <2>2. SweepStarted'
    BY <1>1 DEF SweepStarted
  <2>3. BInv'
    BY <1>1, <1>6, <1>8, <1>9, <2>1, <2>2, LaterPhaseKeeps
  <2> QED
    BY <2>1, <2>3
<1>10. ASSUME ~p.closed, FillMinute <= M,
              NEW mean \in Min({p.entry, bar[FillMinute].close})..Max({p.entry, bar[FillMinute].close}),
              positions' = WithPosition(id, grown(mean))
       PROVE  BInv' /\ ClosedKept
  <2>1. id \in OpenIds
    BY <1>3, <1>10 DEF OpenIds
  <2>2. added \in Nat
    <3>1. s.size \in Fractions
        BY <1>3 DEF ScaleInOrder
    <3>2. s.size[1] \in Nat /\ s.size[2] \in Nat \ {0} /\ s.size[1] <= s.size[2]
        BY <3>1, ConstantsAssumption
    <3>3. p.openSize \in Nat
        BY <1>4 DEF Position
    <3> HIDE DEF p, s
    <3>4. (p.openSize * s.size[1]) \div s.size[2] \in 0..p.openSize
        BY <3>2, <3>3, FractionBound
    <3>5. p.openSize * s.size[1] = s.size[1] * p.openSize
        BY <3>2, <3>3
    <3> QED
        BY <3>3, <3>4, <3>5
  <2>3. mean \in Int
    OBVIOUS
  <2> HIDE DEF p, added
  <2>4. grown(mean) \in Position
    BY <1>4, <2>2, <2>3, ScaledInType
  <2> HIDE DEF grown, id
  <2>5. /\ DOMAIN positions' = DOMAIN positions
        /\ positions' \in [DOMAIN positions' -> Position]
        /\ OpenIds' \subseteq OpenIds
        /\ ClosedKept
    BY <1>10, <2>1, <2>4, OnePositionReplaced
  <2>6. BInv'
    <3>1. phase' \in {"scaleins", "walk", "sweep", "idle"}
          /\ SweepStarted'
        BY <1>1 DEF SweepStarted
    <3>2. /\ realized' \in Int /\ history' \in Seq(Fill)
          /\ newFills' \in Seq(DOMAIN positions) /\ todo' \subseteq 1..(nextId - 1)
          /\ sweep' \in [price : Int, minute : 0..M, count : Nat]
        BY <1>1, <1>6
    <3>3. /\ phase \in {"scaleins", "walk", "sweep"}
          /\ UNCHANGED <<nextId, pendingOpens, barNo, bar>>
        BY <1>1
    <3> QED
        BY <1>8, <2>5, <3>1, <3>2, <3>3, LaterPhaseKeeps
  <2> QED
    BY <2>5, <2>6
<1> QED
    BY <1>7, <1>9, <1>10

LEMMA ScaleInsActivatedKeeps ==
    ASSUME BInv, ScaleInsActivated
    PROVE  BInv' /\ ClosedKept
<1> USE DEF BInv
<1>1. /\ phase = "scaleins" /\ phase' = "walk" /\ todo' = DOMAIN positions
      /\ UNCHANGED <<nextId, pendingOpens, pendingScaleIns, positions, realized,
                      history, newFills, barNo, bar, left, sweep>>
    BY DEF ScaleInsActivated, orders, book
<1>2. OpenIds' = OpenIds /\ ClosedKept
    BY <1>1 DEF OpenIds, ClosedKept
<1>3. SweepStarted'
    BY <1>1 DEF SweepStarted
<1>4. BInv'
    BY <1>1, <1>2, <1>3, LaterPhaseKeeps DEF TypeOK
<1> QED
    BY <1>2, <1>4

(* The walk: its visits close or mark one open position.  *)
LEMMA VisitedIsOpen ==
    ASSUME TypeOK, Walking
    PROVE  Visited \in OpenIds /\ positions[Visited] \in Position
           /\ phase = "walk" /\ bar \in Bars
<1>1. todo \cap OpenIds \in SUBSET Nat /\ todo \cap OpenIds # {} /\ phase = "walk"
    BY DEF Walking, TypeOK
<1>2. Visited \in OpenIds
    BY <1>1, MinIsMember DEF Visited
<1>3. Visited \in DOMAIN positions
    BY <1>2 DEF OpenIds
<1>4. positions[Visited] \in Position /\ bar \in Bars
    BY <1>1, <1>3 DEF TypeOK
<1> QED
    BY <1>1, <1>2, <1>4

LEMMA TouchBarrierKeeps ==
    ASSUME BInv, TouchBarrier
    PROVE  BInv' /\ ClosedKept
<1> USE DEF BInv
<1> DEFINE id == Visited
           p == positions[id]
           j == Min(TouchMinutes(p))
           reason == TouchReason(p, bar[j])
           price == BarrierPrice(p, reason)
<1>1. /\ Walking /\ TouchMinutes(p) # {} /\ BarrierClose(id, j, reason, price)
      /\ newFills' = Append(newFills, id) /\ todo' = todo \ {id}
      /\ \/ phase' = "sweep" /\ sweep' = [price |-> price, minute |-> j, count |-> 0]
         \/ UNCHANGED <<phase, sweep>>
      /\ UNCHANGED <<nextId, pendingOpens, pendingScaleIns, barNo, bar, left>>
    BY DEF TouchBarrier, orders
<1>2. id \in OpenIds /\ p \in Position /\ phase = "walk" /\ bar \in Bars
    BY <1>1, VisitedIsOpen
<1>3. j \in 1..M /\ reason \in {TP, SL} /\ price \in Int
    BY <1>1, <1>2, TouchType
<1> HIDE DEF id, p, j, reason, price
<1>4. /\ DOMAIN positions' = DOMAIN positions
      /\ positions' \in [DOMAIN positions' -> Position]
      /\ OpenIds' \subseteq OpenIds /\ Fill' = Fill /\ ClosedKept
      /\ realized' \in Int /\ history' \in Seq(Fill') /\ history' # << >>
    BY <1>1, <1>2, <1>3, BarrierCloseKeeps
<1>5. newFills' \in Seq(DOMAIN positions) /\ todo' \subseteq 1..(nextId - 1)
      /\ pendingScaleIns' \in Seq(ScaleInOrder) /\ left' \in 0..Len(pendingScaleIns')
  <2>1. id \in DOMAIN positions
    BY <1>2 DEF OpenIds
  <2> QED
    BY <1>1, <2>1 DEF TypeOK
<1>6. sweep' \in [price : Int, minute : 0..M, count : Nat]
      /\ phase' \in {"scaleins", "walk", "sweep", "idle"}
      /\ SweepStarted'
  <2>1. sweep \in [price : Int, minute : 0..M, count : Nat] /\ j \in 0..M
    BY <1>3 DEF TypeOK
  <2>2. CASE phase' = "sweep" /\ sweep' = [price |-> price, minute |-> j, count |-> 0]
    BY <1>3, <1>4, <2>1, <2>2 DEF SweepStarted
  <2>3. CASE UNCHANGED <<phase, sweep>>
    BY <1>2, <1>4, <2>1, <2>3 DEF SweepStarted
  <2> QED
    BY <1>1, <2>2, <2>3
<1>7. BInv'
    BY <1>1, <1>2, <1>4, <1>5, <1>6, LaterPhaseKeeps
<1> QED
    BY <1>4, <1>7

LEMMA SweepWinnerKeeps ==
    ASSUME BInv, SweepWinner
    PROVE  BInv' /\ ClosedKept
<1> USE DEF BInv
<1> DEFINE id == Min(Winners(sweep.price))
<1>1. /\ phase = "sweep" /\ Winners(sweep.price) # {}
      /\ BarrierClose(id, sweep.minute, BATCHED_WINNER, sweep.price)
      /\ sweep' = [sweep EXCEPT !.count = @ + 1]
      /\ UNCHANGED <<nextId, pendingOpens, pendingScaleIns, newFills, barNo,
                      bar, phase, todo, left>>
    BY DEF SweepWinner, orders
<1>2. id \in OpenIds
  <2>1. Winners(sweep.price) \in SUBSET Nat /\ Winners(sweep.price) \subseteq OpenIds
    BY DEF Winners, OpenIds, TypeOK
  <2> QED
    BY <1>1, <2>1, MinIsMember
<1> HIDE DEF id
<1>3. sweep \in [price : Int, minute : 0..M, count : Nat]
    BY DEF TypeOK
<1>4. sweep.minute \in 1..M
    BY <1>1, <1>3 DEF SweepStarted
<1>5. /\ DOMAIN positions' = DOMAIN positions
      /\ positions' \in [DOMAIN positions' -> Position]
      /\ OpenIds' \subseteq OpenIds /\ Fill' = Fill /\ ClosedKept
      /\ realized' \in Int /\ history' \in Seq(Fill') /\ history' # << >>
    BY <1>1, <1>2, <1>3, <1>4, BarrierCloseKeeps
<1>6. sweep' \in [price : Int, minute : 0..M, count : Nat] /\ SweepStarted'
    BY <1>1, <1>3, <1>4, <1>5 DEF SweepStarted
<1>7. newFills' \in Seq(DOMAIN positions) /\ todo' \subseteq 1..(nextId - 1)
      /\ pendingScaleIns' \in Seq(ScaleInOrder) /\ left' \in 0..Len(pendingScaleIns')
    BY <1>1 DEF TypeOK
<1>8. BInv'
    BY <1>1, <1>5, <1>6, <1>7, LaterPhaseKeeps
<1> QED
    BY <1>5, <1>8

LEMMA SweepDoneKeeps ==
    ASSUME BInv, SweepDone
    PROVE  BInv' /\ ClosedKept
<1> USE DEF BInv
<1> DEFINE swept == [k \in 1..sweep.count |-> history[Len(history)].id]
<1>1. /\ phase = "sweep" /\ phase' = "walk" /\ sweep' = NoSweep
      /\ newFills' = newFills \o swept
      /\ UNCHANGED <<nextId, pendingOpens, pendingScaleIns, positions, realized,
                      history, barNo, bar, todo, left>>
    BY DEF SweepDone, orders, book
<1>2. sweep.count \in Nat /\ newFills \in Seq(DOMAIN positions) /\ history \in Seq(Fill)
    BY DEF TypeOK
<1>3. swept \in Seq(DOMAIN positions)
  <2>1. \A k \in 1..sweep.count : history[Len(history)].id \in DOMAIN positions
    <3>1. SUFFICES ASSUME sweep.count > 0
                   PROVE  history[Len(history)].id \in DOMAIN positions
        BY <1>2
    <3>2. history # << >>
        BY <3>1 DEF SweepStarted
    <3>3. history[Len(history)] \in Fill
        BY <1>2, <3>2
    <3> QED
        BY <3>3 DEF Fill
  <2> QED
    BY <1>2, <2>1
<1> HIDE DEF swept
<1>4. newFills' \in Seq(DOMAIN positions)
    BY <1>1, <1>2, <1>3
<1>5. sweep' \in [price : Int, minute : 0..M, count : Nat] /\ SweepStarted'
    BY <1>1, ConstantsAssumption DEF NoSweep, SweepStarted
<1>6. OpenIds' = OpenIds /\ ClosedKept
    BY <1>1 DEF OpenIds, ClosedKept
<1>7. BInv'
    BY <1>1, <1>4, <1>5, <1>6, LaterPhaseKeeps DEF TypeOK
<1> QED
    BY <1>6, <1>7

LEMMA CapHoldAgeKeeps ==
    ASSUME BInv, CapHoldAge
    PROVE  BInv' /\ ClosedKept
<1> USE DEF BInv
<1> DEFINE id == Visited
<1>1. /\ Walking /\ BarrierClose(id, M, SAFETY_CAP, bar[M].close)
      /\ newFills' = Append(newFills, id) /\ todo' = todo \ {id}
      /\ UNCHANGED <<nextId, pendingOpens, pendingScaleIns, barNo, bar, phase, left, sweep>>
    BY DEF CapHoldAge, orders
<1>2. id \in OpenIds /\ phase = "walk" /\ bar \in Bars
    BY <1>1, VisitedIsOpen
<1>3. M \in 1..M /\ bar[M].close \in Int
  <2>1. M \in 1..M
    BY ConstantsAssumption
  <2> QED
    BY <1>2, <2>1, BarType
<1> HIDE DEF id
<1>4. /\ DOMAIN positions' = DOMAIN positions
      /\ positions' \in [DOMAIN positions' -> Position]
      /\ OpenIds' \subseteq OpenIds /\ Fill' = Fill /\ ClosedKept
      /\ realized' \in Int /\ history' \in Seq(Fill') /\ history' # << >>
    BY <1>1, <1>2, <1>3, BarrierCloseKeeps
<1>5. newFills' \in Seq(DOMAIN positions) /\ todo' \subseteq 1..(nextId - 1)
      /\ pendingScaleIns' \in Seq(ScaleInOrder) /\ left' \in 0..Len(pendingScaleIns')
      /\ sweep' \in [price : Int, minute : 0..M, count : Nat]
  <2>1. id \in DOMAIN positions
    BY <1>2 DEF OpenIds
  <2> QED
    BY <1>1, <2>1 DEF TypeOK
<1>6. SweepStarted'
    BY <1>1, <1>4 DEF SweepStarted
<1>7. BInv'
    BY <1>1, <1>2, <1>4, <1>5, <1>6, LaterPhaseKeeps
<1> QED
    BY <1>4, <1>7

LEMMA MarkPositionKeeps ==
    ASSUME BInv, MarkPosition
    PROVE  BInv' /\ ClosedKept
<1> USE DEF BInv
<1> DEFINE id == Visited
           q == Marked(positions[id], bar[M].close)
<1>1. /\ Walking /\ positions' = WithPosition(id, q) /\ todo' = todo \ {id}
      /\ UNCHANGED <<nextId, pendingOpens, pendingScaleIns, realized, history,
                      newFills, barNo, bar, phase, left, sweep>>
    BY DEF MarkPosition, orders
<1>2. id \in OpenIds /\ phase = "walk" /\ bar \in Bars /\ positions[id] \in Position
    BY <1>1, VisitedIsOpen
<1>3. bar[M].close \in Int
  <2>1. M \in 1..M
    BY ConstantsAssumption
  <2> QED
    BY <1>2, <2>1, BarType
<1>4. q \in Position
    BY <1>2, <1>3, MarkedType
<1> HIDE DEF id, q
<1>5. /\ DOMAIN positions' = DOMAIN positions
      /\ positions' \in [DOMAIN positions' -> Position]
      /\ OpenIds' \subseteq OpenIds /\ ClosedKept
    BY <1>1, <1>2, <1>4, OnePositionReplaced
<1>6. SweepStarted'
    BY <1>1 DEF SweepStarted
<1>7. /\ newFills' \in Seq(DOMAIN positions) /\ todo' \subseteq 1..(nextId - 1)
      /\ pendingScaleIns' \in Seq(ScaleInOrder) /\ left' \in 0..Len(pendingScaleIns')
      /\ sweep' \in [price : Int, minute : 0..M, count : Nat]
      /\ realized' \in Int /\ history' \in Seq(Fill)
    BY <1>1 DEF TypeOK
<1>8. BInv'
    BY <1>1, <1>2, <1>5, <1>6, <1>7, LaterPhaseKeeps
<1> QED
    BY <1>5, <1>8

(* Portfolio.with_mark marks every position, and closed ones not at all. *)
LEMMA MarkPortfolioKeeps ==
    ASSUME BInv, MarkPortfolio
    PROVE  BInv' /\ ClosedKept
<1> USE DEF BInv
<1>1. /\ phase = "walk" /\ phase' = "idle" /\ todo' = {}
      /\ positions' = [i \in DOMAIN positions |-> Marked(positions[i], bar[M].close)]
      /\ UNCHANGED <<nextId, pendingOpens, pendingScaleIns, realized, history,
                      newFills, barNo, left, sweep>>
    BY DEF MarkPortfolio, orders
<1>2. bar[M].close \in Int
  <2>1. M \in 1..M
    BY ConstantsAssumption
  <2> QED
    BY <1>1, <2>1, BarType DEF TypeOK
<1>3. \A i \in DOMAIN positions :
            /\ positions[i] \in Position /\ positions'[i] \in Position
            /\ positions'[i].closed = positions[i].closed
            /\ positions[i].closed => positions'[i] = positions[i]
    BY <1>1, <1>2, MarkedType DEF TypeOK
<1>4. DOMAIN positions' = DOMAIN positions /\ positions' \in [DOMAIN positions' -> Position]
    BY <1>1, <1>3
<1>5. OpenIds' \subseteq OpenIds /\ ClosedKept
    BY <1>3, <1>4 DEF OpenIds, ClosedKept
<1>6. ScaleInOrder' = ScaleInOrder /\ Fill' = Fill
    BY <1>4 DEF ScaleInOrder, Fill
<1>7. TypeOK'
    BY <1>1, <1>4, <1>6 DEF TypeOK
<1>8. InventoryBound'
    BY <1>1, <1>5, BoundKept
<1>9. PendingNotYetOpened' /\ OpensStillToVisit' /\ SweepStarted' /\ ActivationNeverDeferred'
    BY <1>1, <1>4 DEF PendingNotYetOpened, OpensStillToVisit, SweepStarted,
                      ActivationNeverDeferred
<1> QED
    BY <1>5, <1>7, <1>8, <1>9

-----------------------------------------------------------------------------
(* Every step keeps the invariant and leaves closed positions alone.       *)
LEMMA StepKeeps ==
    ASSUME BInv, [Next]_vars
    PROVE  BInv' /\ ClosedKept
<1>1. CASE Dispatch
  <2>1. ASSUME NEW o \in OpenOrders, DispatchOpen(o) PROVE BInv' /\ ClosedKept
    BY <2>1, DispatchOpenKeeps
  <2>2. ASSUME NEW id \in DOMAIN positions, NEW f \in Fractions, DispatchScaleIn(id, f)
        PROVE  BInv' /\ ClosedKept
    BY <2>2, DispatchScaleInKeeps
  <2>3. ASSUME NEW id \in DOMAIN positions, NEW f \in Fractions, DispatchScaleOut(id, f)
        PROVE  BInv' /\ ClosedKept
    BY <2>3, DispatchScaleOutKeeps
  <2>4. ASSUME NEW id \in DOMAIN positions, DispatchClose(id) PROVE BInv' /\ ClosedKept
    BY <2>4, DispatchCloseKeeps
  <2>5. ASSUME NEW id \in DOMAIN positions, NEW tp \in Stops \cup {Unset},
               NEW sl \in Stops \cup {Unset}, DispatchModifyStop(id, tp, sl)
        PROVE  BInv' /\ ClosedKept
    BY <2>5, DispatchModifyStopKeeps
  <2>6. ASSUME NEW id \in DOMAIN pendingOpens, DispatchCancel(id)
        PROVE  BInv' /\ ClosedKept
    BY <2>6, DispatchCancelKeeps
  <2> QED
    BY <1>1, <2>1, <2>2, <2>3, <2>4, <2>5, <2>6 DEF Dispatch
<1>2. CASE Advance
  <2>1. ASSUME NEW b \in Bars, AdvanceTo(b) PROVE BInv' /\ ClosedKept
    BY <2>1, AdvanceToKeeps
  <2> QED
    BY <1>2, <2>1, ActivateOpenKeeps, OpensActivatedKeeps, ActivateScaleInKeeps,
       ScaleInsActivatedKeeps, TouchBarrierKeeps, SweepWinnerKeeps, SweepDoneKeeps,
       CapHoldAgeKeeps, MarkPositionKeeps, MarkPortfolioKeeps DEF Advance
<1>3. CASE UNCHANGED vars
  <2>1. OpenIds' = OpenIds /\ ScaleInOrder' = ScaleInOrder /\ Fill' = Fill
    BY <1>3 DEF vars, OpenIds, ScaleInOrder, Fill
  <2>2. TypeOK'
    BY <1>3, <2>1 DEF BInv, TypeOK, vars
  <2>3. /\ InventoryBound' /\ PendingNotYetOpened' /\ OpensStillToVisit'
        /\ SweepStarted' /\ ActivationNeverDeferred'
    BY <1>3, <2>1 DEF BInv, vars, InventoryBound, PendingNotYetOpened, OpensStillToVisit,
                      SweepStarted, ActivationNeverDeferred, FillMinute
  <2> QED
    BY <1>3, <2>2, <2>3 DEF BInv, ClosedKept, vars
<1> QED
    BY <1>1, <1>2, <1>3 DEF Next

LEMMA Invariance == Spec => []BInv
<1>1. BInv /\ [Next]_vars => BInv'
    BY StepKeeps
<1> QED
    BY <1>1, InitInvariant, PTL DEF Spec

(* Every reachable state of the broker has the shape TypeOK gives it. *)
THEOREM TypeCorrect == Spec => []TypeOK
<1>1. BInv => TypeOK
    BY DEF BInv
<1> QED
    BY <1>1, Invariance, PTL

(* However submissions, cancels, fills, closes and sweeps interleave, what *)
(* is open and what is pending never exceed inventory_cap together.        *)
THEOREM InventoryNeverExceeded == Spec => []InventoryBound
<1>1. BInv => InventoryBound
    BY DEF BInv
<1> QED
    BY <1>1, Invariance, PTL

(* An order id is never both pending and in the portfolio. *)
THEOREM OrderInOnePlace == Spec => []PendingNotYetOpened
<1>1. BInv => PendingNotYetOpened
    BY DEF BInv
<1> QED
    BY <1>1, Invariance, PTL

(* Step A never leaves an order pending for want of room: the branches     *)
(* that would are unreachable when the fill minute is in the bar.          *)
THEOREM NoOpenDeferred == Spec => []ActivationNeverDeferred
<1>1. BInv => ActivationNeverDeferred
    BY DEF BInv
<1> QED
    BY <1>1, Invariance, PTL

(* No step of the broker changes or forgets a position once it is closed.  *)
THEOREM ClosedPositionsFinal == Spec => ClosedIsFinal
<1>1. BInv /\ [Next]_vars =>
        [\A i \in DOMAIN positions :
            /\ i \in DOMAIN positions'
            /\ positions[i].closed => positions'[i] = positions[i]]_vars
    BY StepKeeps DEF ClosedKept
<1> QED
    BY <1>1, Invariance, PTL DEF Spec, ClosedIsFinal

-----------------------------------------------------------------------------
(* The ledger.  A step changes the portfolio in one of four ways           *)
(* (PortfolioStep): it closes an open position and adds a fill, it         *)
(* replaces one by hand, it fills an order, or it amends what is open.     *)
(* Each part of the invariant is kept by each of the four.                 *)

-----------------------------------------------------------------------------
(* Sums over finite sets.  The library states no fact about a fold that a  *)
(* prover can instantiate, so that the sum of the positions' PnL unfolds,  *)
(* and in any order, is proved here, each time from the smallest set that  *)
(* would be a counterexample.                                              *)

(* Of finite sets that are not as they should be, one is the smallest. *)
LEMMA SmallestOne ==
    ASSUME NEW Bad, Bad # {}, \A s \in Bad : IsFiniteSet(s)
    PROVE  \E s \in Bad : \A t \in Bad : Cardinality(s) <= Cardinality(t)
<1> DEFINE sizes == {Cardinality(s) : s \in Bad}
<1>1. sizes \in SUBSET Nat /\ sizes # {}
    BY FS_CardinalityType
<1>2. Min(sizes) \in sizes /\ \A n \in sizes : Min(sizes) <= n
    <2> HIDE DEF sizes
    <2> QED BY <1>1, MinIsMember
<1>3. PICK s \in Bad : Cardinality(s) = Min(sizes)
    BY <1>2
<1> QED
    BY <1>2, <1>3

Pick(s) == CHOOSE x \in s : TRUE
RealizedOf(ps, S) == MapThenSumSet(LAMBDA i : ps[i].realized, S)

IsSum(g, ps, D) ==
    g = [s \in D |-> IF s = {} THEN 0 ELSE ps[Pick(s)].realized + g[s \ {Pick(s)}]]

LEMMA PickTaken ==
    ASSUME NEW s, IsFiniteSet(s), s # {}
    PROVE  /\ Pick(s) \in s
           /\ IsFiniteSet(s \ {Pick(s)})
           /\ Cardinality(s \ {Pick(s)}) = Cardinality(s) - 1
           /\ Cardinality(s) \in Nat /\ Cardinality(s \ {Pick(s)}) \in Nat
<1>1. Pick(s) \in s
    BY DEF Pick
<1> QED
    BY <1>1, FS_RemoveElement, FS_CardinalityType

LEMMA SumExists ==
    ASSUME NEW ps, NEW S, IsFiniteSet(S)
    PROVE  \E g : IsSum(g, ps, SUBSET S)
<1> DEFINE Upto(n) == {s \in SUBSET S : Cardinality(s) <= n}
           Bad == {n \in Nat : ~ \E g : IsSum(g, ps, Upto(n))}
<1>1. \A s \in SUBSET S : IsFiniteSet(s) /\ Cardinality(s) \in Nat /\ Cardinality(s) <= Cardinality(S)
    BY FS_Subset, FS_CardinalityType
<1>2. Upto(Cardinality(S)) = SUBSET S /\ Cardinality(S) \in Nat
    BY <1>1
<1>3. Bad = {}
  <2>1. SUFFICES ASSUME Bad # {} PROVE FALSE
    OBVIOUS
  <2> DEFINE m == Min(Bad)
  <2>2. m \in Bad /\ \A n \in Bad : m <= n
    <3>1. Bad \in SUBSET Nat
        OBVIOUS
    <3> HIDE DEF Bad
    <3> QED BY <2>1, <3>1, MinIsMember
  <2> HIDE DEF m
  <2>3. m \in Nat
    BY <2>2
  <2>4. CASE m = 0
    <3> DEFINE g == [s \in Upto(0) |-> 0]
    <3>1. \A s \in Upto(0) : s = {}
      <4>1. TAKE s \in Upto(0)
      <4>2. IsFiniteSet(s) /\ Cardinality(s) = 0
        BY <1>1
      <4> QED BY <4>2, FS_EmptySet
    <3>2. IsSum(g, ps, Upto(0))
      BY <3>1, Zenon DEF IsSum
    <3>3. \E k : IsSum(k, ps, Upto(0))
      BY <3>2, Zenon
    <3>4. \E k : IsSum(k, ps, Upto(m))
      BY <2>4, <3>3
    <3> QED BY <2>2, <3>4
  <2>5. CASE m # 0
    <3>1. m - 1 \in Nat /\ m - 1 \notin Bad
      <4>1. m - 1 \in Nat /\ ~(m <= m - 1)
        BY <2>3, <2>5
      <4> HIDE DEF Bad
      <4> QED BY <2>2, <4>1
    <3>2. PICK g : IsSum(g, ps, Upto(m - 1))
      BY <3>1
    <3> DEFINE h == [s \in Upto(m) |-> IF s = {} THEN 0
                        ELSE ps[Pick(s)].realized + g[s \ {Pick(s)}]]
    <3>3. \A s \in Upto(m - 1) : s \in Upto(m) /\ h[s] = g[s]
      <4>1. Upto(m-1) \subseteq Upto(m)
        BY <1>1, <2>3
      <4>2. \A s \in Upto(m - 1) : g[s] = IF s = {} THEN 0
                        ELSE ps[Pick(s)].realized + g[s \ {Pick(s)}]
        <5> HIDE DEF Upto
        <5> QED BY <3>2, Zenon DEF IsSum
      <4>3. ASSUME NEW s \in Upto(m - 1) PROVE h[s] = g[s]
        <5>1. s \in Upto(m)
            BY <4>1
        <5> HIDE DEF Upto
        <5> QED BY <4>2, <5>1
      <4> HIDE DEF Upto, h
      <4> QED BY <4>1, <4>3
    <3>4. \A s \in Upto(m) : s # {} => s \ {Pick(s)} \in Upto(m - 1)
      <4>1. TAKE s \in Upto(m)
      <4>2. HAVE s # {}
      <4>3. Cardinality(s \ {Pick(s)}) = Cardinality(s) - 1 /\ Cardinality(s) \in Nat
        BY <1>1, <4>2, PickTaken
      <4>4. Cardinality(s) <= m /\ s \ {Pick(s)} \in SUBSET S
        OBVIOUS
      <4> QED BY <4>3, <4>4, <2>3
    <3>5. \A s \in Upto(m) : h[s] = IF s = {} THEN 0 ELSE ps[Pick(s)].realized + h[s \ {Pick(s)}]
      <4> HIDE DEF Upto
      <4> QED BY <3>3, <3>4
    <3>6. IsSum(h, ps, Upto(m))
      <4> DEFINE k == [s \in Upto(m) |-> IF s = {} THEN 0
                        ELSE ps[Pick(s)].realized + h[s \ {Pick(s)}]]
      <4>1. h = k
        <5> HIDE DEF Upto
        <5> QED BY <3>5, Zenon
      <4> QED BY <4>1 DEF IsSum
    <3> QED BY <2>2, <3>6
  <2> QED BY <2>4, <2>5
<1> QED
    BY <1>2, <1>3

LEMMA SumIs ==
    ASSUME NEW ps, NEW S, IsFiniteSet(S)
    PROVE  \E g : IsSum(g, ps, SUBSET S) /\ RealizedOf(ps, S) = g[S]
<1>1. PICK g : IsSum(g, ps, SUBSET S)
    BY SumExists
<1> DEFINE it == CHOOSE it : IsSum(it, ps, SUBSET S)
<1>2. IsSum(it, ps, SUBSET S)
    BY <1>1, Zenon
<1>3. RealizedOf(ps, S) = it[S]
    BY DEF RealizedOf, MapThenSumSet, MapThenFoldSet, IsSum, Pick
<1> QED BY <1>2, <1>3

SameRealized(ps, qs, D) == \A i \in D : ps[i].realized = qs[i].realized

(* Whatever the whole and the part are, the sums agree on the part. *)
LEMMA SumsAgree ==
    ASSUME NEW ps, NEW qs, NEW S, NEW T, IsFiniteSet(S), IsFiniteSet(T),
           NEW g, NEW h, IsSum(g, ps, SUBSET S), IsSum(h, qs, SUBSET T),
           SameRealized(ps, qs, S \cap T),
           NEW r \in SUBSET (S \cap T)
    PROVE  g[r] = h[r]
<1> DEFINE Bad == {s \in SUBSET (S \cap T) : g[s] # h[s]}
<1>1. SUFFICES ASSUME Bad # {} PROVE FALSE
    OBVIOUS
<1>2. \A s \in SUBSET (S \cap T) : IsFiniteSet(s)
    BY FS_Subset
<1>3. PICK s \in Bad : \A t \in Bad : Cardinality(s) <= Cardinality(t)
  <2>1. \A s \in Bad : IsFiniteSet(s)
    BY <1>2
  <2> HIDE DEF Bad
  <2> QED
    BY <1>1, <2>1, SmallestOne
<1>4. s \in SUBSET S /\ s \in SUBSET T /\ IsFiniteSet(s)
    BY <1>2
<1>5. /\ g[s] = IF s = {} THEN 0 ELSE ps[Pick(s)].realized + g[s \ {Pick(s)}]
      /\ h[s] = IF s = {} THEN 0 ELSE qs[Pick(s)].realized + h[s \ {Pick(s)}]
    BY <1>4, Zenon DEF IsSum
<1>6. CASE s = {}
    BY <1>5, <1>6
<1>7. CASE s # {}
  <2>1. Pick(s) \in s /\ Cardinality(s \ {Pick(s)}) < Cardinality(s)
    <3>1. /\ Pick(s) \in s /\ Cardinality(s \ {Pick(s)}) = Cardinality(s) - 1
          /\ Cardinality(s) \in Nat
        BY <1>4, <1>7, PickTaken
    <3> QED
        BY <3>1
  <2>2. s \ {Pick(s)} \notin Bad
    <3>1. Cardinality(s \ {Pick(s)}) \in Nat /\ Cardinality(s) \in Nat
        BY <1>4, <1>7, PickTaken
    <3> HIDE DEF Bad
    <3> QED
        BY <1>3, <2>1, <3>1
  <2>3. g[s \ {Pick(s)}] = h[s \ {Pick(s)}]
    BY <1>4, <2>2
  <2>4. ps[Pick(s)].realized = qs[Pick(s)].realized
    BY <1>4, <2>1 DEF SameRealized
  <2> QED
    BY <1>5, <1>7, <2>3, <2>4
<1> QED
    BY <1>6, <1>7

(* A sum only depends on what is summed. *)
LEMMA SumCongruence ==
    ASSUME NEW ps, NEW qs, NEW S, IsFiniteSet(S),
           \A i \in S : ps[i].realized = qs[i].realized
    PROVE  RealizedOf(ps, S) = RealizedOf(qs, S)
<1>1. PICK g : IsSum(g, ps, SUBSET S) /\ RealizedOf(ps, S) = g[S]
    BY SumIs
<1>2. PICK h : IsSum(h, qs, SUBSET S) /\ RealizedOf(qs, S) = h[S]
    BY SumIs
<1>3. SameRealized(ps, qs, S \cap S)
    BY DEF SameRealized
<1>4. S \in SUBSET (S \cap S)
    OBVIOUS
<1>5. IsSum(g, ps, SUBSET S) /\ IsSum(h, qs, SUBSET S)
    BY <1>1, <1>2
<1>6. g[S] = h[S]
    BY <1>3, <1>4, <1>5, SumsAgree
<1> QED
    BY <1>1, <1>2, <1>6

LEMMA SumUnfolds ==
    ASSUME NEW ps, NEW S, IsFiniteSet(S)
    PROVE  RealizedOf(ps, S) =
                IF S = {} THEN 0
                ELSE ps[Pick(S)].realized + RealizedOf(ps, S \ {Pick(S)})
<1>1. PICK g : IsSum(g, ps, SUBSET S) /\ RealizedOf(ps, S) = g[S]
    BY SumIs
<1>2. g[S] = IF S = {} THEN 0 ELSE ps[Pick(S)].realized + g[S \ {Pick(S)}]
    BY <1>1, Zenon DEF IsSum
<1>3. CASE S = {}
    BY <1>1, <1>2, <1>3
<1>4. CASE S # {}
  <2> DEFINE T == S \ {Pick(S)}
  <2>1. IsFiniteSet(T)
    BY FS_Subset
  <2>2. PICK h : IsSum(h, ps, SUBSET T) /\ RealizedOf(ps, T) = h[T]
    <3> HIDE DEF T
    <3> QED BY <2>1, SumIs
  <2>4. g[T] = h[T]
    <3>2. T \in SUBSET (S \cap T)
        OBVIOUS
    <3> HIDE DEF T
    <3>1. SameRealized(ps, ps, S \cap T)
        BY DEF SameRealized
    <3>3. IsSum(g, ps, SUBSET S) /\ IsSum(h, ps, SUBSET T)
        BY <1>1, <2>2
    <3> QED BY <2>1, <3>1, <3>2, <3>3, SumsAgree
  <2> QED
    BY <1>1, <1>2, <1>4, <2>2, <2>4
<1> QED
    BY <1>3, <1>4

(* A sum of integers is an integer. *)
LEMMA SumType ==
    ASSUME NEW ps, NEW S, IsFiniteSet(S), \A i \in S : ps[i].realized \in Int
    PROVE  RealizedOf(ps, S) \in Int
<1> DEFINE Bad == {s \in SUBSET S : RealizedOf(ps, s) \notin Int}
<1>1. SUFFICES ASSUME Bad # {} PROVE FALSE
    OBVIOUS
<1>2. \A s \in SUBSET S : IsFiniteSet(s)
    BY FS_Subset
<1>3. PICK s \in Bad : \A t \in Bad : Cardinality(s) <= Cardinality(t)
  <2>1. \A s \in Bad : IsFiniteSet(s)
    BY <1>2
  <2> HIDE DEF Bad
  <2> QED
    BY <1>1, <2>1, SmallestOne
<1>4. s \in SUBSET S /\ IsFiniteSet(s)
    BY <1>2
<1>5. s # {}
  <2>1. RealizedOf(ps, s) \notin Int
    OBVIOUS
  <2>2. s = {} => RealizedOf(ps, s) = 0
    BY <1>4, SumUnfolds, Zenon
  <2> QED
    BY <2>1, <2>2
<1>6. /\ Pick(s) \in s /\ Cardinality(s \ {Pick(s)}) = Cardinality(s) - 1
      /\ Cardinality(s \ {Pick(s)}) \in Nat /\ Cardinality(s) \in Nat
    BY <1>4, <1>5, PickTaken
<1>7. s \ {Pick(s)} \notin Bad
  <2> HIDE DEF Bad
  <2> QED
    BY <1>3, <1>6
<1>8. RealizedOf(ps, s \ {Pick(s)}) \in Int /\ ps[Pick(s)].realized \in Int
    BY <1>4, <1>6, <1>7
<1>9. RealizedOf(ps, s) = ps[Pick(s)].realized + RealizedOf(ps, s \ {Pick(s)})
    BY <1>4, <1>5, SumUnfolds
<1> QED
    BY <1>8, <1>9

(* Any element may be taken out of a sum. *)
LEMMA SumTakesOut ==
    ASSUME NEW ps, NEW S, IsFiniteSet(S), \A i \in S : ps[i].realized \in Int,
           NEW x \in S
    PROVE  RealizedOf(ps, S) = ps[x].realized + RealizedOf(ps, S \ {x})
<1> DEFINE Good(s) == \A y \in s : RealizedOf(ps, s) =
                                    ps[y].realized + RealizedOf(ps, s \ {y})
           Bad == {s \in SUBSET S : ~Good(s)}
<1>1. SUFFICES ASSUME Bad # {} PROVE FALSE
    OBVIOUS
<1>2. \A s \in SUBSET S : IsFiniteSet(s)
    BY FS_Subset
<1>3. PICK s \in Bad : \A t \in Bad : Cardinality(s) <= Cardinality(t)
  <2>1. \A s \in Bad : IsFiniteSet(s)
    BY <1>2
  <2> HIDE DEF Bad
  <2> QED
    BY <1>1, <2>1, SmallestOne
<1>4. s \in SUBSET S /\ IsFiniteSet(s)
    BY <1>2
<1>5. PICK y \in s : RealizedOf(ps, s) # ps[y].realized + RealizedOf(ps, s \ {y})
    BY <1>3
<1> DEFINE c == Pick(s)
<1>6. c \in s
    BY <1>4, <1>5, PickTaken
<1>7. RealizedOf(ps, s) = ps[c].realized + RealizedOf(ps, s \ {c})
    BY <1>4, <1>5, SumUnfolds
<1> HIDE DEF c
<1>8. y # c
    BY <1>5, <1>7
<1>9. \A z \in s : s \ {z} \notin Bad
  <2>1. TAKE z \in s
  <2>2. Cardinality(s \ {z}) = Cardinality(s) - 1 /\ Cardinality(s) \in Nat
    BY <1>4, FS_RemoveElement, FS_CardinalityType
  <2> HIDE DEF Bad
  <2> QED
    BY <1>3, <2>2
<1>10. Good(s \ {c}) /\ Good(s \ {y})
    BY <1>4, <1>6, <1>9
<1>11. RealizedOf(ps, s \ {c}) = ps[y].realized + RealizedOf(ps, (s \ {c}) \ {y})
    BY <1>8, <1>10
<1>12. RealizedOf(ps, s \ {y}) = ps[c].realized + RealizedOf(ps, (s \ {y}) \ {c})
    BY <1>6, <1>8, <1>10
<1>13. (s \ {y}) \ {c} = (s \ {c}) \ {y}
    OBVIOUS
<1>14. /\ RealizedOf(ps, (s \ {c}) \ {y}) \in Int
       /\ ps[c].realized \in Int /\ ps[y].realized \in Int
  <2> DEFINE r == (s \ {c}) \ {y}
  <2>1. IsFiniteSet(r) /\ \A i \in r : ps[i].realized \in Int
    BY <1>2, <1>4
  <2> HIDE DEF r
  <2>2. RealizedOf(ps, r) \in Int
    BY <2>1, SumType
  <2> QED
    BY <1>4, <1>6, <2>2 DEF r
<1>15. RealizedOf(ps, s) = ps[y].realized + RealizedOf(ps, s \ {y})
  <2> HIDE DEF Good, Bad
  <2> DEFINE r == RealizedOf(ps, (s \ {c}) \ {y})
             a == ps[c].realized
             b == ps[y].realized
             u == RealizedOf(ps, s \ {y})
  <2>1. RealizedOf(ps, s) = a + (b + r) /\ u = a + r
    BY <1>7, <1>11, <1>12, <1>13
  <2>2. r \in Int /\ a \in Int /\ b \in Int
    BY <1>14
  <2> HIDE DEF r, a, b, u
  <2>3. RealizedOf(ps, s) = b + u
    BY <2>1, <2>2
  <2> QED
    BY <2>3 DEF b, u
<1> QED
    BY <1>5, <1>15
-----------------------------------------------------------------------------
(* What a transition of a position leaves as it was.                       *)

(* Position.with_close *)
LEMMA ClosedFields ==
    ASSUME NEW p \in Position, NEW price, NEW cost, NEW reason
    PROVE  /\ Closed(p, price, reason, cost).reason = reason
           /\ Closed(p, price, reason, cost).openTs = p.openTs
           /\ Closed(p, price, reason, cost).realized =
                    p.realized + (Move(p, price) - 2 * cost) * p.curSize
<1> DEFINE total == p.realized + (Move(p, price) - 2 * cost) * p.curSize
           sold == [p EXCEPT !.realized = total, !.curSize = 0]
<1>1. Closed(p, price, reason, cost) =
        [sold EXCEPT !.unrealized = 0, !.mark = price, !.closed = TRUE, !.reason = reason]
    BY DEF Closed, Position
<1>2. /\ sold.realized = total /\ sold.openTs = p.openTs
      /\ DOMAIN sold = {"side", "openSize", "curSize", "entry", "openTs", "tp", "sl",
                        "mark", "realized", "unrealized", "closed", "reason"}
    <2> HIDE DEF total
    <2> QED
        BY DEF Position
<1> HIDE DEF sold
<1>3. /\ Closed(p, price, reason, cost).reason = reason
      /\ Closed(p, price, reason, cost).openTs = sold.openTs
      /\ Closed(p, price, reason, cost).realized = sold.realized
    BY <1>1, <1>2
<1> QED
    BY <1>2, <1>3

(* Position.with_scale_out *)
LEMMA ScaledOutFields ==
    ASSUME NEW p \in Position, NEW removed
    PROVE  LET q == ScaledOut(p, removed) IN
           /\ q.openTs = p.openTs
           /\ q.closed => q.reason = MANUAL \/ p.closed
           /\ ~q.closed => q.reason = p.reason
<1> DEFINE rest == p.curSize - removed
           total == p.realized + (Move(p, p.mark) - 2 * CostPerSide(removed)) * removed
           sold == [p EXCEPT !.realized = total, !.curSize = rest]
<1>1. ScaledOut(p, removed) =
        IF rest = 0
        THEN [sold EXCEPT !.unrealized = 0, !.closed = TRUE, !.reason = MANUAL] ELSE sold
    BY DEF ScaledOut
<1>2. /\ sold.openTs = p.openTs /\ sold.closed = p.closed /\ sold.reason = p.reason
      /\ DOMAIN sold = {"side", "openSize", "curSize", "entry", "openTs", "tp", "sl",
                        "mark", "realized", "unrealized", "closed", "reason"}
    <2> HIDE DEF total, rest
    <2> QED
        BY DEF Position
<1>3. p.closed \in BOOLEAN
    BY DEF Position
<1> HIDE DEF sold, rest
<1>4. CASE rest = 0
  <2>1. /\ ScaledOut(p, removed).openTs = sold.openTs
        /\ ScaledOut(p, removed).closed = TRUE /\ ScaledOut(p, removed).reason = MANUAL
    BY <1>1, <1>2, <1>4
  <2> QED
    BY <1>2, <2>1
<1>5. CASE rest # 0
    BY <1>1, <1>2, <1>3, <1>5
<1> QED
    BY <1>4, <1>5

(* What neither closes a position nor realizes anything. *)
Amends(p, q) ==
    /\ q.closed = p.closed /\ q.reason = p.reason
    /\ q.openTs = p.openTs /\ q.realized = p.realized

LEMMA MarkedAmends ==
    ASSUME NEW p \in Position, NEW price
    PROVE  Amends(p, Marked(p, price))
BY DEF Amends, Marked, Position

LEMMA ModifiedStopsAmends ==
    ASSUME NEW p \in Position, NEW tp, NEW sl
    PROVE  Amends(p, [p EXCEPT !.tp = IF tp = Unset THEN @ ELSE tp,
                               !.sl = IF sl = Unset THEN @ ELSE sl])
BY DEF Amends, Position

LEMMA ScaledInAmends ==
    ASSUME NEW p \in Position, NEW added, NEW mean
    PROVE  Amends(p, [p EXCEPT !.openSize = @ + added, !.curSize = @ + added,
                               !.entry = mean])
BY DEF Amends, Position

-----------------------------------------------------------------------------
(* The four ways in which a step changes the portfolio.                    *)

ByHand ==
    \E id \in OpenIds, q \in Position :
        /\ phase = "idle"
        /\ positions' = WithPosition(id, q)
        /\ realized' = Realize(positions[id], q)
        /\ q.openTs = positions[id].openTs
        /\ q.closed => q.reason = MANUAL
        /\ ~q.closed => q.reason = positions[id].reason
        /\ UNCHANGED history

Filled ==
    \E id \in DOMAIN pendingOpens :
        /\ id \notin DOMAIN positions
        /\ phase = "opens" /\ FillMinute <= M
        /\ positions' = WithPosition(id, OpenAt(pendingOpens[id],
                            bar[FillMinute].close, CloseTime(FillMinute)))
        /\ UNCHANGED <<realized, history>>

Amended ==
    /\ DOMAIN positions' = DOMAIN positions
    /\ \A i \in DOMAIN positions : Amends(positions[i], positions'[i])
    /\ UNCHANGED <<realized, history>>

BarrierExit ==
    \E id \in OpenIds, minute \in 1..M, price \in Int,
       reason \in {TP, SL, SAFETY_CAP, BATCHED_WINNER} :
        BarrierClose(id, minute, reason, price)

LEMMA UntouchedIsAmended ==
    ASSUME UNCHANGED <<positions, realized, history>>
    PROVE  Amended
BY DEF Amended, Amends

LEMMA OneAmended ==
    ASSUME TypeOK, NEW id \in DOMAIN positions, NEW q, Amends(positions[id], q),
           positions' = WithPosition(id, q), UNCHANGED <<realized, history>>
    PROVE  Amended
<1>1. DOMAIN positions' = DOMAIN positions /\ positions'[id] = q
    BY DEF WithPosition
<1>2. \A i \in DOMAIN positions \ {id} : positions'[i] = positions[i]
    BY DEF WithPosition
<1> QED
    BY <1>1, <1>2 DEF Amended, Amends

LEMMA ScaleOutIsByHand ==
    ASSUME BInv, NEW id \in DOMAIN positions, NEW f \in Fractions,
           DispatchScaleOut(id, f)
    PROVE  ByHand
<1> DEFINE p == positions[id]
           removed == (p.curSize * f[1]) \div f[2]
           q == ScaledOut(p, removed)
<1>1. p \in Position
    BY DEF BInv, TypeOK
<1>2. id \in OpenIds /\ ~p.closed
    BY DEF DispatchScaleOut, OpenIds
<1>3. f[1] \in Nat /\ f[2] \in Nat \ {0} /\ f[1] <= f[2]
    BY ConstantsAssumption
<1>4. removed \in 0..p.curSize
  <2>1. p.curSize \in Nat
    BY <1>1 DEF Position
  <2> QED
    BY <1>3, <2>1, FractionBound
<1>5. /\ positions' = WithPosition(id, q) /\ realized' = Realize(p, q)
      /\ phase = "idle" /\ UNCHANGED history
    BY DEF DispatchScaleOut
<1> HIDE DEF removed
<1>6. /\ q.openTs = p.openTs
      /\ q.closed => q.reason = MANUAL
      /\ ~q.closed => q.reason = p.reason
  <2> HIDE DEF p
  <2> QED
    BY <1>1, <1>2, ScaledOutFields
<1>7. q \in Position
  <2> HIDE DEF p
  <2> QED
    BY <1>1, <1>4, ScaledOutType
<1> HIDE DEF q
<1> QED
    BY <1>2, <1>5, <1>6, <1>7 DEF ByHand

LEMMA CloseIsByHand ==
    ASSUME BInv, NEW id \in DOMAIN positions, DispatchClose(id)
    PROVE  ByHand
<1> DEFINE p == positions[id]
           q == Closed(p, p.mark, MANUAL, CostPerSide(p.curSize))
<1>1. p \in Position
    BY DEF BInv, TypeOK
<1>2. id \in OpenIds
    BY DEF DispatchClose, OpenIds
<1>3. /\ positions' = WithPosition(id, q) /\ realized' = Realize(p, q)
      /\ phase = "idle" /\ UNCHANGED history
    BY DEF DispatchClose
<1>4. p.mark \in Int /\ CostPerSide(p.curSize) \in Int
    BY <1>1, ConstantsAssumption DEF CostPerSide, Position
<1>5. q.openTs = p.openTs /\ q.reason = MANUAL
  <2> HIDE DEF p
  <2> QED
    BY <1>1, ClosedFields
<1>6. q \in Position /\ q.closed
  <2> HIDE DEF p
  <2> QED
    BY <1>1, <1>4, ClosedType
<1> HIDE DEF q
<1> QED
    BY <1>2, <1>3, <1>5, <1>6 DEF ByHand

LEMMA ModifyStopAmends ==
    ASSUME BInv, NEW id \in DOMAIN positions, NEW tp \in Stops \cup {Unset},
           NEW sl \in Stops \cup {Unset}, DispatchModifyStop(id, tp, sl)
    PROVE  Amended
<1> DEFINE p == positions[id]
           q == [p EXCEPT !.tp = IF tp = Unset THEN @ ELSE tp,
                          !.sl = IF sl = Unset THEN @ ELSE sl]
<1>1. p \in Position /\ TypeOK
    BY DEF BInv, TypeOK
<1>2. positions' = WithPosition(id, q) /\ UNCHANGED <<realized, history>>
    BY DEF DispatchModifyStop
<1>3. Amends(p, q)
    BY <1>1, ModifiedStopsAmends
<1> HIDE DEF q
<1> QED
    BY <1>1, <1>2, <1>3, OneAmended

LEMMA ActivateOpenFills ==
    ASSUME BInv, ActivateOpen
    PROVE  Filled \/ Amended
<1> USE DEF BInv
<1> DEFINE id == Min(todo)
           fills == Cardinality(OpenIds) < InventoryCap /\ FillMinute <= M
<1>1. /\ phase = "opens" /\ todo # {}
      /\ IF fills
         THEN positions' = WithPosition(id,
                    OpenAt(pendingOpens[id], bar[FillMinute].close, CloseTime(FillMinute)))
         ELSE UNCHANGED positions
      /\ UNCHANGED <<realized, history>>
    BY DEF ActivateOpen
<1>2. id \in todo
  <2>1. todo \in SUBSET Nat
    BY DEF TypeOK
  <2> QED
    BY <1>1, <2>1, MinIsMember
<1> HIDE DEF id
<1>3. id \in DOMAIN pendingOpens /\ id \notin DOMAIN positions
    BY <1>1, <1>2 DEF OpensStillToVisit, PendingNotYetOpened
<1>4. CASE fills
    BY <1>1, <1>3, <1>4 DEF Filled
<1>5. CASE ~fills
    BY <1>1, <1>5, UntouchedIsAmended
<1> QED
    BY <1>4, <1>5

LEMMA ActivateScaleInAmends ==
    ASSUME BInv, ActivateScaleIn
    PROVE  Amended
<1> DEFINE s == Head(pendingScaleIns)
           id == s.target
           p == positions[id]
           added == (s.size[1] * p.openSize) \div s.size[2]
           grown(mean) == [p EXCEPT !.openSize = @ + added, !.curSize = @ + added,
                                    !.entry = mean]
<1>1. left > 0 /\ UNCHANGED <<realized, history>> /\ TypeOK
    BY DEF ActivateScaleIn, BInv
<1>2. s \in ScaleInOrder
  <2>1. left \in 0..Len(pendingScaleIns) /\ pendingScaleIns \in Seq(ScaleInOrder)
    BY <1>1 DEF TypeOK
  <2>2. pendingScaleIns # << >>
    BY <1>1, <2>1
  <2> QED
    BY <2>1, <2>2
<1>3. id \in DOMAIN positions /\ p \in Position
  <2> HIDE DEF s
  <2> QED
    BY <1>1, <1>2 DEF ScaleInOrder, TypeOK
<1>4. \/ UNCHANGED positions
      \/ \E mean \in Min({p.entry, bar[FillMinute].close})..Max({p.entry, bar[FillMinute].close}) :
            positions' = WithPosition(id, grown(mean))
    BY DEF ActivateScaleIn
<1>5. CASE UNCHANGED positions
    BY <1>1, <1>5, UntouchedIsAmended
<1>6. ASSUME NEW mean, positions' = WithPosition(id, grown(mean))
      PROVE  Amended
  <2> HIDE DEF added
  <2>1. Amends(p, grown(mean))
    BY <1>3, ScaledInAmends
  <2> HIDE DEF grown, id, s
  <2> QED
    BY <1>1, <1>3, <1>6, <2>1, OneAmended
<1> QED
    BY <1>4, <1>5, <1>6

LEMMA TouchIsExit ==
    ASSUME BInv, TouchBarrier
    PROVE  BarrierExit
<1> DEFINE id == Visited
           p == positions[id]
           j == Min(TouchMinutes(p))
           reason == TouchReason(p, bar[j])
           price == BarrierPrice(p, reason)
<1>1. Walking /\ TouchMinutes(p) # {} /\ BarrierClose(id, j, reason, price)
    BY DEF TouchBarrier
<1>2. id \in OpenIds /\ p \in Position /\ bar \in Bars
    BY <1>1, VisitedIsOpen DEF BInv
<1>3. j \in 1..M /\ reason \in {TP, SL} /\ price \in Int
    BY <1>1, <1>2, TouchType
<1> HIDE DEF id, p, j, reason, price
<1> QED
    BY <1>1, <1>2, <1>3 DEF BarrierExit

LEMMA SweepIsExit ==
    ASSUME BInv, SweepWinner
    PROVE  BarrierExit /\ Min(Winners(sweep.price)) \in Winners(sweep.price)
<1> DEFINE id == Min(Winners(sweep.price))
<1>1. /\ phase = "sweep" /\ Winners(sweep.price) # {}
      /\ BarrierClose(id, sweep.minute, BATCHED_WINNER, sweep.price)
    BY DEF SweepWinner
<1>2. id \in Winners(sweep.price) /\ id \in OpenIds
  <2>1. Winners(sweep.price) \in SUBSET Nat /\ Winners(sweep.price) \subseteq OpenIds
    BY DEF Winners, OpenIds, TypeOK, BInv
  <2> QED
    BY <1>1, <2>1, MinIsMember
<1>3. sweep.minute \in 1..M /\ sweep.price \in Int
    BY <1>1 DEF BInv, TypeOK, SweepStarted
<1> HIDE DEF id
<1>4. BarrierExit
    BY <1>1, <1>2, <1>3 DEF BarrierExit
<1> QED
    BY <1>2, <1>4 DEF id

LEMMA CapIsExit ==
    ASSUME BInv, CapHoldAge
    PROVE  BarrierExit
<1>1. Walking /\ BarrierClose(Visited, M, SAFETY_CAP, bar[M].close)
    BY DEF CapHoldAge
<1>2. Visited \in OpenIds /\ bar \in Bars
    BY <1>1, VisitedIsOpen DEF BInv
<1>3. M \in 1..M
    BY ConstantsAssumption
<1>4. bar[M].close \in Int
    BY <1>2, <1>3, BarType
<1> QED
    BY <1>1, <1>2, <1>3, <1>4 DEF BarrierExit

LEMMA MarkPositionAmends ==
    ASSUME BInv, MarkPosition
    PROVE  Amended
<1> DEFINE id == Visited
           q == Marked(positions[id], bar[M].close)
<1>1. Walking /\ positions' = WithPosition(id, q) /\ UNCHANGED <<realized, history>>
    BY DEF MarkPosition
<1>2. id \in DOMAIN positions /\ positions[id] \in Position /\ TypeOK
    BY <1>1, VisitedIsOpen DEF BInv, OpenIds
<1>3. Amends(positions[id], q)
    BY <1>2, MarkedAmends
<1> HIDE DEF id, q
<1> QED
    BY <1>1, <1>2, <1>3, OneAmended

LEMMA MarkPortfolioAmends ==
    ASSUME BInv, MarkPortfolio
    PROVE  Amended
<1>1. /\ positions' = [i \in DOMAIN positions |-> Marked(positions[i], bar[M].close)]
      /\ UNCHANGED <<realized, history>>
    BY DEF MarkPortfolio
<1>2. \A i \in DOMAIN positions : positions[i] \in Position
    BY DEF BInv, TypeOK
<1>3. \A i \in DOMAIN positions : Amends(positions[i], positions'[i])
    BY <1>1, <1>2, MarkedAmends
<1> QED
    BY <1>1, <1>3 DEF Amended

LEMMA PortfolioStep ==
    ASSUME BInv, [Next]_vars
    PROVE  ByHand \/ Filled \/ Amended \/ BarrierExit
<1>1. CASE Dispatch
  <2>1. ASSUME NEW o \in OpenOrders, DispatchOpen(o) PROVE Amended
    BY <2>1, UntouchedIsAmended DEF DispatchOpen, book
  <2>2. ASSUME NEW id \in DOMAIN positions, NEW f \in Fractions, DispatchScaleIn(id, f)
        PROVE  Amended
    BY <2>2, UntouchedIsAmended DEF DispatchScaleIn, book
  <2>3. ASSUME NEW id \in DOMAIN positions, NEW f \in Fractions, DispatchScaleOut(id, f)
        PROVE  ByHand
    BY <2>3, ScaleOutIsByHand
  <2>4. ASSUME NEW id \in DOMAIN positions, DispatchClose(id) PROVE ByHand
    BY <2>4, CloseIsByHand
  <2>5. ASSUME NEW id \in DOMAIN positions, NEW tp \in Stops \cup {Unset},
               NEW sl \in Stops \cup {Unset}, DispatchModifyStop(id, tp, sl)
        PROVE  Amended
    BY <2>5, ModifyStopAmends
  <2>6. ASSUME NEW id \in DOMAIN pendingOpens, DispatchCancel(id) PROVE Amended
    BY <2>6, UntouchedIsAmended DEF DispatchCancel, book
  <2> QED
    BY <1>1, <2>1, <2>2, <2>3, <2>4, <2>5, <2>6 DEF Dispatch
<1>2. CASE Advance
  <2>1. ASSUME NEW b \in Bars, AdvanceTo(b) PROVE Amended
    BY <2>1, UntouchedIsAmended DEF AdvanceTo, book
  <2>2. OpensActivated \/ ScaleInsActivated \/ SweepDone => Amended
    BY UntouchedIsAmended DEF OpensActivated, ScaleInsActivated, SweepDone, book
  <2> QED
    BY <1>2, <2>1, <2>2, ActivateOpenFills, ActivateScaleInAmends, TouchIsExit,
       SweepIsExit, CapIsExit, MarkPositionAmends, MarkPortfolioAmends DEF Advance
<1>3. CASE UNCHANGED vars
    BY <1>3, UntouchedIsAmended DEF vars
<1> QED
    BY <1>1, <1>2, <1>3 DEF Next

-----------------------------------------------------------------------------
(* What follows from a position's closing at a barrier.                    *)

LEMMA ExitEffect ==
    ASSUME BInv, NEW id \in OpenIds, NEW minute, NEW price \in Int, NEW reason,
           BarrierClose(id, minute, reason, price)
    PROVE  /\ DOMAIN positions' = DOMAIN positions /\ id \in DOMAIN positions
           /\ positions'[id].closed /\ positions'[id].reason = reason
           /\ \A i \in DOMAIN positions \ {id} : positions'[i] = positions[i]
           /\ Len(history') = Len(history) + 1 /\ Len(history) \in Nat
           /\ \A k \in 1..Len(history) : history'[k] = history[k]
           /\ history'[Len(history) + 1].id = id
           /\ history'[Len(history) + 1].reason = reason
           /\ history'[Len(history) + 1].entryTs = positions[id].openTs
           /\ history'[Len(history) + 1].exitTs = CloseTime(minute)
           /\ history'[Len(history) + 1].net =
                (Move(positions[id], price) - 2 * CostPerSide(positions[id].openSize))
                    * positions[id].curSize
<1> DEFINE p == positions[id]
           cost == CostPerSide(p.openSize)
           q == Closed(p, price, reason, cost)
           gain == (Move(p, price) - 2 * cost) * p.curSize
           fill == [id |-> id, reason |-> reason, entryTs |-> p.openTs,
                    exitTs |-> CloseTime(minute), net |-> q.realized - p.realized]
<1>1. /\ id \in DOMAIN positions /\ p \in Position /\ history \in Seq(Fill)
      /\ positions \in [DOMAIN positions -> Position]
    BY DEF OpenIds, BInv, TypeOK
<1>2. positions' = WithPosition(id, q) /\ history' = Append(history, fill)
    BY DEF BarrierClose
<1>3. q.reason = reason /\ q.realized = p.realized + gain /\ q.closed
  <2> HIDE DEF p, cost
  <2>1. q.reason = reason /\ q.realized = p.realized + gain
    BY <1>1, ClosedFields
  <2>2. q.closed
    BY <1>1 DEF Closed, Position
  <2> QED
    BY <2>1, <2>2
<1> HIDE DEF q
<1>4. /\ DOMAIN positions' = DOMAIN positions /\ positions'[id] = q
      /\ \A i \in DOMAIN positions \ {id} : positions'[i] = positions[i]
    BY <1>1, <1>2 DEF WithPosition
<1>5. /\ Len(history') = Len(history) + 1 /\ Len(history) \in Nat
      /\ \A k \in 1..Len(history) : history'[k] = history[k]
      /\ history'[Len(history) + 1] = fill
  <2> HIDE DEF fill
  <2> QED
    BY <1>1, <1>2
<1>6. gain \in Int /\ p.realized \in Int
  <2>1. p.openSize \in Nat /\ p.curSize \in Nat /\ p.realized \in Int
    BY <1>1 DEF Position
  <2>2. cost \in Int
    BY <2>1, ConstantsAssumption DEF CostPerSide
  <2>3. Move(p, price) \in Int
    BY <1>1, MoveType
  <2> QED
    BY <2>1, <2>2, <2>3
<1>7. fill.net = gain
  <2> HIDE DEF gain, p
  <2> QED
    BY <1>3, <1>6
<1> QED
    BY <1>1, <1>3, <1>4, <1>5, <1>7

LEMMA AmendedKeepsOpen ==
    ASSUME Amended
    PROVE  OpenIds' = OpenIds
BY DEF Amended, Amends, OpenIds

LEMMA HandReplaces ==
    ASSUME BInv, NEW id \in OpenIds, NEW q \in Position,
           positions' = WithPosition(id, q)
    PROVE  /\ DOMAIN positions' = DOMAIN positions /\ id \in DOMAIN positions
           /\ positions'[id] = q
           /\ \A i \in DOMAIN positions \ {id} : positions'[i] = positions[i]
BY DEF OpenIds, WithPosition

LEMMA FillAdds ==
    ASSUME BInv, Filled
    PROVE  \E id \in DOMAIN pendingOpens :
                /\ id \notin DOMAIN positions /\ FillMinute \in 1..M /\ barNo > 0
                /\ DOMAIN positions' = DOMAIN positions \cup {id}
                /\ \A i \in DOMAIN positions : positions'[i] = positions[i]
                /\ positions'[id].closed = FALSE /\ positions'[id].reason = Unset
                /\ positions'[id].realized = 0
                /\ positions'[id].openTs = CloseTime(FillMinute)
<1>1. PICK id \in DOMAIN pendingOpens :
        /\ id \notin DOMAIN positions
        /\ phase = "opens" /\ FillMinute <= M
        /\ positions' = WithPosition(id, OpenAt(pendingOpens[id],
                            bar[FillMinute].close, CloseTime(FillMinute)))
    BY DEF Filled
<1>2. FillMinute \in 1..M /\ barNo > 0
  <2>1. FillMinute \in 1..M
    BY <1>1, ConstantsAssumption DEF FillMinute
  <2>2. barNo > 0
    BY <1>1 DEF BInv, TypeOK
  <2> QED
    BY <2>1, <2>2
<1> DEFINE q == OpenAt(pendingOpens[id], bar[FillMinute].close, CloseTime(FillMinute))
<1>3. q.closed = FALSE /\ q.reason = Unset /\ q.realized = 0
      /\ q.openTs = CloseTime(FillMinute)
    BY DEF OpenAt
<1> HIDE DEF q
<1>4. positions' = WithPosition(id, q)
    BY <1>1 DEF q
<1>5. /\ DOMAIN positions' = DOMAIN positions \cup {id}
      /\ \A i \in DOMAIN positions : positions'[i] = positions[i]
      /\ positions'[id] = q
    BY <1>1, <1>4 DEF WithPosition
<1> QED
    BY <1>1, <1>2, <1>3, <1>5

-----------------------------------------------------------------------------
(* The fills and the positions tell one story.                             *)

LEMMA LedgerKept ==
    ASSUME BInv, LedgerAgreesWithPortfolio, ClosedKept,
           ByHand \/ Filled \/ Amended \/ BarrierExit
    PROVE  LedgerAgreesWithPortfolio'
<1>1. \A k \in 1..Len(history) :
        /\ history[k].id \in DOMAIN positions
        /\ history[k].id \in DOMAIN positions'
        /\ positions'[history[k].id] = positions[history[k].id]
  <2>1. ASSUME NEW k \in 1..Len(history)
        PROVE  history[k].id \in DOMAIN positions /\ positions[history[k].id].closed
    <3>1. history[k] \in Fill
        BY DEF BInv, TypeOK
    <3> QED
        BY <3>1 DEF Fill, LedgerAgreesWithPortfolio
  <2> QED
    BY <2>1 DEF ClosedKept
<1>2. ASSUME UNCHANGED history,
             \A i \in DOMAIN positions' :
                positions'[i].closed /\ positions'[i].reason # MANUAL
                    => i \in DOMAIN positions /\ positions[i].closed
                       /\ positions[i].reason # MANUAL
      PROVE  LedgerAgreesWithPortfolio'
  <2>1. \A k \in 1..Len(history') :
            /\ positions'[history'[k].id].closed
            /\ positions'[history'[k].id].reason = history'[k].reason
    BY <1>1, <1>2 DEF LedgerAgreesWithPortfolio
  <2>2. \A j, k \in 1..Len(history') : history'[j].id = history'[k].id => j = k
    BY <1>2 DEF LedgerAgreesWithPortfolio
  <2>3. \A i \in DOMAIN positions' :
            positions'[i].closed /\ positions'[i].reason # MANUAL
                => \E k \in 1..Len(history') : history'[k].id = i
    BY <1>2 DEF LedgerAgreesWithPortfolio
  <2> QED
    BY <2>1, <2>2, <2>3 DEF LedgerAgreesWithPortfolio
<1>3. CASE ByHand
  <2>1. PICK id \in OpenIds, q \in Position :
            /\ positions' = WithPosition(id, q)
            /\ q.closed => q.reason = MANUAL
            /\ UNCHANGED history
    BY <1>3 DEF ByHand
  <2>2. /\ DOMAIN positions' = DOMAIN positions /\ positions'[id] = q
        /\ \A i \in DOMAIN positions \ {id} : positions'[i] = positions[i]
    BY <2>1, HandReplaces
  <2> QED
    BY <1>2, <2>1, <2>2
<1>4. CASE Filled
  <2>1. UNCHANGED history
    BY <1>4 DEF Filled
  <2>2. PICK id \in DOMAIN pendingOpens :
            /\ DOMAIN positions' = DOMAIN positions \cup {id}
            /\ \A i \in DOMAIN positions : positions'[i] = positions[i]
            /\ positions'[id].closed = FALSE
    BY <1>4, FillAdds
  <2> QED
    BY <1>2, <2>1, <2>2
<1>5. CASE Amended
    BY <1>2, <1>5 DEF Amended, Amends
<1>6. CASE BarrierExit
  <2>1. PICK id \in OpenIds, minute \in 1..M, price \in Int,
             reason \in {TP, SL, SAFETY_CAP, BATCHED_WINNER} :
                BarrierClose(id, minute, reason, price)
    BY <1>6 DEF BarrierExit
  <2> DEFINE n == Len(history)
  <2>2. /\ DOMAIN positions' = DOMAIN positions /\ id \in DOMAIN positions
        /\ positions'[id].closed /\ positions'[id].reason = reason
        /\ \A i \in DOMAIN positions \ {id} : positions'[i] = positions[i]
        /\ Len(history') = n + 1 /\ n \in Nat
        /\ \A k \in 1..n : history'[k] = history[k]
        /\ history'[n + 1].id = id /\ history'[n + 1].reason = reason
    BY <2>1, ExitEffect
  <2>3. \A k \in 1..n : history[k].id # id
    BY <2>1 DEF LedgerAgreesWithPortfolio, OpenIds
  <2> HIDE DEF n
  <2>4. 1..Len(history') = 1..n \cup {n + 1}
    BY <2>2
  <2>5. \A k \in 1..Len(history') :
            /\ positions'[history'[k].id].closed
            /\ positions'[history'[k].id].reason = history'[k].reason
    <3>1. \A k \in 1..n : /\ positions[history[k].id].closed
                          /\ positions[history[k].id].reason = history[k].reason
        BY DEF LedgerAgreesWithPortfolio, n
    <3>2. \A k \in 1..n : positions'[history[k].id] = positions[history[k].id]
        BY <1>1 DEF n
    <3> QED
        BY <2>2, <2>4, <3>1, <3>2
  <2>6. \A j, k \in 1..Len(history') : history'[j].id = history'[k].id => j = k
    <3>1. \A j, k \in 1..n : history[j].id = history[k].id => j = k
        BY DEF LedgerAgreesWithPortfolio, n
    <3> QED
        BY <2>2, <2>3, <2>4, <3>1
  <2>7. \A i \in DOMAIN positions' :
            positions'[i].closed /\ positions'[i].reason # MANUAL
                => \E k \in 1..Len(history') : history'[k].id = i
    <3>1. TAKE i \in DOMAIN positions'
    <3>2. HAVE positions'[i].closed /\ positions'[i].reason # MANUAL
    <3>3. CASE i = id
      <4>1. n + 1 \in 1..Len(history')
        BY <2>4
      <4> QED
        BY <2>2, <3>3, <4>1
    <3>4. CASE i # id
      <4>1. PICK k \in 1..n : history[k].id = i
        BY <2>2, <3>2, <3>4 DEF LedgerAgreesWithPortfolio, n
      <4> QED
        BY <2>2, <2>4, <4>1
    <3> QED
        BY <3>3, <3>4
  <2> QED
    BY <2>5, <2>6, <2>7 DEF LedgerAgreesWithPortfolio
<1> QED
    BY <1>3, <1>4, <1>5, <1>6

-----------------------------------------------------------------------------
(* The running PnL is the sum of the positions'.                           *)

LEMMA ConservedNext ==
    RealizedConserved' <=> realized' = RealizedOf(positions', DOMAIN positions')
BY DEF RealizedConserved, RealizedOf, MapThenSumSet, MapThenFoldSet

LEMMA SumOfReplaced ==
    ASSUME TypeOK, RealizedConserved, NEW id \in DOMAIN positions,
           DOMAIN positions' = DOMAIN positions, positions'[id].realized \in Int,
           \A i \in DOMAIN positions \ {id} : positions'[i] = positions[i],
           realized' = realized + (positions'[id].realized - positions[id].realized)
    PROVE  RealizedConserved'
<1> DEFINE D == DOMAIN positions
           rest == D \ {id}
<1>1. /\ IsFiniteSet(D) /\ IsFiniteSet(rest)
      /\ \A i \in D : positions[i].realized \in Int
  <2>1. /\ nextId \in 1..(MaxPositions + 1)
        /\ D \subseteq 1..(nextId - 1)
    BY DEF TypeOK
  <2>2. IsFiniteSet(1..(nextId - 1))
    <3>1. nextId - 1 \in Int
        BY <2>1, ConstantsAssumption
    <3> QED
        BY <3>1, FS_Interval
  <2>3. \A i \in D : positions[i].realized \in Int
    BY DEF TypeOK, Position
  <2> QED
    BY <2>1, <2>2, <2>3, FS_Subset
<1>2. \A i \in D : positions'[i].realized \in Int
    BY <1>1
<1> HIDE DEF D
<1>3. RealizedOf(positions, D) = positions[id].realized + RealizedOf(positions, rest)
    BY <1>1, SumTakesOut DEF D
<1>4. RealizedOf(positions', D) = positions'[id].realized + RealizedOf(positions', rest)
    BY <1>1, <1>2, SumTakesOut DEF D
<1>5. RealizedOf(positions, rest) = RealizedOf(positions', rest)
  <2>1. \A i \in rest : positions[i].realized = positions'[i].realized
    BY DEF D
  <2> HIDE DEF rest
  <2> QED
    BY <1>1, <2>1, SumCongruence
<1>6. RealizedOf(positions, rest) \in Int
  <2>1. \A i \in rest : positions[i].realized \in Int
    BY <1>1
  <2> HIDE DEF rest
  <2> QED
    BY <1>1, <2>1, SumType
<1>7. realized = RealizedOf(positions, D)
    BY DEF RealizedConserved, RealizedOf, D
<1>8. positions[id].realized \in Int
    BY <1>1 DEF D
<1> HIDE DEF rest
<1>9. realized' = RealizedOf(positions', D)
    BY <1>3, <1>4, <1>5, <1>6, <1>7, <1>8
<1> QED
    BY <1>9, ConservedNext DEF D

LEMMA RealizedKept ==
    ASSUME BInv, BInv', RealizedConserved,
           ByHand \/ Filled \/ Amended \/ BarrierExit
    PROVE  RealizedConserved'
<1> DEFINE D == DOMAIN positions
<1>1. /\ TypeOK /\ IsFiniteSet(D) /\ realized \in Int
      /\ \A i \in D : positions[i].realized \in Int
  <2>1. /\ TypeOK /\ realized \in Int
        /\ nextId \in 1..(MaxPositions + 1)
        /\ D \subseteq 1..(nextId - 1)
    BY DEF TypeOK, BInv
  <2>2. IsFiniteSet(1..(nextId - 1))
    <3>1. nextId - 1 \in Int
        BY <2>1, ConstantsAssumption
    <3> QED
        BY <3>1, FS_Interval
  <2>3. \A i \in D : positions[i].realized \in Int
    BY <2>1 DEF TypeOK, Position
  <2> QED
    BY <2>1, <2>2, <2>3, FS_Subset
<1>2. \A i \in DOMAIN positions' : positions'[i].realized \in Int
    BY DEF BInv, TypeOK, Position
<1>3. CASE ByHand
  <2>1. PICK id \in OpenIds, q \in Position :
            positions' = WithPosition(id, q) /\ realized' = Realize(positions[id], q)
    BY <1>3 DEF ByHand
  <2>2. /\ DOMAIN positions' = DOMAIN positions /\ positions'[id] = q
        /\ id \in DOMAIN positions
        /\ \A i \in DOMAIN positions \ {id} : positions'[i] = positions[i]
    BY <2>1, HandReplaces
  <2> QED
    BY <1>1, <1>2, <2>1, <2>2, SumOfReplaced DEF Realize
<1>4. CASE Filled
  <2>1. UNCHANGED realized
    BY <1>4 DEF Filled
  <2>2. PICK id \in DOMAIN pendingOpens :
            /\ id \notin DOMAIN positions
            /\ DOMAIN positions' = DOMAIN positions \cup {id}
            /\ \A i \in DOMAIN positions : positions'[i] = positions[i]
            /\ positions'[id].realized = 0
    BY <1>4, FillAdds
  <2> DEFINE E == DOMAIN positions'
  <2>3. E = D \cup {id} /\ E \ {id} = D /\ id \in E
    BY <2>2
  <2>4. IsFiniteSet(E)
    BY <1>1, <2>3, FS_AddElement
  <2> HIDE DEF D, E
  <2>5. RealizedOf(positions', E) = positions'[id].realized + RealizedOf(positions', D)
    <3>1. \A i \in E : positions'[i].realized \in Int
        BY <1>2 DEF E
    <3> QED
        BY <2>3, <2>4, <3>1, SumTakesOut
  <2>6. RealizedOf(positions, D) = RealizedOf(positions', D)
    <3>1. \A i \in D : positions[i].realized = positions'[i].realized
        BY <2>2 DEF D
    <3> QED
        BY <1>1, <3>1, SumCongruence
  <2>7. realized = RealizedOf(positions, D)
    BY DEF RealizedConserved, RealizedOf, D
  <2>8. realized' = RealizedOf(positions', E)
    BY <1>1, <2>1, <2>2, <2>5, <2>6, <2>7
  <2> QED
    BY <2>8, ConservedNext DEF E
<1>5. CASE Amended
  <2>1. /\ UNCHANGED realized /\ DOMAIN positions' = D
        /\ \A i \in D : positions[i].realized = positions'[i].realized
    BY <1>5 DEF Amended, Amends
  <2> HIDE DEF D
  <2>2. RealizedOf(positions, D) = RealizedOf(positions', D)
    BY <1>1, <2>1, SumCongruence
  <2>3. realized = RealizedOf(positions, D)
    BY DEF RealizedConserved, RealizedOf, D
  <2>4. realized' = RealizedOf(positions', DOMAIN positions')
    BY <2>1, <2>2, <2>3
  <2> QED
    BY <2>4, ConservedNext
<1>6. CASE BarrierExit
  <2>1. PICK id \in OpenIds, minute \in 1..M, price \in Int,
             reason \in {TP, SL, SAFETY_CAP, BATCHED_WINNER} :
                BarrierClose(id, minute, reason, price)
    BY <1>6 DEF BarrierExit
  <2>2. /\ DOMAIN positions' = DOMAIN positions /\ id \in DOMAIN positions
        /\ \A i \in DOMAIN positions \ {id} : positions'[i] = positions[i]
    BY <2>1, ExitEffect
  <2>3. realized' = realized + (positions'[id].realized - positions[id].realized)
    BY <2>1, <2>2 DEF BarrierClose, Realize, WithPosition
  <2> QED
    BY <1>1, <1>2, <2>2, <2>3, SumOfReplaced
<1> QED
    BY <1>3, <1>4, <1>5, <1>6

-----------------------------------------------------------------------------
(* Which steps add a fill, and which happen while the walk is under way.   *)

LEMMA HistoryStep ==
    ASSUME [Next]_vars
    PROVE  TouchBarrier \/ SweepWinner \/ CapHoldAge \/ UNCHANGED history
<1>1. CASE Dispatch
    BY <1>1 DEF Dispatch, DispatchOpen, DispatchScaleIn, DispatchScaleOut,
                DispatchClose, DispatchModifyStop, DispatchCancel, book
<1>2. CASE Advance
    BY <1>2 DEF Advance, AdvanceTo, ActivateOpen, OpensActivated, ActivateScaleIn,
                ScaleInsActivated, SweepDone, MarkPosition, MarkPortfolio, book
<1>3. CASE UNCHANGED vars
    BY <1>3 DEF vars
<1> QED
    BY <1>1, <1>2, <1>3 DEF Next

LEMMA WalkStep ==
    ASSUME [Next]_vars, phase' \in {"walk", "sweep"}
    PROVE  \/ ScaleInsActivated \/ TouchBarrier \/ SweepWinner \/ SweepDone
           \/ CapHoldAge \/ MarkPosition \/ UNCHANGED vars
<1>1. ASSUME Dispatch PROVE FALSE
  <2>1. phase = "idle" /\ phase' = phase
    BY <1>1 DEF Dispatch, DispatchOpen, DispatchScaleIn, DispatchScaleOut,
                DispatchClose, DispatchModifyStop, DispatchCancel, loop
  <2> QED
    BY <2>1
<1>2. ASSUME (\E b \in Bars : AdvanceTo(b)) \/ ActivateOpen \/ OpensActivated
                \/ ActivateScaleIn \/ MarkPortfolio
      PROVE  FALSE
  <2>1. phase' \in {"opens", "scaleins", "idle"}
    BY <1>2 DEF AdvanceTo, ActivateOpen, OpensActivated, ActivateScaleIn, MarkPortfolio
  <2> QED
    BY <2>1
<1> QED
    BY <1>1, <1>2 DEF Next, Advance

LEMMA BarsOnlyGrow ==
    ASSUME [Next]_vars, barNo \in Nat
    PROVE  barNo' \in Nat /\ barNo' >= barNo
<1>1. barNo' = barNo \/ barNo' = barNo + 1
  <2>1. CASE Dispatch
    BY <2>1 DEF Dispatch, DispatchOpen, DispatchScaleIn, DispatchScaleOut,
                DispatchClose, DispatchModifyStop, DispatchCancel, loop
  <2>2. CASE Advance
    BY <2>2 DEF Advance, AdvanceTo, ActivateOpen, OpensActivated, ActivateScaleIn,
                ScaleInsActivated, TouchBarrier, SweepWinner, SweepDone, CapHoldAge,
                MarkPosition, MarkPortfolio
  <2>3. CASE UNCHANGED vars
    BY <2>3 DEF vars
  <2> QED
    BY <2>1, <2>2, <2>3 DEF Next
<1> QED
    BY <1>1

-----------------------------------------------------------------------------
(* What is open was opened at the fill minute of some bar.                 *)

EntryTime(b) == 2 * M * (b - 1) + 2 * (FillMinute - 1) + CloseLag

EntryTimes ==
    \A i \in OpenIds :
        FillMinute <= M /\ \E b \in 1..barNo : positions[i].openTs = EntryTime(b)

(* What a step leaves open was open, or is new. *)
LEMMA OpenNext ==
    ASSUME BInv, ByHand \/ Filled \/ Amended \/ BarrierExit, NEW i \in OpenIds'
    PROVE  \/ i \in OpenIds /\ positions'[i].openTs = positions[i].openTs
           \/ /\ barNo > 0 /\ FillMinute <= M
              /\ positions'[i].openTs = CloseTime(FillMinute)
<1>1. CASE ByHand
  <2>1. PICK id \in OpenIds, q \in Position :
            /\ positions' = WithPosition(id, q)
            /\ q.openTs = positions[id].openTs
    BY <1>1 DEF ByHand
  <2>2. /\ DOMAIN positions' = DOMAIN positions /\ positions'[id] = q
        /\ \A k \in DOMAIN positions \ {id} : positions'[k] = positions[k]
    BY <2>1, HandReplaces
  <2> QED
    BY <2>1, <2>2 DEF OpenIds
<1>2. CASE Filled
  <2>1. PICK id \in DOMAIN pendingOpens :
            /\ FillMinute \in 1..M /\ barNo > 0
            /\ DOMAIN positions' = DOMAIN positions \cup {id}
            /\ \A k \in DOMAIN positions : positions'[k] = positions[k]
            /\ positions'[id].openTs = CloseTime(FillMinute)
    BY <1>2, FillAdds
  <2>2. FillMinute <= M
    BY <2>1
  <2>3. i \in DOMAIN positions' /\ ~positions'[i].closed
    BY DEF OpenIds
  <2>4. CASE i = id
    BY <1>2, <2>1, <2>2, <2>4
  <2>5. CASE i # id
    BY <2>1, <2>3, <2>5 DEF OpenIds
  <2> QED
    BY <2>4, <2>5
<1>3. CASE Amended
    BY <1>3 DEF Amended, Amends, OpenIds
<1>4. CASE BarrierExit
  <2>1. PICK id \in OpenIds, minute \in 1..M, price \in Int,
             reason \in {TP, SL, SAFETY_CAP, BATCHED_WINNER} :
                BarrierClose(id, minute, reason, price)
    BY <1>4 DEF BarrierExit
  <2>2. /\ DOMAIN positions' = DOMAIN positions /\ positions'[id].closed
        /\ \A k \in DOMAIN positions \ {id} : positions'[k] = positions[k]
    BY <2>1, ExitEffect
  <2> QED
    BY <2>2 DEF OpenIds
<1> QED
    BY <1>1, <1>2, <1>3, <1>4

LEMMA EntryTimesKept ==
    ASSUME BInv, EntryTimes, [Next]_vars
    PROVE  EntryTimes'
<1>1. ByHand \/ Filled \/ Amended \/ BarrierExit
    BY PortfolioStep
<1>2. barNo \in Nat
  <2>1. barNo \in 0..MaxBars
    BY DEF BInv, TypeOK
  <2> QED
    BY <2>1
<1>3. barNo' \in Nat /\ barNo' >= barNo
    BY <1>2, BarsOnlyGrow
<1>4. ASSUME NEW i \in OpenIds'
      PROVE  FillMinute <= M /\ \E b \in 1..barNo' : positions'[i].openTs = EntryTime(b)
  <2>1. CASE i \in OpenIds /\ positions'[i].openTs = positions[i].openTs
    <3>1. PICK b \in 1..barNo : positions[i].openTs = EntryTime(b)
        BY <2>1 DEF EntryTimes
    <3>2. b \in 1..barNo'
        BY <1>2, <1>3
    <3> QED
        BY <2>1, <3>1, <3>2 DEF EntryTimes
  <2>2. CASE /\ barNo > 0 /\ FillMinute <= M
             /\ positions'[i].openTs = CloseTime(FillMinute)
    <3>1. barNo \in 1..barNo'
        BY <1>2, <1>3, <2>2
    <3>2. CloseTime(FillMinute) = EntryTime(barNo)
        BY DEF CloseTime, BarOpen, EntryTime
    <3> QED
        BY <2>2, <3>1, <3>2
  <2> QED
    BY <1>1, <2>1, <2>2, OpenNext
<1> QED
    BY <1>4 DEF EntryTimes, FillMinute, EntryTime

-----------------------------------------------------------------------------
(* What the walk leaves open was touched in no minute it scanned.          *)

Untouched(i) ==
    TouchMinutes(positions[i]) = {} /\ BarsHeld(positions[i]) <= MaxHoldBars

WalkedUntouched ==
    phase \in {"walk", "sweep"} => \A i \in OpenIds \ todo : Untouched(i)

LEMMA UntouchedKept ==
    ASSUME NEW i, Untouched(i), bar' = bar, barNo' = barNo,
           positions'[i].side = positions[i].side,
           positions'[i].entry = positions[i].entry,
           positions'[i].tp = positions[i].tp,
           positions'[i].sl = positions[i].sl,
           positions'[i].openTs = positions[i].openTs
    PROVE  Untouched(i)'
<1>1. \A j : /\ SlHit(positions[i], bar[j]) <=> SlHit(positions'[i], bar[j])
             /\ TpHit(positions[i], bar[j]) <=> TpHit(positions'[i], bar[j])
    BY DEF SlHit, TpHit
<1>2. ScanStart(positions[i])' = ScanStart(positions[i])
    BY DEF ScanStart, BarOpen
<1>3. TouchMinutes(positions[i])' = TouchMinutes(positions[i])
    BY <1>1, <1>2 DEF TouchMinutes, SlHit, TpHit
<1>4. BarsHeld(positions[i])' = BarsHeld(positions[i])
    BY DEF BarsHeld, BarClose
<1> QED
    BY <1>3, <1>4 DEF Untouched

LEMMA MarkedScanFields ==
    ASSUME NEW p \in Position, NEW price
    PROVE  LET q == Marked(p, price) IN
           /\ q.side = p.side /\ q.entry = p.entry /\ q.tp = p.tp
           /\ q.sl = p.sl /\ q.openTs = p.openTs
BY DEF Marked, Position

LEMMA WalkedExit ==
    ASSUME BInv, WalkedUntouched, phase \in {"walk", "sweep"},
           NEW id \in OpenIds, NEW minute, NEW price \in Int, NEW reason,
           BarrierClose(id, minute, reason, price),
           bar' = bar, barNo' = barNo, todo' = todo \/ todo' = todo \ {id}
    PROVE  WalkedUntouched'
<1>1. /\ DOMAIN positions' = DOMAIN positions /\ positions'[id].closed
      /\ \A i \in DOMAIN positions \ {id} : positions'[i] = positions[i]
    BY ExitEffect
<1>2. ASSUME NEW i \in OpenIds' \ todo'
      PROVE  Untouched(i)'
  <2>1. i \in OpenIds \ todo /\ positions'[i] = positions[i]
    BY <1>1 DEF OpenIds
  <2>2. Untouched(i)
    BY <2>1 DEF WalkedUntouched
  <2> QED
    BY <2>1, <2>2, UntouchedKept
<1> QED
    BY <1>2 DEF WalkedUntouched

LEMMA WalkedKept ==
    ASSUME BInv, WalkedUntouched, [Next]_vars
    PROVE  WalkedUntouched'
<1>1. SUFFICES ASSUME phase' \in {"walk", "sweep"} PROVE WalkedUntouched'
    BY DEF WalkedUntouched
<1>2. CASE ScaleInsActivated
  <2>1. OpenIds' \ todo' = {}
    BY <1>2 DEF ScaleInsActivated, book, OpenIds
  <2> QED
    BY <2>1 DEF WalkedUntouched
<1>3. CASE TouchBarrier
  <2> DEFINE id == Visited
             p == positions[id]
             j == Min(TouchMinutes(p))
             reason == TouchReason(p, bar[j])
             price == BarrierPrice(p, reason)
  <2>1. Walking /\ TouchMinutes(p) # {} /\ BarrierClose(id, j, reason, price)
        /\ bar' = bar /\ barNo' = barNo /\ todo' = todo \ {id}
    BY <1>3 DEF TouchBarrier
  <2>2. id \in OpenIds /\ p \in Position /\ bar \in Bars /\ phase = "walk"
    BY <2>1, VisitedIsOpen DEF BInv, Walking
  <2>3. price \in Int
    BY <2>1, <2>2, TouchType
  <2> HIDE DEF id, p, j, reason, price
  <2> QED
    BY <2>1, <2>2, <2>3, WalkedExit
<1>4. CASE SweepWinner
  <2> DEFINE id == Min(Winners(sweep.price))
  <2>1. BarrierClose(id, sweep.minute, BATCHED_WINNER, sweep.price)
        /\ bar' = bar /\ barNo' = barNo /\ todo' = todo /\ phase = "sweep"
    BY <1>4 DEF SweepWinner
  <2>2. id \in OpenIds /\ sweep.price \in Int
    BY <1>4, SweepIsExit DEF Winners, BInv, TypeOK
  <2> HIDE DEF id
  <2> QED
    BY <2>1, <2>2, WalkedExit
<1>5. CASE SweepDone
  <2>1. /\ UNCHANGED <<positions, bar, barNo, todo>> /\ phase = "sweep"
    BY <1>5 DEF SweepDone, book
  <2>2. ASSUME NEW i \in OpenIds' \ todo' PROVE Untouched(i)'
    <3>1. i \in OpenIds \ todo
        BY <2>1 DEF OpenIds
    <3>2. Untouched(i)
        BY <2>1, <3>1 DEF WalkedUntouched
    <3> QED
        BY <2>1, <3>2, UntouchedKept
  <2> QED
    BY <2>2 DEF WalkedUntouched
<1>6. CASE CapHoldAge
  <2>1. Walking /\ BarrierClose(Visited, M, SAFETY_CAP, bar[M].close)
        /\ bar' = bar /\ barNo' = barNo /\ todo' = todo \ {Visited}
    BY <1>6 DEF CapHoldAge
  <2>2. Visited \in OpenIds /\ bar \in Bars /\ phase = "walk"
    BY <2>1, VisitedIsOpen DEF BInv, Walking
  <2>3. M \in 1..M
    BY ConstantsAssumption
  <2>4. bar[M].close \in Int
    BY <2>2, <2>3, BarType
  <2> QED
    BY <2>1, <2>2, <2>4, WalkedExit
<1>7. CASE MarkPosition
  <2> DEFINE id == Visited
             q == Marked(positions[id], bar[M].close)
  <2>1. /\ Walking /\ positions' = WithPosition(id, q) /\ todo' = todo \ {id}
        /\ Untouched(id) /\ bar' = bar /\ barNo' = barNo
    BY <1>7 DEF MarkPosition, Untouched
  <2>2. id \in OpenIds /\ id \in DOMAIN positions /\ positions[id] \in Position
        /\ phase = "walk"
    BY <2>1, VisitedIsOpen DEF BInv, OpenIds, Walking
  <2>3. /\ q.side = positions[id].side /\ q.entry = positions[id].entry
        /\ q.tp = positions[id].tp /\ q.sl = positions[id].sl
        /\ q.openTs = positions[id].openTs /\ q.closed = positions[id].closed
    BY <2>2, MarkedScanFields, MarkedAmends DEF Amends
  <2> HIDE DEF q, id
  <2>4. /\ DOMAIN positions' = DOMAIN positions /\ positions'[id] = q
        /\ \A i \in DOMAIN positions \ {id} : positions'[i] = positions[i]
    BY <2>1, <2>2 DEF WithPosition
  <2>5. ASSUME NEW i \in OpenIds' \ todo' PROVE Untouched(i)'
    <3>1. CASE i = id
        BY <2>1, <2>3, <2>4, <3>1, UntouchedKept
    <3>2. CASE i # id
      <4>1. i \in OpenIds \ todo /\ positions'[i] = positions[i]
        BY <2>1, <2>4, <3>2 DEF OpenIds
      <4>2. Untouched(i)
        BY <2>2, <4>1 DEF WalkedUntouched
      <4> QED
        BY <2>1, <4>1, <4>2, UntouchedKept
    <3> QED
        BY <3>1, <3>2
  <2> QED
    BY <2>5 DEF WalkedUntouched
<1>8. CASE UNCHANGED vars
  <2>1. UNCHANGED <<positions, bar, barNo, todo, phase>>
    BY <1>8 DEF vars
  <2>2. ASSUME NEW i \in OpenIds' \ todo' PROVE Untouched(i)'
    <3>1. i \in OpenIds \ todo
        BY <2>1 DEF OpenIds
    <3>2. Untouched(i)
        BY <1>1, <2>1, <3>1 DEF WalkedUntouched
    <3> QED
        BY <2>1, <3>2, UntouchedKept
  <2> QED
    BY <2>2 DEF WalkedUntouched
<1> QED
    BY <1>1, <1>2, <1>3, <1>4, <1>5, <1>6, <1>7, <1>8, WalkStep

(* A bar before this one is over when this one opens. *)
LEMMA EarlierBar ==
    ASSUME NEW m \in Nat, NEW a \in Nat, NEW b \in Nat, a < b
    PROVE  2 * m * (a - 1) <= 2 * m * (b - 1) - 2 * m
<1>1. PICK d \in Nat : b = a + 1 + d
  <2>1. b - a - 1 \in Nat /\ b = a + 1 + (b - a - 1)
    OBVIOUS
  <2> QED
    BY <2>1
<1>2. m * (b - 1) = m * (a - 1) + m + m * d
    BY <1>1
<1>3. m * d \in Nat /\ m * (a - 1) \in Int
    OBVIOUS
<1>4. 2 * m * (a - 1) = 2 * (m * (a - 1)) /\ 2 * m * (b - 1) = 2 * (m * (b - 1))
    OBVIOUS
<1> DEFINE u == m * d
           v == m * (a - 1)
           w == m * (b - 1)
<1>5. w = v + m + u /\ u \in Nat /\ v \in Int
    BY <1>2, <1>3
<1> HIDE DEF u, v, w
<1>6. 2 * v <= 2 * w - 2 * m
    BY <1>5
<1> QED
    BY <1>4, <1>6 DEF v, w

(* A position was opened in this bar, or in one that is over. *)
LEMMA EntryBound ==
    ASSUME BInv, EntryTimes, NEW i \in OpenIds, phase # "idle"
    PROVE  /\ FillMinute \in 1..M /\ BarOpen \in Nat /\ positions[i].openTs \in Int
           /\ \/ positions[i].openTs = CloseTime(FillMinute)
              \/ positions[i].openTs <= BarOpen - 2 * (M - FillMinute) - 2 + CloseLag
<1>1. barNo \in 0..MaxBars /\ barNo > 0 /\ FillMinute <= M
    BY DEF BInv, TypeOK, EntryTimes
<1>2. barNo \in Nat \ {0} /\ FillMinute \in 1..M /\ M \in Nat /\ CloseLag \in {1, 2}
  <2>1. FillMinute \in Nat \ {0}
    BY ConstantsAssumption DEF FillMinute
  <2> QED
    BY <1>1, <2>1, ConstantsAssumption
<1>3. PICK b \in 1..barNo : positions[i].openTs = EntryTime(b)
    BY DEF EntryTimes
<1>4. BarOpen \in Nat
  <2>1. barNo - 1 \in Nat
    BY <1>2
  <2> QED
    BY <1>2, <2>1 DEF BarOpen
<1>5. EntryTime(b) \in Int
  <2>1. b - 1 \in Nat
    BY <1>2
  <2>2. 2 * M * (b - 1) \in Nat
    BY <1>2, <2>1
  <2> QED
    BY <1>2, <2>2 DEF EntryTime
<1>6. CASE b = barNo
    BY <1>2, <1>3, <1>4, <1>5, <1>6 DEF EntryTime, CloseTime, BarOpen
<1>7. CASE b # barNo
  <2>1. b \in Nat /\ b < barNo
    BY <1>2, <1>7
  <2>2. 2 * M * (b - 1) <= 2 * M * (barNo - 1) - 2 * M
    BY <1>2, <2>1, EarlierBar
  <2> DEFINE u == 2 * M * (b - 1)
  <2>3. u \in Int /\ EntryTime(b) = u + 2 * (FillMinute - 1) + CloseLag
        /\ u <= BarOpen - 2 * M
    BY <1>2, <2>1, <2>2 DEF EntryTime, BarOpen
  <2> HIDE DEF u
  <2>4. EntryTime(b) <= BarOpen - 2 * (M - FillMinute) - 2 + CloseLag
    BY <1>2, <1>4, <2>3
  <2> QED
    BY <1>2, <1>3, <1>4, <1>5, <2>4
<1> QED
    BY <1>6, <1>7

LEMMA SurvivorsAsClaimed ==
    ASSUME BInv, EntryTimes, WalkedUntouched
    PROVE  SurvivorsUntouched
<1>1. SUFFICES ASSUME phase = "walk", todo \cap OpenIds = {},
                      ~(L = M /\ CloseLag = 2), NEW i \in OpenIds
      PROVE  /\ \A j \in 1..M : BarOpen + 2 * (j - 1) >= positions[i].openTs
                    => ~SlHit(positions[i], bar[j]) /\ ~TpHit(positions[i], bar[j])
             /\ BarsHeld(positions[i]) <= MaxHoldBars
    BY DEF SurvivorsUntouched
<1>2. TouchMinutes(positions[i]) = {} /\ BarsHeld(positions[i]) <= MaxHoldBars
    BY <1>1 DEF WalkedUntouched, Untouched
<1>3. /\ FillMinute \in 1..M /\ BarOpen \in Nat /\ positions[i].openTs \in Int
      /\ \/ positions[i].openTs = CloseTime(FillMinute)
         \/ positions[i].openTs <= BarOpen - 2 * (M - FillMinute) - 2 + CloseLag
    BY <1>1, EntryBound
<1>4. ASSUME NEW j \in 1..M, BarOpen + 2 * (j - 1) >= positions[i].openTs
      PROVE  j >= ScanStart(positions[i])
  <2>1. M \in Nat \ {0} /\ L \in Nat /\ CloseLag \in {1, 2} /\ j \in 1..M
    BY ConstantsAssumption
  <2>2. FillMinute = IF L = 0 THEN 1 ELSE L
    BY DEF FillMinute
  <2>3. CloseTime(FillMinute) = BarOpen + 2 * (FillMinute - 1) + CloseLag
    BY DEF CloseTime
  <2>4. ScanStart(positions[i]) = IF positions[i].openTs >= BarOpen THEN L + 1 ELSE 1
    BY DEF ScanStart
  <2> DEFINE ts == positions[i].openTs
             start == ScanStart(positions[i])
  <2> HIDE DEF ts, start
  <2>5. /\ ts \in Int /\ BarOpen + 2 * (j - 1) >= ts
        /\ start = IF ts >= BarOpen THEN L + 1 ELSE 1
        /\ \/ ts = BarOpen + 2 * (FillMinute - 1) + CloseLag
           \/ ts <= BarOpen - 2 * (M - FillMinute) - 2 + CloseLag
    BY <1>3, <1>4, <2>3, <2>4 DEF ts, start
  <2>6. CASE ts = BarOpen + 2 * (FillMinute - 1) + CloseLag
    BY <1>3, <2>1, <2>2, <2>5, <2>6 DEF start
  <2>7. CASE ts <= BarOpen - 2 * (M - FillMinute) - 2 + CloseLag
    <3>1. CASE ts < BarOpen
        BY <1>3, <2>1, <2>5, <3>1 DEF start
    <3>2. CASE ts >= BarOpen
      <4>1. M = FillMinute /\ CloseLag = 2
        BY <1>3, <2>1, <2>5, <2>7, <3>2
      <4>2. L = 0
        BY <1>1, <2>2, <4>1
      <4> QED
        BY <2>1, <2>5, <3>2, <4>2 DEF start
    <3> QED
        BY <1>3, <2>5, <3>1, <3>2
  <2> QED
    BY <2>5, <2>6, <2>7
<1>5. ASSUME NEW j \in 1..M, BarOpen + 2 * (j - 1) >= positions[i].openTs
      PROVE  ~SlHit(positions[i], bar[j]) /\ ~TpHit(positions[i], bar[j])
    BY <1>2, <1>4, <1>5 DEF TouchMinutes
<1> QED
    BY <1>2, <1>5

-----------------------------------------------------------------------------
(* A position's own barriers close it after its entry.                     *)

(* Of a position the walk visits, at the minute its scan finds. *)
LEMMA TouchAfterEntry ==
    ASSUME BInv, EntryTimes, NEW i \in OpenIds, phase # "idle",
           NEW j \in 1..M, j >= ScanStart(positions[i])
    PROVE  /\ CloseTime(j) >= positions[i].openTs
           /\ L > 0 => CloseTime(j) > positions[i].openTs
<1>1. /\ FillMinute \in 1..M /\ BarOpen \in Nat /\ positions[i].openTs \in Int
      /\ \/ positions[i].openTs = CloseTime(FillMinute)
         \/ positions[i].openTs <= BarOpen - 2 * (M - FillMinute) - 2 + CloseLag
    BY EntryBound
<1>2. M \in Nat \ {0} /\ L \in Nat /\ CloseLag \in {1, 2} /\ j \in 1..M
    BY ConstantsAssumption
<1>3. /\ FillMinute = IF L = 0 THEN 1 ELSE L
      /\ CloseTime(FillMinute) = BarOpen + 2 * (FillMinute - 1) + CloseLag
      /\ CloseTime(j) = BarOpen + 2 * (j - 1) + CloseLag
      /\ ScanStart(positions[i]) = IF positions[i].openTs >= BarOpen THEN L + 1 ELSE 1
    BY DEF FillMinute, CloseTime, ScanStart
<1> DEFINE ts == positions[i].openTs
           exit == CloseTime(j)
<1> HIDE DEF ts, exit
<1>4. /\ ts \in Int /\ exit = BarOpen + 2 * (j - 1) + CloseLag
      /\ \/ ts = BarOpen + 2 * (FillMinute - 1) + CloseLag
         \/ ts <= BarOpen - 2 * (M - FillMinute) - 2 + CloseLag
      /\ j >= IF ts >= BarOpen THEN L + 1 ELSE 1
    BY <1>1, <1>3 DEF ts, exit
<1>5. exit >= ts /\ (L > 0 => exit > ts)
  <2>1. CASE ts = BarOpen + 2 * (FillMinute - 1) + CloseLag
    BY <1>1, <1>2, <1>3, <1>4, <2>1
  <2>2. CASE ts <= BarOpen - 2 * (M - FillMinute) - 2 + CloseLag
    BY <1>1, <1>2, <1>4, <2>2
  <2> QED
    BY <1>4, <2>1, <2>2
<1> QED
    BY <1>5 DEF ts, exit

LEMMA OwnBarrierKept ==
    ASSUME BInv, EntryTimes, OwnBarrierAfterEntry, [Next]_vars
    PROVE  OwnBarrierAfterEntry'
<1> DEFINE n == Len(history)
           After(f) == f.reason \in {TP, SL} =>
                /\ f.exitTs >= f.entryTs
                /\ L > 0 => f.exitTs > f.entryTs
<1>1. \A k \in 1..n : After(history[k])
    BY DEF OwnBarrierAfterEntry
<1>2. ASSUME NEW id \in OpenIds, NEW minute, NEW price \in Int, NEW reason,
             BarrierClose(id, minute, reason, price),
             reason \in {TP, SL} =>
                /\ CloseTime(minute) >= positions[id].openTs
                /\ L > 0 => CloseTime(minute) > positions[id].openTs
      PROVE  OwnBarrierAfterEntry'
  <2>1. /\ Len(history') = n + 1 /\ n \in Nat
        /\ \A k \in 1..n : history'[k] = history[k]
        /\ history'[n + 1].reason = reason
        /\ history'[n + 1].entryTs = positions[id].openTs
        /\ history'[n + 1].exitTs = CloseTime(minute)
    BY <1>2, ExitEffect
  <2>2. After(history'[n + 1])
    BY <1>2, <2>1
  <2> HIDE DEF n, After
  <2>3. \A k \in 1..Len(history') : After(history'[k])
    BY <1>1, <2>1, <2>2
  <2> QED
    BY <2>3 DEF OwnBarrierAfterEntry, After
<1>3. CASE TouchBarrier
  <2> DEFINE id == Visited
             p == positions[id]
             j == Min(TouchMinutes(p))
             reason == TouchReason(p, bar[j])
             price == BarrierPrice(p, reason)
  <2>1. Walking /\ TouchMinutes(p) # {} /\ BarrierClose(id, j, reason, price)
    BY <1>3 DEF TouchBarrier
  <2>2. id \in OpenIds /\ p \in Position /\ bar \in Bars /\ phase # "idle"
    BY <2>1, VisitedIsOpen DEF BInv
  <2>3. price \in Int /\ j \in 1..M
    BY <2>1, <2>2, TouchType
  <2>4. j >= ScanStart(p)
    <3>1. TouchMinutes(p) \in SUBSET Nat
        BY ConstantsAssumption DEF TouchMinutes
    <3>2. j \in TouchMinutes(p)
        BY <2>1, <3>1, MinIsMember
    <3> HIDE DEF j
    <3> QED
        BY <3>2 DEF TouchMinutes
  <2> HIDE DEF id, j, reason, price
  <2>5. CloseTime(j) >= p.openTs /\ (L > 0 => CloseTime(j) > p.openTs)
    BY <2>2, <2>3, <2>4, TouchAfterEntry
  <2> HIDE DEF p
  <2> QED
    BY <1>2, <2>1, <2>2, <2>3, <2>5 DEF p
<1>4. CASE SweepWinner
  <2> DEFINE id == Min(Winners(sweep.price))
  <2>1. BarrierClose(id, sweep.minute, BATCHED_WINNER, sweep.price)
    BY <1>4 DEF SweepWinner
  <2>2. id \in OpenIds /\ sweep.price \in Int
    BY <1>4, SweepIsExit DEF Winners, BInv, TypeOK
  <2>3. BATCHED_WINNER \notin {TP, SL}
    BY DEF BATCHED_WINNER, TP, SL
  <2> HIDE DEF id
  <2> QED
    BY <1>2, <2>1, <2>2, <2>3
<1>5. CASE CapHoldAge
  <2>1. Walking /\ BarrierClose(Visited, M, SAFETY_CAP, bar[M].close)
    BY <1>5 DEF CapHoldAge
  <2>2. Visited \in OpenIds /\ bar \in Bars
    BY <2>1, VisitedIsOpen DEF BInv
  <2>3. M \in 1..M
    BY ConstantsAssumption
  <2>4. bar[M].close \in Int
    BY <2>2, <2>3, BarType
  <2>5. SAFETY_CAP \notin {TP, SL}
    BY DEF SAFETY_CAP, TP, SL
  <2> QED
    BY <1>2, <2>1, <2>2, <2>4, <2>5
<1>6. CASE UNCHANGED history
    BY <1>6 DEF OwnBarrierAfterEntry
<1> QED
    BY <1>3, <1>4, <1>5, <1>6, HistoryStep

-----------------------------------------------------------------------------
(* A sweep is a run of fills behind a take-profit.                         *)

RunOf(h, from, minute) ==
    /\ from \in 1..Len(h) /\ h[from].reason = TP
    /\ \A k \in from..Len(h) : h[k].exitTs = CloseTime(minute)
    /\ \A k \in (from + 1)..Len(h) : h[k].reason = BATCHED_WINNER

SweepRun ==
    phase = "sweep" => RunOf(history, Len(history) - sweep.count, sweep.minute)

LEMMA ExitAppends ==
    ASSUME BInv, NEW id \in OpenIds, NEW minute, NEW price \in Int, NEW reason,
           BarrierClose(id, minute, reason, price)
    PROVE  /\ Len(history') = Len(history) + 1 /\ Len(history) \in Nat
           /\ history'[Len(history) + 1].reason = reason
           /\ history'[Len(history) + 1].exitTs = CloseTime(minute)
BY ExitEffect

LEMMA SweepRunKept ==
    ASSUME BInv, SweepRun, [Next]_vars
    PROVE  SweepRun'
<1> DEFINE n == Len(history)
<1>1. SUFFICES ASSUME phase' = "sweep"
      PROVE  RunOf(history, Len(history) - sweep.count, sweep.minute)'
    BY DEF SweepRun
<1>2. CASE TouchBarrier
  <2> DEFINE id == Visited
             p == positions[id]
             j == Min(TouchMinutes(p))
             reason == TouchReason(p, bar[j])
             price == BarrierPrice(p, reason)
  <2>1. /\ Walking /\ TouchMinutes(p) # {} /\ BarrierClose(id, j, reason, price)
        /\ barNo' = barNo
        /\ IF Sweeps(reason)
           THEN sweep' = [price |-> price, minute |-> j, count |-> 0]
           ELSE UNCHANGED phase
    BY <1>2 DEF TouchBarrier
  <2>2. id \in OpenIds /\ p \in Position /\ bar \in Bars /\ phase = "walk"
    BY <2>1, VisitedIsOpen DEF BInv, Walking
  <2>3. price \in Int
    BY <2>1, <2>2, TouchType
  <2> HIDE DEF id, p, j, reason, price
  <2>4. reason = TP /\ sweep'.minute = j /\ sweep'.count = 0
    BY <1>1, <2>1, <2>2 DEF Sweeps
  <2>5. /\ Len(history') = n + 1 /\ n \in Nat
        /\ history'[n + 1].reason = reason
        /\ history'[n + 1].exitTs = CloseTime(j)
    <3>1. BarrierClose(id, j, reason, price) /\ id \in OpenIds /\ price \in Int
        BY <2>1, <2>2, <2>3
    <3> QED
        BY <3>1, ExitAppends
  <2> HIDE DEF n
  <2>6. /\ Len(history') - sweep'.count = n + 1
        /\ (n + 1)..Len(history') = {n + 1} /\ (n + 2)..Len(history') = {}
    BY <2>4, <2>5
  <2>7. \A m : CloseTime(m)' = CloseTime(m)
    BY <2>1 DEF CloseTime, BarOpen
  <2>8. n + 1 \in 1..Len(history') /\ (n + 1) + 1 = n + 2
    BY <2>5
  <2> QED
    BY <2>4, <2>5, <2>6, <2>7, <2>8 DEF RunOf, CloseTime, BarOpen
<1>3. CASE SweepWinner
  <2> DEFINE id == Min(Winners(sweep.price))
             from == n - sweep.count
  <2>1. /\ BarrierClose(id, sweep.minute, BATCHED_WINNER, sweep.price)
        /\ barNo' = barNo /\ phase = "sweep"
        /\ sweep' = [sweep EXCEPT !.count = @ + 1]
    BY <1>3 DEF SweepWinner
  <2>2. id \in OpenIds /\ sweep.price \in Int /\ sweep.count \in Nat
    BY <1>3, SweepIsExit DEF Winners, BInv, TypeOK
  <2>3. sweep'.count = sweep.count + 1 /\ sweep'.minute = sweep.minute
    BY <2>1 DEF BInv, TypeOK
  <2> HIDE DEF id
  <2>4. /\ Len(history') = n + 1 /\ n \in Nat
        /\ \A k \in 1..n : history'[k] = history[k]
        /\ history'[n + 1].reason = BATCHED_WINNER
        /\ history'[n + 1].exitTs = CloseTime(sweep.minute)
    BY <2>1, <2>2, ExitEffect
  <2>5. RunOf(history, from, sweep.minute)
    BY <2>1 DEF SweepRun
  <2>6. Len(history') - sweep'.count = from /\ from \in Int
    BY <2>2, <2>3, <2>4
  <2>7. /\ from \in 1..n /\ history[from].reason = TP
        /\ \A k \in from..n : history[k].exitTs = CloseTime(sweep.minute)
        /\ \A k \in (from + 1)..n : history[k].reason = BATCHED_WINNER
    BY <2>5 DEF RunOf
  <2> HIDE DEF from, n
  <2>8. /\ from \in 1..(n + 1) /\ history'[from].reason = TP
        /\ \A k \in from..(n + 1) : history'[k].exitTs = CloseTime(sweep.minute)
        /\ \A k \in (from + 1)..(n + 1) : history'[k].reason = BATCHED_WINNER
    BY <2>4, <2>7
  <2>9. \A m : CloseTime(m)' = CloseTime(m)
    BY <2>1 DEF CloseTime, BarOpen
  <2> QED
    BY <2>1, <2>3, <2>4, <2>6, <2>8, <2>9 DEF RunOf, CloseTime, BarOpen
<1>4. CASE ScaleInsActivated \/ SweepDone \/ CapHoldAge \/ MarkPosition
  <2>1. phase' = "walk"
    BY <1>4 DEF ScaleInsActivated, SweepDone, CapHoldAge, MarkPosition, Walking
  <2> QED
    BY <1>1, <2>1
<1>5. CASE UNCHANGED vars
  <2>1. UNCHANGED <<history, sweep, barNo, phase>>
    BY <1>5 DEF vars
  <2> QED
    BY <1>1, <2>1 DEF SweepRun, RunOf, CloseTime, BarOpen
<1> QED
    BY <1>1, <1>2, <1>3, <1>4, <1>5, WalkStep

(* A winner of the sweep earns something when the cost does not depend on  *)
(* the size.                                                               *)
LEMMA WinnerEarns ==
    ASSUME BInv, CostSlip = 0, NEW price \in Int, NEW id \in Winners(price)
    PROVE  (Move(positions[id], price) - 2 * CostPerSide(positions[id].openSize))
                * positions[id].curSize > 0
<1> DEFINE p == positions[id]
           net == (Move(p, price) - 2 * CostBase) * p.curSize
<1>1. p \in Position
    BY DEF Winners, OpenIds, BInv, TypeOK
<1>2. p.openSize \in Nat /\ p.curSize \in Nat /\ Move(p, price) \in Int
    BY <1>1, MoveType DEF Position
<1>3. CostPerSide(p.openSize) = CostBase /\ CostPerSide(p.curSize) = CostBase
      /\ CostBase \in Nat
    BY <1>2, ConstantsAssumption DEF CostPerSide
<1>4. net = NetAt(p, price) /\ 10 * NetAt(p, price) > CostBase * p.curSize
    BY <1>3 DEF Winners, NetAt
<1>5. net \in Int /\ CostBase * p.curSize \in Nat
    BY <1>2, <1>3
<1>6. net > 0
  <2> DEFINE c == CostBase * p.curSize
  <2>1. 10 * net > c /\ c \in Nat /\ net \in Int
    BY <1>4, <1>5
  <2> HIDE DEF c, net
  <2> QED
    BY <2>1
<1> QED
    BY <1>3, <1>6

SweptBy(h, k) ==
    /\ CostSlip = 0 => h[k].net > 0
    /\ \E j \in 1..(k - 1) :
          /\ h[j].reason = TP
          /\ \A i \in j..k : h[i].exitTs = h[k].exitTs
          /\ \A i \in (j + 1)..k : h[i].reason = BATCHED_WINNER

(* What was swept stays so when a fill is added. *)
LEMMA SweptByPrefix ==
    ASSUME NEW h, NEW g, NEW n \in Nat, \A k \in 1..n : g[k] = h[k],
           NEW k \in 1..n, SweptBy(h, k)
    PROVE  SweptBy(g, k)
<1>1. PICK j \in 1..(k - 1) :
          /\ h[j].reason = TP
          /\ \A i \in j..k : h[i].exitTs = h[k].exitTs
          /\ \A i \in (j + 1)..k : h[i].reason = BATCHED_WINNER
    BY DEF SweptBy
<1>2. /\ g[j].reason = TP
      /\ \A i \in j..k : g[i].exitTs = g[k].exitTs
      /\ \A i \in (j + 1)..k : g[i].reason = BATCHED_WINNER
    BY <1>1
<1>3. CostSlip = 0 => g[k].net > 0
    BY DEF SweptBy
<1> QED
    BY <1>2, <1>3 DEF SweptBy

LEMMA SweepFollowsKept ==
    ASSUME BInv, SweepRun, SweepFollowsTakeProfit, [Next]_vars
    PROVE  SweepFollowsTakeProfit'
<1> DEFINE n == Len(history)
<1>1. \A k \in 1..n : history[k].reason = BATCHED_WINNER => SweptBy(history, k)
    BY DEF SweepFollowsTakeProfit, SweptBy
<1>2. ASSUME NEW id \in OpenIds, NEW minute, NEW price \in Int, NEW reason,
             BarrierClose(id, minute, reason, price),
             reason = BATCHED_WINNER => SweptBy(history', n + 1)
      PROVE  SweepFollowsTakeProfit'
  <2>1. /\ Len(history') = n + 1 /\ n \in Nat
        /\ \A k \in 1..n : history'[k] = history[k]
        /\ history'[n + 1].reason = reason
    BY <1>2, ExitEffect
  <2> HIDE DEF n
  <2>2. ASSUME NEW k \in 1..Len(history'), history'[k].reason = BATCHED_WINNER
        PROVE  SweptBy(history', k)
    <3>1. CASE k \in 1..n
      <4>1. SweptBy(history, k)
        BY <1>1, <2>1, <2>2, <3>1
      <4> QED
        BY <2>1, <3>1, <4>1, SweptByPrefix
    <3>2. CASE k = n + 1
        BY <1>2, <2>1, <2>2, <3>2
    <3> QED
        BY <2>1, <3>1, <3>2
  <2> QED
    BY <2>2 DEF SweepFollowsTakeProfit, SweptBy
<1>3. CASE TouchBarrier
  <2> DEFINE id == Visited
             p == positions[id]
             j == Min(TouchMinutes(p))
             reason == TouchReason(p, bar[j])
             price == BarrierPrice(p, reason)
  <2>1. Walking /\ TouchMinutes(p) # {} /\ BarrierClose(id, j, reason, price)
    BY <1>3 DEF TouchBarrier
  <2>2. id \in OpenIds /\ p \in Position /\ bar \in Bars
    BY <2>1, VisitedIsOpen DEF BInv
  <2>3. price \in Int /\ reason # BATCHED_WINNER
    BY <2>1, <2>2, TouchType DEF TP, SL, BATCHED_WINNER
  <2> HIDE DEF id, p, j, reason, price
  <2> QED
    BY <1>2, <2>1, <2>2, <2>3
<1>4. CASE SweepWinner
  <2> DEFINE id == Min(Winners(sweep.price))
             from == n - sweep.count
  <2>1. /\ BarrierClose(id, sweep.minute, BATCHED_WINNER, sweep.price)
        /\ phase = "sweep"
    BY <1>4 DEF SweepWinner
  <2>2. /\ id \in Winners(sweep.price) /\ id \in OpenIds
        /\ sweep.price \in Int /\ sweep.count \in Nat
    BY <1>4, SweepIsExit DEF Winners, BInv, TypeOK
  <2> HIDE DEF id
  <2>3. /\ Len(history') = n + 1 /\ n \in Nat
        /\ \A k \in 1..n : history'[k] = history[k]
        /\ history'[n + 1].reason = BATCHED_WINNER
        /\ history'[n + 1].exitTs = CloseTime(sweep.minute)
        /\ history'[n + 1].net =
             (Move(positions[id], sweep.price) - 2 * CostPerSide(positions[id].openSize))
                * positions[id].curSize
    BY <2>1, <2>2, ExitEffect
  <2>4. CostSlip = 0 => history'[n + 1].net > 0
    BY <2>2, <2>3, WinnerEarns
  <2>5. /\ from \in 1..n /\ history[from].reason = TP
        /\ \A k \in from..n : history[k].exitTs = CloseTime(sweep.minute)
        /\ \A k \in (from + 1)..n : history[k].reason = BATCHED_WINNER
    BY <2>1 DEF SweepRun, RunOf
  <2> HIDE DEF from, n
  <2>6. from \in 1..((n + 1) - 1) /\ history'[from].reason = TP
    BY <2>3, <2>5
  <2>7. /\ \A k \in from..(n + 1) : history'[k].exitTs = history'[n + 1].exitTs
        /\ \A k \in (from + 1)..(n + 1) : history'[k].reason = BATCHED_WINNER
    BY <2>3, <2>5
  <2>8. SweptBy(history', n + 1)
    BY <2>4, <2>6, <2>7 DEF SweptBy
  <2> QED
    BY <1>2, <2>1, <2>2, <2>8 DEF n
<1>5. CASE CapHoldAge
  <2>1. Walking /\ BarrierClose(Visited, M, SAFETY_CAP, bar[M].close)
    BY <1>5 DEF CapHoldAge
  <2>2. Visited \in OpenIds /\ bar \in Bars
    BY <2>1, VisitedIsOpen DEF BInv
  <2>3. M \in 1..M
    BY ConstantsAssumption
  <2>4. bar[M].close \in Int /\ SAFETY_CAP # BATCHED_WINNER
    BY <2>2, <2>3, BarType DEF SAFETY_CAP, BATCHED_WINNER
  <2> QED
    BY <1>2, <2>1, <2>2, <2>4
<1>6. CASE UNCHANGED history
    BY <1>6 DEF SweepFollowsTakeProfit
<1> QED
    BY <1>3, <1>4, <1>5, <1>6, HistoryStep

-----------------------------------------------------------------------------
(* The inductive invariant, and what it yields.                            *)

LInv ==
    /\ BInv
    /\ LedgerAgreesWithPortfolio
    /\ RealizedConserved
    /\ EntryTimes
    /\ WalkedUntouched
    /\ OwnBarrierAfterEntry
    /\ SweepRun
    /\ SweepFollowsTakeProfit

LEMMA InitLedger == Init => LInv
<1> SUFFICES ASSUME Init PROVE LInv
    OBVIOUS
<1>1. DOMAIN positions = {} /\ OpenIds = {} /\ 1..Len(history) = {}
    BY DEF Init, OpenIds
<1>2. BInv
    BY InitInvariant
<1>3. RealizedConserved
  <2>1. RealizedOf(positions, {}) = 0
    BY SumUnfolds, FS_EmptySet
  <2>2. realized = RealizedOf(positions, DOMAIN positions)
    BY <1>1, <2>1 DEF Init
  <2> QED
    BY <2>2 DEF RealizedConserved, RealizedOf, MapThenSumSet, MapThenFoldSet
<1>4. LedgerAgreesWithPortfolio /\ OwnBarrierAfterEntry /\ SweepFollowsTakeProfit
    BY <1>1 DEF LedgerAgreesWithPortfolio, OwnBarrierAfterEntry, SweepFollowsTakeProfit
<1>5. EntryTimes
    BY <1>1 DEF EntryTimes
<1>6. WalkedUntouched /\ SweepRun
    BY DEF Init, WalkedUntouched, SweepRun
<1> QED
    BY <1>2, <1>3, <1>4, <1>5, <1>6 DEF LInv

LEMMA StepKeepsLedger ==
    ASSUME LInv, [Next]_vars
    PROVE  LInv'
<1>1. BInv /\ BInv' /\ ClosedKept
    BY StepKeeps DEF LInv
<1>2. ByHand \/ Filled \/ Amended \/ BarrierExit
    BY <1>1, PortfolioStep
<1>3. LedgerAgreesWithPortfolio' /\ RealizedConserved'
    BY <1>1, <1>2, LedgerKept, RealizedKept DEF LInv
<1>4. EntryTimes' /\ WalkedUntouched' /\ OwnBarrierAfterEntry'
    BY <1>1, EntryTimesKept, WalkedKept, OwnBarrierKept DEF LInv
<1>5. SweepRun' /\ SweepFollowsTakeProfit'
    BY <1>1, SweepRunKept, SweepFollowsKept DEF LInv
<1> QED
    BY <1>1, <1>3, <1>4, <1>5 DEF LInv

LEMMA LedgerInvariance == Spec => []LInv
<1>1. LInv /\ [Next]_vars => LInv'
    BY StepKeepsLedger
<1> QED
    BY <1>1, InitLedger, PTL DEF Spec

(* The list of fills and the positions tell one story: every fill is of a  *)
(* position closed for that reason, no position has two, and only one that *)
(* was closed by hand has none.                                            *)
THEOREM LedgerAgrees == Spec => []LedgerAgreesWithPortfolio
<1>1. LInv => LedgerAgreesWithPortfolio
    BY DEF LInv
<1> QED
    BY <1>1, LedgerInvariance, PTL

(* The portfolio's running PnL is at any time the sum of what its          *)
(* positions realized, partial exits included.                             *)
THEOREM PnLConserved == Spec => []RealizedConserved
<1>1. LInv => RealizedConserved
    BY DEF LInv
<1> QED
    BY <1>1, LedgerInvariance, PTL

(* Behind every batched exit stands a take-profit of the same minute, with *)
(* nothing but batched exits in between; without slippage it earns money.  *)
THEOREM SweepsFollowTakeProfits == Spec => []SweepFollowsTakeProfit
<1>1. LInv => SweepFollowsTakeProfit
    BY DEF LInv
<1> QED
    BY <1>1, LedgerInvariance, PTL

(* What the walk leaves open no minute touched that began since the fill,  *)
(* and the safety cap did not have to close.                               *)
THEOREM SurvivorsWereUntouched == Spec => []SurvivorsUntouched
<1>1. LInv => SurvivorsUntouched
    BY SurvivorsAsClaimed DEF LInv
<1> QED
    BY <1>1, LedgerInvariance, PTL

(* A position's own take-profit or stop closes it after its entry, for     *)
(* every latency but none, and never before it.                            *)
THEOREM OwnBarriersAfterEntry == Spec => []OwnBarrierAfterEntry
<1>1. LInv => OwnBarrierAfterEntry
    BY DEF LInv
<1> QED
    BY <1>1, LedgerInvariance, PTL

-----------------------------------------------------------------------------
(* The high-water mark.  What the open positions are worth is a sum like   *)
(* the one of what was realized: SumTakesOut and the others apply to it    *)
(* through Worths.                                                         *)

OpenOf(ps) == {i \in DOMAIN ps : ~ps[i].closed}
Worths(ps) == [i \in OpenOf(ps) |-> [realized |-> Worth(ps[i])]]
WorthOf(ps) == RealizedOf(Worths(ps), OpenOf(ps))

LEMMA WorthIsSum ==
    ASSUME NEW ps, NEW S, IsFiniteSet(S), NEW w,
           \A i \in S : w[i].realized = Worth(ps[i])
    PROVE  MapThenSumSet(LAMBDA i : Worth(ps[i]), S) = RealizedOf(w, S)
<1> DEFINE Adds(g) == g = [s \in SUBSET S |->
                IF s = {} THEN 0 ELSE Worth(ps[Pick(s)]) + g[s \ {Pick(s)}]]
           it == CHOOSE g : Adds(g)
<1>1. \A s \in SUBSET S : s # {} => w[Pick(s)].realized = Worth(ps[Pick(s)])
    BY DEF Pick
<1>2. \A g : Adds(g) <=> IsSum(g, w, SUBSET S)
  <2>1. TAKE g
  <2>2. [s \in SUBSET S |-> IF s = {} THEN 0 ELSE Worth(ps[Pick(s)]) + g[s \ {Pick(s)}]]
        = [s \in SUBSET S |-> IF s = {} THEN 0 ELSE w[Pick(s)].realized + g[s \ {Pick(s)}]]
    BY <1>1
  <2> QED
    BY <2>2 DEF IsSum
<1>3. PICK g : IsSum(g, w, SUBSET S) /\ RealizedOf(w, S) = g[S]
    BY SumIs
<1>4. Adds(it)
    BY <1>2, <1>3, Zenon
<1>5. IsSum(it, w, SUBSET S)
    BY <1>2, <1>4, Zenon
<1>6. MapThenSumSet(LAMBDA i : Worth(ps[i]), S) = it[S]
    BY DEF MapThenSumSet, MapThenFoldSet, Pick
<1> HIDE DEF it, Adds
<1>7. SameRealized(w, w, S \cap S) /\ S \in SUBSET (S \cap S)
    BY DEF SameRealized
<1>8. it[S] = g[S]
    BY <1>3, <1>5, <1>7, SumsAgree
<1> QED
    BY <1>3, <1>6, <1>8

LEMMA UnrealizedIsSum ==
    ASSUME NEW ps, NEW S, IsFiniteSet(S), NEW w,
           \A i \in S : w[i].realized = ps[i].unrealized
    PROVE  MapThenSumSet(LAMBDA i : ps[i].unrealized, S) = RealizedOf(w, S)
<1> DEFINE Adds(g) == g = [s \in SUBSET S |->
                IF s = {} THEN 0 ELSE ps[Pick(s)].unrealized + g[s \ {Pick(s)}]]
           it == CHOOSE g : Adds(g)
<1>1. \A s \in SUBSET S : s # {} => w[Pick(s)].realized = ps[Pick(s)].unrealized
    BY DEF Pick
<1>2. \A g : Adds(g) <=> IsSum(g, w, SUBSET S)
  <2>1. TAKE g
  <2>2. [s \in SUBSET S |-> IF s = {} THEN 0 ELSE ps[Pick(s)].unrealized + g[s \ {Pick(s)}]]
        = [s \in SUBSET S |-> IF s = {} THEN 0 ELSE w[Pick(s)].realized + g[s \ {Pick(s)}]]
    BY <1>1
  <2> QED
    BY <2>2 DEF IsSum
<1>3. PICK g : IsSum(g, w, SUBSET S) /\ RealizedOf(w, S) = g[S]
    BY SumIs
<1>4. Adds(it)
    BY <1>2, <1>3, Zenon
<1>5. IsSum(it, w, SUBSET S)
    BY <1>2, <1>4, Zenon
<1>6. MapThenSumSet(LAMBDA i : ps[i].unrealized, S) = it[S]
    BY DEF MapThenSumSet, MapThenFoldSet, Pick
<1> HIDE DEF it, Adds
<1>7. SameRealized(w, w, S \cap S) /\ S \in SUBSET (S \cap S)
    BY DEF SameRealized
<1>8. it[S] = g[S]
    BY <1>3, <1>5, <1>7, SumsAgree
<1> QED
    BY <1>3, <1>6, <1>8

(* The units of an open position, and those its unrealized PnL is of. *)
Sized(p) == p.curSize > 0 /\ p.curSize <= p.openSize
Trails(p) == \E n \in p.curSize..p.openSize : p.unrealized = Move(p, p.mark) * n

HighWater ==
    /\ hwm \in Int
    /\ \A i \in OpenIds : Sized(positions[i])
    /\ phase = "idle" => /\ realized + WorthOf(positions) <= hwm
                         /\ \A i \in OpenIds : Trails(positions[i])

LEMMA FiniteOpen ==
    ASSUME TypeOK
    PROVE  /\ OpenOf(positions) = OpenIds /\ IsFiniteSet(OpenIds)
           /\ \A i \in OpenIds : Worths(positions)[i].realized = Worth(positions[i])
           /\ \A i \in OpenIds : Worth(positions[i]) \in Int
<1>1. OpenOf(positions) = OpenIds
    BY DEF OpenOf, OpenIds
<1>2. IsFiniteSet(OpenIds)
  <2>1. /\ nextId \in 1..(MaxPositions + 1)
        /\ OpenIds \subseteq 1..(nextId - 1)
    BY DEF TypeOK, OpenIds
  <2>2. IsFiniteSet(1..(nextId - 1))
    <3>1. nextId - 1 \in Int
        BY <2>1, ConstantsAssumption
    <3> QED
        BY <3>1, FS_Interval
  <2> QED
    BY <2>1, <2>2, FS_Subset
<1>3. \A i \in OpenIds : Worths(positions)[i].realized = Worth(positions[i])
    BY <1>1 DEF Worths
<1>4. ASSUME NEW i \in OpenIds PROVE Worth(positions[i]) \in Int
  <2>1. positions[i] \in Position
    BY DEF TypeOK, OpenIds
  <2> HIDE DEF OpenIds
  <2>2. positions[i].mark \in Int /\ positions[i].curSize \in Nat
    BY <2>1 DEF Position
  <2>3. Move(positions[i], positions[i].mark) \in Int
    BY <2>1, <2>2, MoveType
  <2> QED
    BY <2>2, <2>3 DEF Worth
<1> QED
    BY <1>1, <1>2, <1>3, <1>4

LEMMA HighWaterAsClaimed ==
    ASSUME TypeOK, HighWater
    PROVE  HighWaterHolds
<1>1. MapThenSumSet(LAMBDA i : Worth(positions[i]), OpenIds) = WorthOf(positions)
  <2>1. MapThenSumSet(LAMBDA i : Worth(positions[i]), OpenIds)
        = RealizedOf(Worths(positions), OpenIds)
    BY FiniteOpen, WorthIsSum
  <2> QED
    BY <2>1, FiniteOpen DEF WorthOf
<1>2. phase = "idle" => /\ realized + MapThenSumSet(LAMBDA i : Worth(positions[i]), OpenIds) <= hwm
                        /\ \A i \in OpenIds : Trails(positions[i])
    BY <1>1 DEF HighWater
<1> QED
    BY <1>2 DEF HighWaterHolds, Trails

-----------------------------------------------------------------------------
(* What a transition of an open position does to the account.              *)

(* The account is not worth more for it, and what is still open goes on    *)
(* lagging behind the mark by no more units than the position ever had.    *)
Loses(p, q) ==
    /\ q.realized + (IF q.closed THEN 0 ELSE Worth(q)) <= p.realized + Worth(p)
    /\ ~q.closed => Sized(q) /\ Trails(q)

LEMMA ClosedLoses ==
    ASSUME NEW p \in Position, NEW reason
    PROVE  Loses(p, Closed(p, p.mark, reason, CostPerSide(p.curSize)))
<1> DEFINE c == CostPerSide(p.curSize)
           n == p.curSize
           move == Move(p, p.mark)
           q == Closed(p, p.mark, reason, c)
<1>1. n \in Nat /\ p.mark \in Int /\ p.realized \in Int
    BY DEF Position
<1>2. move \in Int
    BY <1>1, MoveType
<1>3. c \in Nat
    BY <1>1, ConstantsAssumption DEF CostPerSide
<1>4. q.realized = p.realized + (move - 2 * c) * n
    BY ClosedFields
<1>5. q.closed = TRUE
    BY DEF Closed, Position
<1>6. Worth(p) = move * n
    BY DEF Worth
<1> HIDE DEF c, n, move, q
<1>7. (move - 2 * c) * n <= move * n
  <2>1. c * n >= 0
    BY <1>1, <1>3
  <2>2. (move - 2 * c) * n = move * n - 2 * (c * n)
    BY <1>1, <1>2, <1>3
  <2>3. move * n \in Int /\ c * n \in Int
    BY <1>1, <1>2, <1>3
  <2> QED
    BY <2>1, <2>2, <2>3
<1>8. (move - 2 * c) * n \in Int /\ move * n \in Int
    BY <1>1, <1>2, <1>3
<1>9. q.realized <= p.realized + Worth(p) /\ q.realized \in Int
    BY <1>1, <1>4, <1>6, <1>7, <1>8
<1>10. Loses(p, q)
    BY <1>5, <1>9 DEF Loses
<1> QED
    BY <1>10 DEF q, c, n

LEMMA ScaledOutSizes ==
    ASSUME NEW p \in Position, ~p.closed, NEW removed
    PROVE  LET q == ScaledOut(p, removed) IN
           /\ q.realized = p.realized + (Move(p, p.mark) - 2 * CostPerSide(removed)) * removed
           /\ p.curSize - removed = 0 => q.closed = TRUE
           /\ p.curSize - removed # 0 =>
                /\ q.closed = FALSE /\ q.curSize = p.curSize - removed
                /\ q.openSize = p.openSize /\ q.unrealized = p.unrealized
                /\ q.mark = p.mark /\ q.side = p.side /\ q.entry = p.entry
<1> DEFINE rest == p.curSize - removed
           total == p.realized + (Move(p, p.mark) - 2 * CostPerSide(removed)) * removed
           sold == [p EXCEPT !.realized = total, !.curSize = rest]
<1>1. ScaledOut(p, removed) =
        IF rest = 0
        THEN [sold EXCEPT !.unrealized = 0, !.closed = TRUE, !.reason = MANUAL] ELSE sold
    BY DEF ScaledOut
<1>2. /\ sold.realized = total /\ sold.curSize = rest /\ sold.closed = p.closed
      /\ sold.openSize = p.openSize /\ sold.unrealized = p.unrealized
      /\ sold.mark = p.mark /\ sold.side = p.side /\ sold.entry = p.entry
      /\ DOMAIN sold = {"side", "openSize", "curSize", "entry", "openTs", "tp", "sl",
                        "mark", "realized", "unrealized", "closed", "reason"}
    <2> HIDE DEF total, rest
    <2> QED
        BY DEF Position
<1>3. p.closed = FALSE
    BY DEF Position
<1> HIDE DEF sold, rest
<1>4. CASE rest = 0
  <2>1. /\ ScaledOut(p, removed).realized = sold.realized
        /\ ScaledOut(p, removed).closed = TRUE
    BY <1>1, <1>2, <1>4
  <2> QED
    BY <1>2, <1>4, <2>1 DEF rest
<1>5. CASE rest # 0
    BY <1>1, <1>2, <1>3, <1>5 DEF rest
<1> QED
    BY <1>4, <1>5

LEMMA ScaledOutLoses ==
    ASSUME NEW p \in Position, ~p.closed, Sized(p), Trails(p), NEW removed \in 0..p.curSize
    PROVE  Loses(p, ScaledOut(p, removed))
<1> DEFINE c == CostPerSide(removed)
           n == p.curSize
           rest == n - removed
           move == Move(p, p.mark)
           q == ScaledOut(p, removed)
<1>1. /\ n \in Nat /\ p.openSize \in Nat /\ p.mark \in Int /\ p.realized \in Int
      /\ removed \in Nat /\ rest \in Nat /\ n = removed + rest
    BY DEF Position
<1>2. move \in Int
    BY <1>1, MoveType
<1>3. c \in Nat
    BY <1>1, ConstantsAssumption DEF CostPerSide
<1>4. /\ q.realized = p.realized + (move - 2 * c) * removed
      /\ rest = 0 => q.closed = TRUE
      /\ rest # 0 =>
            /\ q.closed = FALSE /\ q.curSize = rest
            /\ q.openSize = p.openSize /\ q.unrealized = p.unrealized
            /\ q.mark = p.mark /\ q.side = p.side /\ q.entry = p.entry
    BY ScaledOutSizes
<1>5. Worth(p) = move * n
    BY DEF Worth
<1>6. rest # 0 => Move(q, q.mark) = move
    BY <1>4 DEF Move
<1>7. rest # 0 => Worth(q) = move * rest
    BY <1>4, <1>6 DEF Worth
<1>8. PICK k \in n..p.openSize : p.unrealized = move * k
    BY DEF Trails
<1>9. n <= p.openSize
    BY DEF Sized
<1> HIDE DEF c, n, rest, move, q
<1>10. /\ (move - 2 * c) * removed <= move * removed
       /\ (move - 2 * c) * removed \in Int /\ move * removed \in Int
  <2>1. c * removed >= 0
    BY <1>1, <1>3
  <2>2. (move - 2 * c) * removed = move * removed - 2 * (c * removed)
    BY <1>1, <1>2, <1>3
  <2>3. move * removed \in Int /\ c * removed \in Int
    BY <1>1, <1>2, <1>3
  <2> QED
    BY <2>1, <2>2, <2>3
<1>11. move * n = move * removed + move * rest /\ move * rest \in Int
    BY <1>1, <1>2
<1>12. CASE rest = 0
  <2>1. move * rest = 0
    BY <1>2, <1>12
  <2>2. q.realized <= p.realized + Worth(p) /\ q.realized \in Int
    BY <1>1, <1>4, <1>5, <1>10, <1>11, <2>1
  <2>3. q.closed = TRUE
    BY <1>4, <1>12
  <2> QED
    BY <2>2, <2>3 DEF Loses, q
<1>13. CASE rest # 0
  <2>1. q.realized + move * rest <= p.realized + Worth(p)
    BY <1>1, <1>4, <1>5, <1>10, <1>11
  <2>2. Sized(q)
    BY <1>1, <1>4, <1>9, <1>13 DEF Sized
  <2>3. k \in q.curSize..q.openSize /\ q.unrealized = Move(q, q.mark) * k
    BY <1>1, <1>4, <1>6, <1>8, <1>13
  <2>4. Trails(q)
    BY <2>3 DEF Trails
  <2>5. q.closed = FALSE /\ Worth(q) = move * rest
    BY <1>4, <1>7, <1>13
  <2>6. Loses(p, q)
    BY <2>1, <2>2, <2>4, <2>5 DEF Loses
  <2> QED
    BY <2>6 DEF q
<1> QED
    BY <1>12, <1>13

LEMMA ModifiedStopsLose ==
    ASSUME NEW p \in Position, ~p.closed, Sized(p), Trails(p), NEW tp, NEW sl
    PROVE  Loses(p, [p EXCEPT !.tp = IF tp = Unset THEN @ ELSE tp,
                              !.sl = IF sl = Unset THEN @ ELSE sl])
<1> DEFINE q == [p EXCEPT !.tp = IF tp = Unset THEN @ ELSE tp,
                          !.sl = IF sl = Unset THEN @ ELSE sl]
<1>1. /\ q.realized = p.realized /\ q.closed = FALSE /\ q.curSize = p.curSize
      /\ q.openSize = p.openSize /\ q.unrealized = p.unrealized
      /\ q.mark = p.mark /\ q.side = p.side /\ q.entry = p.entry
    BY DEF Position
<1>2. /\ p.realized \in Int /\ p.mark \in Int /\ p.curSize \in Nat
    BY DEF Position
<1>3. Move(p, p.mark) \in Int
    BY <1>2, MoveType
<1> HIDE DEF q
<1>4. Move(q, q.mark) = Move(p, p.mark)
    BY <1>1 DEF Move
<1>5. Worth(q) = Worth(p) /\ Worth(p) \in Int
    BY <1>1, <1>2, <1>3, <1>4 DEF Worth
<1>6. Sized(q) /\ Trails(q)
    BY <1>1, <1>4 DEF Sized, Trails
<1>7. Loses(p, q)
    BY <1>1, <1>2, <1>5, <1>6 DEF Loses
<1> QED
    BY <1>7 DEF q

(* One position for another that is worth no more, and the account is     *)
(* worth no more.                                                          *)
LEMMA LossKeepsHighWater ==
    ASSUME BInv, BInv', HighWater, phase = "idle", NEW id \in OpenIds, NEW q \in Position,
           positions' = WithPosition(id, q), realized' = Realize(positions[id], q),
           Loses(positions[id], q), UNCHANGED <<hwm, phase>>
    PROVE  HighWater'
<1> DEFINE p == positions[id]
           rest == OpenIds \ {id}
           w == Worths(positions)
           v == Worths(positions')
<1>1. /\ DOMAIN positions' = DOMAIN positions /\ id \in DOMAIN positions
      /\ positions'[id] = q
      /\ \A i \in DOMAIN positions \ {id} : positions'[i] = positions[i]
    BY HandReplaces
<1>2. TypeOK /\ TypeOK' /\ p \in Position
    BY <1>1 DEF BInv, TypeOK
<1>3. q.closed \in BOOLEAN /\ OpenIds' = IF q.closed THEN rest ELSE OpenIds
    BY <1>1 DEF OpenIds, Position
<1>4. \A i \in rest : positions'[i] = positions[i]
    BY <1>1 DEF OpenIds
<1>5. /\ OpenOf(positions) = OpenIds /\ IsFiniteSet(OpenIds)
      /\ \A i \in OpenIds : w[i].realized = Worth(positions[i])
      /\ \A i \in OpenIds : Worth(positions[i]) \in Int
    BY <1>2, FiniteOpen
<1>6. /\ OpenOf(positions') = OpenIds' /\ IsFiniteSet(OpenIds')
      /\ \A i \in OpenIds' : v[i].realized = Worth(positions'[i])
      /\ \A i \in OpenIds' : Worth(positions'[i]) \in Int
  <2>1. OpenOf(positions') = OpenIds'
    BY DEF OpenOf, OpenIds
  <2>2. IsFiniteSet(OpenIds')
    BY <1>3, <1>5, FS_Subset
  <2>3. \A i \in OpenIds' : v[i].realized = Worth(positions'[i])
    BY <2>1 DEF Worths
  <2>4. \A i \in OpenIds' : positions'[i] \in Position
    BY <1>2 DEF TypeOK, OpenIds
  <2>5. ASSUME NEW i \in OpenIds' PROVE Worth(positions'[i]) \in Int
    <3>1. positions'[i] \in Position
        BY <2>4
    <3>2. positions'[i].mark \in Int /\ positions'[i].curSize \in Nat
        BY <3>1 DEF Position
    <3>3. Move(positions'[i], positions'[i].mark) \in Int
        BY <3>1, <3>2, MoveType
    <3> QED
        BY <3>2, <3>3 DEF Worth
  <2> QED
    BY <2>1, <2>2, <2>3, <2>5
<1> HIDE DEF w, v
<1>7. RealizedOf(w, OpenIds) = Worth(p) + RealizedOf(w, rest)
  <2>1. \A i \in OpenIds : w[i].realized \in Int
    BY <1>5
  <2> QED
    BY <1>5, <2>1, SumTakesOut
<1>8. IsFiniteSet(rest) /\ rest \subseteq OpenIds'
    BY <1>3, <1>5, FS_Subset
<1>9. RealizedOf(w, rest) = RealizedOf(v, rest)
  <2>1. \A i \in rest : w[i].realized = v[i].realized
    BY <1>4, <1>5, <1>6, <1>8
  <2> HIDE DEF rest
  <2> QED
    BY <1>8, <2>1, SumCongruence
<1>10. RealizedOf(w, rest) \in Int
  <2>1. \A i \in rest : w[i].realized \in Int
    BY <1>5
  <2> HIDE DEF rest
  <2> QED
    BY <1>8, <2>1, SumType
<1>11. RealizedOf(v, OpenIds') = (IF q.closed THEN 0 ELSE Worth(q)) + RealizedOf(v, rest)
  <2>1. CASE q.closed
    BY <1>3, <1>9, <1>10, <2>1
  <2>2. CASE ~q.closed
    <3>1. id \in OpenIds' /\ OpenIds' \ {id} = rest
        BY <1>3, <2>2
    <3>2. \A i \in OpenIds' : v[i].realized \in Int
        BY <1>6
    <3>3. RealizedOf(v, OpenIds') = v[id].realized + RealizedOf(v, OpenIds' \ {id})
        BY <1>6, <3>1, <3>2, SumTakesOut
    <3>4. v[id].realized = Worth(q)
        BY <1>1, <1>6, <3>1
    <3> QED
        BY <2>2, <3>1, <3>3, <3>4
  <2> QED
    BY <2>1, <2>2
<1>12. realized + RealizedOf(w, OpenIds) <= hwm
    BY <1>5 DEF HighWater, WorthOf, w
<1>13. realized' + RealizedOf(v, OpenIds') <= hwm
  <2> DEFINE r == RealizedOf(w, rest)
             after == IF q.closed THEN 0 ELSE Worth(q)
  <2>1. /\ realized \in Int /\ hwm \in Int /\ p.realized \in Int /\ q.realized \in Int
        /\ Worth(p) \in Int /\ after \in Int /\ r \in Int
    <3>1. ~q.closed => id \in OpenIds'
        BY <1>3
    <3>2. ~q.closed => Worth(q) \in Int
        BY <1>1, <1>6, <3>1
    <3>3. realized \in Int /\ hwm \in Int
        BY <1>2 DEF HighWater, TypeOK
    <3>4. p.realized \in Int /\ q.realized \in Int
        BY <1>2 DEF Position
    <3>5. Worth(p) \in Int
        BY <1>5
    <3> QED
        BY <1>10, <3>2, <3>3, <3>4, <3>5
  <2>2. q.realized + after <= p.realized + Worth(p)
    BY DEF Loses
  <2>3. realized' = realized + (q.realized - p.realized)
    BY DEF Realize
  <2>4. realized + (Worth(p) + r) <= hwm
    BY <1>7, <1>12
  <2>5. RealizedOf(v, OpenIds') = after + r
    BY <1>9, <1>11
  <2> HIDE DEF r, after, p
  <2>6. realized' + (after + r) <= hwm
    BY <2>1, <2>2, <2>3, <2>4
  <2> QED
    BY <2>5, <2>6
<1>14. realized' + WorthOf(positions') <= hwm'
    BY <1>6, <1>13 DEF WorthOf, v
<1>15. \A i \in OpenIds' : Sized(positions'[i]) /\ Trails(positions'[i])
  <2>1. \A i \in rest : Sized(positions'[i]) /\ Trails(positions'[i])
    BY <1>4 DEF HighWater
  <2>2. ~q.closed => Sized(positions'[id]) /\ Trails(positions'[id])
    BY <1>1 DEF Loses
  <2> QED
    BY <1>3, <2>1, <2>2
<1>16. hwm' \in Int
    BY DEF HighWater
<1>17. HighWater'
    BY <1>14, <1>15, <1>16 DEF HighWater
<1> QED
    BY <1>17

LEMMA InitHighWater == Init => HighWater
<1> SUFFICES ASSUME Init PROVE HighWater
    OBVIOUS
<1>1. OpenIds = {} /\ OpenOf(positions) = {}
    BY DEF Init, OpenIds, OpenOf
<1>2. WorthOf(positions) = 0
    BY <1>1, SumUnfolds, FS_EmptySet DEF WorthOf
<1> QED
    BY <1>1, <1>2 DEF Init, HighWater

LEMMA HandKeepsHighWater ==
    ASSUME BInv, BInv', HighWater, NEW id \in DOMAIN positions,
           \/ DispatchClose(id)
           \/ \E f \in Fractions : DispatchScaleOut(id, f)
           \/ \E tp, sl \in Stops \cup {Unset} : DispatchModifyStop(id, tp, sl)
    PROVE  HighWater'
<1> DEFINE p == positions[id]
<1>1. p \in Position /\ positions \in [DOMAIN positions -> Position]
    BY DEF BInv, TypeOK
<1>2. id \in OpenIds /\ ~p.closed /\ phase = "idle" /\ UNCHANGED <<hwm, phase>>
    BY DEF DispatchClose, DispatchScaleOut, DispatchModifyStop, OpenIds, loop
<1>3. Sized(p) /\ Trails(p)
    BY <1>2 DEF HighWater
<1>4. ASSUME NEW q, positions' = WithPosition(id, q), realized' = Realize(p, q), Loses(p, q)
      PROVE  HighWater'
  <2>1. positions'[id] = q /\ id \in DOMAIN positions'
    BY <1>4 DEF WithPosition
  <2>2. q \in Position
    BY <2>1 DEF BInv, TypeOK
  <2> QED
    BY <1>2, <1>4, <2>2, LossKeepsHighWater
<1>5. CASE DispatchClose(id)
  <2> DEFINE q == Closed(p, p.mark, MANUAL, CostPerSide(p.curSize))
  <2>1. positions' = WithPosition(id, q) /\ realized' = Realize(p, q)
    BY <1>5 DEF DispatchClose
  <2>2. Loses(p, q)
    <3> HIDE DEF p
    <3> QED
        BY <1>1, ClosedLoses
  <2> HIDE DEF q
  <2> QED
    BY <1>4, <2>1, <2>2
<1>6. ASSUME NEW f \in Fractions, DispatchScaleOut(id, f) PROVE HighWater'
  <2> DEFINE removed == (p.curSize * f[1]) \div f[2]
             q == ScaledOut(p, removed)
  <2>1. positions' = WithPosition(id, q) /\ realized' = Realize(p, q)
    BY <1>6 DEF DispatchScaleOut
  <2>2. removed \in 0..p.curSize
    <3>1. p.curSize \in Nat
        BY <1>1 DEF Position
    <3>2. f[1] \in Nat /\ f[2] \in Nat \ {0} /\ f[1] <= f[2]
        BY ConstantsAssumption
    <3> QED
        BY <3>1, <3>2, FractionBound
  <2> HIDE DEF removed
  <2>3. Loses(p, q)
    <3> HIDE DEF p
    <3> QED
        BY <1>1, <1>2, <1>3, <2>2, ScaledOutLoses
  <2> HIDE DEF q
  <2> QED
    BY <1>4, <2>1, <2>3
<1>7. ASSUME NEW tp \in Stops \cup {Unset}, NEW sl \in Stops \cup {Unset},
             DispatchModifyStop(id, tp, sl)
      PROVE  HighWater'
  <2> DEFINE q == [p EXCEPT !.tp = IF tp = Unset THEN @ ELSE tp,
                            !.sl = IF sl = Unset THEN @ ELSE sl]
  <2>1. positions' = WithPosition(id, q) /\ realized' = realized
    BY <1>7 DEF DispatchModifyStop
  <2>2. Loses(p, q)
    <3> HIDE DEF p
    <3> QED
        BY <1>1, <1>2, <1>3, ModifiedStopsLose
  <2>3. q.realized = p.realized /\ p.realized \in Int /\ realized \in Int
    BY <1>1 DEF Position, BInv, TypeOK
  <2> HIDE DEF q
  <2>4. realized' = Realize(p, q)
    BY <2>1, <2>3 DEF Realize
  <2> QED
    BY <1>4, <2>1, <2>2, <2>4
<1> QED
    BY <1>5, <1>6, <1>7

(* While a bar is walked through only the sizes have to be kept. *)
LEMMA InBarKeepsHighWater ==
    ASSUME HighWater, phase' # "idle", UNCHANGED hwm,
           \A i \in OpenIds' :
              (i \in OpenIds /\ positions'[i] = positions[i]) \/ Sized(positions'[i])
    PROVE  HighWater'
<1>1. \A i \in OpenIds : Sized(positions[i])
    BY DEF HighWater
<1>2. \A i \in OpenIds' : Sized(positions'[i])
    BY <1>1
<1>3. hwm' \in Int
    BY DEF HighWater
<1> QED
    BY <1>2, <1>3 DEF HighWater

LEMMA FillKeepsHighWater ==
    ASSUME BInv, BInv', HighWater, ActivateOpen
    PROVE  HighWater'
<1> DEFINE id == Min(todo)
           q == OpenAt(pendingOpens[id], bar[FillMinute].close, CloseTime(FillMinute))
<1>1. /\ phase' # "idle" /\ UNCHANGED hwm
      /\ positions' = WithPosition(id, q) \/ UNCHANGED positions
    BY DEF ActivateOpen
<1>2. CASE UNCHANGED positions
    BY <1>1, <1>2, InBarKeepsHighWater DEF OpenIds
<1>3. CASE positions' = WithPosition(id, q)
  <2>1. id \in DOMAIN pendingOpens
    <3>1. phase = "opens" /\ todo # {} /\ todo \in SUBSET Nat /\ todo \subseteq DOMAIN pendingOpens
        BY DEF ActivateOpen, BInv, TypeOK, OpensStillToVisit
    <3> QED
        BY <3>1, MinIsMember
  <2>2. pendingOpens[id].size \in Nat
    <3>1. pendingOpens[id] \in OpenOrders
        BY <2>1 DEF BInv, TypeOK
    <3> QED
        BY <3>1, ConstantsAssumption
  <2>3. Sized(q)
    BY <2>2, ConstantsAssumption DEF OpenAt, Sized
  <2> HIDE DEF id, q
  <2>4. positions'[id] = q /\ \A i \in DOMAIN positions' \ {id} :
                                  i \in DOMAIN positions /\ positions'[i] = positions[i]
    BY <1>3 DEF WithPosition
  <2>5. \A i \in OpenIds' : (i \in OpenIds /\ positions'[i] = positions[i]) \/ Sized(positions'[i])
    BY <2>3, <2>4 DEF OpenIds
  <2> QED
    BY <1>1, <2>5, InBarKeepsHighWater
<1> QED
    BY <1>1, <1>2, <1>3

LEMMA ScaleInKeepsHighWater ==
    ASSUME BInv, BInv', HighWater, ActivateScaleIn
    PROVE  HighWater'
<1> DEFINE s == Head(pendingScaleIns)
           id == s.target
           p == positions[id]
           added == (s.size[1] * p.openSize) \div s.size[2]
           grown(mean) == [p EXCEPT !.openSize = @ + added, !.curSize = @ + added,
                                    !.entry = mean]
<1>1. phase' # "idle" /\ UNCHANGED hwm
    BY DEF ActivateScaleIn
<1>2. s \in ScaleInOrder
  <2>1. /\ left > 0 /\ left \in 0..Len(pendingScaleIns)
        /\ pendingScaleIns \in Seq(ScaleInOrder)
    BY DEF ActivateScaleIn, BInv, TypeOK
  <2>2. pendingScaleIns # << >>
    BY <2>1
  <2> QED
    BY <2>1, <2>2
<1>3. id \in DOMAIN positions /\ s.size \in Fractions
  <2> HIDE DEF s
  <2> QED
    BY <1>2 DEF ScaleInOrder
<1>4. p \in Position
  <2> HIDE DEF s, id
  <2> QED
    BY <1>3 DEF BInv, TypeOK
<1>5. added \in Nat
  <2>1. p.openSize \in Nat
    BY <1>4 DEF Position
  <2>2. s.size[1] \in Nat /\ s.size[2] \in Nat \ {0} /\ s.size[1] <= s.size[2]
    <3> HIDE DEF s
    <3> QED
        BY <1>3, ConstantsAssumption
  <2> HIDE DEF s, p
  <2>3. (p.openSize * s.size[1]) \div s.size[2] \in 0..p.openSize
    BY <2>1, <2>2, FractionBound
  <2>4. p.openSize * s.size[1] = s.size[1] * p.openSize
    BY <2>1, <2>2
  <2> QED
    BY <2>3, <2>4
<1>6. \/ UNCHANGED positions
      \/ ~p.closed /\ \E mean : positions' = WithPosition(id, grown(mean))
    BY DEF ActivateScaleIn
<1>7. CASE UNCHANGED positions
    BY <1>1, <1>7, InBarKeepsHighWater DEF OpenIds
<1>8. ASSUME NEW mean, ~p.closed, positions' = WithPosition(id, grown(mean))
      PROVE  HighWater'
  <2>1. Sized(p)
    <3> HIDE DEF s, id
    <3> QED
        BY <1>3, <1>8 DEF HighWater, OpenIds
  <2>2. Sized(grown(mean))
    <3> HIDE DEF added
    <3>1. /\ grown(mean).openSize = p.openSize + added
          /\ grown(mean).curSize = p.curSize + added
        BY <1>4 DEF Position
    <3>2. p.openSize \in Nat /\ p.curSize \in Nat
        BY <1>4 DEF Position
    <3> HIDE DEF p, grown
    <3> QED
        BY <1>5, <2>1, <3>1, <3>2 DEF Sized
  <2> HIDE DEF grown, id, s
  <2>3. positions'[id] = grown(mean) /\ \A i \in DOMAIN positions' \ {id} :
                                  i \in DOMAIN positions /\ positions'[i] = positions[i]
    BY <1>3, <1>8 DEF WithPosition
  <2>4. \A i \in OpenIds' : (i \in OpenIds /\ positions'[i] = positions[i]) \/ Sized(positions'[i])
    BY <2>2, <2>3 DEF OpenIds
  <2> QED
    BY <1>1, <2>4, InBarKeepsHighWater
<1> QED
    BY <1>6, <1>7, <1>8

LEMMA ExitKeepsHighWater ==
    ASSUME BInv, BInv', HighWater, TouchBarrier \/ SweepWinner \/ CapHoldAge
    PROVE  HighWater'
<1>1. phase' # "idle" /\ UNCHANGED hwm
    BY DEF TouchBarrier, SweepWinner, CapHoldAge, Walking
<1>2. BarrierExit
    BY TouchIsExit, SweepIsExit, CapIsExit
<1>3. PICK id \in OpenIds, minute \in 1..M, price \in Int,
           reason \in {TP, SL, SAFETY_CAP, BATCHED_WINNER} :
              BarrierClose(id, minute, reason, price)
    BY <1>2 DEF BarrierExit
<1>4. /\ DOMAIN positions' = DOMAIN positions /\ positions'[id].closed
      /\ \A i \in DOMAIN positions \ {id} : positions'[i] = positions[i]
    BY <1>3, ExitEffect
<1>5. \A i \in OpenIds' : i \in OpenIds /\ positions'[i] = positions[i]
    BY <1>4 DEF OpenIds
<1> QED
    BY <1>1, <1>5, InBarKeepsHighWater

LEMMA MarkPositionKeepsHighWater ==
    ASSUME BInv, BInv', HighWater, MarkPosition
    PROVE  HighWater'
<1> DEFINE id == Visited
           p == positions[id]
           q == Marked(p, bar[M].close)
<1>1. /\ phase' # "idle" /\ UNCHANGED hwm /\ Walking
      /\ positions' = WithPosition(id, q)
    BY DEF MarkPosition, Walking
<1>2. id \in OpenIds
    BY <1>1, VisitedIsOpen DEF BInv
<1>3. p \in Position /\ Sized(p)
    BY <1>2 DEF BInv, TypeOK, HighWater, OpenIds
<1> HIDE DEF id
<1>4. Sized(q)
    BY <1>3 DEF Marked, Sized, Position
<1> HIDE DEF q
<1>5. positions'[id] = q /\ \A i \in DOMAIN positions' \ {id} :
                                i \in DOMAIN positions /\ positions'[i] = positions[i]
    BY <1>1, <1>2 DEF WithPosition, OpenIds
<1>6. \A i \in OpenIds' : (i \in OpenIds /\ positions'[i] = positions[i]) \/ Sized(positions'[i])
    BY <1>4, <1>5 DEF OpenIds
<1> QED
    BY <1>1, <1>6, InBarKeepsHighWater

LEMMA MarkedFresh ==
    ASSUME NEW p \in Position, ~p.closed, Sized(p), NEW price \in Int
    PROVE  LET q == Marked(p, price) IN
           /\ q.unrealized = Worth(q) /\ Sized(q) /\ Trails(q)
<1> DEFINE q == Marked(p, price)
           gain == Move(p, price) * p.curSize
<1>1. p.curSize \in Nat /\ p.openSize \in Nat
    BY DEF Position
<1>2. q = [p EXCEPT !.mark = price, !.unrealized = gain]
    BY <1>1 DEF Marked, Sized
<1> HIDE DEF gain, q
<1>3. /\ q.mark = price /\ q.unrealized = gain /\ q.curSize = p.curSize
      /\ q.openSize = p.openSize /\ q.side = p.side /\ q.entry = p.entry
    BY <1>2 DEF Position
<1>4. Move(q, q.mark) = Move(p, price)
    BY <1>3 DEF Move
<1>5. q.unrealized = Worth(q) /\ Sized(q)
    BY <1>3, <1>4 DEF Worth, Sized, gain
<1>6. q.curSize \in q.curSize..q.openSize
    BY <1>1, <1>3 DEF Sized
<1>7. Trails(q)
    BY <1>5, <1>6 DEF Trails, Worth
<1> QED
    BY <1>5, <1>7 DEF q

(* Portfolio.with_mark raises the mark to what the account is now worth. *)
LEMMA MarkKeepsHighWater ==
    ASSUME BInv, BInv', HighWater, MarkPortfolio
    PROVE  HighWater'
<1> DEFINE price == bar[M].close
           marked == [i \in DOMAIN positions |-> Marked(positions[i], price)]
           equity == realized + UnrealizedOf(marked)
<1>1. /\ phase = "walk" /\ positions' = marked /\ hwm' = Max({hwm, equity})
      /\ UNCHANGED realized
    BY DEF MarkPortfolio
<1>2. price \in Int
  <2>1. M \in 1..M
    BY ConstantsAssumption
  <2>2. bar \in Bars
    BY <1>1 DEF BInv, TypeOK
  <2> QED
    BY <2>1, <2>2, BarType
<1> HIDE DEF price
<1>3. OpenIds' = OpenIds
    BY MarkPortfolioAmends, AmendedKeepsOpen
<1>4. \A i \in OpenIds : /\ positions[i] \in Position /\ ~positions[i].closed
                          /\ Sized(positions[i])
                          /\ positions'[i] = Marked(positions[i], price)
    BY <1>1 DEF BInv, TypeOK, OpenIds, HighWater
<1>5. \A i \in OpenIds' : /\ positions'[i].unrealized = Worth(positions'[i])
                           /\ Sized(positions'[i]) /\ Trails(positions'[i])
    BY <1>2, <1>3, <1>4, MarkedFresh
<1>6. IsFiniteSet(OpenIds')
    BY <1>3, FiniteOpen DEF BInv
<1>7. OpenOf(positions') = OpenIds'
    BY DEF OpenOf, OpenIds
<1> DEFINE w == Worths(positions')
           sum == RealizedOf(w, OpenIds')
<1>8. \A i \in OpenIds' : w[i].realized = positions'[i].unrealized
    BY <1>5, <1>7 DEF Worths
<1> HIDE DEF w
<1>9. UnrealizedOf(positions') = sum
  <2>1. MapThenSumSet(LAMBDA i : positions'[i].unrealized, OpenIds') = sum
    BY <1>6, <1>8, UnrealizedIsSum
  <2> QED
    BY <2>1 DEF UnrealizedOf, OpenIds
<1>10. sum \in Int
  <2>1. \A i \in OpenIds' : positions'[i].unrealized \in Int
    BY DEF OpenIds, BInv, TypeOK, Position
  <2> QED
    BY <1>6, <1>8, <2>1, SumType
<1>11. equity = realized + sum /\ realized \in Int /\ hwm \in Int
  <2>1. equity = realized + sum
    BY <1>1, <1>9
  <2> QED
    BY <2>1 DEF BInv, TypeOK, HighWater
<1> HIDE DEF equity, marked, sum
<1>12. Max({hwm, equity}) \in Int /\ equity <= Max({hwm, equity})
  <2>1. hwm \in Int /\ equity \in Int
    BY <1>10, <1>11
  <2>2. PICK m \in {hwm, equity} : \A y \in {hwm, equity} : m >= y
    BY <2>1
  <2>3. Max({hwm, equity}) \in {hwm, equity} /\ \A y \in {hwm, equity} : Max({hwm, equity}) >= y
    BY <2>2, Zenon DEF Max
  <2> QED
    BY <2>1, <2>3
<1>13. hwm' \in Int /\ realized' + WorthOf(positions') <= hwm'
  <2>1. WorthOf(positions') = sum
    BY <1>7 DEF WorthOf, w, sum
  <2> QED
    BY <1>1, <1>10, <1>11, <1>12, <2>1
<1> QED
    BY <1>5, <1>13 DEF HighWater

LEMMA StepKeepsHighWater ==
    ASSUME BInv, BInv', HighWater, [Next]_vars
    PROVE  HighWater'
<1>1. ASSUME UNCHANGED <<positions, realized, hwm, phase>> PROVE HighWater'
  <2>1. OpenIds' = OpenIds /\ WorthOf(positions') = WorthOf(positions)
    BY <1>1 DEF OpenIds
  <2> QED
    BY <1>1, <2>1 DEF HighWater
<1>2. CASE Dispatch
  <2>1. ASSUME NEW o \in OpenOrders, DispatchOpen(o) PROVE HighWater'
    BY <1>1, <2>1 DEF DispatchOpen, book, loop
  <2>2. ASSUME NEW id \in DOMAIN positions, NEW f \in Fractions, DispatchScaleIn(id, f)
        PROVE  HighWater'
    BY <1>1, <2>2 DEF DispatchScaleIn, book, loop
  <2>3. ASSUME NEW id \in DOMAIN pendingOpens, DispatchCancel(id) PROVE HighWater'
    BY <1>1, <2>3 DEF DispatchCancel, book, loop
  <2> QED
    BY <1>2, <2>1, <2>2, <2>3, HandKeepsHighWater DEF Dispatch
<1>3. CASE Advance
  <2>1. ASSUME UNCHANGED <<positions, hwm>>, phase' # "idle" PROVE HighWater'
    BY <2>1, InBarKeepsHighWater DEF OpenIds
  <2>2. ASSUME NEW b \in Bars, AdvanceTo(b) PROVE HighWater'
    BY <2>1, <2>2 DEF AdvanceTo, book
  <2>3. OpensActivated \/ ScaleInsActivated \/ SweepDone => HighWater'
    BY <2>1 DEF OpensActivated, ScaleInsActivated, SweepDone, book
  <2> QED
    BY <1>3, <2>2, <2>3, FillKeepsHighWater, ScaleInKeepsHighWater, ExitKeepsHighWater,
       MarkPositionKeepsHighWater, MarkKeepsHighWater DEF Advance
<1>4. CASE UNCHANGED vars
    BY <1>1, <1>4 DEF vars
<1> QED
    BY <1>2, <1>3, <1>4 DEF Next

(* Between bars the account, each open position taken at its own mark, is  *)
(* never worth more than the high-water mark, whatever fees, partial       *)
(* closes, exits and changes of stops there were since it was set; what    *)
(* unrealized_pnl_log shows besides is of units scaled out since.          *)
THEOREM HighWaterIsRespected == Spec => []HighWaterHolds
<1> DEFINE Inv == BInv /\ HighWater
<1>1. Init => Inv
    BY InitInvariant, InitHighWater
<1>2. Inv /\ [Next]_vars => Inv'
    BY StepKeeps, StepKeepsHighWater
<1>3. Inv => HighWaterHolds
    BY HighWaterAsClaimed DEF BInv
<1> QED
    BY <1>1, <1>2, <1>3, PTL DEF Spec

-----------------------------------------------------------------------------
(* The broker implements InventoryBook.  BookState and BookExits are what  *)
(* `Book' reads for state and exits.                                       *)

BookState == [id \in 1..MaxPositions |-> OrderState(id)]
BookExits == [id \in 1..MaxPositions |-> ExitReason(id)]

LEMMA StateMoves ==
    ASSUME NEW id \in 1..MaxPositions, NEW s, OrderState(id)' = s,
           \A i \in 1..MaxPositions : i # id => OrderState(i)' = OrderState(i)
    PROVE  BookState' = [BookState EXCEPT ![id] = s]
BY DEF BookState

LEMMA ExitsMove ==
    ASSUME NEW id \in 1..MaxPositions, NEW r, ExitReason(id)' = r,
           \A i \in 1..MaxPositions : i # id => ExitReason(i)' = ExitReason(i)
    PROVE  BookExits' = [BookExits EXCEPT ![id] = r]
BY DEF BookExits

LEMMA BookStays ==
    ASSUME \A i \in 1..MaxPositions :
                OrderState(i)' = OrderState(i) /\ ExitReason(i)' = ExitReason(i)
    PROVE  BookState' = BookState /\ BookExits' = BookExits
BY DEF BookState, BookExits

(* The ids at stake are ids of the book. *)
LEMMA IdsOfTheBook ==
    ASSUME TypeOK
    PROVE  /\ DOMAIN positions \subseteq 1..MaxPositions
           /\ DOMAIN pendingOpens \subseteq 1..MaxPositions
           /\ \A i \in DOMAIN positions \cup DOMAIN pendingOpens : i < nextId
           /\ nextId \in Nat \ {0}
<1>1. /\ nextId \in 1..(MaxPositions + 1)
      /\ DOMAIN positions \subseteq 1..(nextId - 1)
      /\ DOMAIN pendingOpens \subseteq 1..(nextId - 1)
    BY DEF TypeOK
<1> QED
    BY <1>1, ConstantsAssumption

(* A step that amends the portfolio, and orders nothing, is none of the    *)
(* book's.                                                                 *)
LEMMA AmendedStays ==
    ASSUME Amended, UNCHANGED <<nextId, pendingOpens>>
    PROVE  BookState' = BookState /\ BookExits' = BookExits
<1>1. ASSUME NEW i \in 1..MaxPositions
      PROVE  OrderState(i)' = OrderState(i) /\ ExitReason(i)' = ExitReason(i)
    BY DEF Amended, Amends, OrderState, ExitReason
<1> QED
    BY <1>1, BookStays

(* A position that is replaced by a closed one leaves, for its reason. *)
LEMMA PositionLeaves ==
    ASSUME BInv, NEW id \in OpenIds, NEW q, NEW reason, q.closed, q.reason = reason,
           positions' = WithPosition(id, q), UNCHANGED <<nextId, pendingOpens>>
    PROVE  Book!Leave(id, reason) /\ id \in 1..MaxPositions
<1>1. /\ id \in DOMAIN positions /\ id \notin DOMAIN pendingOpens
      /\ ~positions[id].closed /\ id \in 1..MaxPositions
    BY IdsOfTheBook DEF OpenIds, BInv, PendingNotYetOpened
<1>2. /\ DOMAIN positions' = DOMAIN positions /\ positions'[id] = q
      /\ \A i \in DOMAIN positions \ {id} : positions'[i] = positions[i]
    BY <1>1 DEF WithPosition
<1>3. OrderState(id) = "open" /\ OrderState(id)' = "closed" /\ ExitReason(id)' = reason
    BY <1>1, <1>2 DEF OrderState, ExitReason
<1>4. \A i \in 1..MaxPositions : i # id =>
            OrderState(i)' = OrderState(i) /\ ExitReason(i)' = ExitReason(i)
    BY <1>2 DEF OrderState, ExitReason
<1>5. /\ BookState' = [BookState EXCEPT ![id] = "closed"]
      /\ BookExits' = [BookExits EXCEPT ![id] = reason]
      /\ BookState[id] = "open"
    BY <1>1, <1>3, <1>4, StateMoves, ExitsMove DEF BookState
<1> QED
    BY <1>1, <1>5 DEF Book!Leave, BookState, BookExits

(* InventoryBook counts as SimBroker does. *)
LEMMA BookCounts ==
    ASSUME NEW S
    PROVE  Book!Cardinality(S) = Cardinality(S)
BY DEF Book!Cardinality, Cardinality

(* _dispatch_open *)
LEMMA OpenSubmits ==
    ASSUME BInv, NEW o \in OpenOrders, DispatchOpen(o), NEW id, id = nextId
    PROVE  Book!Submit(id) /\ id \in 1..MaxPositions
<1>1. /\ phase = "idle" /\ phase' = phase /\ id = nextId /\ nextId <= MaxPositions
      /\ OpenOrderCount < InventoryCap
      /\ nextId' = nextId + 1 /\ positions' = positions
      /\ DOMAIN pendingOpens' = DOMAIN pendingOpens \cup {nextId}
    BY DEF DispatchOpen, book, loop
<1>2. /\ DOMAIN positions \subseteq 1..MaxPositions
      /\ DOMAIN pendingOpens \subseteq 1..MaxPositions
      /\ \A i \in DOMAIN positions \cup DOMAIN pendingOpens : i < nextId
      /\ nextId \in Nat \ {0} /\ TypeOK
    BY IdsOfTheBook DEF BInv
<1>3. id \in 1..MaxPositions
    BY <1>1, <1>2, ConstantsAssumption
<1>4. id \notin DOMAIN positions /\ id \notin DOMAIN pendingOpens
    BY <1>1, <1>2
<1>5. OrderState(id) = "unborn" /\ OrderState(id)' = "pending"
  <2>1. ~(id < nextId)
    BY <1>1, <1>2
  <2> QED
    BY <1>1, <1>4, <2>1 DEF OrderState
<1>6. \A i \in 1..MaxPositions : i # id => OrderState(i)' = OrderState(i)
  <2>1. \A i \in 1..MaxPositions : i # id => (i < nextId + 1 <=> i < nextId)
    BY <1>1, <1>2
  <2> QED
    BY <1>1, <2>1 DEF OrderState
<1>7. \A i \in 1..MaxPositions : ExitReason(i)' = ExitReason(i)
    BY <1>1 DEF ExitReason
<1>8. /\ BookState' = [BookState EXCEPT ![id] = "pending"]
      /\ BookState[id] = "unborn" /\ BookExits' = BookExits
    BY <1>3, <1>5, <1>6, <1>7, StateMoves DEF BookState, BookExits
<1>9. \A j \in Book!InState("unborn") : id <= j
    BY <1>1, <1>2 DEF Book!InState, OrderState
<1>10. Book!Cardinality(Book!Live) < InventoryCap
  <2>1. Book!InState("pending") = DOMAIN pendingOpens
    BY <1>2 DEF Book!InState, OrderState
  <2>2. Book!InState("open") = OpenIds
    BY <1>2 DEF Book!InState, OrderState, OpenIds, BInv, PendingNotYetOpened
  <2>3. /\ IsFiniteSet(OpenIds) /\ Cardinality(OpenIds) \in Nat
        /\ IsFiniteSet(DOMAIN pendingOpens)
        /\ Cardinality(DOMAIN pendingOpens) \in Nat
    BY <1>2, FiniteOrders
  <2>4. DOMAIN pendingOpens \cap OpenIds = {}
    BY DEF OpenIds, BInv, PendingNotYetOpened
  <2>5. Cardinality(DOMAIN pendingOpens \cup OpenIds) =
            Cardinality(DOMAIN pendingOpens) + Cardinality(OpenIds)
    <3>1. Cardinality({}) = 0
        BY FS_EmptySet
    <3>2. Cardinality(DOMAIN pendingOpens \cup OpenIds) =
            Cardinality(DOMAIN pendingOpens) + Cardinality(OpenIds) - Cardinality({})
        BY <2>3, <2>4, FS_Union
    <3> QED
        BY <2>3, <3>1, <3>2
  <2>6. Len(pendingScaleIns) \in Nat
    <3>1. pendingScaleIns \in Seq(ScaleInOrder)
        BY <1>2 DEF TypeOK
    <3> QED
        BY <3>1
  <2>7. Cardinality(DOMAIN pendingOpens \cup OpenIds) < InventoryCap
    BY <1>1, <2>3, <2>5, <2>6, ConstantsAssumption DEF OpenOrderCount
  <2> QED
    BY <2>1, <2>2, <2>7, BookCounts DEF Book!Live
<1>11. phase # "sweep" /\ (phase' = "sweep") = (phase = "sweep")
    BY <1>1
<1>12. /\ BookState[id] = "unborn" /\ ~(phase = "sweep")
       /\ BookState' = [BookState EXCEPT ![id] = "pending"]
       /\ BookExits' = BookExits /\ (phase' = "sweep") = (phase = "sweep")
    BY <1>1, <1>8, <1>11
<1> QED
    BY <1>3, <1>9, <1>10, <1>12 DEF Book!Submit, BookState, BookExits

(* _dispatch_cancel *)
LEMMA CancelWithdraws ==
    ASSUME BInv, NEW id \in DOMAIN pendingOpens, DispatchCancel(id)
    PROVE  Book!Withdraw(id) /\ id \in 1..MaxPositions
<1>1. /\ phase = "idle" /\ phase' = phase /\ nextId' = nextId
      /\ positions' = positions
      /\ DOMAIN pendingOpens' = DOMAIN pendingOpens \ {id}
    BY DEF DispatchCancel, WithoutOrder, book, loop
<1>2. id \in 1..MaxPositions /\ id < nextId /\ id \notin DOMAIN positions
    BY IdsOfTheBook DEF BInv, PendingNotYetOpened
<1>3. OrderState(id) = "pending" /\ OrderState(id)' = "withdrawn"
    BY <1>1, <1>2 DEF OrderState
<1>4. \A i \in 1..MaxPositions : i # id => OrderState(i)' = OrderState(i)
    BY <1>1 DEF OrderState
<1>5. \A i \in 1..MaxPositions : ExitReason(i)' = ExitReason(i)
    BY <1>1 DEF ExitReason
<1>6. /\ BookState' = [BookState EXCEPT ![id] = "withdrawn"]
      /\ BookState[id] = "pending" /\ BookExits' = BookExits
    BY <1>2, <1>3, <1>4, <1>5, StateMoves DEF BookState, BookExits
<1>7. phase # "sweep" /\ (phase' = "sweep") = (phase = "sweep")
    BY <1>1
<1> QED
    BY <1>2, <1>6, <1>7 DEF Book!Withdraw, BookState, BookExits

(* Step A *)
LEMMA ActivationFills ==
    ASSUME BInv, ActivateOpen
    PROVE  \/ \E id \in 1..MaxPositions : Book!Fill(id)
           \/ BookState' = BookState /\ BookExits' = BookExits /\ phase' = phase
<1>0. PICK id : id = Min(todo)
    OBVIOUS
<1> DEFINE fills == Cardinality(OpenIds) < InventoryCap /\ FillMinute <= M
           q == OpenAt(pendingOpens[id], bar[FillMinute].close, CloseTime(FillMinute))
<1>1. /\ phase = "opens" /\ todo # {} /\ phase' = phase /\ nextId' = nextId
      /\ IF fills
         THEN positions' = WithPosition(id, q) /\ pendingOpens' = WithoutOrder(id)
         ELSE UNCHANGED <<positions, pendingOpens>>
    BY <1>0 DEF ActivateOpen
<1>2. id \in todo /\ \A j \in todo : id <= j
  <2>1. todo \in SUBSET Nat
    BY DEF BInv, TypeOK
  <2> QED
    BY <1>0, <1>1, <2>1, MinIsMember
<1>3. q.closed = FALSE /\ q.reason = Unset
    BY DEF OpenAt
<1> HIDE DEF q
<1>4. /\ id \in DOMAIN pendingOpens /\ id \notin DOMAIN positions
      /\ id \in 1..MaxPositions
    BY <1>1, <1>2, IdsOfTheBook DEF BInv, OpensStillToVisit, PendingNotYetOpened
<1>5. CASE fills
  <2>1. /\ DOMAIN positions' = DOMAIN positions \cup {id} /\ positions'[id] = q
        /\ \A i \in DOMAIN positions : positions'[i] = positions[i]
        /\ DOMAIN pendingOpens' = DOMAIN pendingOpens \ {id}
    BY <1>1, <1>4, <1>5 DEF WithPosition, WithoutOrder
  <2>2. todo = DOMAIN pendingOpens
    BY <1>1, <1>5 DEF BInv, OpensStillToVisit
  <2>3. OrderState(id) = "pending" /\ OrderState(id)' = "open"
    BY <1>3, <1>4, <2>1 DEF OrderState
  <2>4. \A i \in 1..MaxPositions : i # id => OrderState(i)' = OrderState(i)
    BY <1>1, <2>1 DEF OrderState
  <2>5. \A i \in 1..MaxPositions : ExitReason(i)' = ExitReason(i)
    BY <1>3, <1>4, <2>1 DEF ExitReason
  <2>6. /\ BookState' = [BookState EXCEPT ![id] = "open"]
        /\ BookState[id] = "pending" /\ BookExits' = BookExits
    BY <1>4, <2>3, <2>4, <2>5, StateMoves DEF BookState, BookExits
  <2>7. \A j \in {i \in 1..MaxPositions : BookState[i] = "pending"} : id <= j
    <3>1. {i \in 1..MaxPositions : BookState[i] = "pending"} \subseteq DOMAIN pendingOpens
        BY DEF BookState, OrderState
    <3> QED
        BY <1>2, <2>2, <3>1
  <2>8. phase # "sweep" /\ (phase' = "sweep") = (phase = "sweep")
    BY <1>1
  <2>9. Book!Fill(id)
    BY <1>4, <2>6, <2>7, <2>8 DEF Book!Fill, Book!InState, BookState, BookExits
  <2> QED
    BY <1>4, <2>9
<1>6. CASE ~fills
  <2>1. BookState' = BookState /\ BookExits' = BookExits
    BY <1>1, <1>6 DEF BookState, BookExits, OrderState, ExitReason
  <2> QED
    BY <1>1, <2>1
<1> QED
    BY <1>5, <1>6

(* dispatch of a scale-out or a close *)
LEMMA HandExits ==
    ASSUME BInv, ByHand, UNCHANGED <<nextId, pendingOpens, phase>>
    PROVE  \/ \E id \in 1..MaxPositions : Book!ExitAlone(id, MANUAL)
           \/ BookState' = BookState /\ BookExits' = BookExits
<1>1. PICK id \in OpenIds, q \in Position :
        /\ phase = "idle"
        /\ positions' = WithPosition(id, q)
        /\ q.closed => q.reason = MANUAL
        /\ ~q.closed => q.reason = positions[id].reason
    BY DEF ByHand
<1>2. CASE q.closed
  <2>1. q.reason = MANUAL /\ positions' = WithPosition(id, q)
    BY <1>1, <1>2
  <2>2. Book!Leave(id, MANUAL) /\ id \in 1..MaxPositions
    BY <1>2, <2>1, PositionLeaves
  <2>3. (phase' = "sweep") = (phase = "sweep") /\ phase # "sweep"
    BY <1>1
  <2> QED
    BY <2>2, <2>3 DEF Book!ExitAlone, MANUAL
<1>3. CASE ~q.closed
  <2>1. /\ DOMAIN positions' = DOMAIN positions /\ positions'[id] = q
        /\ \A i \in DOMAIN positions \ {id} : positions'[i] = positions[i]
    BY <1>1, HandReplaces
  <2>2. ASSUME NEW i \in 1..MaxPositions
        PROVE  OrderState(i)' = OrderState(i) /\ ExitReason(i)' = ExitReason(i)
    BY <1>1, <1>3, <2>1 DEF OrderState, ExitReason, OpenIds
  <2> QED
    BY <2>2, BookStays
<1> QED
    BY <1>2, <1>3

(* _barrier_close *)
LEMMA BarrierLeaves ==
    ASSUME BInv, NEW id \in OpenIds, NEW minute, NEW price \in Int, NEW reason,
           BarrierClose(id, minute, reason, price), UNCHANGED <<nextId, pendingOpens>>
    PROVE  Book!Leave(id, reason) /\ id \in 1..MaxPositions
<1> DEFINE p == positions[id]
           q == Closed(p, price, reason, CostPerSide(p.openSize))
<1>1. positions' = WithPosition(id, q)
    BY DEF BarrierClose
<1>2. p \in Position
    BY DEF OpenIds, BInv, TypeOK
<1>3. q.closed /\ q.reason = reason
  <2>1. q.closed
    BY <1>2 DEF Closed, Position
  <2>2. q.reason = reason
    <3> HIDE DEF p
    <3> QED
        BY <1>2, ClosedFields
  <2> QED
    BY <2>1, <2>2
<1> HIDE DEF q
<1> QED
    BY <1>1, <1>3, PositionLeaves

(* A step that leaves the book as it is stutters there. *)
LEMMA BookStutters ==
    ASSUME BookState' = BookState, BookExits' = BookExits,
           (phase' = "sweep") = (phase = "sweep")
    PROVE  UNCHANGED Book!bookVars
BY DEF Book!bookVars, BookState, BookExits

LEMMA QuietStutters ==
    ASSUME Amended, UNCHANGED <<nextId, pendingOpens>>,
           phase # "sweep", phase' # "sweep"
    PROVE  UNCHANGED Book!bookVars
<1>1. BookState' = BookState /\ BookExits' = BookExits
    BY AmendedStays
<1>2. (phase' = "sweep") = (phase = "sweep")
    OBVIOUS
<1> QED
    BY <1>1, <1>2, BookStutters

LEMMA DispatchOfTheBook ==
    ASSUME BInv, Dispatch
    PROVE  Book!BookNext \/ UNCHANGED Book!bookVars
<1>1. ASSUME NEW o \in OpenOrders, DispatchOpen(o) PROVE Book!BookNext
  <2>1. PICK id : id = nextId
    OBVIOUS
  <2>2. Book!Submit(id) /\ id \in 1..MaxPositions
    BY <1>1, <2>1, OpenSubmits
  <2> QED
    BY <2>2 DEF Book!BookNext
<1>2. ASSUME NEW id \in DOMAIN positions, NEW f \in Fractions, DispatchScaleIn(id, f)
      PROVE  UNCHANGED Book!bookVars
  <2>1. /\ UNCHANGED <<positions, realized, history, nextId, pendingOpens>>
        /\ phase = "idle" /\ phase' = phase
    BY <1>2 DEF DispatchScaleIn, book, loop
  <2> QED
    BY <2>1, UntouchedIsAmended, QuietStutters
<1>3. ASSUME ByHand, UNCHANGED <<nextId, pendingOpens, phase>>
      PROVE  Book!BookNext \/ UNCHANGED Book!bookVars
  <2>1. CASE BookState' = BookState /\ BookExits' = BookExits
    BY <1>3, <2>1, BookStutters
  <2>2. ASSUME NEW id \in 1..MaxPositions, Book!ExitAlone(id, MANUAL)
        PROVE  Book!BookNext
    BY <2>2 DEF Book!BookNext, Book!Reasons, MANUAL
  <2> QED
    BY <1>3, <2>1, <2>2, HandExits
<1>4. ASSUME NEW id \in DOMAIN positions, NEW f \in Fractions, DispatchScaleOut(id, f)
      PROVE  Book!BookNext \/ UNCHANGED Book!bookVars
  <2>1. UNCHANGED <<nextId, pendingOpens, phase>>
    BY <1>4 DEF DispatchScaleOut, orders, loop
  <2> QED
    BY <1>3, <1>4, <2>1, ScaleOutIsByHand
<1>5. ASSUME NEW id \in DOMAIN positions, DispatchClose(id)
      PROVE  Book!BookNext \/ UNCHANGED Book!bookVars
  <2>1. UNCHANGED <<nextId, pendingOpens, phase>>
    BY <1>5 DEF DispatchClose, orders, loop
  <2> QED
    BY <1>3, <1>5, <2>1, CloseIsByHand
<1>6. ASSUME NEW id \in DOMAIN positions, NEW tp \in Stops \cup {Unset},
             NEW sl \in Stops \cup {Unset}, DispatchModifyStop(id, tp, sl)
      PROVE  UNCHANGED Book!bookVars
  <2>1. UNCHANGED <<nextId, pendingOpens>> /\ phase = "idle" /\ phase' = phase
    BY <1>6 DEF DispatchModifyStop, orders, loop
  <2>2. Amended
    BY <1>6, ModifyStopAmends
  <2> QED
    BY <2>1, <2>2, QuietStutters
<1>7. ASSUME NEW id \in DOMAIN pendingOpens, DispatchCancel(id) PROVE Book!BookNext
  <2>1. Book!Withdraw(id) /\ id \in 1..MaxPositions
    BY <1>7, CancelWithdraws
  <2> QED
    BY <2>1 DEF Book!BookNext
<1> QED
    BY <1>1, <1>2, <1>4, <1>5, <1>6, <1>7 DEF Dispatch

(* A take-profit opens a sweep, a stop-loss leaves alone. *)
LEMMA TouchOfTheBook ==
    ASSUME BInv, TouchBarrier
    PROVE  Book!BookNext
<1> DEFINE id == Visited
           p == positions[id]
           j == Min(TouchMinutes(p))
           reason == TouchReason(p, bar[j])
           price == BarrierPrice(p, reason)
<1>1. /\ Walking /\ TouchMinutes(p) # {} /\ BarrierClose(id, j, reason, price)
      /\ IF Sweeps(reason) THEN phase' = "sweep" ELSE UNCHANGED phase
      /\ UNCHANGED <<nextId, pendingOpens>>
    BY DEF TouchBarrier, orders
<1>2. id \in OpenIds /\ p \in Position /\ bar \in Bars /\ phase = "walk"
    BY <1>1, VisitedIsOpen DEF BInv, Walking
<1>3. price \in Int /\ reason \in {TP, SL}
    BY <1>1, <1>2, TouchType
<1> HIDE DEF id, p, j, reason, price
<1>4. BarrierClose(id, j, reason, price) /\ UNCHANGED <<nextId, pendingOpens>>
    BY <1>1
<1>5. Book!Leave(id, reason) /\ id \in 1..MaxPositions
    BY <1>2, <1>3, <1>4, BarrierLeaves
<1>6. CASE reason = TP
  <2>1. (phase = "sweep") = FALSE /\ (phase' = "sweep") = TRUE
    BY <1>1, <1>2, <1>6 DEF Sweeps
  <2>2. Book!ExitAtProfit(id)
    BY <1>5, <1>6, <2>1 DEF Book!ExitAtProfit, TP
  <2> QED
    BY <1>5, <2>2 DEF Book!BookNext
<1>7. CASE reason = SL
  <2>1. (phase = "sweep") = FALSE /\ (phase' = "sweep") = (phase = "sweep")
    BY <1>1, <1>2, <1>7 DEF Sweeps, TP, SL
  <2>2. Book!ExitAlone(id, "sl")
    BY <1>5, <1>7, <2>1 DEF Book!ExitAlone, SL
  <2> QED
    BY <1>5, <2>2 DEF Book!BookNext, Book!Reasons
<1> QED
    BY <1>3, <1>6, <1>7

LEMMA SweepOfTheBook ==
    ASSUME BInv, SweepWinner
    PROVE  Book!BookNext
<1> DEFINE id == Min(Winners(sweep.price))
<1>1. /\ BarrierClose(id, sweep.minute, BATCHED_WINNER, sweep.price)
      /\ UNCHANGED <<nextId, pendingOpens>> /\ phase = "sweep" /\ phase' = phase
    BY DEF SweepWinner, orders
<1>2. id \in OpenIds /\ sweep.price \in Int
    BY SweepIsExit DEF Winners, BInv, TypeOK
<1> HIDE DEF id
<1>3. Book!Leave(id, BATCHED_WINNER) /\ id \in 1..MaxPositions
    BY <1>1, <1>2, BarrierLeaves
<1>4. (phase = "sweep") = TRUE /\ (phase' = "sweep") = (phase = "sweep")
    BY <1>1
<1>5. Book!ExitSwept(id)
    BY <1>3, <1>4 DEF Book!ExitSwept, BATCHED_WINNER
<1> QED
    BY <1>3, <1>5 DEF Book!BookNext

LEMMA CapOfTheBook ==
    ASSUME BInv, CapHoldAge
    PROVE  Book!BookNext
<1>1. /\ Walking /\ BarrierClose(Visited, M, SAFETY_CAP, bar[M].close)
      /\ UNCHANGED <<nextId, pendingOpens>> /\ phase' = phase
    BY DEF CapHoldAge, orders
<1>2. Visited \in OpenIds /\ bar \in Bars /\ phase = "walk"
    BY <1>1, VisitedIsOpen DEF BInv, Walking
<1>3. M \in 1..M
    BY ConstantsAssumption
<1>4. bar[M].close \in Int
    BY <1>2, <1>3, BarType
<1>5. PICK id : id = Visited
    OBVIOUS
<1>6. Book!Leave(id, SAFETY_CAP) /\ id \in 1..MaxPositions
    BY <1>1, <1>2, <1>4, <1>5, BarrierLeaves
<1>7. (phase = "sweep") = FALSE /\ (phase' = "sweep") = (phase = "sweep")
    BY <1>1, <1>2
<1>8. Book!ExitAlone(id, "safety_cap")
    BY <1>6, <1>7 DEF Book!ExitAlone, SAFETY_CAP
<1> QED
    BY <1>6, <1>8 DEF Book!BookNext, Book!Reasons

LEMMA AdvanceOfTheBook ==
    ASSUME BInv, Advance
    PROVE  Book!BookNext \/ UNCHANGED Book!bookVars
<1>1. ASSUME NEW b \in Bars, AdvanceTo(b) PROVE UNCHANGED Book!bookVars
  <2>1. /\ UNCHANGED <<positions, realized, history, nextId, pendingOpens>>
        /\ phase # "sweep" /\ phase' # "sweep"
    BY <1>1 DEF AdvanceTo, book, orders
  <2> QED
    BY <2>1, UntouchedIsAmended, QuietStutters
<1>2. CASE ActivateOpen
  <2>1. ASSUME NEW id \in 1..MaxPositions, Book!Fill(id) PROVE Book!BookNext
    BY <2>1 DEF Book!BookNext
  <2>2. CASE BookState' = BookState /\ BookExits' = BookExits /\ phase' = phase
    BY <2>2, BookStutters
  <2> QED
    BY <1>2, <2>1, <2>2, ActivationFills
<1>3. CASE OpensActivated \/ ScaleInsActivated
  <2>1. /\ UNCHANGED <<positions, realized, history, nextId, pendingOpens>>
        /\ phase # "sweep" /\ phase' # "sweep"
    BY <1>3 DEF OpensActivated, ScaleInsActivated, book, orders
  <2> QED
    BY <2>1, UntouchedIsAmended, QuietStutters
<1>4. CASE ActivateScaleIn
  <2>1. UNCHANGED <<nextId, pendingOpens>> /\ phase # "sweep" /\ phase' # "sweep"
    BY <1>4 DEF ActivateScaleIn
  <2> QED
    BY <1>4, <2>1, ActivateScaleInAmends, QuietStutters
<1>5. CASE SweepDone
  <2>1. /\ UNCHANGED <<positions, realized, history, nextId, pendingOpens>>
        /\ phase = "sweep" /\ phase' = "walk"
    BY <1>5 DEF SweepDone, book, orders
  <2>2. BookState' = BookState /\ BookExits' = BookExits
    BY <2>1, UntouchedIsAmended, AmendedStays
  <2>3. (phase = "sweep") = TRUE /\ (phase' = "sweep") = FALSE
    BY <2>1
  <2>4. Book!EndSweep
    BY <2>2, <2>3 DEF Book!EndSweep, BookState, BookExits
  <2> QED
    BY <2>4 DEF Book!BookNext
<1>6. CASE MarkPosition
  <2>1. UNCHANGED <<nextId, pendingOpens>> /\ phase # "sweep" /\ phase' # "sweep"
    BY <1>6 DEF MarkPosition, Walking, orders
  <2> QED
    BY <1>6, <2>1, MarkPositionAmends, QuietStutters
<1>7. CASE MarkPortfolio
  <2>1. UNCHANGED <<nextId, pendingOpens>> /\ phase # "sweep" /\ phase' # "sweep"
    BY <1>7 DEF MarkPortfolio, orders
  <2> QED
    BY <1>7, <2>1, MarkPortfolioAmends, QuietStutters
<1> QED
    BY <1>1, <1>2, <1>3, <1>4, <1>5, <1>6, <1>7, TouchOfTheBook, SweepOfTheBook,
       CapOfTheBook DEF Advance

LEMMA StepOfTheBook ==
    ASSUME BInv, [Next]_vars
    PROVE  [Book!BookNext]_(Book!bookVars)
<1>1. CASE UNCHANGED vars
  <2>1. UNCHANGED <<nextId, pendingOpens, positions, realized, history, phase>>
    BY <1>1 DEF vars
  <2>2. BookState' = BookState /\ BookExits' = BookExits
    BY <2>1, UntouchedIsAmended, AmendedStays
  <2> QED
    BY <2>1, <2>2, BookStutters
<1> QED
    BY <1>1, DispatchOfTheBook, AdvanceOfTheBook DEF Next

LEMMA InitOfTheBook == Init => Book!BookInit
<1> SUFFICES ASSUME Init PROVE Book!BookInit
    OBVIOUS
<1>1. /\ DOMAIN positions = {} /\ DOMAIN pendingOpens = {} /\ nextId = 1
      /\ (phase = "sweep") = FALSE
    BY DEF Init
<1>2. \A i \in 1..MaxPositions : OrderState(i) = "unborn" /\ ExitReason(i) = Unset
    BY <1>1 DEF OrderState, ExitReason
<1> QED
    BY <1>1, <1>2 DEF Book!BookInit

(* Whatever the bars and the orders, the broker keeps InventoryBook's      *)
(* promises: no order fills twice, out of turn or beyond the cap, none     *)
(* leaves twice, and only a take-profit takes other positions with it.     *)
THEOREM BrokerImplementsBook == Spec => ImplementsBook
<1>1. Init => Book!BookInit
    BY InitOfTheBook
<1>2. BInv /\ [Next]_vars => [Book!BookNext]_(Book!bookVars)
    BY StepOfTheBook
<1> QED
    BY <1>1, <1>2, Invariance, PTL DEF Spec, ImplementsBook, Book!BookSpec
=============================================================================
