----------------------- MODULE AdaptiveStrategyProofs -----------------------
(***************************************************************************)
(* Proofs about AdaptiveStrategy, for every gain, decay, step, threshold,  *)
(* seed, hold limit, warm-up and stream.                                   *)
(*                                                                         *)
(* The averages are handled through two facts about Ewma: it stays between *)
(* 0 and One, and it keeps order.  The second is what makes the pause a    *)
(* function of the labels: r_star_ewma never leaves the interval between   *)
(* the averages that heard the same labels but started at 0 and at One.    *)
(***************************************************************************)
EXTENDS AdaptiveStrategy, TLAPS

(* r_star_ewma lies between the averages from the two extreme starts *)
AverageBetween == low <= rStar /\ rStar <= high

(* a bar in hand is one of the stream's *)
BarInStream == pc # "learn" => barNo <= MaxBars

(* an open is decided only with nothing live, and only by a controller     *)
(* that is not paused                                                      *)
OpeningAlone ==
    /\ pc = "decide" => InState("pending") = {}
    /\ pc = "dispatch" /\ opening => Live = {}
    /\ kind = "composite_adaptive" /\ pc = "dispatch" /\ opening => ~ctlPaused

(* after advance_to nobody is older than the cap, and what is overdue will *)
(* be closed                                                               *)
OverdueClosing ==
    /\ pc \in {"decide", "dispatch"} => \A id \in InState("open") : Age(id) <= MaxHoldBars
    /\ kind = "composite_adaptive" /\ pc = "dispatch" => Overdue \subseteq closing

SInv ==
    /\ StrategyTypeOK
    /\ AverageBetween
    /\ PauseFollowsLabels
    /\ BarInStream
    /\ OpeningAlone
    /\ SingleShot
    /\ OverdueClosing
    /\ HoldAgeBounded

-----------------------------------------------------------------------------
(* Arithmetic.                                                             *)

(* The larger and the smaller of two integers. *)
LEMMA MaxOfTwo ==
    ASSUME NEW a \in Int, NEW b \in Int
    PROVE  Max({a, b}) = IF a >= b THEN a ELSE b
<1> DEFINE m == IF a >= b THEN a ELSE b
<1>1. m \in {a, b} /\ \A y \in {a, b} : m >= y
    OBVIOUS
<1>2. \A x \in {a, b} : (\A y \in {a, b} : x >= y) => x = m
    OBVIOUS
<1> HIDE DEF m
<1>3. Max({a, b}) = m
    BY <1>1, <1>2 DEF Max
<1> QED
    BY <1>3 DEF m

LEMMA MinOfTwo ==
    ASSUME NEW a \in Int, NEW b \in Int
    PROVE  Min({a, b}) = IF a <= b THEN a ELSE b
<1> DEFINE m == IF a <= b THEN a ELSE b
<1>1. m \in {a, b} /\ \A y \in {a, b} : m <= y
    OBVIOUS
<1>2. \A x \in {a, b} : (\A y \in {a, b} : x <= y) => x = m
    OBVIOUS
<1> HIDE DEF m
<1>3. Min({a, b}) = m
    BY <1>1, <1>2 DEF Min
<1> QED
    BY <1>3 DEF m

(* A clipped value is in its range, and a value in the range is kept. *)
LEMMA ClipInRange ==
    ASSUME NEW x \in Int, NEW least \in Int, NEW most \in Int, least <= most
    PROVE  /\ Clip(x, least, most) \in least..most
           /\ Clip(x, least, most) = IF x < least THEN least
                                     ELSE IF x > most THEN most ELSE x
<1>1. Min({most, x}) = IF most <= x THEN most ELSE x
    BY MinOfTwo
<1>2. Min({most, x}) \in Int
    BY <1>1
<1>3. Max({least, Min({most, x})})
        = IF least >= Min({most, x}) THEN least ELSE Min({most, x})
    BY <1>2, MaxOfTwo
<1> QED
    BY <1>1, <1>3 DEF Clip

(* What integer division by a positive number is. *)
LEMMA DivisionBounds ==
    ASSUME NEW x \in Int, NEW n \in Nat \ {0}
    PROVE  /\ x \div n \in Int
           /\ n * (x \div n) <= x
           /\ x < n * (x \div n) + n
<1>1. PICK q \in Int : q = x \div n
    OBVIOUS
<1>2. q * n <= x /\ x < (q + 1) * n
    BY <1>1
<1>3. n * q = q * n /\ (q + 1) * n = n * q + n
    OBVIOUS
<1> QED
    BY <1>1, <1>2, <1>3

(* A larger factor does not make a product with a natural smaller. *)
LEMMA ProductKeepsOrder ==
    ASSUME NEW n \in Nat, NEW a \in Int, NEW b \in Int, a <= b
    PROVE  n * a <= n * b
<1>1. PICK d \in Nat : b = a + d
    <2>1. b - a \in Nat /\ b = a + (b - a)
        OBVIOUS
    <2> QED
        BY <2>1
<1>2. n * b = n * a + n * d /\ n * d >= 0
    BY <1>1
<1> QED
    BY <1>2

(* The part of a distance an average moves is between nothing and all. *)
LEMMA StepUp ==
    ASSUME NEW d \in Nat, NEW n \in Nat \ {0}
    PROVE  d \div n \in 0..d
<1> DEFINE q == d \div n
<1>1. q \in Int /\ n * q <= d /\ d < n * q + n
    BY DivisionBounds
<1> HIDE DEF q
<1>2. q >= 0
  <2>1. CASE q <= -1
    <3>1. n * q <= n * (-1)
        BY <1>1, <2>1, ProductKeepsOrder
    <3> QED
        BY <1>1, <3>1
  <2> QED
    BY <1>1, <2>1
<1>3. q <= d
  <2>1. PICK k \in Nat : n = k + 1
    <3>1. n - 1 \in Nat /\ n = (n - 1) + 1
        OBVIOUS
    <3> QED
        BY <3>1
  <2>2. n * q = k * q + q /\ k * q >= 0
    BY <1>1, <1>2, <2>1
  <2> QED
    BY <1>1, <2>2
<1>4. q \in 0..d
    BY <1>1, <1>2, <1>3
<1> QED
    BY <1>4 DEF q

LEMMA StepDown ==
    ASSUME NEW d \in Int, d <= 0, NEW n \in Nat \ {0}
    PROVE  d \div n \in d..0
<1> DEFINE q == d \div n
<1>1. q \in Int /\ n * q <= d /\ d < n * q + n
    BY DivisionBounds
<1> HIDE DEF q
<1>2. q <= 0
  <2>1. CASE q >= 1
    <3>1. n * 1 <= n * q
        BY <1>1, <2>1, ProductKeepsOrder
    <3> QED
        BY <1>1, <3>1
  <2> QED
    BY <1>1, <2>1
<1>3. q >= d
  <2>1. CASE q <= d - 1
    <3>1. n * q <= n * (d - 1)
        BY <1>1, <2>1, ProductKeepsOrder
    <3>2. n * (d - 1) = n * d - n
        OBVIOUS
    <3>3. n * d <= d
      <4>1. PICK k \in Nat : n = k + 1
        <5>1. n - 1 \in Nat /\ n = (n - 1) + 1
            OBVIOUS
        <5> QED
            BY <5>1
      <4>2. n * d = k * d + d /\ k * d <= 0
        BY <4>1
      <4> QED
        BY <4>1, <4>2
    <3> QED
        BY <1>1, <3>1, <3>2, <3>3
  <2> QED
    BY <1>1, <2>1
<1>4. q \in d..0
    BY <1>1, <1>2, <1>3
<1> QED
    BY <1>4 DEF q

(* An average of a rate stays a rate. *)
LEMMA EwmaIsRate ==
    ASSUME NEW r \in 0..One, NEW occurred \in BOOLEAN
    PROVE  Ewma(r, occurred) \in 0..One
<1>1. One \in Nat /\ LambdaInv \in Nat \ {0}
    BY StrategyAssumption
<1>2. CASE occurred
  <2>1. (One - r) \div LambdaInv \in 0..(One - r)
    BY <1>1, StepUp
  <2> QED
    BY <1>1, <1>2, <2>1 DEF Ewma
<1>3. CASE ~occurred
  <2>1. (0 - r) \div LambdaInv \in (0 - r)..0
    BY <1>1, StepDown
  <2> QED
    BY <1>1, <1>3, <2>1 DEF Ewma
<1> QED
    BY <1>2, <1>3

(* Two averages told the same keep their order. *)
LEMMA EwmaKeepsOrder ==
    ASSUME NEW r \in 0..One, NEW s \in 0..One, r <= s, NEW occurred \in BOOLEAN
    PROVE  Ewma(r, occurred) <= Ewma(s, occurred)
<1> DEFINE t == IF occurred THEN One ELSE 0
           n == LambdaInv
           q == (t - r) \div n
           u == (t - s) \div n
<1>1. One \in Nat /\ n \in Nat \ {0} /\ t \in Int /\ t - r \in Int /\ t - s \in Int
    BY StrategyAssumption
<1>2. q \in Int /\ n * q <= t - r
    BY <1>1, DivisionBounds
<1>3. u \in Int /\ t - s < n * u + n
    BY <1>1, DivisionBounds
<1>4. Ewma(r, occurred) = r + q /\ Ewma(s, occurred) = s + u
    BY DEF Ewma
<1> HIDE DEF t, n, q, u
<1>5. r + q <= s + u
  <2>1. CASE q - u >= s - r + 1
    <3>1. n * (s - r) <= n * (q - u - 1)
        BY <1>1, <1>2, <1>3, <2>1, ProductKeepsOrder
    <3>2. n * (q - u - 1) = n * q - n * u - n
        BY <1>1, <1>2, <1>3
    <3>3. n * (s - r) >= s - r
      <4>1. PICK k \in Nat : n = k + 1
        <5>1. n - 1 \in Nat /\ n = (n - 1) + 1
            BY <1>1
        <5> QED
            BY <5>1
      <4>2. s - r \in Nat
        BY <1>1
      <4>3. n * (s - r) = k * (s - r) + (s - r) /\ k * (s - r) >= 0
        BY <4>1, <4>2
      <4> QED
        BY <4>2, <4>3
    <3> QED
        BY <1>1, <1>2, <1>3, <3>1, <3>2, <3>3
  <2> QED
    BY <1>1, <1>2, <1>3, <2>1
<1> QED
    BY <1>4, <1>5
-----------------------------------------------------------------------------
(* The book.                                                               *)

(* An exit takes one position out of the open ones and touches no order. *)
LEMMA ExitEffect ==
    ASSUME BookTypeOK, NEW id \in Ids, NEW r \in Reasons,
           ExitAlone(id, r) \/ ExitAtProfit(id) \/ ExitSwept(id)
    PROVE  /\ BookTypeOK'
           /\ InState("open")' = InState("open") \ {id}
           /\ InState("pending")' = InState("pending")
<1>1. PICK q \in Reasons : Leave(id, q)
    BY DEF ExitAlone, ExitAtProfit, ExitSwept, Reasons
<1>2. sweeping' \in BOOLEAN
    BY DEF ExitAlone, ExitAtProfit, ExitSwept, BookTypeOK
<1>3. BookTypeOK'
    BY <1>1, <1>2 DEF Leave, BookTypeOK
<1> QED
    BY <1>1, <1>3 DEF Leave, InState, BookTypeOK

(* A submission adds its id to the pending orders. *)
LEMMA SubmitEffect ==
    ASSUME BookTypeOK, NEW id \in Ids, Submit(id)
    PROVE  /\ BookTypeOK'
           /\ InState("open")' = InState("open")
           /\ InState("pending")' = InState("pending") \cup {id}
<1>1. BookTypeOK'
    BY DEF Submit, BookTypeOK
<1> QED
    BY <1>1 DEF Submit, InState, BookTypeOK

(* A fill moves its id from the pending orders to the open positions. *)
LEMMA FillEffect ==
    ASSUME BookTypeOK, NEW id \in Ids, Fill(id)
    PROVE  /\ BookTypeOK'
           /\ id \in InState("pending")
           /\ InState("open")' = InState("open") \cup {id}
           /\ InState("pending")' = InState("pending") \ {id}
<1>1. BookTypeOK'
    BY DEF Fill, BookTypeOK
<1> QED
    BY <1>1 DEF Fill, InState, BookTypeOK

-----------------------------------------------------------------------------
(* The invariant holds initially and every action keeps it.                *)

LEMMA SInvInit ==
    ASSUME Init
    PROVE  SInv
<1>1. BookTypeOK /\ Live = {}
    BY DEF Init, BookInit, BookTypeOK, Live, InState
<1>2. StrategyTypeOK
  <2>1. One \in Nat /\ RStarInit \in 0..One /\ MaxBars \in Nat /\ Seeds \subseteq Nat
    BY StrategyAssumption
  <2>2. /\ kind \in Kinds /\ tau \in Nat /\ rHat \in 0..One /\ rStar \in 0..One
        /\ low \in 0..One /\ high \in 0..One
    BY <2>1 DEF Init
  <2>3. /\ pc \in {"learn", "advance", "decide", "dispatch"}
        /\ barNo \in 1..(MaxBars + 1) /\ openedAt \in [Ids -> 0..MaxBars]
    BY <2>1 DEF Init
  <2>4. /\ ctlPaused \in BOOLEAN /\ lastEntered \in BOOLEAN
        /\ transformed \in BOOLEAN /\ acted \in BOOLEAN /\ opening \in BOOLEAN
        /\ closing \subseteq Ids /\ pendingLabel \in {None, 0, 1}
    BY DEF Init
  <2> QED
    BY <1>1, <2>2, <2>3, <2>4 DEF StrategyTypeOK
<1>3. AverageBetween
    BY StrategyAssumption DEF Init, AverageBetween
<1>4. PauseFollowsLabels
    BY StrategyAssumption DEF Init, PauseFollowsLabels
<1>5. BarInStream /\ OpeningAlone /\ OverdueClosing
    BY DEF Init, BarInStream, OpeningAlone, OverdueClosing
<1>6. SingleShot
    BY <1>1 DEF SingleShot
<1>7. HoldAgeBounded
    BY <1>1 DEF HoldAgeBounded, Live
<1> QED
    BY <1>2, <1>3, <1>4, <1>5, <1>6, <1>7 DEF SInv

(* What does not touch the controller keeps what is said of it. *)
LEMMA ControllerKept ==
    ASSUME SInv, UNCHANGED controller
    PROVE  AverageBetween' /\ PauseFollowsLabels'
BY DEF SInv, controller, AverageBetween, PauseFollowsLabels

LEMMA LearnKeeps ==
    ASSUME SInv, Learn
    PROVE  SInv'
<1>1. UNCHANGED <<bookVars, kind, barNo, openedAt, controller, lastEntered,
                  transformed, closing, opening, acted>>
    BY DEF Learn, actions
<1>2. pc = "learn" /\ pc' = "advance" /\ barNo <= MaxBars
    BY DEF Learn
<1>3. BookTypeOK' /\ InState("open")' = InState("open") /\ Live' = Live
    BY <1>1 DEF SInv, StrategyTypeOK, BookTypeOK, bookVars, InState, Live
<1>4. pendingLabel' \in {None, 0, 1}
    BY DEF Learn, SInv, StrategyTypeOK
<1>5. StrategyTypeOK'
    BY <1>1, <1>2, <1>3, <1>4 DEF SInv, StrategyTypeOK, controller
<1>6. AverageBetween' /\ PauseFollowsLabels'
    BY <1>1, ControllerKept
<1>7. BarInStream' /\ OpeningAlone' /\ OverdueClosing' /\ HoldAgeBounded'
    BY <1>1, <1>2 DEF BarInStream, OpeningAlone, OverdueClosing, HoldAgeBounded
<1>8. SingleShot'
    BY <1>3 DEF SInv, SingleShot
<1> QED
    BY <1>5, <1>6, <1>7, <1>8 DEF SInv

LEMMA FlattenKeeps ==
    ASSUME SInv, Flatten
    PROVE  SInv'
<1>1. /\ pc = "learn" /\ barNo <= MaxBars
      /\ UNCHANGED <<kind, pc, barNo, openedAt, controller, lastEntered,
                     pendingLabel, transformed, closing, opening, acted>>
    BY DEF Flatten, actions, strategy
<1>2. PICK id \in Ids : ExitAlone(id, "manual")
    BY DEF Flatten
<1>3. /\ BookTypeOK' /\ InState("open")' = InState("open") \ {id}
      /\ InState("pending")' = InState("pending")
    BY <1>2, ExitEffect DEF SInv, StrategyTypeOK, Reasons
<1>4. StrategyTypeOK'
    BY <1>1, <1>3 DEF SInv, StrategyTypeOK, controller
<1>5. AverageBetween' /\ PauseFollowsLabels'
    BY <1>1, ControllerKept
<1>6. BarInStream' /\ OpeningAlone' /\ OverdueClosing'
    BY <1>1 DEF BarInStream, OpeningAlone, OverdueClosing
<1>7. HoldAgeBounded'
    BY <1>1, <1>3 DEF SInv, HoldAgeBounded
<1>8. SingleShot'
    BY <1>3 DEF SInv, SingleShot, Live
<1> QED
    BY <1>4, <1>5, <1>6, <1>7, <1>8 DEF SInv

LEMMA FillNextKeeps ==
    ASSUME SInv, FillNext
    PROVE  SInv'
<1>1. /\ pc = "advance"
      /\ UNCHANGED <<kind, pc, barNo, controller, lastEntered, pendingLabel,
                     transformed, closing, opening, acted>>
    BY DEF FillNext, actions, strategy
<1>2. PICK id \in Ids : Fill(id) /\ openedAt' = [openedAt EXCEPT ![id] = barNo]
    BY DEF FillNext
<1>3. /\ BookTypeOK' /\ id \in InState("pending")
      /\ InState("open")' = InState("open") \cup {id}
      /\ InState("pending")' = InState("pending") \ {id}
    BY <1>2, FillEffect DEF SInv, StrategyTypeOK
<1>4. barNo \in 0..MaxBars
    BY <1>1, StrategyAssumption DEF SInv, StrategyTypeOK, BarInStream
<1>5. openedAt' \in [Ids -> 0..MaxBars]
    BY <1>2, <1>4 DEF SInv, StrategyTypeOK
<1>6. StrategyTypeOK'
    BY <1>1, <1>3, <1>5 DEF SInv, StrategyTypeOK, controller
<1>7. AverageBetween' /\ PauseFollowsLabels'
    BY <1>1, ControllerKept
<1>8. BarInStream' /\ OpeningAlone' /\ OverdueClosing' /\ HoldAgeBounded'
    BY <1>1 DEF SInv, BarInStream, OpeningAlone, OverdueClosing, HoldAgeBounded
<1>9. SingleShot'
    BY <1>3 DEF SInv, SingleShot, Live
<1> QED
    BY <1>6, <1>7, <1>8, <1>9 DEF SInv

LEMMA ExitKeeps ==
    ASSUME SInv, Exit
    PROVE  SInv'
<1>1. /\ pc = "advance"
      /\ UNCHANGED <<kind, pc, barNo, openedAt, controller, lastEntered,
                     pendingLabel, transformed, closing, opening, acted>>
    BY DEF Exit, actions, strategy
<1>2. BookTypeOK' /\ Live' \subseteq Live
  <2>1. CASE EndSweep
    BY <2>1 DEF EndSweep, SInv, StrategyTypeOK, BookTypeOK, Live, InState
  <2>2. CASE \E id \in Ids : \/ ExitAlone(id, "sl") \/ ExitAtProfit(id)
                            \/ ExitSwept(id) \/ ExitAlone(id, "safety_cap")
    <3>1. PICK id \in Ids, r \in Reasons :
              ExitAlone(id, r) \/ ExitAtProfit(id) \/ ExitSwept(id)
        BY <2>2 DEF Reasons
    <3>2. /\ BookTypeOK' /\ InState("open")' = InState("open") \ {id}
          /\ InState("pending")' = InState("pending")
        BY <3>1, ExitEffect DEF SInv, StrategyTypeOK
    <3> QED
        BY <3>2 DEF Live
  <2> QED
    BY <2>1, <2>2 DEF Exit
<1>3. StrategyTypeOK'
    BY <1>1, <1>2 DEF SInv, StrategyTypeOK, controller
<1>4. AverageBetween' /\ PauseFollowsLabels'
    BY <1>1, ControllerKept
<1>5. BarInStream' /\ OpeningAlone' /\ OverdueClosing' /\ HoldAgeBounded'
    BY <1>1 DEF SInv, BarInStream, OpeningAlone, OverdueClosing, HoldAgeBounded
<1>6. SingleShot'
    BY <1>2 DEF SInv, SingleShot
<1> QED
    BY <1>3, <1>4, <1>5, <1>6 DEF SInv

LEMMA AdvancedKeeps ==
    ASSUME SInv, Advanced
    PROVE  SInv'
<1>1. /\ pc = "advance" /\ pc' = "decide" /\ InState("pending") = {}
      /\ \A id \in InState("open") : Age(id) <= MaxHoldBars
      /\ UNCHANGED <<bookVars, kind, barNo, openedAt, controller, lastEntered,
                     pendingLabel, transformed, closing, opening, acted>>
    BY DEF Advanced, actions, strategy
<1>2. /\ BookTypeOK' /\ InState("open")' = InState("open")
      /\ InState("pending")' = InState("pending")
    BY <1>1 DEF SInv, StrategyTypeOK, BookTypeOK, bookVars, InState
<1>3. StrategyTypeOK'
    BY <1>1, <1>2 DEF SInv, StrategyTypeOK, controller
<1>4. AverageBetween' /\ PauseFollowsLabels'
    BY <1>1, ControllerKept
<1>5. BarInStream' /\ HoldAgeBounded'
    BY <1>1 DEF SInv, BarInStream, HoldAgeBounded
<1>6. OpeningAlone'
    BY <1>1, <1>2 DEF OpeningAlone
<1>7. OverdueClosing'
    BY <1>1, <1>2 DEF OverdueClosing, Age
<1>8. SingleShot'
    BY <1>2 DEF SInv, SingleShot, Live
<1> QED
    BY <1>3, <1>4, <1>5, <1>6, <1>7, <1>8 DEF SInv

LEMMA SkipBarKeeps ==
    ASSUME SInv, SkipBar
    PROVE  SInv'
<1>1. /\ pc = "decide" /\ pc' = "learn" /\ barNo' = barNo + 1
      /\ transformed' = FALSE /\ acted' = FALSE
      /\ UNCHANGED <<bookVars, kind, openedAt, controller, lastEntered,
                     pendingLabel, closing, opening>>
    BY DEF SkipBar, actions, strategy
<1>2. /\ BookTypeOK' /\ InState("open")' = InState("open")
      /\ InState("pending")' = InState("pending")
    BY <1>1 DEF SInv, StrategyTypeOK, BookTypeOK, bookVars, InState
<1>3. barNo \in 1..MaxBars
    BY <1>1, StrategyAssumption DEF SInv, StrategyTypeOK, BarInStream
<1>4. barNo' \in 1..(MaxBars + 1)
    BY <1>1, <1>3, StrategyAssumption
<1>5. StrategyTypeOK'
    BY <1>1, <1>2, <1>4 DEF SInv, StrategyTypeOK, controller
<1>6. AverageBetween' /\ PauseFollowsLabels'
    BY <1>1, ControllerKept
<1>7. BarInStream' /\ OpeningAlone' /\ OverdueClosing'
    BY <1>1 DEF BarInStream, OpeningAlone, OverdueClosing
<1>8. HoldAgeBounded'
  <2>1. \A id \in InState("open") : barNo - openedAt[id] <= MaxHoldBars
    BY <1>1 DEF SInv, OverdueClosing, Age
  <2>2. barNo' - 1 = barNo
    BY <1>1, <1>3
  <2> QED
    BY <1>1, <1>2, <2>1, <2>2 DEF HoldAgeBounded
<1>9. SingleShot'
    BY <1>2 DEF SInv, SingleShot, Live
<1> QED
    BY <1>5, <1>6, <1>7, <1>8, <1>9 DEF SInv

(* What observe makes of the averages, the pause and tau. *)
LEMMA ObserveKeeps ==
    ASSUME SInv, NEW p, NEW uncertain, DecideComposite(p, uncertain)
    PROVE  /\ rHat' \in 0..One /\ rStar' \in 0..One
           /\ low' \in 0..One /\ high' \in 0..One
           /\ tau' = tau \/ tau' = Clip(tau + Dtau, TauFloor, TauCeil)
           /\ Dtau \in -DtauMax..DtauMax
           /\ ctlPaused' \in BOOLEAN
           /\ AverageBetween' /\ PauseFollowsLabels'
<1>1. /\ rHat' = Ewma(rHat, lastEntered) /\ rStar' = WithLabel(rStar)
      /\ low' = WithLabel(low) /\ high' = WithLabel(high)
      /\ ctlPaused' = NewPaused /\ tau' = NewTau
    BY DEF DecideComposite, NewRHat, NewRStar
<1>2. /\ rHat \in 0..One /\ rStar \in 0..One /\ low \in 0..One /\ high \in 0..One
      /\ low <= rStar /\ rStar <= high /\ lastEntered \in BOOLEAN
    BY DEF SInv, StrategyTypeOK, AverageBetween
<1>3. rHat' \in 0..One
    BY <1>1, <1>2, EwmaIsRate
<1>4. \A r \in 0..One : WithLabel(r) \in 0..One
    BY EwmaIsRate DEF WithLabel
<1>5. \A r, s \in 0..One : r <= s => WithLabel(r) <= WithLabel(s)
    BY EwmaKeepsOrder DEF WithLabel
<1>6. /\ rStar' \in 0..One /\ low' \in 0..One /\ high' \in 0..One
    BY <1>1, <1>2, <1>4
<1>7. low' <= rStar' /\ rStar' <= high'
    BY <1>1, <1>2, <1>5
<1>8. Dtau \in -DtauMax..DtauMax
  <2>1. NewRHat \in Int /\ NewRStar \in Int
    BY <1>1, <1>3, <1>6 DEF NewRHat, NewRStar
  <2>2. NewRHat - NewRStar \in Int /\ GammaInv \in Nat \ {0} /\ DtauMax \in Nat
    BY <2>1, StrategyAssumption
  <2>3. (NewRHat - NewRStar) \div GammaInv \in Int
    BY <2>2, DivisionBounds
  <2> DEFINE step == (NewRHat - NewRStar) \div GammaInv
             least == -DtauMax
  <2>4. least \in Int /\ DtauMax \in Int /\ least <= DtauMax /\ step \in Int
    BY <2>2, <2>3
  <2>5. Dtau = Clip(step, least, DtauMax)
    BY DEF Dtau
  <2>6. Dtau \in least..DtauMax
    <3> HIDE DEF step, least
    <3> QED
        BY <2>4, <2>5, ClipInRange
  <2> QED
    BY <2>6
<1>9. tau' = tau \/ tau' = Clip(tau + Dtau, TauFloor, TauCeil)
    BY <1>1 DEF NewTau
<1>10. ctlPaused' \in BOOLEAN
  <2>1. ctlPaused \in BOOLEAN
    BY DEF SInv, StrategyTypeOK
  <2>2. CASE pendingLabel = None
    BY <1>1, <2>1, <2>2 DEF NewPaused
  <2>3. CASE pendingLabel # None /\ ctlPaused
    BY <1>1, <2>3 DEF NewPaused
  <2>4. CASE pendingLabel # None /\ ~ctlPaused
    BY <1>1, <2>4 DEF NewPaused
  <2> QED
    BY <2>1, <2>2, <2>3, <2>4
<1>11. PauseFollowsLabels'
  <2>1. RMin \in Nat /\ RResume \in Nat /\ RMin < RResume
    BY StrategyAssumption
  <2>2. CASE pendingLabel = None
    BY <1>1, <2>2 DEF WithLabel, NewPaused, SInv, PauseFollowsLabels
  <2>3. CASE pendingLabel # None
    <3>1. ctlPaused' = IF ctlPaused THEN rStar' <= RResume ELSE rStar' < RMin
        BY <1>1, <2>3 DEF NewPaused, NewRStar
    <3>2. /\ low' > RResume => ~(rStar' <= RResume) /\ ~(rStar' < RMin)
          /\ high' < RMin => rStar' <= RResume /\ rStar' < RMin
        BY <1>6, <1>7, <2>1
    <3>3. (low' > RResume => ~ctlPaused') /\ (high' < RMin => ctlPaused')
        <4>1. CASE ctlPaused
            BY <3>1, <3>2, <4>1
        <4>2. CASE ~ctlPaused
            BY <3>1, <3>2, <4>2
        <4> QED
            BY <4>1, <4>2
    <3> QED
        BY <3>3 DEF PauseFollowsLabels
  <2> QED
    BY <2>2, <2>3
<1> QED
    BY <1>3, <1>6, <1>7, <1>8, <1>9, <1>10, <1>11 DEF AverageBetween

(* tau stays a probability of the grid when it is clipped. *)
LEMMA TauStep ==
    ASSUME tau \in Nat, Dtau \in -DtauMax..DtauMax,
           tau' = Clip(tau + Dtau, TauFloor, TauCeil)
    PROVE  /\ tau' \in TauFloor..TauCeil /\ tau' \in Nat
           /\ tau \in TauFloor..TauCeil => tau' - tau \in -DtauMax..DtauMax
<1>1. /\ DtauMax \in Nat /\ TauFloor \in Nat /\ TauCeil \in Nat
      /\ TauFloor <= TauCeil
    BY StrategyAssumption
<1> DEFINE moved == tau + Dtau
<1>2. moved \in Int /\ tau' = Clip(moved, TauFloor, TauCeil)
    BY <1>1
<1>3. /\ tau' \in TauFloor..TauCeil
      /\ tau' = IF moved < TauFloor THEN TauFloor
                ELSE IF moved > TauCeil THEN TauCeil ELSE moved
  <2> HIDE DEF moved
  <2>1. /\ Clip(moved, TauFloor, TauCeil) \in TauFloor..TauCeil
        /\ Clip(moved, TauFloor, TauCeil)
              = IF moved < TauFloor THEN TauFloor
                ELSE IF moved > TauCeil THEN TauCeil ELSE moved
    <3>1. TauFloor \in Int /\ TauCeil \in Int /\ moved \in Int
        BY <1>1, <1>2
    <3> QED
        BY <1>1, <3>1, ClipInRange
  <2> QED
    BY <1>2, <2>1
<1> QED
    BY <1>1, <1>3

LEMMA DecideKeeps ==
    ASSUME SInv, Decide
    PROVE  SInv'
<1>1. /\ pc = "decide" /\ pc' = "dispatch" /\ transformed' = TRUE
      /\ UNCHANGED <<bookVars, kind, barNo, openedAt, acted>>
    BY DEF Decide
<1>2. PICK p \in Probabilities \cup {None}, flag \in BOOLEAN :
          DecideGate(p, flag) \/ DecideComposite(p, flag)
    BY DEF Decide
<1>3. /\ BookTypeOK' /\ InState("open")' = InState("open")
      /\ InState("pending")' = InState("pending") /\ Live' = Live
    BY <1>1 DEF SInv, StrategyTypeOK, BookTypeOK, bookVars, InState, Live
<1>4. InState("pending") = {}
    BY <1>1 DEF SInv, OpeningAlone
<1>5. SingleShot' /\ BarInStream' /\ HoldAgeBounded'
    BY <1>1, <1>3 DEF SInv, SingleShot, BarInStream, HoldAgeBounded
<1>6. \A id \in InState("open")' : Age(id)' <= MaxHoldBars
    BY <1>1, <1>3 DEF SInv, OverdueClosing, Age
<1>7. CASE DecideGate(p, flag)
  <2>1. /\ kind # "composite_adaptive" /\ closing' = {}
        /\ opening' = (GateWants(p) /\ flag)
        /\ UNCHANGED <<controller, lastEntered, pendingLabel>>
    BY <1>7 DEF DecideGate, strategy
  <2>2. AverageBetween' /\ PauseFollowsLabels'
    BY <2>1, ControllerKept
  <2>3. opening' \in BOOLEAN
    BY <2>1
  <2>4. StrategyTypeOK'
    BY <1>1, <1>3, <2>1, <2>3 DEF SInv, StrategyTypeOK, controller
  <2>5. OpeningAlone'
    BY <1>1, <1>3, <1>4, <2>1 DEF OpeningAlone, GateWants, NothingOpen, Live
  <2>6. OverdueClosing'
    BY <1>1, <1>6, <2>1 DEF OverdueClosing
  <2> QED
    BY <1>5, <2>2, <2>4, <2>5, <2>6 DEF SInv
<1>8. CASE DecideComposite(p, flag)
  <2>1. /\ rHat' \in 0..One /\ rStar' \in 0..One
        /\ low' \in 0..One /\ high' \in 0..One
        /\ tau' = tau \/ tau' = Clip(tau + Dtau, TauFloor, TauCeil)
        /\ Dtau \in -DtauMax..DtauMax /\ ctlPaused' \in BOOLEAN
        /\ AverageBetween' /\ PauseFollowsLabels'
    BY <1>8, ObserveKeeps
  <2>2. tau' \in Nat
    BY <2>1, TauStep DEF SInv, StrategyTypeOK
  <2>3. /\ pendingLabel' = None /\ closing' = Overdue
        /\ lastEntered' = (NothingOpen /\ p # None /\ ShouldEnter(p, flag))
        /\ opening' = (NothingOpen /\ p # None /\ ShouldEnter(p, flag))
        /\ ctlPaused' = NewPaused
    BY <1>8 DEF DecideComposite
  <2>4. lastEntered' \in BOOLEAN /\ opening' \in BOOLEAN
    BY <2>3
  <2>5. closing' \subseteq Ids
    BY <2>3 DEF Overdue, InState
  <2>6. StrategyTypeOK'
    BY <1>1, <1>3, <2>1, <2>2, <2>3, <2>4, <2>5 DEF SInv, StrategyTypeOK
  <2>7. OpeningAlone'
    BY <1>1, <1>3, <1>4, <2>3 DEF OpeningAlone, NothingOpen, Live, ShouldEnter, Blocked
  <2>8. OverdueClosing'
    BY <1>1, <1>3, <1>6, <2>3 DEF OverdueClosing, Overdue, Age
  <2> QED
    BY <1>5, <2>1, <2>6, <2>7, <2>8 DEF SInv
<1> QED
    BY <1>2, <1>7, <1>8

LEMMA CloseKeeps ==
    ASSUME SInv, Close
    PROVE  SInv'
<1>1. /\ pc = "dispatch" /\ pc' = pc
      /\ UNCHANGED <<kind, barNo, openedAt, controller, lastEntered,
                     pendingLabel, transformed, opening, acted>>
    BY DEF Close, Dispatching, strategy
<1>2. PICK id \in closing : ExitAlone(id, "manual") /\ closing' = closing \ {id}
    BY DEF Close
<1>3. id \in Ids /\ closing' \subseteq Ids
    BY <1>2 DEF SInv, StrategyTypeOK
<1>4. /\ BookTypeOK' /\ InState("open")' = InState("open") \ {id}
      /\ InState("pending")' = InState("pending")
    BY <1>2, <1>3, ExitEffect DEF SInv, StrategyTypeOK, Reasons
<1>5. StrategyTypeOK'
    BY <1>1, <1>3, <1>4 DEF SInv, StrategyTypeOK, controller
<1>6. AverageBetween' /\ PauseFollowsLabels'
    BY <1>1, ControllerKept
<1>7. BarInStream' /\ HoldAgeBounded'
    BY <1>1 DEF SInv, BarInStream, HoldAgeBounded
<1>8. Live' \subseteq Live
    BY <1>4 DEF Live
<1>9. OpeningAlone'
    BY <1>1, <1>8 DEF SInv, OpeningAlone, controller
<1>10. SingleShot'
    BY <1>8 DEF SInv, SingleShot
<1>11. OverdueClosing'
    BY <1>1, <1>2, <1>4 DEF SInv, OverdueClosing, Overdue, Age
<1> QED
    BY <1>5, <1>6, <1>7, <1>9, <1>10, <1>11 DEF SInv

LEMMA OpenKeeps ==
    ASSUME SInv, Open
    PROVE  SInv'
<1>1. /\ pc = "dispatch" /\ pc' = pc /\ closing = {} /\ closing' = {}
      /\ opening = TRUE /\ opening' = FALSE
      /\ UNCHANGED <<kind, barNo, openedAt, controller, lastEntered,
                     pendingLabel, transformed, acted>>
  <2>1. opening \in BOOLEAN
    BY DEF SInv, StrategyTypeOK
  <2> QED
    BY <2>1 DEF Open, Dispatching, strategy
<1>2. Live = {}
    BY <1>1 DEF SInv, OpeningAlone
<1>3. /\ BookTypeOK' /\ InState("open")' = InState("open")
      /\ SingleShot'
  <2>1. CASE UNCHANGED bookVars
    BY <2>1 DEF SInv, StrategyTypeOK, BookTypeOK, bookVars, InState, Live, SingleShot
  <2>2. CASE \E id \in Ids : Submit(id)
    <3>1. PICK id \in Ids : Submit(id)
        BY <2>2
    <3>2. /\ BookTypeOK' /\ InState("open")' = InState("open")
          /\ InState("pending")' = InState("pending") \cup {id}
        BY <3>1, SubmitEffect DEF SInv, StrategyTypeOK
    <3>3. Live' = {id}
        BY <1>2, <3>2 DEF Live
    <3> QED
        BY <3>2, <3>3 DEF SingleShot
  <2> QED
    BY <2>1, <2>2 DEF Open
<1>4. StrategyTypeOK'
    BY <1>1, <1>3 DEF SInv, StrategyTypeOK, controller
<1>5. AverageBetween' /\ PauseFollowsLabels'
    BY <1>1, ControllerKept
<1>6. BarInStream' /\ HoldAgeBounded' /\ OpeningAlone'
    BY <1>1 DEF SInv, BarInStream, HoldAgeBounded, OpeningAlone
<1>7. OverdueClosing'
    BY <1>1, <1>3 DEF SInv, OverdueClosing, Overdue, Age
<1> QED
    BY <1>3, <1>4, <1>5, <1>6, <1>7 DEF SInv

LEMMA EndBarKeeps ==
    ASSUME SInv, EndBar
    PROVE  SInv'
<1>1. /\ pc = "dispatch" /\ pc' = "learn" /\ barNo' = barNo + 1
      /\ closing' = {} /\ opening' = FALSE /\ acted' = ~InWarmup
      /\ InWarmup \/ closing = {}
      /\ UNCHANGED <<bookVars, kind, openedAt, controller, lastEntered,
                     pendingLabel, transformed>>
    BY DEF EndBar, strategy
<1>2. /\ BookTypeOK' /\ InState("open")' = InState("open") /\ Live' = Live
    BY <1>1 DEF SInv, StrategyTypeOK, BookTypeOK, bookVars, InState, Live
<1>3. barNo \in 1..MaxBars
    BY <1>1, StrategyAssumption DEF SInv, StrategyTypeOK, BarInStream
<1>4. barNo' \in 1..(MaxBars + 1) /\ barNo' - 1 = barNo
    BY <1>1, <1>3, StrategyAssumption
<1>5. acted' \in BOOLEAN
    BY <1>1 DEF InWarmup
<1>6. StrategyTypeOK'
    BY <1>1, <1>2, <1>4, <1>5 DEF SInv, StrategyTypeOK, controller
<1>7. AverageBetween' /\ PauseFollowsLabels'
    BY <1>1, ControllerKept
<1>8. BarInStream' /\ OpeningAlone' /\ OverdueClosing'
    BY <1>1 DEF BarInStream, OpeningAlone, OverdueClosing
<1>9. HoldAgeBounded'
  <2>1. \A id \in InState("open") : barNo - openedAt[id] <= MaxHoldBars
    BY <1>1 DEF SInv, OverdueClosing, Age
  <2>2. ASSUME kind = "composite_adaptive", acted', NEW id \in InState("open")
        PROVE  barNo - openedAt[id] < TMax
    <3>1. id \notin Overdue
        BY <1>1, <2>2 DEF SInv, OverdueClosing
    <3>2. ~(barNo - openedAt[id] >= TMax)
        BY <3>1 DEF Overdue, Age
    <3>3. openedAt[id] \in Int
        BY DEF SInv, StrategyTypeOK, InState
    <3>4. TMax \in Int
        BY StrategyAssumption
    <3> QED
        BY <1>3, <3>2, <3>3, <3>4
  <2> QED
    BY <1>1, <1>2, <1>4, <2>1, <2>2 DEF HoldAgeBounded
<1>10. SingleShot'
    BY <1>2 DEF SInv, SingleShot
<1> QED
    BY <1>6, <1>7, <1>8, <1>9, <1>10 DEF SInv

LEMMA StepKeeps == SInv /\ [Next]_vars => SInv'
<1> SUFFICES ASSUME SInv, [Next]_vars
             PROVE  SInv'
    OBVIOUS
<1>1. CASE Learn \/ Flatten \/ FillNext \/ Exit \/ Advanced
    BY <1>1, LearnKeeps, FlattenKeeps, FillNextKeeps, ExitKeeps, AdvancedKeeps
<1>2. CASE SkipBar \/ Decide \/ Close \/ Open \/ EndBar
    BY <1>2, SkipBarKeeps, DecideKeeps, CloseKeeps, OpenKeeps, EndBarKeeps
<1>3. CASE UNCHANGED vars
  <2>1. UNCHANGED <<bookVars, kind, pc, barNo, openedAt, controller, lastEntered,
                    pendingLabel, transformed, closing, opening, acted>>
    BY <1>3 DEF vars, strategy, actions
  <2>2. /\ BookTypeOK' /\ InState("open")' = InState("open")
        /\ InState("pending")' = InState("pending") /\ Live' = Live
    BY <2>1 DEF SInv, StrategyTypeOK, BookTypeOK, bookVars, InState, Live
  <2>3. StrategyTypeOK'
    BY <2>1, <2>2 DEF SInv, StrategyTypeOK, controller
  <2>4. AverageBetween' /\ PauseFollowsLabels'
    BY <2>1, ControllerKept
  <2>5. BarInStream' /\ SingleShot'
    BY <2>1, <2>2 DEF SInv, BarInStream, SingleShot
  <2>6. OpeningAlone'
    BY <2>1, <2>2 DEF SInv, OpeningAlone, controller
  <2>7. OverdueClosing'
    BY <2>1, <2>2 DEF SInv, OverdueClosing, Overdue, Age
  <2>8. HoldAgeBounded'
    BY <2>1, <2>2 DEF SInv, HoldAgeBounded
  <2> QED
    BY <2>3, <2>4, <2>5, <2>6, <2>7, <2>8 DEF SInv
<1> QED
    BY <1>1, <1>2, <1>3 DEF Next

LEMMA Invariance == Spec => []SInv
<1>1. SInv /\ [Next]_vars => SInv'
    BY StepKeeps
<1> QED
    BY <1>1, SInvInit, PTL DEF Spec

-----------------------------------------------------------------------------
(* The strategy and its controller keep their shape; the rates stay rates. *)
THEOREM StrategyTypeCorrect == Spec => []StrategyTypeOK
<1>1. SInv => StrategyTypeOK
    BY DEF SInv
<1> QED
    BY <1>1, Invariance, PTL

(* Whether entries are paused is decided by the labels once they outweigh  *)
(* the start, for every lambda_decay, every pair of thresholds and however *)
(* the labels, entries and skipped bars are mixed.                         *)
THEOREM PauseForgets == Spec => []PauseFollowsLabels
<1>1. SInv => PauseFollowsLabels
    BY DEF SInv
<1> QED
    BY <1>1, Invariance, PTL

(* No shipped strategy ever has two orders pending or open at a time, for  *)
(* every inventory cap.                                                    *)
THEOREM OneOrderAtATime == Spec => []SingleShot
<1>1. SInv => SingleShot
    BY DEF SInv
<1> QED
    BY <1>1, Invariance, PTL

(* After each bar no position is older than the broker's cap, and none is  *)
(* as old as t_max if that bar's decisions were dispatched.                *)
THEOREM HoldAgeHolds == Spec => []HoldAgeBounded
<1>1. SInv => HoldAgeBounded
    BY DEF SInv
<1> QED
    BY <1>1, Invariance, PTL

(* Steps that leave the controller alone. *)
LEMMA OnlyDecideMovesTau ==
    ASSUME SInv, [Next]_vars, ~Decide
    PROVE  tau' = tau
<1>1. CASE Learn \/ Flatten \/ FillNext \/ Exit \/ Advanced
    BY <1>1 DEF Learn, Flatten, FillNext, Exit, Advanced, strategy, controller
<1>2. CASE SkipBar \/ Close \/ Open \/ EndBar
    BY <1>2 DEF SkipBar, Close, Open, EndBar, strategy, controller
<1>3. CASE UNCHANGED vars
    BY <1>3 DEF vars, strategy, controller
<1> QED
    BY <1>1, <1>2, <1>3 DEF Next

(* tau never leaves its range nor moves by more than dtau_max, wherever it *)
(* was seeded and whatever the rates.                                      *)
THEOREM TauBounded == Spec => TauMovesInRange
<1>1. ASSUME SInv, [Next]_vars
      PROVE  tau' # tau =>
                /\ tau' \in TauFloor..TauCeil
                /\ tau \in TauFloor..TauCeil => tau' - tau \in -DtauMax..DtauMax
  <2>1. CASE ~Decide
    BY <1>1, <2>1, OnlyDecideMovesTau
  <2>2. CASE Decide
    <3>1. PICK p \in Probabilities \cup {None}, flag \in BOOLEAN :
              DecideGate(p, flag) \/ DecideComposite(p, flag)
        BY <2>2 DEF Decide
    <3>2. CASE DecideGate(p, flag)
        BY <3>2 DEF DecideGate, strategy, controller
    <3>3. CASE DecideComposite(p, flag)
        <4>1. /\ tau' = tau \/ tau' = Clip(tau + Dtau, TauFloor, TauCeil)
              /\ Dtau \in -DtauMax..DtauMax
            BY <1>1, <3>3, ObserveKeeps
        <4>2. tau \in Nat
            BY <1>1 DEF SInv, StrategyTypeOK
        <4> QED
            BY <4>1, <4>2, TauStep
    <3> QED
        BY <3>1, <3>2, <3>3
  <2> QED
    BY <2>1, <2>2
<1>2. SInv /\ [Next]_vars =>
          [tau' # tau =>
              /\ tau' \in TauFloor..TauCeil
              /\ tau \in TauFloor..TauCeil
                    => tau' - tau \in -DtauMax..DtauMax]_vars
    BY <1>1
<1> QED
    BY <1>2, Invariance, PTL DEF Spec, TauMovesInRange

(* A paused controller's strategy places no order.                         *)
THEOREM PausedOrdersNothing == Spec => SilentWhilePaused
<1>1. ASSUME SInv, [Next]_vars, kind = "composite_adaptive", ctlPaused
      PROVE  InState("pending")' \subseteq InState("pending")
  <2>0. BookTypeOK
    BY <1>1 DEF SInv, StrategyTypeOK
  <2>1. CASE Learn \/ Advanced \/ SkipBar \/ Decide \/ EndBar \/ UNCHANGED vars
    <3>1. state' = state
        BY <2>1 DEF Learn, Advanced, SkipBar, Decide, EndBar, vars, bookVars
    <3> QED
        BY <3>1 DEF InState
  <2>2. CASE Flatten
    BY <2>0, <2>2, ExitEffect DEF Flatten, Reasons
  <2>3. CASE Close
    <3>1. closing \subseteq Ids
        BY <1>1 DEF SInv, StrategyTypeOK
    <3> QED
        BY <2>0, <2>3, <3>1, ExitEffect DEF Close, Reasons
  <2>4. CASE FillNext
    <3>1. PICK id \in Ids : Fill(id)
        BY <2>4 DEF FillNext
    <3> QED
        BY <2>0, <3>1, FillEffect
  <2>5. CASE Exit
    <3>1. CASE EndSweep
        BY <3>1 DEF EndSweep, InState
    <3>2. CASE ~EndSweep
        <4>1. PICK id \in Ids : \/ ExitAlone(id, "sl") \/ ExitAtProfit(id)
                                \/ ExitSwept(id) \/ ExitAlone(id, "safety_cap")
            BY <2>5, <3>2 DEF Exit
        <4> QED
            BY <2>0, <4>1, ExitEffect DEF Reasons
    <3> QED
        BY <3>1, <3>2
  <2>6. CASE Open
    <3>1. pc = "dispatch" /\ opening
        BY <2>6 DEF Open, Dispatching
    <3> QED
        BY <1>1, <3>1 DEF SInv, OpeningAlone
  <2> QED
    BY <1>1, <2>1, <2>2, <2>3, <2>4, <2>5, <2>6 DEF Next
<1>2. SInv /\ [Next]_vars =>
          [kind = "composite_adaptive" /\ ctlPaused
              => InState("pending")' \subseteq InState("pending")]_vars
    BY <1>1
<1> QED
    BY <1>2, Invariance, PTL DEF Spec, SilentWhilePaused
=============================================================================
