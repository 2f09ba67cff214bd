-------------------------- MODULE AdaptiveStrategy --------------------------
(***************************************************************************)
(* The shipped strategies (wagie/strategy/__init__.py) and the controller  *)
(* of CompositeAdaptiveStrategy (wagie/strategy/adaptive_threshold.py), in *)
(* the loop that drives them: a label arrives, the broker moves, decide()  *)
(* is called or the bar is skipped, and what was decided is dispatched or  *)
(* turned down.  The broker is InventoryBook with the bar each position    *)
(* was opened in.                                                          *)
(*                                                                         *)
(* Probabilities and rates are integers, One for 1.0.  lambda_decay is     *)
(* 1/LambdaInv and gamma 1/GammaInv; with One a multiple of enough powers  *)
(* of LambdaInv for the bars of a run the averages are exact.              *)
(***************************************************************************)
EXTENDS InventoryBook, FiniteSetsExt

CONSTANTS
    Kinds,          \* strategies to look at
    One,            \* 1.0
    Seeds,          \* initial tau, from the calibration or the configuration
    RStarInit,      \* r_star_init
    TauFloor, TauCeil,
    GammaInv, LambdaInv, DtauMax,
    RMin, RResume,
    TMax,           \* t_max
    MaxHoldBars,    \* the broker's safety cap
    Probabilities,  \* what p_online may be
    Warmup,         \* warmup_samples
    MaxBars         \* bound: bars in the stream

ASSUME StrategyAssumption ==
    /\ Kinds \subseteq {"threshold_gate", "ev_calibrated_size",
                        "composite_adaptive"}
    /\ Cap \in Nat /\ Ids = 1..Cardinality(Ids)
    /\ One \in Nat \ {0} /\ Seeds \subseteq Nat /\ RStarInit \in 0..One
    /\ TauFloor \in Nat /\ TauCeil \in TauFloor..One
    /\ {GammaInv, LambdaInv} \subseteq Nat \ {0}
    /\ {DtauMax, RMin, RResume} \subseteq Nat
    /\ RMin < RResume /\ RMin <= One
    /\ TMax \in Nat \ {0} /\ {MaxHoldBars, Warmup, MaxBars} \subseteq Nat
    /\ Probabilities \subseteq 0..One /\ None \notin Int

VARIABLES
    kind,           \* which strategy runs
    pc,             \* what the engine's thread does next
    barNo,          \* bars so far
    openedAt,       \* position -> the bar of its open_ts
    tau, rHat, rStar, ctlPaused,  \* the controller's
    lastEntered,    \* _last_entered
    pendingLabel,   \* _pending_label
    transformed,    \* the bar before went through the pipeline
    closing,        \* what decide() returned and is not dispatched yet:
    opening,        \* positions to close, then an open
    acted,          \* the last bar's actions were dispatched
    low, high       \* what r_star_ewma would be, had it started at 0 or at 1

controller == <<tau, rHat, rStar, ctlPaused, low, high>>
actions == <<closing, opening>>
strategy == <<controller, lastEntered, pendingLabel>>
vars == <<bookVars, kind, pc, barNo, openedAt, strategy, transformed,
          actions, acted>>

-----------------------------------------------------------------------------
(* AdaptiveThresholdController                                             *)

Clip(x, least, most) == Max({least, Min({most, x})})

Ewma(r, occurred) == r + ((IF occurred THEN One ELSE 0) - r) \div LambdaInv

(* observe, with the entry of the bar before and the label that matured    *)
NewRHat == Ewma(rHat, lastEntered)
WithLabel(r) == IF pendingLabel = None THEN r ELSE Ewma(r, pendingLabel = 1)
NewRStar == WithLabel(rStar)

Bug_ResumeBelow ==
    IF pendingLabel = None THEN ctlPaused
    ELSE IF ctlPaused THEN NewRStar >= RMin ELSE NewRStar < RMin
NewPaused ==
    IF pendingLabel = None THEN ctlPaused
    ELSE IF ctlPaused THEN NewRStar <= RResume ELSE NewRStar < RMin

Bug_NoStepClip == (NewRHat - NewRStar) \div GammaInv
Dtau == Clip((NewRHat - NewRStar) \div GammaInv, -DtauMax, DtauMax)
NewTau == IF NewPaused THEN tau ELSE Clip(tau + Dtau, TauFloor, TauCeil)

Blocked == NewPaused

(* should_enter; `uncertain': sigma_ve is known and above sigma_max *)
ShouldEnter(p, uncertain) == ~Blocked /\ ~uncertain /\ p >= NewTau

-----------------------------------------------------------------------------
Init ==
    /\ BookInit
    /\ kind \in Kinds
    /\ pc = "learn" /\ barNo = 1
    /\ openedAt = [id \in Ids |-> 0]
    /\ tau \in Seeds /\ rHat = RStarInit /\ rStar = RStarInit
    /\ ctlPaused = FALSE /\ low = 0 /\ high = One
    /\ lastEntered = FALSE /\ pendingLabel = None
    /\ transformed = FALSE /\ acted = FALSE
    /\ closing = {} /\ opening = FALSE

(* Pipeline.learn_one: the bar gives the one before its label, if that one *)
(* is in the label buffer and in the same segment; only the composite      *)
(* strategy keeps it                                                       *)
Learn ==
    /\ pc = "learn" /\ barNo <= MaxBars
    /\ pc' = "advance"
    /\ pendingLabel' \in
          IF transformed /\ kind = "composite_adaptive"
          THEN {pendingLabel, 0, 1} ELSE {pendingLabel}
    /\ UNCHANGED <<bookVars, kind, barNo, openedAt, controller, lastEntered,
                   transformed, actions, acted>>

(* bars of a stream without gaps; a gap only makes a position older *)
Age(id) == barNo - openedAt[id]

(* the operator's flatten, executed before anything else of the bar *)
Flatten ==
    /\ pc = "learn" /\ barNo <= MaxBars
    /\ \E id \in Ids : ExitAlone(id, "manual")
    /\ UNCHANGED <<kind, pc, barNo, openedAt, strategy, transformed, actions,
                   acted>>

(* broker.advance_to: every order fills, as the latency is below m_minutes, *)
(* then barriers and the safety cap close                                  *)
FillNext ==
    /\ pc = "advance"
    /\ \E id \in Ids : Fill(id) /\ openedAt' = [openedAt EXCEPT ![id] = barNo]
    /\ UNCHANGED <<kind, pc, barNo, strategy, transformed, actions, acted>>

Exit ==
    /\ pc = "advance" /\ InState("pending") = {}
    /\ \/ \E id \in Ids :
             \/ ExitAlone(id, "sl") \/ ExitAtProfit(id) \/ ExitSwept(id)
             \/ Age(id) > MaxHoldBars /\ ExitAlone(id, "safety_cap")
       \/ EndSweep
    /\ UNCHANGED <<kind, pc, barNo, openedAt, strategy, transformed, actions,
                   acted>>

Advanced ==
    /\ pc = "advance" /\ InState("pending") = {} /\ ~sweeping
    /\ \A id \in InState("open") : Age(id) <= MaxHoldBars
    /\ pc' = "decide"
    /\ UNCHANGED <<bookVars, kind, barNo, openedAt, strategy, transformed,
                   actions, acted>>

(* the engine is paused, or a stage before the strategy raised *)
SkipBar ==
    /\ pc = "decide"
    /\ pc' = "learn" /\ barNo' = barNo + 1
    /\ transformed' = FALSE /\ acted' = FALSE
    /\ UNCHANGED <<bookVars, kind, openedAt, strategy, actions>>

-----------------------------------------------------------------------------
(* decide() of each strategy: what it returns, and what it remembers       *)

Bug_StackEntries == TRUE
NothingOpen == InState("open") = {}

(* ThresholdGate and EvCalibratedSize, alone or inside RegimeGatedStrategy, *)
(* which strips the open in a regime that is not allowed                   *)
GateWants(p) ==
    /\ NothingOpen /\ p # None
    /\ IF kind = "threshold_gate" THEN p >= tau ELSE p > tau

DecideGate(p, allowed) ==
    /\ kind # "composite_adaptive"
    /\ closing' = {} /\ opening' = (GateWants(p) /\ allowed)
    /\ UNCHANGED strategy

Bug_AgeExclusive == {id \in InState("open") : Age(id) > TMax}
Overdue == {id \in InState("open") : Age(id) >= TMax}

(* CompositeAdaptiveStrategy *)
DecideComposite(p, uncertain) ==
    LET enters == NothingOpen /\ p # None /\ ShouldEnter(p, uncertain) IN
    /\ kind = "composite_adaptive"
    /\ rHat' = NewRHat /\ rStar' = NewRStar
    /\ ctlPaused' = NewPaused /\ tau' = NewTau
    /\ low' = WithLabel(low) /\ high' = WithLabel(high)
    /\ pendingLabel' = None
    /\ lastEntered' = enters
    /\ closing' = Overdue /\ opening' = enters

Decide ==
    /\ pc = "decide"
    /\ \E p \in Probabilities \cup {None}, flag \in BOOLEAN :
          DecideGate(p, flag) \/ DecideComposite(p, flag)
    /\ pc' = "dispatch"
    /\ transformed' = TRUE
    /\ UNCHANGED <<bookVars, kind, barNo, openedAt, acted>>

-----------------------------------------------------------------------------
(* The engine's loop over the actions; closing passes every policy, an open *)
(* may be turned down by one, or by the broker's cap.                      *)
InWarmup == barNo <= Warmup

Dispatching == pc = "dispatch" /\ ~InWarmup

Close ==
    /\ Dispatching
    /\ \E id \in closing : ExitAlone(id, "manual") /\ closing' = closing \ {id}
    /\ UNCHANGED <<kind, pc, barNo, openedAt, strategy, transformed, opening,
                   acted>>

Open ==
    /\ Dispatching /\ closing = {}
    /\ opening /\ opening' = FALSE
    /\ UNCHANGED bookVars \/ \E id \in Ids : Submit(id)
    /\ UNCHANGED <<kind, pc, barNo, openedAt, strategy, transformed, closing,
                   acted>>

EndBar ==
    /\ pc = "dispatch"
    /\ InWarmup \/ (closing = {} /\ ~opening)
    /\ closing' = {} /\ opening' = FALSE
    /\ acted' = ~InWarmup
    /\ pc' = "learn" /\ barNo' = barNo + 1
    /\ UNCHANGED <<bookVars, kind, openedAt, strategy, transformed>>

Next ==
    \/ Learn \/ Flatten
    \/ FillNext \/ Exit \/ Advanced
    \/ SkipBar \/ Decide
    \/ Close \/ Open \/ EndBar

Spec == Init /\ [][Next]_vars

-----------------------------------------------------------------------------
StrategyTypeOK ==
    /\ BookTypeOK
    /\ kind \in Kinds
    /\ pc \in {"learn", "advance", "decide", "dispatch"}
    /\ barNo \in 1..(MaxBars + 1)
    /\ openedAt \in [Ids -> 0..MaxBars]
    /\ tau \in Nat /\ rHat \in 0..One /\ rStar \in 0..One
    /\ low \in 0..One /\ high \in 0..One
    /\ ctlPaused \in BOOLEAN
    /\ lastEntered \in BOOLEAN
    /\ pendingLabel \in {None, 0, 1}
    /\ transformed \in BOOLEAN /\ acted \in BOOLEAN
    /\ closing \subseteq Ids /\ opening \in BOOLEAN

(* tau moves by dtau_max at most and only within its two clips, unless it  *)
(* was seeded outside of them: warmup_calibration.py 283 floors tau_init   *)
(* but does not bound it above (adaptive_threshold.py 134-141).            *)
TauMovesInRange ==
    [][tau' # tau =>
          /\ tau' \in TauFloor..TauCeil
          /\ tau \in TauFloor..TauCeil => tau' - tau \in -DtauMax..DtauMax]_vars

(* The pause follows the labels and forgets everything else: once they     *)
(* alone, from any start, decide on which side of a threshold the average  *)
(* is, it is ended or begun, whatever the entries, the skipped bars and    *)
(* the bars without a label in between (adaptive_threshold.py 119-133).    *)
PauseFollowsLabels ==
    /\ low > RResume => ~ctlPaused
    /\ high < RMin => ctlPaused

(* A bar that pauses the controller already orders nothing, nor does any   *)
(* until it resumes: observe comes before should_enter (strategy 256-313). *)
SilentWhilePaused ==
    [][kind = "composite_adaptive" /\ ctlPaused
          => InState("pending")' \subseteq InState("pending")]_vars

(* One order at a time for every shipped strategy: n_open_orders counts no *)
(* pending order, but each fills before the next decision (144, 166, 301). *)
SingleShot == \A i, j \in Live : i = j

(* A position reaches t_max bars only while bars are skipped, and passes   *)
(* the broker's cap in no case (strategy 291-299, brokers.py 505-519).     *)
HoldAgeBounded ==
    kind = "composite_adaptive" /\ pc = "learn" =>
        \A id \in InState("open") :
            /\ barNo - 1 - openedAt[id] <= MaxHoldBars
            /\ acted => barNo - 1 - openedAt[id] < TMax

=============================================================================
