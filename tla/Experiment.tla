----------------------------- MODULE Experiment -----------------------------
(***************************************************************************)
(* The adaptive experiment in two passes: a strategy's parameters are      *)
(* calibrated on the start of a window, and the window is then replayed    *)
(* from its first bar, with no decision before the calibrated part is over.*)
(* Two drivers do it: wagie/experiments/run_adaptive_experiment.py, which  *)
(* replays the start of the window to calibrate, and                       *)
(* scripts/run_experiment_offline.py, which reads it from the labelled     *)
(* bars.  calibrate_from_warmup (warmup_calibration.py) is modelled with   *)
(* its loop, one observation a step, and may also be called by itself.     *)
(***************************************************************************)
EXTENDS Integers, FiniteSets, SequencesExt

CONSTANTS
    M,             \* m_minutes
    LastMinute,    \* bound: the feed has minutes 0 .. LastMinute
    MaxMissing,    \* bound: the minutes that may be missing from it
    StabilityWindow,
    MinWarmupBars,
    MaxWarmupBars,
    MaxPairs,      \* bound: what a call by itself is given
    MinRows        \* the bars without which the offline driver gives up

ASSUME ExperimentAssumption ==
    /\ {LastMinute, MaxMissing} \subseteq Nat /\ M \in 1 .. LastMinute
    /\ {StabilityWindow, MinWarmupBars, MaxWarmupBars, MaxPairs, MinRows} \subseteq Nat \ {0}

VARIABLES
    driver,     \* "online", "offline", "alone"
    missing,    \* the minutes that the feed lacks
    win,        \* the window file: [start, warmupEnd, end]
    phase,      \* "pre", "calibrate", "main", "done", "failed"
    seen,       \* the bars this pass has processed: n_seen
    pairs,      \* what calibration is given: the last minute each depends on
    errors,     \* the squared errors of the pairs it has taken
    nextCheck,
    trace,      \* arf_stability_trace
    converged,
    sigmaMax,   \* "none" before, then "inf" or "finite"
    decided     \* the first bar of the main pass that was decided

vars == <<driver, missing, win, phase, seen, pairs, errors, nextCheck, trace,
          converged, sigmaMax, decided>>
feed == <<driver, missing, win>>
loop == <<errors, nextCheck, trace, converged>>

-----------------------------------------------------------------------------
(* The bars.  A bar is the sequence of its minutes.                        *)

(* A row reaches ParquetReplaySource.stream: M rows without a gap make a   *)
(* bar                                                                     *)
Fed(acc, t) ==
    LET kept == IF acc.buf # <<>> /\ t - Last(acc.buf) > 1 THEN <<>> ELSE acc.buf
        buf == Append(kept, t)
    IN  IF Len(buf) = M THEN [buf |-> <<>>, bars |-> Append(acc.bars, buf)]
        ELSE [buf |-> buf, bars |-> acc.bars]

(* minute -> what the source has made of the rows up to it *)
Replay(first) ==
    LET after[t \in first - 1 .. LastMinute] ==
            IF t < first THEN [buf |-> <<>>, bars |-> <<>>]
            ELSE IF t \in missing THEN after[t - 1] ELSE Fed(after[t - 1], t)
    IN  after

(* its filter is inclusive at both ends *)
Stream(first, last) == Replay(first)[last].bars

(* _aggregate_to_decision_bars: the rows of each M minutes of the clock,   *)
(* here as sets                                                            *)
ClockBar(k) == {t \in 0 .. LastMinute : t \div M = k} \ missing
DecisionBars == {ClockBar(k) : k \in 0 .. LastMinute \div M} \ {{}}

(* A gap of the cleansed feed starts a segment; a bar is in that of its    *)
(* first row                                                               *)
Segment(first) == Cardinality({t \in missing : t < first /\ t + 1 \notin missing})

(* <<bar, next bar>>: the label of the one is given by the other *)
Labelled ==
    {l \in DecisionBars \X DecisionBars :
        /\ Max(l[1]) < Min(l[2])
        /\ ~\E bar \in DecisionBars : Max(l[1]) < Min(bar) /\ Max(bar) < Min(l[2])
        /\ Segment(Min(l[1])) = Segment(Min(l[2]))}

-----------------------------------------------------------------------------
(* int(round(a / b)), half to even *)
RoundDiv(a, b) ==
    LET q == a \div b
        r == 2 * (a % b)
    IN  IF r > b \/ (r = b /\ q % 2 = 1) THEN q + 1 ELSE q

(* As many bars as gave calibration an observation *)
BugWarmupSamples ==
    LET n == IF driver = "offline" THEN Len(pairs) ELSE Len(errors) IN IF n < 1 THEN 1 ELSE n

WarmupSamples ==
    LET n == RoundDiv(win.warmupEnd - win.start, M) IN IF n < 1 THEN 1 ELSE n

-----------------------------------------------------------------------------
(* The pre-pass: the whole pipeline over the start of the window, with a   *)
(* threshold that nothing reaches                                          *)
PreBar ==
    LET bars == Stream(win.start, win.warmupEnd)
        bar == bars[seen + 1]
    IN  /\ phase = "pre"
        /\ seen < Len(bars)
        /\ seen' = seen + 1
        /\ pairs' = IF seen > 0 /\ Segment(bars[seen][1]) = Segment(bar[1])
                    THEN Append(pairs, Last(bar)) ELSE pairs
        /\ UNCHANGED <<feed, phase, loop, sigmaMax, decided>>

(* _calibrate_from_engine_result: no pair is an error; the check starts at *)
(* min(50, n)                                                              *)
PreDone ==
    /\ phase = "pre"
    /\ seen = Len(Stream(win.start, win.warmupEnd))
    /\ phase' = IF pairs = <<>> THEN "failed" ELSE "calibrate"
    /\ nextCheck' = IF Len(pairs) < MinWarmupBars THEN Len(pairs) ELSE MinWarmupBars
    /\ UNCHANGED <<feed, seen, pairs, errors, trace, converged, sigmaMax, decided>>

(* _calibrate_offline: the labelled bars that open before the warm-up ends *)
ReadOffline ==
    LET rows == {bar \in DecisionBars : win.start <= Min(bar) /\ Min(bar) < win.warmupEnd}
        labels == {l \in Labelled : l[1] \in rows}
    IN  /\ phase = "pre"
        /\ driver = "offline"
        /\ \/ /\ Cardinality(rows) >= MinRows
              /\ labels # {}
              /\ pairs' = SetToSeq({Max(l[2]) : l \in labels})
              /\ sigmaMax' \in {"inf", "finite"}
              /\ phase' = "main"
           \/ \* too few bars, or an event rate below r_min
              /\ phase' = "failed"
              /\ UNCHANGED <<pairs, sigmaMax>>
        /\ UNCHANGED <<feed, seen, loop, decided>>

-----------------------------------------------------------------------------
(* calibrate_from_warmup *)
Larger(a, b) == IF a > b THEN a ELSE b
FirstAllowed ==
    Larger(IF driver = "alone" \/ Len(pairs) >= MinWarmupBars THEN MinWarmupBars ELSE Len(pairs),
           2 * StabilityWindow)
HalfWindow == Larger(1, StabilityWindow \div 2)

(* _brier of a window of the errors, times its length *)
Brier(es, from, to) == FoldLeft(+, 0, SubSeq(es, from, to))

(* |recent - prev| / prev < 0.05 *)
Stable(es) ==
    LET n == Len(es)
        recent == Brier(es, n - StabilityWindow + 1, n)
        prev == Brier(es, n - 2 * StabilityWindow + 1, n - StabilityWindow)
        diff == IF recent > prev THEN recent - prev ELSE prev - recent
    IN  prev > 0 /\ 20 * diff < prev

Stopped ==
    \/ converged
    \/ Len(errors) >= MaxWarmupBars
    \/ Len(errors) = Len(pairs)

(* The next check is a whole window away *)
BugObserve ==
    /\ phase = "calibrate"
    /\ ~Stopped
    /\ \E e \in 0 .. 1 :
           LET es == Append(errors, e)
               n == Len(es)
           IN  /\ errors' = es
               /\ IF n >= FirstAllowed /\ n >= nextCheck
                  THEN /\ trace' = Append(trace, Brier(es, n - StabilityWindow + 1, n))
                       /\ converged' = Stable(es)
                       /\ nextCheck' = n + StabilityWindow
                  ELSE UNCHANGED <<trace, converged, nextCheck>>
    /\ UNCHANGED <<feed, phase, seen, pairs, sigmaMax, decided>>

(* One observation of the loop, whose squared error is 0 or 1 *)
Observe ==
    /\ phase = "calibrate"
    /\ ~Stopped
    /\ \E e \in 0 .. 1 :
           LET es == Append(errors, e)
               n == Len(es)
           IN  /\ errors' = es
               /\ IF n >= FirstAllowed /\ n >= nextCheck
                  THEN /\ trace' = Append(trace, Brier(es, n - StabilityWindow + 1, n))
                       /\ converged' = Stable(es)
                       /\ nextCheck' = n + HalfWindow
                  ELSE UNCHANGED <<trace, converged, nextCheck>>
    /\ UNCHANGED <<feed, phase, seen, pairs, sigmaMax, decided>>

(* The reductions and their gates: no observation, no training label, an   *)
(* event rate below r_min or a sigma gate that rejects nothing raise.  The *)
(* pre-pass has no strategy state, so all its sigmas are 0.                *)
Reduce ==
    /\ phase = "calibrate"
    /\ Stopped
    /\ \/ phase' = "failed" /\ UNCHANGED sigmaMax
       \/ /\ errors # <<>>
          /\ sigmaMax' \in IF driver = "online" THEN {"inf"} ELSE {"inf", "finite"}
          /\ phase' = IF driver = "alone" THEN "done" ELSE "main"
    /\ seen' = 0
    /\ UNCHANGED <<feed, pairs, loop, decided>>

-----------------------------------------------------------------------------
(* The main pass, over the window from its start *)
MainBar ==
    LET bars == Stream(win.start, win.end)
    IN  /\ phase = "main"
        /\ seen < Len(bars)
        /\ seen' = seen + 1
        /\ decided' = IF decided = <<>> /\ seen + 1 > WarmupSamples THEN bars[seen + 1]
                      ELSE decided
        /\ UNCHANGED <<feed, phase, pairs, loop, sigmaMax>>

MainDone ==
    /\ phase = "main"
    /\ seen = Len(Stream(win.start, win.end))
    /\ phase' = "done"
    /\ UNCHANGED <<feed, seen, pairs, loop, sigmaMax, decided>>

-----------------------------------------------------------------------------
(* A window that the drivers are given; the offline one has its warm-up    *)
(* end on a bar of the labelled feed                                       *)
Windows ==
    {w \in [start : {0, M}, warmupEnd : 0 .. LastMinute, end : {LastMinute}] :
        w.start < w.warmupEnd}

Init ==
    /\ driver \in {"online", "offline", "alone"}
    /\ missing \in {s \in SUBSET (0 .. LastMinute) : Cardinality(s) <= MaxMissing}
    /\ win \in Windows
    /\ driver = "offline" => win.warmupEnd % M = 0
    /\ driver = "alone" => missing = {} /\ win.start = 0 /\ win.warmupEnd = LastMinute
    /\ phase = IF driver = "alone" THEN "calibrate" ELSE "pre"
    /\ seen = 0
    /\ IF driver = "alone" THEN pairs \in {[i \in 1 .. n |-> 0] : n \in 0 .. MaxPairs}
       ELSE pairs = <<>>
    /\ errors = <<>>
    /\ nextCheck = MinWarmupBars
    /\ trace = <<>>
    /\ converged = FALSE
    /\ sigmaMax = "none"
    /\ decided = <<>>

Next ==
    \/ driver = "online" /\ (PreBar \/ PreDone)
    \/ ReadOffline
    \/ Observe \/ Reduce
    \/ MainBar \/ MainDone

Spec == Init /\ [][Next]_vars

-----------------------------------------------------------------------------
(* When the main pass decides for the first time, every row the calibrated *)
(* parameters depend on has been replayed: the warm-up is counted in bars  *)
(* in one pass and in minutes in the other, over a feed with gaps          *)
(* (run_adaptive_experiment.py:297, run_experiment_offline.py:61, :139).   *)
CalibrationPrecedesTrading ==
    decided # <<>> =>
        \A i \in DOMAIN pairs :
            i <= Len(errors) \/ driver = "offline" => pairs[i] <= Last(decided)

(* The loop makes every check it is due, half a window apart from the      *)
(* first bar that is allowed one, and passes none that finds the error     *)
(* stable nor its cap; it converges at no other bar                        *)
(* (warmup_calibration.py:224).  The very first check is left out: the     *)
(* docstring, 152-154, has it seed the comparison and not end the loop,    *)
(* which the code lets it do.                                              *)
StopsAtFirstStable ==
    LET checks == {n \in 1 .. Len(errors) :
                      \E i \in 0 .. n : n = FirstAllowed + i * HalfWindow}
        stable == {n \in checks : Stable(SubSeq(errors, 1, n))}
    IN  /\ Len(trace) = Cardinality(checks)
        /\ converged => Len(errors) \in stable
        /\ \A n \in stable \ {FirstAllowed} : converged /\ n = Len(errors)
        /\ Len(errors) <= MaxWarmupBars
=============================================================================
