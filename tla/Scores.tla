------------------------------- MODULE Scores -------------------------------
(***************************************************************************)
(* What the metrics battery computes (wagie/metrics, wagie/cscv.py), as    *)
(* operators on sequences of integers.  A prediction is [p, y], p in steps *)
(* of some fraction and y 0 or 1; a trade is [pnl, open, close] with its   *)
(* minutes.  A mean is given by its sum, so nothing here is rounded.       *)
(***************************************************************************)
EXTENDS Integers, FiniteSets, SequencesExt

CONSTANTS
    NaN,       \* no value at this position
    Bins,      \* n_calibration_bins
    Scale,     \* a multiple of every concurrency there is
    Dispersed  \* larger than the ratio of two dispersions there are

ASSUME ScoresAssumption == Bins \in Nat \ {0} /\ Scale \in Nat \ {0} /\ Dispersed \in Nat \ {0}

Sum(s) == FoldLeft(+, 0, s)
Map(s, Op(_)) == [i \in DOMAIN s |-> Op(s[i])]
CumSum(s) == FoldLeft(LAMBDA acc, x : Append(acc, Last(acc) + x), <<0>>, s)
Square(x) == x * x

(* What a sequence has at the positions I, in their order *)
Picked(s, I) ==
    [k \in 1 .. Cardinality(I) |-> s[CHOOSE i \in I : Cardinality({j \in I : j <= i}) = k]]

-----------------------------------------------------------------------------
(* Ranks *)

(* argsort of argsort: the place that each has, ties in their order *)
Within(i, s) == Cardinality({j \in DOMAIN s : s[j] < s[i] \/ (s[j] = s[i] /\ j <= i)})
Ascending(s) == [k \in DOMAIN s |-> s[CHOOSE i \in DOMAIN s : Within(i, s) = k]]

(* Those that tie share the mean of their first and last place.  Twice the *)
(* rank, to stay whole.                                                    *)
TwiceMidRank(x, s) ==
    LET sorted == Ascending(s)
        places == {i \in DOMAIN sorted : sorted[i] = x}
    IN  Min(places) + Max(places)

ScoresOf(preds) == Map(preds, LAMBDA d : d.p)
OfClass(preds, y) == ScoresOf(Picked(preds, {i \in DOMAIN preds : preds[i].y = y}))

(* roc_auc, and the estimate of delong_roc_auc_ci: twice the number of     *)
(* positives times negatives that the area is the share of                 *)
TwiceU(preds) ==
    LET pos == OfClass(preds, 1)
    IN  Sum(Map(pos, LAMBDA x : TwiceMidRank(x, ScoresOf(preds)))) - Len(pos) * (Len(pos) + 1)

(* V10 and V01 of delong_roc_auc_ci, times twice the other class's size:   *)
(* the rank among all, less the place in one's own class                   *)
V10(preds) ==
    LET pos == OfClass(preds, 1)
    IN  [i \in DOMAIN pos |-> TwiceMidRank(pos[i], ScoresOf(preds)) - 2 * Within(i, pos)]
V01(preds) ==
    LET neg == OfClass(preds, 0)
        nPos == Len(preds) - Len(neg)
    IN  [i \in DOMAIN neg |->
            2 * nPos - (TwiceMidRank(neg[i], ScoresOf(preds)) - 2 * Within(i, neg))]

-----------------------------------------------------------------------------
(* Calibration.  The inner edges of the bins are the quantiles of the      *)
(* predictions, interpolated, times Bins; the outer ones are infinite.     *)
Edge(i, s) ==
    LET at == i * (Len(s) - 1)
        lo == s[at \div Bins + 1]
        hi == IF at % Bins = 0 THEN lo ELSE s[at \div Bins + 2]
    IN  Bins * lo + (at % Bins) * (hi - lo)

BugInBin(i, p, s) ==
    /\ i = 1 \/ Bins * p >= Edge(i - 1, s)
    /\ i = Bins \/ Bins * p <= Edge(i, s)
InBin(i, p, s) ==
    /\ i = 1 \/ Bins * p >= Edge(i - 1, s)
    /\ i = Bins \/ Bins * p < Edge(i, s)

(* reliability_bins: the predictions of each bin that has one *)
ReliabilityBins(preds) ==
    LET s == Ascending(ScoresOf(preds))
        bins == [b \in 1 .. Bins |->
                    Picked(preds, {i \in DOMAIN preds : InBin(b, preds[i].p, s)})]
    IN  Picked(bins, {b \in 1 .. Bins : bins[b] # <<>>})

(* expected_calibration_error, times Len(preds) *)
CalibrationError(preds, unit) ==
    Sum(Map(ReliabilityBins(preds),
            LAMBDA b : LET d == Sum(ScoresOf(b)) - unit * Sum(Map(b, LAMBDA x : x.y))
                       IN  IF d < 0 THEN -d ELSE d))

(* _rolling_brier, times the window, by differences of a running sum *)
RollingBrier(preds, window, unit) ==
    LET csum == CumSum(Map(preds, LAMBDA d : Square(d.p - unit * d.y)))
    IN  [i \in DOMAIN preds |-> IF i < window THEN NaN ELSE csum[i + 1] - csum[i + 1 - window]]

(* _pause_spans: run-length encoding of the paused bars, [first, end) *)
PauseSpans(paused) ==
    FoldLeft(LAMBDA spans, i :
                 IF ~paused[i] THEN spans
                 ELSE IF spans # <<>> /\ Last(spans)[2] = i
                      THEN Front(spans) \o <<<<Last(spans)[1], i + 1>>>>
                      ELSE Append(spans, <<i, i + 1>>),
             <<>>, [i \in DOMAIN paused |-> i])

-----------------------------------------------------------------------------
(* Trades *)
Equity(pnl) == Tail(CumSum(pnl))

(* max_drawdown_log: the running maximum starts at the first trade *)
MaxDrawdown(pnl) ==
    LET eq == Equity(pnl)
        peaks == FoldLeft(LAMBDA acc, x :
                              Append(acc, IF acc # <<>> /\ Last(acc) > x THEN Last(acc) ELSE x),
                          <<>>, eq)
    IN  Max({peaks[i] - eq[i] : i \in DOMAIN eq})

Smaller(a, b) == IF a < b THEN a ELSE b

(* trade_concurrency: +1 at each opening, -1 at each closing, summed up *)
Concurrency(trades, minutes) ==
    LET change(t) == Cardinality({i \in DOMAIN trades : trades[i].open = t})
                     - Cardinality({i \in DOMAIN trades : Smaller(trades[i].close, minutes) = t})
    IN  Tail(CumSum([t \in 1 .. minutes |-> change(t - 1)]))

BugUniquenessClosing(trades, minutes) ==
    LET c == Concurrency(trades, minutes)
        cum == CumSum([t \in 1 .. minutes |-> IF c[t] > 0 THEN Scale \div c[t] ELSE 0])
    IN  [i \in DOMAIN trades |->
            cum[Smaller(trades[i].close + 1, minutes) + 1] - cum[trades[i].open + 1]]

(* average_uniqueness, times Scale and the trade's span, by differences of *)
(* a running sum of 1/c                                                    *)
Uniqueness(trades, minutes) ==
    LET c == Concurrency(trades, minutes)
        cum == CumSum([t \in 1 .. minutes |-> IF c[t] > 0 THEN Scale \div c[t] ELSE 0])
    IN  [i \in DOMAIN trades |->
            cum[Smaller(trades[i].close, minutes) + 1] - cum[trades[i].open + 1]]

-----------------------------------------------------------------------------
(* The Sharpe ratio of a return series, as its mean and its variance, each *)
(* scaled the same for every series of this length; without dispersion it  *)
(* is the mean over a very small number                                    *)
Sharpe(r) ==
    LET v == Len(r) * Sum(Map(r, Square)) - Square(Sum(r))
    IN  [mean |-> Sum(r), var |-> IF v = 0 THEN 1 ELSE Dispersed * v]

SignedSquare(x) == IF x < 0 THEN -Square(x) ELSE Square(x)
Below(a, b) == SignedSquare(a.mean) * b.var < SignedSquare(b.mean) * a.var

(* The chunks named by I of a row of returns *)
InChunks(row, I, size) == Picked(row, {t \in DOMAIN row : (t - 1) \div size + 1 \in I})

BugRank(sharpe, best) == Cardinality({s \in DOMAIN sharpe : Below(sharpe[best], sharpe[s])}) + 1
Rank(sharpe, best) == Cardinality({s \in DOMAIN sharpe : Below(sharpe[s], sharpe[best])}) + 1

(* argmax: the first of the best *)
ArgMax(sharpe) ==
    Min({s \in DOMAIN sharpe : ~\E t \in DOMAIN sharpe : Below(sharpe[s], sharpe[t])})

(* cscv_pbo: the splits of the chunks into two halves, and those of them   *)
(* in which the best of one half ranks below the median of the other       *)
Splits(chunks) == {I \in SUBSET (1 .. chunks) : 2 * Cardinality(I) = chunks}
Overfit(R, chunks) ==
    LET size == Len(R[1]) \div chunks
        sharpe(I) == [s \in DOMAIN R |-> Sharpe(InChunks(R[s], I, size))]
        rank(I) == Rank(sharpe((1 .. chunks) \ I), ArgMax(sharpe(I)))
    IN  {I \in Splits(chunks) : 2 * rank(I) - 1 < Len(R)}

=============================================================================
