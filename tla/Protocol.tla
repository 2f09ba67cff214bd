------------------------------ MODULE Protocol ------------------------------
(***************************************************************************)
(* The one experiment protocol (wagie/experiments/protocol.py): a backtest *)
(* whose result the metrics battery scores, or the combinatorial purged    *)
(* cross-validation of wagie/cv.py, fold by fold, whose returns are scored *)
(* for overfitting; then the gates that accept or block it, and a report.  *)
(***************************************************************************)
EXTENDS Scores

CONSTANTS
    BarMinutes,   \* m_minutes
    NRows,        \* rows of the parquet file
    NFolds, NTestFolds,
    Returns,      \* bound: the series of pnl that a fold may make
    Trades,       \* bound: the trades that a backtest may make
    Unit,         \* the p that stands for 1
    Minutes,      \* bound: the minutes of a backtest
    MaxBars,      \* bound: what a backtest collects of each
    Window,       \* rolling_window
    MinPeriods, MaxChunks,  \* 16 in the code
    MinCiFolds,   \* 8: optimal_block_length takes no shorter series
    MinNTrades, PredictsEffect, MinGap \* of the spec

ASSUME ProtocolAssumption ==
    /\ {BarMinutes, NRows, NFolds, NTestFolds, MaxBars, Window} \subseteq Nat \ {0}
    /\ NTestFolds < NFolds /\ NFolds <= NRows \div BarMinutes
    /\ {MinPeriods, MaxChunks, MinNTrades, Unit, Minutes} \subseteq Nat
    /\ MinPeriods >= 2 /\ MaxChunks >= 2 /\ MaxChunks % 2 = 0
    /\ Returns \subseteq Seq(Int)
    \* what trade_concurrency raises for, or has no place for, is no trade
    /\ Trades \subseteq {t \in [pnl : Int, open : 0 .. Minutes, close : Nat] : t.open <= t.close}

VARIABLES
    mode,     \* "backtest", "cv"
    stage,    \* "run", "gate", "render", "done", "raised"
    collects, \* what this backtest is looked at for
    preds, paused, trades,   \* the histories and fills of its EngineResult
    fold,     \* the folds done
    perFold,  \* the rows: [fold, pnl]
    pbo,      \* <<overfit splits, splits>>, or NaN for the default of 0.5
    reasons   \* blocked_reasons

result == <<collects, preds, paused, trades>>
cv == <<fold, perFold, pbo>>
protocolVars == <<mode, stage, result, cv, reasons>>

-----------------------------------------------------------------------------
(* A backtest: the engine's histories grow bar by bar *)
BacktestBar ==
    /\ mode = "backtest" /\ stage = "run"
    /\ \/ /\ collects = "preds" /\ Len(preds) < MaxBars
          /\ \E p \in 0 .. Unit, y \in 0 .. 1 : preds' = Append(preds, [p |-> p, y |-> y])
          /\ UNCHANGED <<paused, trades>>
       \/ /\ collects = "paused" /\ Len(paused) < MaxBars + 2
          /\ \E b \in BOOLEAN : paused' = Append(paused, b)
          /\ UNCHANGED <<preds, trades>>
       \/ /\ collects = "trades" /\ Len(trades) < MaxBars - 1
          /\ \E t \in Trades : trades' = Append(trades, t)
          /\ UNCHANGED <<preds, paused>>
    /\ UNCHANGED <<mode, stage, collects, cv, reasons>>

BacktestEnds ==
    /\ mode = "backtest" /\ stage = "run"
    /\ stage' \in {"gate", "raised"}
    /\ UNCHANGED <<mode, result, cv, reasons>>

-----------------------------------------------------------------------------
(* Cross-validation.  skfolio cuts the bars into NFolds groups and tests   *)
(* on each choice of NTestFolds of them.                                   *)
NBars == NRows \div BarMinutes
Group(g) == ((g - 1) * NBars) \div NFolds .. (g * NBars) \div NFolds - 1
TestGroups == SetToSeq(kSubset(NTestFolds, 1 .. NFolds))
TestBars(k) == UNION {Group(g) : g \in TestGroups[k]}

BugReplayed(k) ==
    LET flat == TestBars(k) IN Min(flat) * BarMinutes .. Max(flat) * BarMinutes

(* The rows of a fold: open times that are filtered inclusively, from the  *)
(* first row of its first test bar to the row after its last               *)
Replayed(k) ==
    LET flat == TestBars(k)
    IN  Min(flat) * BarMinutes .. Smaller((Max(flat) + 1) * BarMinutes, NRows - 1)

(* A fold whose run raises is left out with a warning *)
Fold ==
    /\ mode = "cv" /\ stage = "run"
    /\ fold < Len(TestGroups)
    /\ fold' = fold + 1
    /\ \/ UNCHANGED perFold
       \/ \E pnl \in Returns : perFold' = Append(perFold, [fold |-> fold + 1, pnl |-> pnl])
    /\ UNCHANGED <<mode, stage, result, pbo, reasons>>

Padded(s, n) == [t \in 1 .. n |-> IF t <= Len(s) THEN s[t] ELSE 0]

(* The last lines of cross_validation: the folds that traded, padded to    *)
(* the longest                                                             *)
Matrix ==
    LET traded == Picked(perFold, {i \in DOMAIN perFold : perFold[i].pnl # <<>>})
        longest == IF traded = <<>> THEN 0 ELSE Max({Len(traded[i].pnl) : i \in DOMAIN traded})
    IN  [i \in DOMAIN traded |-> Padded(traded[i].pnl, longest)]

Chunks == Smaller(MaxChunks, (Len(Matrix[1]) \div 2) * 2)

CvEnds ==
    /\ mode = "cv" /\ stage = "run"
    /\ fold = Len(TestGroups)
    /\ pbo' = IF Len(Matrix) >= 2 /\ Len(Matrix[1]) >= MinPeriods
              THEN <<Cardinality(Overfit(Matrix, Chunks)), Cardinality(Splits(Chunks))>>
              ELSE NaN
    /\ stage' = "gate"
    /\ UNCHANGED <<mode, result, fold, perFold, reasons>>

-----------------------------------------------------------------------------
(* _check_accept_gates.  What a Sharpe ratio or an end of its interval is  *)
(* is open here; whether there is an interval and a band is not.           *)
NTrades ==
    IF mode = "cv" THEN Sum(Map(perFold, LAMBDA r : Len(r.pnl))) ELSE Len(trades)

HasCi ==
    IF mode = "cv"
    THEN /\ Len(perFold) >= MinCiFolds
         /\ Cardinality({Sum(perFold[i].pnl) : i \in DOMAIN perFold}) > 1
    ELSE Cardinality({trades[i].pnl : i \in DOMAIN trades}) > 1

HasBand == mode = "cv" /\ perFold # <<>>

Gate ==
    /\ stage = "gate"
    /\ \E effect, ci, gap \in BOOLEAN :
           reasons' = {r \in {"min_n_trades"} : NTrades < MinNTrades}
                \cup {r \in {"predicted_effect_min"} : PredictsEffect /\ ~effect}
                \cup {r \in {"sharpe_ci_lo<=0"} : PredictsEffect /\ HasCi /\ ~ci}
                \cup {r \in {"min_effect_vs_seed_band"} : HasBand /\ MinGap > 0 /\ ~gap}
    /\ stage' = "render"
    /\ UNCHANGED <<mode, result, cv>>

(* A blocked experiment is rendered as well, with its banner *)
Render ==
    /\ stage = "render"
    /\ stage' = "done"
    /\ UNCHANGED <<mode, result, cv, reasons>>

-----------------------------------------------------------------------------
ProtocolInit ==
    /\ mode \in {"backtest", "cv"}
    /\ stage = "run"
    /\ collects \in {"preds", "paused", "trades"}
    /\ mode = "cv" => collects = "preds"
    /\ preds = <<>> /\ paused = <<>> /\ trades = <<>>
    /\ fold = 0 /\ perFold = <<>> /\ pbo = NaN
    /\ reasons = {}

ProtocolNext == BacktestBar \/ BacktestEnds \/ Fold \/ CvEnds \/ Gate \/ Render

ProtocolSpec == ProtocolInit /\ [][ProtocolNext]_protocolVars

-----------------------------------------------------------------------------
Pos == {i \in DOMAIN preds : preds[i].y = 1}
Neg == DOMAIN preds \ Pos
Pairs(op(_, _)) == Cardinality({x \in Pos \X Neg : op(preds[x[1]].p, preds[x[2]].p)})

SumOver(pairs) == FoldSet(LAMBDA x, acc : x[2] + acc, 0, pairs)
NoTieWithin(s) == \A i, j \in DOMAIN s : s[i] = s[j] => i = j

(* The area under the ROC curve counts the pairs that are ordered right,   *)
(* ties for a half; the placements behind its variance do so per sample    *)
(* (without ties inside a class); each prediction is in one bin of the     *)
(* calibration error, however many are equal; and the rolling Brier score  *)
(* is that of its window (classification.py, bootstrap.py, calibration.py, *)
(* metrics/__init__.py).                                                   *)
PredictionScores ==
    LET pos == OfClass(preds, 1)
        neg == OfClass(preds, 0)
        bins == ReliabilityBins(preds)
        errorsAt(i) == {<<j, Square(preds[j].p - Unit * preds[j].y)>> : j \in i - Window + 1 .. i}
    IN  /\ TwiceU(preds) = 2 * Pairs(LAMBDA a, b : a > b) + Pairs(LAMBDA a, b : a = b)
        /\ NoTieWithin(pos) =>
               \A i \in DOMAIN pos :
                   V10(preds)[i] = 2 * Cardinality({j \in DOMAIN neg : neg[j] < pos[i]})
                                   + Cardinality({j \in DOMAIN neg : neg[j] = pos[i]})
        /\ NoTieWithin(neg) =>
               \A i \in DOMAIN neg :
                   V01(preds)[i] = 2 * Cardinality({j \in DOMAIN pos : pos[j] > neg[i]})
                                   + Cardinality({j \in DOMAIN pos : pos[j] = neg[i]})
        /\ Sum(Map(bins, Len)) = Len(preds)
        /\ \A d \in ToSet(preds) : Cardinality({i \in DOMAIN bins : d \in ToSet(bins[i])}) = 1
        /\ CalibrationError(preds, Unit) <= Unit * Len(preds)
        /\ \A i \in Window .. Len(preds) :
               RollingBrier(preds, Window, Unit)[i] = SumOver(errorsAt(i))

(* The fall of the equity is the largest between two trades; a trade is as *)
(* unique as it shares its minutes, those past the end left out; and the   *)
(* pauses that are drawn are the longest runs of paused bars               *)
(* (trading.py, bootstrap.py average_uniqueness, metrics/__init__.py).     *)
TradeScores ==
    LET eq == Equity(Map(trades, LAMBDA t : t.pnl))
        spans == PauseSpans(paused)
        open(t) == {i \in DOMAIN trades : trades[i].open <= t /\ t < trades[i].close}
    IN  /\ trades # <<>> =>
               MaxDrawdown(Map(trades, LAMBDA t : t.pnl)) =
                   Max(UNION {{eq[i] - eq[j] : j \in i .. Len(eq)} : i \in DOMAIN eq})
        /\ \A i \in DOMAIN trades :
               Uniqueness(trades, Minutes)[i] =
                   SumOver({<<t, Scale \div Cardinality(open(t))>> :
                              t \in trades[i].open .. Smaller(trades[i].close, Minutes) - 1})
        /\ \A i \in DOMAIN paused :
               paused[i] <=> \E s \in ToSet(spans) : s[1] <= i /\ i < s[2]
        /\ \A i \in 1 .. Len(spans) - 1 : spans[i][2] < spans[i + 1][1]

(* A fold that beats the others in every half of the chunks is no sign of  *)
(* overfitting, and one that wins some half and loses every other to all   *)
(* the rest is (cscv.py, through the padding of cv.py).                    *)
OverfitScore ==
    pbo # NaN =>
        LET size == Len(Matrix[1]) \div Chunks
            in(I, s) == Sharpe(InChunks(Matrix[s], I, size))
            best(s, I) == \A o \in DOMAIN Matrix \ {s} : Below(in(I, o), in(I, s))
        IN  /\ (\E s \in DOMAIN Matrix : \A I \in Splits(Chunks) : best(s, I)) => pbo[1] = 0
            /\ (\A I \in Splits(Chunks) :
                   \E s \in DOMAIN Matrix :
                       /\ best(s, I)
                       /\ \A o \in DOMAIN Matrix \ {s} :
                              Below(in((1 .. Chunks) \ I, s), in((1 .. Chunks) \ I, o)))
                   => pbo[1] = pbo[2]

(* A fold replays every row of the bars it tests *)
TestRowsReplayed ==
    mode = "cv" /\ fold > 0 =>
        \A b \in TestBars(fold) :
            b * BarMinutes .. (b + 1) * BarMinutes - 1 \subseteq Replayed(fold)

=============================================================================
