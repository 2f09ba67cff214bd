---------------------------- MODULE Prequential ----------------------------
(***************************************************************************)
(* The learning half of a bar: rows of one minute become decision bars     *)
(* (ParquetReplaySource, wagie/io/sources.py), and the engine first learns *)
(* from the label the new bar gives to the bar before it, then predicts    *)
(* (Engine._process_one, LabelBuffer, Pipeline, BaseBarFeatures,           *)
(* OnlineARFCorrector and CompositeAdaptiveStrategy).                      *)
(*                                                                         *)
(* A bar is named by its place in the stream, an observation by its bar;   *)
(* a label is known by the bar that gave it.  What the numbers are does    *)
(* not matter here, only which bar each of them is about.                  *)
(***************************************************************************)
EXTENDS Integers, FiniteSets, Sequences, SequencesExt, Functions

CONSTANTS
    M,              \* m_minutes
    MaxBuffer,      \* LabelBuffer max_buffer
    Failures,       \* what may raise: "feature", "update", "arf"
    MaxRows,        \* bound: rows of the file
    None

ASSUME PrequentialAssumption ==
    /\ M \in Nat \ {0} /\ MaxBuffer \in Nat \ {0} /\ MaxRows \in Nat
    /\ Failures \subseteq {"feature", "update", "arf"}
    /\ None \notin Nat

VARIABLES
    pc,             \* what the engine's thread does next
    row,            \* the newest row: its minute and its segment
    buf,            \* the rows of the bar being put together
    bars,           \* the decision bars yielded so far
    paused,         \* Engine.paused
    records,        \* LabelBuffer._records, as bars
    model,          \* what the forest learned, in order: [of, by]
    predictedBy,    \* bar -> how much of model its p_online was made with
    prevBar,        \* the bar of BaseBarFeatures.prev_close, 0 before any
    returnOver,     \* bar -> the bar its return feature starts at, 0 for none;
                    \* of the bars that have features
    pendingLabel,   \* the bar whose label the strategy has not consumed
    lastDecided,    \* the bar _last_entered is about, 0 before any
    observed        \* what controller.observe was told: [entered, label]

vars == <<pc, row, buf, bars, paused, records, model, predictedBy, prevBar,
          returnOver, pendingLabel, lastDecided, observed>>

source == <<row, buf, bars>>
learner == <<model, records>>
features == <<prevBar, returnOver>>
strategy == <<pendingLabel, lastDecided, observed>>

Current == Len(bars)

Put(f, b, value) == [x \in DOMAIN f \cup {b} |-> IF x = b THEN value ELSE f[x]]

-----------------------------------------------------------------------------
Bug_PredictFirst(phase) ==
    CASE phase = "source" -> "transform"
      [] phase = "transform" -> "learn"
      [] phase = "learn" -> "source"

(* _process_one: the label of the last bar is learned before the next      *)
(* prediction                                                              *)
After(phase) ==
    CASE phase = "source" -> "learn"
      [] phase = "learn" -> "transform"
      [] phase = "transform" -> "source"

Init ==
    /\ pc = "source"
    /\ row = [t |-> 0, seg |-> 0] /\ buf = << >> /\ bars = << >>
    /\ paused = FALSE
    /\ records = << >> /\ model = << >> /\ predictedBy = << >>
    /\ prevBar = 0 /\ returnOver = << >>
    /\ pendingLabel = None /\ lastDecided = 0 /\ observed = << >>

-----------------------------------------------------------------------------
Bug_GapKept(r) == r.seg # row.seg

(* a new segment, or more than a minute since the row before *)
Breaks(r) == r.seg # row.seg \/ r.t - row.t > 1

Complete(rows) == Len(rows) = M

(* ParquetReplaySource.stream: a row, and the bar it completes.  A bar     *)
(* finds the operator's pause or resume executed (_drain_console_commands) *)
Row(r) ==
    LET rows == Append(IF buf # << >> /\ Breaks(r) THEN << >> ELSE buf, r) IN
    /\ pc = "source"
    /\ row' = r
    /\ IF ~Complete(rows)
       THEN /\ buf' = rows
            /\ UNCHANGED <<bars, pc, paused>>
       ELSE /\ buf' = << >>
            /\ bars' = Append(bars, [rows |-> rows, seg |-> rows[1].seg])
            /\ pc' = After("source")
            /\ paused' \in BOOLEAN
    /\ UNCHANGED <<learner, predictedBy, features, strategy>>

ReadRow ==
    /\ row.t < MaxRows
    /\ \E gap \in 1..2, jump \in 0..1 : Row([t |-> row.t + gap, seg |-> row.seg + jump])

-----------------------------------------------------------------------------
Bug_AnySegment(b) == TRUE
SameSegment(b) == bars[b].seg = bars[Current].seg

(* popleft, whether or not the record gets its label *)
Rest == Tail(records)

NothingMatures ==
    /\ pc = "learn"
    /\ \/ /\ records = << >>
          /\ UNCHANGED records
       \/ /\ records # << >> /\ ~SameSegment(Head(records))
          /\ records' = Rest
    /\ pc' = After("learn")
    /\ UNCHANGED <<source, paused, model, predictedBy, features, strategy>>

(* Pipeline.learn_one: a stage before the forest may raise, and no other   *)
(* is updated; the forest swallows its own failures                        *)
Learn(learned, told) ==
    /\ pc = "learn"
    /\ records # << >> /\ SameSegment(Head(records))
    /\ records' = Rest
    /\ model' = IF learned THEN Append(model, [of |-> Head(records), by |-> Current])
                ELSE model
    /\ pendingLabel' = IF told THEN Head(records) ELSE pendingLabel
    /\ pc' = After("learn")
    /\ UNCHANGED <<source, paused, predictedBy, features, lastDecided, observed>>

LearnOne ==
    \/ Learn(TRUE, TRUE)
    \/ "arf" \in Failures /\ Learn(FALSE, TRUE)
    \/ "update" \in Failures /\ Learn(FALSE, FALSE)

-----------------------------------------------------------------------------
(* a paused engine does not call the pipeline at all *)
SkipBar ==
    /\ pc = "transform" /\ paused
    /\ pc' = After("transform")
    /\ UNCHANGED <<source, paused, learner, predictedBy, features, strategy>>

(* BaseBarFeatures.transform *)
BaseBar ==
    /\ prevBar' = Current
    /\ returnOver' = Put(returnOver, Current,
            IF prevBar # 0 /\ SameSegment(prevBar) THEN prevBar ELSE 0)

Bug_KeepPending == pendingLabel
Consumed == None

(* the feature stages, the forest's prediction, LabelBuffer.transform and  *)
(* CompositeAdaptiveStrategy.decide; in warm-up, too.  A forest that fails *)
(* leaves the observation without p_online.                                *)
TransformOne ==
    /\ pc = "transform" /\ ~paused
    /\ BaseBar
    /\ \/ predictedBy' = Put(predictedBy, Current, Len(model))
       \/ "arf" \in Failures /\ UNCHANGED predictedBy
    /\ records' = LET q == Append(records, Current) IN
                  IF Len(q) > MaxBuffer THEN Tail(q) ELSE q
    /\ observed' = Append(observed, [entered |-> lastDecided, label |-> pendingLabel])
    /\ pendingLabel' = Consumed
    /\ lastDecided' = Current
    /\ pc' = After("transform")
    /\ UNCHANGED <<source, paused, model>>

(* a StageError: what comes after the failing feature is not called *)
FeatureFails ==
    /\ pc = "transform" /\ ~paused
    /\ "feature" \in Failures
    /\ BaseBar \/ UNCHANGED features
    /\ pc' = After("transform")
    /\ UNCHANGED <<source, paused, learner, predictedBy, strategy>>

Next ==
    \/ ReadRow
    \/ NothingMatures \/ LearnOne
    \/ SkipBar \/ TransformOne \/ FeatureFails

Spec == Init /\ [][Next]_vars

-----------------------------------------------------------------------------
(* A decision bar is m consecutive minutes of one segment, wherever the    *)
(* gaps and the boundaries of the file fall (sources.py 62-121).           *)
BarsAreContiguous ==
    \A b \in 1..Current : \A k \in 1..M :
        bars[b].rows[k] = [t |-> bars[b].rows[1].t + k - 1, seg |-> bars[b].seg]

(* What is learned online is what offline/label.py 4-5 would have labelled:*)
(* a bar by the next one of the stream, in the same segment, each once and *)
(* in order, through pauses and failures (label_buffer.py 63-80).          *)
LabelIsNextBar ==
    /\ \A n \in 1..Len(model) :
          /\ model[n].by = model[n].of + 1
          /\ bars[model[n].by].seg = bars[model[n].of].seg
    /\ \A m, n \in 1..Len(model) : m < n => model[m].of < model[n].of

(* Predict, then learn: the forest that predicts a bar has learned every   *)
(* label the stream gave up to that bar, and none it gave after: not the   *)
(* bar's own (engine.py 326-392, "learning BEFORE prediction").            *)
PredictThenLearn ==
    \A b \in DOMAIN predictedBy : \A n \in 1..Len(model) :
        n <= predictedBy[b] <=> model[n].by <= b

(* The controller is told each bar's entry once, in order, and a label only*)
(* together with the entry of the same bar, though the two reach it by     *)
(* different ways (strategy/__init__.py 188-196, 256-287).                 *)
ControllerInStep ==
    /\ \A k \in 1..Len(observed) :
          observed[k].label # None => observed[k].label = observed[k].entered
    /\ \A j, k \in 1..Len(observed) : j < k => observed[j].entered < observed[k].entered

=============================================================================
