------------------------------ MODULE Features ------------------------------
(***************************************************************************)
(* The streaming features (wagie/features): the catalog, and the           *)
(* FeatureBuilder that walks it once a bar.  A value is named by the bar   *)
(* it was read from, so a feature's output is the sequence of bars its     *)
(* statistic is taken over, oldest first, or NaN.                          *)
(***************************************************************************)
EXTENDS Integers, FiniteSets, SequencesExt

CONSTANTS
    NaN,        \* a value that is not there
    Built,      \* the specs [name, kind, lag, window] as the code lists them
    Importance, \* name -> score, of the names in the importance file
    Correlated, \* pairs {a, b} of names whose synthetic streams correlate
    Dedupe,     \* a dedupe_corr_threshold is given
    MaxBars     \* bound: the bars of a feed

FeatureSpec ==
    [name : STRING, kind : {"rolling", "batch", "lag", "identity"},
     lag : Nat, window : Nat \ {0}]

ASSUME SpecsAreValid ==
    /\ Built \in Seq(FeatureSpec)
    /\ \A i \in DOMAIN Built :
        /\ Built[i].kind # "identity" => Built[i].lag >= 1
        /\ Built[i].kind = "lag" => Built[i].window = 1
        /\ \A j \in DOMAIN Built : Built[i].name = Built[j].name => i = j
    /\ \A name \in DOMAIN Importance : Importance[name] \in Nat
    /\ NaN \notin Nat
    /\ Dedupe \in BOOLEAN /\ MaxBars \in Nat

VARIABLES
    bars,     \* the bars of the feed, [segment, valid]
    since,    \* the bars before the last reset of the features
    state,    \* name -> what the feature keeps
    row       \* name -> what the last bar was given

featureVars == <<bars, since, state, row>>

-----------------------------------------------------------------------------
(* The catalog: in the order it was listed, or by importance with the      *)
(* unknown names last, and of a correlated pair only the first             *)
Score(f) == IF f.name \in DOMAIN Importance THEN Importance[f.name] ELSE -1

Before(i, j) ==
    \/ Score(Built[i]) > Score(Built[j])
    \/ Score(Built[i]) = Score(Built[j]) /\ i < j

ImportanceRank(i) == 1 + Cardinality({j \in DOMAIN Built : Before(j, i)})

ByImportance ==
    [k \in DOMAIN Built |-> Built[CHOOSE i \in DOMAIN Built : ImportanceRank(i) = k]]

DedupeCorrelated(fs) ==
    LET kept[i \in 0 .. Len(fs)] ==
            IF i = 0 THEN <<>>
            ELSE IF \E g \in ToSet(kept[i - 1]) : {fs[i].name, g.name} \in Correlated
                 THEN kept[i - 1] ELSE Append(kept[i - 1], fs[i])
    IN  kept[Len(fs)]

DefaultStreamingFeatures ==
    IF DOMAIN Importance = {} THEN Built
    ELSE IF Dedupe THEN DedupeCorrelated(ByImportance) ELSE ByImportance

Catalog == DefaultStreamingFeatures

-----------------------------------------------------------------------------
(* The kinds of feature.  A deque of maxlen n keeps the n newest.          *)
Newest(n, s) == SubSeq(s, Len(s) - n + 1, Len(s))
Bounded(n, s) == IF Len(s) > n THEN Newest(n, s) ELSE s

Fresh == [buf |-> <<>>, window |-> <<>>, n |-> 0, segment |-> NaN]

(* [state, out] after a bar whose value is v *)
Emit(st, out) == [state |-> st, out |-> out]

SegmentChanged(st, bar) == st.segment # NaN /\ st.segment # bar.segment

Point(v) == IF v = NaN THEN NaN ELSE <<v>>

(* The boundary of a segment that falls on a missing value is not noticed *)
BugSegmentAfterNaN(f, st, bar, v) ==
    LET old == IF v # NaN /\ SegmentChanged(st, bar) THEN Fresh ELSE st
        kept == [old EXCEPT !.segment = bar.segment]
        full == Len(old.buf) = f.lag
        new == [kept EXCEPT
                   !.window = IF full THEN Bounded(f.window, Append(@, Head(old.buf))) ELSE @,
                   !.buf = Bounded(f.lag, Append(@, v)),
                   !.n = @ + 1]
    IN  IF v = NaN THEN Emit(kept, NaN)
        ELSE Emit(new, IF new.n < f.lag + f.window THEN NaN ELSE new.window)

(* RiverRollingFeature.update_one: the value that leaves the lag buffer    *)
(* enters the rolling statistic                                            *)
UpdateRolling(f, st, bar, v) ==
    LET old == IF SegmentChanged(st, bar) THEN Fresh ELSE st
        kept == [old EXCEPT !.segment = bar.segment]
        full == Len(old.buf) = f.lag
        new == [kept EXCEPT
                   !.window = IF full THEN Bounded(f.window, Append(@, Head(old.buf))) ELSE @,
                   !.buf = Bounded(f.lag, Append(@, v)),
                   !.n = @ + 1]
    IN  IF v = NaN THEN Emit(kept, NaN)
        ELSE Emit(new, IF new.n < f.lag + f.window THEN NaN ELSE new.window)

(* LagFeature.update_one, and IdentityFeature.update_one with a lag *)
UpdateLag(f, st, v) ==
    Emit([st EXCEPT !.buf = Bounded(f.lag, Append(@, v)), !.n = @ + 1],
         IF Len(st.buf) = f.lag THEN Point(Head(st.buf)) ELSE NaN)

(* BoundedBatchFeature.update_one: NaN counts as seen but is not kept *)
UpdateBatch(f, st, v) ==
    LET size == f.lag + f.window
        new == [st EXCEPT !.buf = IF v = NaN THEN @ ELSE Bounded(size, Append(@, v)),
                          !.n = @ + 1]
        arr == SubSeq(new.buf, 1, Len(new.buf) - f.lag)
    IN  Emit(new, IF v = NaN \/ new.n < size \/ Len(arr) < f.window THEN NaN
                  ELSE Newest(f.window, arr))

UpdateOne(f, st, bar, v) ==
    CASE f.kind = "rolling" -> UpdateRolling(f, st, bar, v)
      [] f.kind = "batch"   -> UpdateBatch(f, st, v)
      [] f.kind = "lag"     -> UpdateLag(f, st, v)
      [] f.kind = "identity" -> IF f.lag = 0 THEN Emit(st, Point(v)) ELSE UpdateLag(f, st, v)

-----------------------------------------------------------------------------
Names == {f.name : f \in ToSet(Catalog)}
SpecOf(name) == CHOOSE f \in ToSet(Catalog) : f.name = name

(* The catalog is built by walking each feature over a synthetic stream,   *)
(* and each is reset after its walk                                        *)
FeatureInit ==
    /\ bars = <<>>
    /\ since = 0
    /\ state = [name \in Names |-> Fresh]
    /\ row = [name \in Names |-> NaN]

(* FeatureBuilder.transform *)
Transform(bar) ==
    LET v == IF bar.valid THEN Len(bars) + 1 ELSE NaN
        step == [name \in Names |-> UpdateOne(SpecOf(name), state[name], bar, v)]
    IN  /\ Len(bars) < MaxBars
        /\ bars' = Append(bars, bar)
        /\ state' = [name \in Names |-> step[name].state]
        /\ row' = [name \in Names |-> step[name].out]
        /\ UNCHANGED since

(* FeatureBuilder.reset, which a drift detector or a new replay calls *)
Reset ==
    /\ since # Len(bars)
    /\ since' = Len(bars)
    /\ state' = [name \in Names |-> Fresh]
    /\ UNCHANGED <<bars, row>>

-----------------------------------------------------------------------------
(* What a feature is meant to be, over the bars since the last reset *)
Seen == since + 1 .. Len(bars)
ThisSegment == {i \in Seen : \A j \in i .. Len(bars) : bars[j].segment = bars[i].segment}
Present(positions) == {i \in positions : bars[i].valid}

Ranked(positions, n) == {i \in positions : Cardinality({j \in positions : i <= j}) = n}
NthNewest(positions, n) == CHOOSE i \in Ranked(positions, n) : TRUE

(* The `window` newest of these bars but for the `lag` newest, once there  *)
(* are so many of them                                                     *)
Lagged(f, positions) ==
    LET size == f.lag + f.window
    IN  IF Cardinality(positions) < size THEN NaN
        ELSE [k \in 1 .. f.window |-> NthNewest(positions, size + 1 - k)]

Reference(f) ==
    LET now == Len(bars)
    IN  CASE f.kind \in {"rolling", "batch"} /\ bars[now].valid ->
                 Lagged(f, Present(ThisSegment))
          [] f.kind \in {"lag", "identity"} /\ now - f.lag \in Present(ThisSegment) ->
                 <<now - f.lag>>
          [] OTHER -> NaN

(* The bars a column is made from *)
ReadFrom(name) == IF row[name] = NaN THEN {} ELSE ToSet(row[name])

(* Every column of a row is the feature its spec describes, a statistic of *)
(* `window` present values of the current segment that are `lag` values    *)
(* old, or the value `lag` bars ago, whatever gaps, missing values and     *)
(* resets came before; only of a batch or lag feature made from bars of an *)
(* earlier segment, which SegmentsApart is about, it says nothing.  The    *)
(* columns are those listed but, when asked for, for each that correlates  *)
(* with a kept one of higher rank (streaming.py, bounded_batch.py,         *)
(* catalog.py).                                                            *)
FeaturesAsDefined ==
    since < Len(bars) =>
        /\ \A name \in DOMAIN row :
               LET f == SpecOf(name)
               IN  \/ row[name] = Reference(f)
                   \/ f.kind # "rolling" /\ ~(ReadFrom(name) \subseteq ThisSegment)
        /\ \A i \in DOMAIN ByImportance :
               LET f == ByImportance[i]
               IN  f.name \in DOMAIN row <=>
                       \A j \in 1 .. i - 1 :
                           LET g == ByImportance[j]
                           IN  Dedupe /\ DOMAIN Importance # {} /\ g.name \in DOMAIN row
                                   => {f.name, g.name} \notin Correlated

-----------------------------------------------------------------------------
(* What the repository says and the code does not do.                      *)

(* tests/contracts/test_features_segment_aware.py 4-5: "Streaming feature  *)
(* buffers (lag deques, rolling stats, warmup counts) MUST NOT carry       *)
(* values from one segment into the next"; so no column of a row is made   *)
(* from a bar of another segment.  The rolling features reset at a         *)
(* boundary, the lag and batch features do not look at the segment.        *)
SegmentsApart ==
    since < Len(bars) =>
        \A name \in DOMAIN row : ReadFrom(name) \subseteq ThisSegment

=============================================================================
