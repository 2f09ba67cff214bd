-------------------------- MODULE PrequentialProofs --------------------------
(***************************************************************************)
(* The order of learning and predicting, proved for bars of any length,    *)
(* any number of rows, any buffer and any failures.                        *)
(*                                                                         *)
(* Everything rests on one fact about the label buffer: it never holds     *)
(* more than one record.  The record of a bar is popped when the next bar  *)
(* learns, whether or not it gets its label, so the only bar whose label   *)
(* can arrive is the one before, which is also the last one decided.       *)
(***************************************************************************)
EXTENDS Prequential, TLAPS

Rows == [t : Nat, seg : Nat]
Labels == [of : Nat, by : Nat]
Observations == [entered : Nat, label : Nat \cup {None}]

TypeOK ==
    /\ pc \in {"source", "learn", "transform"}
    /\ row \in Rows
    /\ buf \in Seq(Rows)
    /\ bars \in Seq([rows : Seq(Rows), seg : Nat])
    /\ records \in Seq(Nat)
    /\ model \in Seq(Labels)
    /\ observed \in Seq(Observations)
    /\ lastDecided \in Nat
    /\ pendingLabel \in Nat \cup {None}

(* rows of consecutive minutes in one segment                              *)
Run(rows) ==
    \A k \in 1..Len(rows) : rows[k] = [t |-> rows[1].t + k - 1, seg |-> rows[1].seg]

Buffered ==
    /\ Len(buf) < M
    /\ Run(buf)
    /\ buf # << >> => row = buf[Len(buf)]

Yielded ==
    \A b \in 1..Len(bars) :
        Len(bars[b].rows) = M /\ Run(bars[b].rows) /\ bars[b].seg = bars[b].rows[1].seg

(* the one record there can be, and whose it is                            *)
OneRecord ==
    /\ pc = "source" => records \in {<< >>, <<Len(bars)>>}
    /\ pc = "learn" => Len(bars) > 0 /\ records \in {<< >>, <<Len(bars) - 1>>}
    /\ pc = "transform" => Len(bars) > 0 /\ records = << >>
    /\ records # << >> => Head(records) = lastDecided /\ lastDecided > 0

(* the bars a label can have come from by now                              *)
LearnedBy == IF pc = "learn" THEN Len(bars) - 1 ELSE Len(bars)

Learned ==
    /\ \A n \in 1..Len(model) :
          /\ model[n].by = model[n].of + 1
          /\ model[n].of > 0 /\ model[n].by <= LearnedBy
          /\ bars[model[n].by].seg = bars[model[n].of].seg
    /\ \A m, n \in 1..Len(model) : m < n => model[m].of < model[n].of

Predicted ==
    \A b \in DOMAIN predictedBy :
        /\ b \in Nat /\ predictedBy[b] \in 0..Len(model)
        /\ b <= IF pc = "source" THEN Len(bars) ELSE Len(bars) - 1
        /\ \A n \in 1..Len(model) : n <= predictedBy[b] <=> model[n].by <= b

Told ==
    /\ lastDecided <= IF pc = "source" THEN Len(bars) ELSE Len(bars) - 1
    /\ pendingLabel \in {None, lastDecided}
    /\ \A k \in 1..Len(observed) :
          /\ observed[k].label # None => observed[k].label = observed[k].entered
          /\ observed[k].entered < lastDecided
    /\ \A j, k \in 1..Len(observed) : j < k => observed[j].entered < observed[k].entered

IInv == TypeOK /\ Buffered /\ Yielded /\ OneRecord /\ Learned /\ Predicted /\ Told

LEMMA Phases ==
    After("source") = "learn" /\ After("learn") = "transform" /\ After("transform") = "source"
BY DEF After

LEMMA Constants == M \in Nat \ {0} /\ MaxBuffer \in Nat \ {0} /\ None \notin Nat
BY PrequentialAssumption

(* What the types say of the elements                                      *)
LEMMA Elements ==
    ASSUME TypeOK
    PROVE  /\ Len(bars) \in Nat /\ Len(model) \in Nat /\ Len(observed) \in Nat
           /\ \A n \in 1..Len(model) : model[n].of \in Nat /\ model[n].by \in Nat
           /\ \A k \in 1..Len(observed) : observed[k].entered \in Nat
<1>1. Len(bars) \in Nat /\ Len(model) \in Nat /\ Len(observed) \in Nat
  BY DEF TypeOK
<1>2. \A n \in 1..Len(model) : model[n] \in Labels
  BY DEF TypeOK
<1>3. \A k \in 1..Len(observed) : observed[k] \in Observations
  BY DEF TypeOK
<1> QED
  BY <1>1, <1>2, <1>3 DEF Labels, Observations

LEMMA OneElement == ASSUME NEW x PROVE Head(<<x>>) = x /\ Tail(<<x>>) = << >>
OBVIOUS

-----------------------------------------------------------------------------
(* A row of the file, and the bar it may complete                          *)

(* Appending the row that follows keeps a run; a row alone is one.         *)
LEMMA RunGrows ==
    ASSUME NEW rows \in Seq(Rows), NEW r \in Rows, Run(rows),
           \/ rows = << >>
           \/ rows # << >> /\ r = [t |-> rows[Len(rows)].t + 1, seg |-> rows[Len(rows)].seg]
    PROVE  Run(Append(rows, r))
<1>1. CASE rows = << >>
  <2>1. Append(rows, r) = <<r>>
    BY <1>1
  <2>2. r = [t |-> r.t + 1 - 1, seg |-> r.seg] /\ r.t \in Nat
    BY DEF Rows
  <2> QED
    BY <2>1, <2>2 DEF Run
<1>2. CASE rows # << >> /\ r = [t |-> rows[Len(rows)].t + 1, seg |-> rows[Len(rows)].seg]
  <2> DEFINE l == Len(rows)
             more == Append(rows, r)
  <2>1. /\ l \in Nat \ {0} /\ Len(more) = l + 1 /\ more[l + 1] = r
        /\ \A k \in 1..l : more[k] = rows[k]
    BY <1>2
  <2>2. rows[1] \in Rows /\ rows[1].t \in Nat
    <3>1. rows[1] \in Rows
      BY <2>1
    <3> QED
      BY <3>1 DEF Rows
  <2>3. rows[l] = [t |-> rows[1].t + l - 1, seg |-> rows[1].seg]
    BY <2>1 DEF Run
  <2>4. rows[l].t = rows[1].t + l - 1 /\ rows[l].seg = rows[1].seg
    BY <2>3
  <2>5. r = [t |-> rows[1].t + (l + 1) - 1, seg |-> rows[1].seg]
    BY <1>2, <2>1, <2>2, <2>4
  <2> HIDE DEF l, more
  <2>6. ASSUME NEW k \in 1..(l + 1)
        PROVE  more[k] = [t |-> more[1].t + k - 1, seg |-> more[1].seg]
    <3>1. more[1] = rows[1]
      BY <2>1
    <3>2. CASE k = l + 1
      BY <2>1, <2>5, <3>1, <3>2
    <3>3. CASE k # l + 1
      <4>1. k \in 1..l
        BY <2>1, <3>3
      <4>2. rows[k] = [t |-> rows[1].t + k - 1, seg |-> rows[1].seg]
        BY <4>1 DEF Run, l
      <4> QED
        BY <2>1, <3>1, <4>1, <4>2
    <3> QED
      BY <3>2, <3>3
  <2> QED
    BY <2>1, <2>6 DEF Run, more
<1> QED
  BY <1>1, <1>2

LEMMA RowKeeps ==
    ASSUME IInv, NEW gap \in 1..2, NEW jump \in 0..1,
           Row([t |-> row.t + gap, seg |-> row.seg + jump])
    PROVE  IInv'
<1> DEFINE r == [t |-> row.t + gap, seg |-> row.seg + jump]
           kept == IF buf # << >> /\ Breaks(r) THEN << >> ELSE buf
           rows == Append(kept, r)
<1>1. r \in Rows /\ row.t \in Nat /\ row.seg \in Nat /\ r.t = row.t + gap /\ r.seg = row.seg + jump
  BY DEF IInv, TypeOK, Rows
<1>2. /\ pc = "source" /\ row' = r
      /\ UNCHANGED <<records, model, predictedBy, pendingLabel, lastDecided, observed>>
  BY DEF Row, learner, strategy
<1>3. \/ ~Complete(rows) /\ buf' = rows /\ UNCHANGED <<bars, pc>>
      \/ /\ Complete(rows) /\ buf' = << >> /\ pc' = "learn"
         /\ bars' = Append(bars, [rows |-> rows, seg |-> rows[1].seg])
  BY Phases DEF Row
<1>4. kept \in Seq(Rows) /\ Run(kept) /\ Len(kept) < M
  BY Constants DEF IInv, TypeOK, Buffered, Run
<1>5. kept = << >> \/ r = [t |-> kept[Len(kept)].t + 1, seg |-> kept[Len(kept)].seg]
  <2> SUFFICES ASSUME buf # << >>, ~Breaks(r)
               PROVE  r = [t |-> buf[Len(buf)].t + 1, seg |-> buf[Len(buf)].seg]
    OBVIOUS
  <2>1. row = buf[Len(buf)]
    BY DEF IInv, Buffered
  <2>2. r.seg = row.seg /\ r.t - row.t <= 1
    BY <1>1 DEF Breaks
  <2>3. r.t = row.t + 1
    BY <1>1, <2>2
  <2> QED
    BY <1>1, <2>1, <2>2, <2>3
<1> HIDE DEF r, kept
<1>6. Run(rows) /\ rows \in Seq(Rows) /\ Len(rows) = Len(kept) + 1 /\ rows[Len(rows)] = r
  BY <1>1, <1>4, <1>5, RunGrows
<1>7. rows[1] \in Rows /\ rows[1].seg \in Nat
  <2>1. Len(rows) \in Nat \ {0}
    BY <1>4, <1>6
  <2>2. rows[1] \in Rows
    BY <1>6, <2>1
  <2> QED
    BY <2>2 DEF Rows
<1> HIDE DEF rows
<1>8. CASE ~Complete(rows) /\ buf' = rows /\ UNCHANGED <<bars, pc>>
  <2>1. TypeOK'
    BY <1>1, <1>2, <1>6, <1>8 DEF IInv, TypeOK
  <2>2. Buffered'
    BY <1>2, <1>4, <1>6, <1>8, Constants DEF Buffered, Run, Complete
  <2>3. Yielded' /\ OneRecord'
    BY <1>2, <1>8 DEF IInv, Yielded, OneRecord, Run
  <2>4. Learned'
    BY <1>2, <1>8 DEF IInv, Learned, LearnedBy
  <2>5. Predicted'
    BY <1>2, <1>8 DEF IInv, Predicted
  <2>6. Told'
    BY <1>2, <1>8 DEF IInv, Told
  <2> QED
    BY <2>1, <2>2, <2>3, <2>4, <2>5, <2>6 DEF IInv
<1>9. CASE /\ Complete(rows) /\ buf' = << >> /\ pc' = "learn"
           /\ bars' = Append(bars, [rows |-> rows, seg |-> rows[1].seg])
  <2> DEFINE bar == [rows |-> rows, seg |-> rows[1].seg]
  <2>1. bar \in [rows : Seq(Rows), seg : Nat] /\ bar.rows = rows /\ bar.seg = rows[1].seg
    BY <1>6, <1>7
  <2> HIDE DEF bar
  <2>2. /\ Len(bars) \in Nat /\ Len(bars') = Len(bars) + 1
        /\ bars'[Len(bars) + 1] = bar
        /\ \A b \in 1..Len(bars) : bars'[b] = bars[b]
        /\ bars' \in Seq([rows : Seq(Rows), seg : Nat])
    BY <1>9, <2>1 DEF IInv, TypeOK, bar
  <2>3. TypeOK'
    BY <1>1, <1>2, <1>9, <2>2 DEF IInv, TypeOK
  <2>4. Buffered'
    BY <1>9, Constants DEF Buffered, Run
  <2>5. Yielded'
    <3>1. Len(rows) = M
      BY <1>9 DEF Complete
    <3>2. ASSUME NEW b \in 1..Len(bars')
          PROVE  Len(bars'[b].rows) = M /\ Run(bars'[b].rows) /\ bars'[b].seg = bars'[b].rows[1].seg
      <4>1. CASE b = Len(bars) + 1
        BY <1>6, <2>1, <2>2, <3>1, <4>1
      <4>2. CASE b # Len(bars) + 1
        <5>1. b \in 1..Len(bars)
          BY <2>2, <4>2
        <5> QED
          BY <2>2, <5>1 DEF IInv, Yielded
      <4> QED
        BY <4>1, <4>2
    <3> QED
      BY <3>2 DEF Yielded, Run
  <2>6. OneRecord'
    BY <1>2, <1>9, <2>2 DEF IInv, OneRecord
  <2>7. Learned'
    <3>1. LearnedBy' = Len(bars) /\ LearnedBy = Len(bars)
      BY <1>2, <1>9, <2>2 DEF LearnedBy
    <3>2. ASSUME NEW n \in 1..Len(model)
          PROVE  /\ model[n].by = model[n].of + 1
                 /\ model[n].of > 0 /\ model[n].by <= Len(bars)
                 /\ bars'[model[n].by].seg = bars'[model[n].of].seg
      <4>1. /\ model[n].by = model[n].of + 1
            /\ model[n].of > 0 /\ model[n].by <= Len(bars)
            /\ bars[model[n].by].seg = bars[model[n].of].seg
        BY <3>1 DEF IInv, Learned
      <4>2. model[n].of \in Nat /\ model[n].by \in Nat
        BY Elements DEF IInv
      <4>3. model[n].of \in 1..Len(bars) /\ model[n].by \in 1..Len(bars)
        BY <2>2, <4>1, <4>2
      <4> QED
        BY <2>2, <4>1, <4>3
    <3> QED
      BY <1>2, <3>1, <3>2 DEF IInv, Learned
  <2>8. Predicted'
    BY <1>2, <1>9, <2>2 DEF IInv, Predicted
  <2>9. Told'
    BY <1>2, <1>9, <2>2 DEF IInv, Told
  <2> QED
    BY <2>3, <2>4, <2>5, <2>6, <2>7, <2>8, <2>9 DEF IInv
<1> QED
  BY <1>3, <1>8, <1>9

-----------------------------------------------------------------------------
(* What a bar that is being processed leaves alone                         *)
LEMMA SourceKept ==
    ASSUME IInv, UNCHANGED source
    PROVE  /\ Buffered' /\ Yielded'
           /\ row' = row /\ buf' = buf /\ bars' = bars
BY DEF IInv, Buffered, Yielded, Run, source

LEMMA NothingMaturesKeeps == IInv /\ NothingMatures => IInv'
<1> SUFFICES ASSUME IInv, NothingMatures PROVE IInv'
  OBVIOUS
<1>1. /\ pc = "learn" /\ pc' = "transform" /\ UNCHANGED source
      /\ UNCHANGED <<model, predictedBy, pendingLabel, lastDecided, observed>>
  BY Phases DEF NothingMatures, strategy
<1>2. Buffered' /\ Yielded' /\ row' = row /\ buf' = buf /\ bars' = bars
  BY <1>1, SourceKept
<1>3. records' = << >>
  <2>1. records \in {<< >>, <<Len(bars) - 1>>}
    BY <1>1 DEF IInv, OneRecord
  <2>2. \/ records' = records
        \/ records # << >> /\ records' = Tail(records)
    BY DEF NothingMatures, Rest
  <2>3. records = << >> => records' = << >>
    BY DEF NothingMatures
  <2> QED
    BY <2>1, <2>2, <2>3, OneElement DEF NothingMatures, Rest
<1>4. TypeOK' /\ OneRecord'
  BY <1>1, <1>2, <1>3 DEF IInv, TypeOK, OneRecord
<1>5. Learned'
  <2>1. LearnedBy = Len(bars) - 1 /\ LearnedBy' = Len(bars)
    BY <1>1, <1>2 DEF LearnedBy
  <2>2. \A n \in 1..Len(model) : model[n].by <= Len(bars)
    BY <2>1, Elements DEF IInv, Learned
  <2> QED
    BY <1>1, <1>2, <2>1, <2>2 DEF IInv, Learned
<1>6. Predicted' /\ Told'
  BY <1>1, <1>2 DEF IInv, Predicted, Told
<1> QED
  BY <1>2, <1>4, <1>5, <1>6 DEF IInv

LEMMA LearnKeeps ==
    ASSUME IInv, NEW learned \in BOOLEAN, NEW told \in BOOLEAN, Learn(learned, told)
    PROVE  IInv'
<1> DEFINE last == Len(bars) - 1
           label == [of |-> last, by |-> Len(bars)]
<1>1. /\ pc = "learn" /\ pc' = "transform" /\ UNCHANGED source
      /\ UNCHANGED <<predictedBy, lastDecided, observed>>
      /\ records # << >> /\ SameSegment(Head(records))
      /\ records' = Rest
  BY Phases DEF Learn
<1>2. Buffered' /\ Yielded' /\ row' = row /\ buf' = buf /\ bars' = bars
  BY <1>1, SourceKept
<1>3. /\ Len(bars) \in Nat /\ Len(bars) > 0 /\ records = <<last>>
      /\ Head(records) = last /\ last = lastDecided /\ last \in Nat /\ last > 0
      /\ records' = << >>
  <2>1. Len(bars) \in Nat /\ Len(bars) > 0 /\ records = <<last>>
    BY <1>1, Elements DEF IInv, OneRecord
  <2>2. Head(records) = last /\ records' = << >>
    BY <1>1, <2>1, OneElement DEF Rest
  <2>3. Head(records) = lastDecided /\ lastDecided > 0
    BY <1>1 DEF IInv, OneRecord
  <2> QED
    BY <2>1, <2>2, <2>3
<1>4. bars[last].seg = bars[Len(bars)].seg
  BY <1>1, <1>3 DEF SameSegment, Current
<1>5. model' = IF learned THEN Append(model, label) ELSE model
  BY <1>3 DEF Learn, Current
<1>6. pendingLabel' \in {last, pendingLabel}
  BY <1>3 DEF Learn
<1>7. label \in Labels /\ label.of = last /\ label.by = Len(bars)
  BY <1>3 DEF Labels
<1> HIDE DEF label
<1>8. model' \in Seq(Labels)
  <2>1. model \in Seq(Labels)
    BY DEF IInv, TypeOK
  <2> QED
    BY <1>5, <1>7, <2>1
<1>9. TypeOK'
  BY <1>1, <1>2, <1>3, <1>6, <1>8 DEF IInv, TypeOK
<1>10. OneRecord'
  BY <1>1, <1>2, <1>3 DEF OneRecord
<1>11. \A n \in 1..Len(model) :
          /\ model[n].of \in Nat /\ model[n].by \in Nat
          /\ model[n].by = model[n].of + 1 /\ model[n].of > 0
          /\ model[n].by <= last
          /\ bars[model[n].by].seg = bars[model[n].of].seg
  <2>1. LearnedBy = last
    BY <1>1 DEF LearnedBy
  <2> QED
    BY <2>1, Elements DEF IInv, Learned
<1>12. ASSUME learned PROVE Learned' /\ Predicted'
  <2>1. /\ Len(model) \in Nat /\ Len(model') = Len(model) + 1
        /\ model'[Len(model) + 1] = label
        /\ \A n \in 1..Len(model) : model'[n] = model[n]
    BY <1>5, <1>7, <1>12 DEF IInv, TypeOK
  <2>2. Learned'
    <3>1. LearnedBy' = Len(bars)
      BY <1>1, <1>2 DEF LearnedBy
    <3>2. ASSUME NEW n \in 1..Len(model')
          PROVE  /\ model'[n].by = model'[n].of + 1
                 /\ model'[n].of > 0 /\ model'[n].by <= Len(bars)
                 /\ bars[model'[n].by].seg = bars[model'[n].of].seg
      <4>1. CASE n = Len(model) + 1
        BY <1>3, <1>4, <1>7, <2>1, <4>1
      <4>2. CASE n # Len(model) + 1
        <5>1. n \in 1..Len(model)
          BY <2>1, <4>2
        <5> QED
          BY <1>3, <1>11, <2>1, <5>1
      <4> QED
        BY <4>1, <4>2
    <3>3. ASSUME NEW m \in 1..Len(model'), NEW n \in 1..Len(model'), m < n
          PROVE  model'[m].of < model'[n].of
      <4>1. m \in 1..Len(model) /\ model'[m] = model[m]
        BY <2>1, <3>3
      <4>2. CASE n = Len(model) + 1
        BY <1>3, <1>7, <1>11, <2>1, <4>1, <4>2
      <4>3. CASE n # Len(model) + 1
        <5>1. n \in 1..Len(model) /\ model'[n] = model[n]
          BY <2>1, <4>3
        <5> QED
          BY <3>3, <4>1, <5>1 DEF IInv, Learned
      <4> QED
        BY <4>2, <4>3
    <3> QED
      BY <1>2, <3>1, <3>2, <3>3 DEF Learned
  <2>3. Predicted'
    <3>1. ASSUME NEW b \in DOMAIN predictedBy
          PROVE  /\ b \in Nat /\ predictedBy[b] \in 0..Len(model')
                 /\ b <= last
                 /\ \A n \in 1..Len(model') : n <= predictedBy[b] <=> model'[n].by <= b
      <4>1. /\ b \in Nat /\ predictedBy[b] \in 0..Len(model) /\ b <= last
            /\ \A n \in 1..Len(model) : n <= predictedBy[b] <=> model[n].by <= b
        BY <1>1 DEF IInv, Predicted
      <4>2. ASSUME NEW n \in 1..Len(model') PROVE n <= predictedBy[b] <=> model'[n].by <= b
        <5>1. CASE n = Len(model) + 1
          BY <1>3, <1>7, <2>1, <4>1, <5>1
        <5>2. CASE n # Len(model) + 1
          <6>1. n \in 1..Len(model) /\ model'[n] = model[n]
            BY <2>1, <5>2
          <6> QED
            BY <4>1, <6>1
        <5> QED
          BY <5>1, <5>2
      <4> QED
        BY <2>1, <4>1, <4>2
    <3> QED
      BY <1>1, <1>2, <3>1 DEF Predicted
  <2> QED
    BY <2>2, <2>3
<1>13. ASSUME ~learned PROVE Learned' /\ Predicted'
  <2>1. model' = model
    BY <1>5, <1>13
  <2>2. Learned'
    BY <1>1, <1>2, <1>3, <1>11, <2>1 DEF IInv, Learned, LearnedBy
  <2>3. Predicted'
    BY <1>1, <1>2, <2>1 DEF IInv, Predicted
  <2> QED
    BY <2>2, <2>3
<1>14. Told'
  <2>1. pendingLabel' \in {None, lastDecided}
    BY <1>3, <1>6 DEF IInv, Told
  <2> QED
    BY <1>1, <1>2, <2>1 DEF IInv, Told
<1>15. Learned' /\ Predicted'
  BY <1>12, <1>13
<1> QED
  BY <1>2, <1>9, <1>10, <1>14, <1>15 DEF IInv

LEMMA SkipKeeps == IInv /\ (SkipBar \/ FeatureFails) => IInv'
<1> SUFFICES ASSUME IInv, SkipBar \/ FeatureFails PROVE IInv'
  OBVIOUS
<1>1. /\ pc = "transform" /\ pc' = "source" /\ UNCHANGED source
      /\ UNCHANGED <<records, model, predictedBy, pendingLabel, lastDecided, observed>>
  BY Phases DEF SkipBar, FeatureFails, learner, strategy
<1>2. Buffered' /\ Yielded' /\ row' = row /\ buf' = buf /\ bars' = bars
  BY <1>1, SourceKept
<1>3. TypeOK' /\ OneRecord'
  BY <1>1, <1>2 DEF IInv, TypeOK, OneRecord
<1>4. Learned'
  BY <1>1, <1>2 DEF IInv, Learned, LearnedBy
<1>5. Predicted' /\ Told'
  BY <1>1, <1>2 DEF IInv, TypeOK, Predicted, Told
<1> QED
  BY <1>2, <1>3, <1>4, <1>5 DEF IInv

LEMMA TransformKeeps == IInv /\ TransformOne => IInv'
<1> SUFFICES ASSUME IInv, TransformOne PROVE IInv'
  OBVIOUS
<1> DEFINE now == Len(bars)
           entry == [entered |-> lastDecided, label |-> pendingLabel]
<1>1. /\ pc = "transform" /\ pc' = "source" /\ UNCHANGED source /\ model' = model
      /\ pendingLabel' = None /\ lastDecided' = now
      /\ observed' = Append(observed, entry)
  BY Phases DEF TransformOne, Consumed, Current
<1>2. Buffered' /\ Yielded' /\ row' = row /\ buf' = buf /\ bars' = bars
  BY <1>1, SourceKept
<1>3. now \in Nat /\ now > 0 /\ records = << >>
  BY <1>1 DEF IInv, TypeOK, OneRecord
<1>4. records' = <<now>>
  <2>1. Append(records, Current) = <<now>> /\ Len(<<now>>) = 1
    BY <1>3 DEF Current
  <2>2. ~(1 > MaxBuffer)
    BY Constants
  <2> QED
    BY <2>1, <2>2 DEF TransformOne
<1>5. /\ lastDecided \in Nat /\ lastDecided <= now - 1
      /\ pendingLabel \in {None, lastDecided} /\ pendingLabel \in Nat \cup {None}
  BY <1>1 DEF IInv, TypeOK, Told
<1>6. /\ entry \in Observations
      /\ entry.entered = lastDecided /\ entry.label = pendingLabel
  BY <1>5 DEF Observations
<1> HIDE DEF entry
<1>7. /\ observed' \in Seq(Observations)
      /\ Len(observed) \in Nat /\ Len(observed') = Len(observed) + 1
      /\ observed'[Len(observed) + 1] = entry
      /\ \A k \in 1..Len(observed) : observed'[k] = observed[k]
  BY <1>1, <1>6 DEF IInv, TypeOK
<1>8. TypeOK' /\ OneRecord'
  BY <1>1, <1>2, <1>3, <1>4, <1>7 DEF IInv, TypeOK, OneRecord
<1>9. Learned'
  BY <1>1, <1>2 DEF IInv, Learned, LearnedBy
<1>10. Predicted'
  <2>1. \A n \in 1..Len(model) : model[n].by \in Nat /\ model[n].by <= now
    BY <1>1, Elements DEF IInv, Learned, LearnedBy
  <2>2. predictedBy' = Put(predictedBy, now, Len(model)) \/ predictedBy' = predictedBy
    BY DEF TransformOne, Current
  <2>3. ASSUME NEW b \in DOMAIN predictedBy'
        PROVE  /\ b \in Nat /\ predictedBy'[b] \in 0..Len(model) /\ b <= now
               /\ \A n \in 1..Len(model) : n <= predictedBy'[b] <=> model[n].by <= b
    <3>1. \/ b = now /\ predictedBy'[b] = Len(model)
          \/ b \in DOMAIN predictedBy /\ predictedBy'[b] = predictedBy[b]
      BY <2>2 DEF Put
    <3>2. CASE b = now /\ predictedBy'[b] = Len(model)
      <4>1. Len(model) \in Nat
        BY DEF IInv, TypeOK
      <4> QED
        BY <1>3, <2>1, <3>2, <4>1
    <3>3. CASE b \in DOMAIN predictedBy /\ predictedBy'[b] = predictedBy[b]
      BY <1>1, <1>3, <3>3 DEF IInv, Predicted
    <3> QED
      BY <3>1, <3>2, <3>3
  <2> QED
    BY <1>1, <1>2, <2>3 DEF Predicted
<1>11. Told'
  <2>1. \A k \in 1..Len(observed) :
           /\ observed[k].label # None => observed[k].label = observed[k].entered
           /\ observed[k].entered \in Nat /\ observed[k].entered < lastDecided
    BY Elements DEF IInv, Told
  <2>2. ASSUME NEW k \in 1..Len(observed')
        PROVE  /\ observed'[k].label # None => observed'[k].label = observed'[k].entered
               /\ observed'[k].entered < now
    <3>1. CASE k = Len(observed) + 1
      BY <1>3, <1>5, <1>6, <1>7, <3>1
    <3>2. CASE k # Len(observed) + 1
      <4>1. k \in 1..Len(observed) /\ observed'[k] = observed[k]
        BY <1>7, <3>2
      <4> QED
        BY <1>3, <1>5, <2>1, <4>1
    <3> QED
      BY <3>1, <3>2
  <2>3. ASSUME NEW j \in 1..Len(observed'), NEW k \in 1..Len(observed'), j < k
        PROVE  observed'[j].entered < observed'[k].entered
    <3>1. j \in 1..Len(observed) /\ observed'[j] = observed[j]
      BY <1>7, <2>3
    <3>2. CASE k = Len(observed) + 1
      BY <1>6, <1>7, <2>1, <3>1, <3>2
    <3>3. CASE k # Len(observed) + 1
      <4>1. k \in 1..Len(observed) /\ observed'[k] = observed[k]
        BY <1>7, <3>3
      <4> QED
        BY <2>3, <3>1, <4>1 DEF IInv, Told
    <3> QED
      BY <3>2, <3>3
  <2> QED
    BY <1>1, <1>2, <1>3, <2>2, <2>3 DEF Told
<1> QED
  BY <1>2, <1>8, <1>9, <1>10, <1>11 DEF IInv

-----------------------------------------------------------------------------
LEMMA InitHolds == Init => IInv
<1> SUFFICES ASSUME Init PROVE IInv
  OBVIOUS
<1>1. TypeOK /\ OneRecord
  BY DEF Init, TypeOK, OneRecord, Rows
<1>2. Buffered /\ Yielded
  BY Constants DEF Init, Buffered, Yielded, Run
<1>3. Learned /\ Predicted /\ Told
  BY DEF Init, Learned, LearnedBy, Predicted, Told
<1> QED
  BY <1>1, <1>2, <1>3 DEF IInv

LEMMA StepKeeps == IInv /\ [Next]_vars => IInv'
<1> SUFFICES ASSUME IInv, [Next]_vars PROVE IInv'
  OBVIOUS
<1>1. CASE UNCHANGED vars
  <2>1. UNCHANGED source
    BY <1>1 DEF vars, source
  <2>2. Buffered' /\ Yielded'
    BY <2>1, SourceKept
  <2>3. TypeOK' /\ OneRecord'
    BY <1>1 DEF vars, IInv, TypeOK, OneRecord
  <2>4. Learned' /\ Predicted' /\ Told'
    BY <1>1 DEF vars, IInv, Learned, LearnedBy, Predicted, Told
  <2> QED
    BY <2>2, <2>3, <2>4 DEF IInv
<1>2. CASE ReadRow
  BY <1>2, RowKeeps DEF ReadRow
<1>3. CASE LearnOne
  BY <1>3, LearnKeeps DEF LearnOne
<1> QED
  BY <1>1, <1>2, <1>3, NothingMaturesKeeps, SkipKeeps, TransformKeeps DEF Next

(* The inductive invariant, for every stream of rows.                      *)
THEOREM Invariance == Spec => []IInv
BY InitHolds, StepKeeps, PTL DEF Spec

(* ParquetReplaySource.stream: bars are of consecutive minutes of one      *)
(* segment, whatever rows are missing.                                     *)
THEOREM ContiguousBars == Spec => []BarsAreContiguous
<1>1. IInv => BarsAreContiguous
  BY DEF IInv, Yielded, Run, BarsAreContiguous, Current
<1> QED
  BY <1>1, Invariance, PTL

(* LabelBuffer.maybe_emit and Pipeline.learn_one: labels are of the bar    *)
(* before, of its segment, once each and in order.                         *)
THEOREM LabelsAreNext == Spec => []LabelIsNextBar
<1>1. IInv => LabelIsNextBar
  BY DEF IInv, Learned, LabelIsNextBar
<1> QED
  BY <1>1, Invariance, PTL

(* Engine._process_one: the forest predicts a bar with all labels given up *)
(* to it and none given later.                                             *)
THEOREM PredictsThenLearns == Spec => []PredictThenLearn
<1>1. IInv => PredictThenLearn
  BY DEF IInv, Predicted, PredictThenLearn
<1> QED
  BY <1>1, Invariance, PTL

(* CompositeAdaptiveStrategy.update and decide: the controller never takes *)
(* the label of one bar with the entry of another.                         *)
THEOREM ControllerStaysInStep == Spec => []ControllerInStep
<1>1. IInv => ControllerInStep
  BY DEF IInv, Told, ControllerInStep
<1> QED
  BY <1>1, Invariance, PTL
=============================================================================
