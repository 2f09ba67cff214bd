--------------------------- MODULE ExperimentProofs ---------------------------
(***************************************************************************)
(* Proofs about the experiments: first Experiment, for every length of bar *)
(* and of feed, every set of missing minutes, every window and all         *)
(* parameters of the calibration; then Protocol and the Scores it reports, *)
(* for every number of rows, folds, bars and bins, every window and scale. *)
(*                                                                         *)
(* LoopOK places the next check of the calibration loop: it lies ahead of  *)
(* the errors taken, a whole number of half windows after the first that   *)
(* is allowed, as many as there are entries in the trace.  PassOK relates  *)
(* the two passes: what was paired comes from bars of the pre-pass, and    *)
(* the main pass, which reads on where that ended, makes the same bars     *)
(* first.                                                                  *)
(*                                                                         *)
(* ProtocolInv says what an experiment has collected by each of its        *)
(* stages.  That its scores are those of their definitions is shown from   *)
(* it: what a loop computes is described position by position, a step at a *)
(* time up to the last (Upwards), and a rank, a bin, a running sum or a    *)
(* fold of that is then compared with the set it should measure.           *)
(***************************************************************************)
EXTENDS Experiment, Protocol, FiniteSetTheorems, SequenceTheorems, WellFoundedInduction,
        TLAPS

LEMMA ConstantsAre ==
    /\ M \in Nat \ {0} /\ LastMinute \in Nat
    /\ StabilityWindow \in Nat \ {0} /\ MinWarmupBars \in Nat \ {0}
    /\ MaxWarmupBars \in Nat \ {0} /\ MaxPairs \in Nat \ {0} /\ MinRows \in Nat \ {0}
BY ExperimentAssumption

(* A nonempty set of naturals has a least element. *)
LEMMA LeastExists ==
    ASSUME NEW S \in SUBSET Nat, S # {}
    PROVE  \E x \in S : \A y \in S : x <= y
<1>1. PICK x \in S : \A y \in S : ~(<<y, x>> \in OpToRel(<, Nat))
    BY NatLessThanWellFounded, WFMin
<1>2. \A y \in S : ~(y < x)
    BY <1>1, Zenon DEF OpToRel
<1>3. \A y \in S : x <= y
    BY <1>2
<1> QED
    BY <1>3

-----------------------------------------------------------------------------
(* The calibration loop.                                                   *)

CheckedAt(n, f, h) == \E i \in 0 .. n : n = f + i * h
Checks == {n \in 1 .. Len(errors) : CheckedAt(n, FirstAllowed, HalfWindow)}
NextAt == FirstAllowed + Len(trace) * HalfWindow

(* What was found so far; FirstAllowed moves while pairs come in, before   *)
(* there is an error                                                       *)
FoundOK ==
    /\ pairs \in Seq(Int)
    /\ errors \in Seq(0 .. 1)
    /\ Len(trace) \in Nat /\ (\E S : trace \in Seq(S))
    /\ converged \in BOOLEAN
    /\ Len(errors) <= MaxWarmupBars
    /\ Len(trace) = Cardinality(Checks)
    /\ \A n \in Checks : Stable(SubSeq(errors, 1, n)) <=> converged /\ n = Len(errors)
    /\ converged => Len(errors) \in Checks

AheadOK ==
    /\ nextCheck \in Nat
    /\ Len(errors) < NextAt
    /\ Larger(FirstAllowed, nextCheck) = NextAt
    /\ Len(trace) > 0 => NextAt - HalfWindow <= Len(errors)

LoopOK ==
    /\ FoundOK
    /\ phase = "pre" => errors = <<>> /\ trace = <<>> /\ ~converged
    /\ phase = "calibrate" /\ ~converged => AheadOK

LEMMA LoopNumbers ==
    ASSUME pairs \in Seq(Int)
    PROVE  FirstAllowed \in Nat \ {0} /\ HalfWindow \in Nat \ {0}
<1>1. Len(pairs) \in Nat
    OBVIOUS
<1>2. 2 * StabilityWindow \in Nat \ {0} /\ StabilityWindow \div 2 \in Nat
    BY ConstantsAre
<1> QED
    BY <1>1, <1>2, ConstantsAre DEF FirstAllowed, HalfWindow, Larger

(* The first number above n that is a check is the next one. *)
LEMMA NextIsCheck ==
    ASSUME NEW f \in Nat, NEW h \in Nat \ {0}, NEW c \in Nat, NEW m \in Nat,
           NEW at \in Nat, at = f + c * h, m <= at, c = 0 \/ at - h < m
    PROVE  CheckedAt(m, f, h) <=> m = at
<1>1. ASSUME NEW i \in 0 .. m, m = f + i * h
      PROVE  i = c
  <2>1. CASE i > c
    <3>1. (c + 1) * h <= i * h
        BY <2>1
    <3>2. (c + 1) * h = c * h + h
        OBVIOUS
    <3> QED
        BY <1>1, <3>1, <3>2
  <2>2. CASE i < c
    <3>1. (i + 1) * h <= c * h
        BY <2>2
    <3>2. (i + 1) * h = i * h + h
        OBVIOUS
    <3> QED
        BY <1>1, <2>2, <3>1, <3>2
  <2> QED
    BY <2>1, <2>2
<1>2. ASSUME m = at
      PROVE  c \in 0 .. m /\ m = f + c * h
  <2>1. c <= c * h
    OBVIOUS
  <2> QED
    BY <1>2, <2>1
<1> QED
    BY <1>1, <1>2 DEF CheckedAt

LEMMA ChecksFinite ==
    IsFiniteSet(Checks) /\ Cardinality(Checks) \in Nat
<1>1. IsFiniteSet(1 .. Len(errors))
    BY FS_Interval
<1> QED
    BY <1>1, FS_Subset, FS_CardinalityType DEF Checks

(* A step of the loop keeps what was found and where the next check is. *)
LEMMA ObserveKeepsLoop ==
    ASSUME LoopOK, Observe
    PROVE  LoopOK'
<1> DEFINE n == Len(errors)
           f == FirstAllowed
           h == HalfWindow
           c == Len(trace)
<1>1. PICK e \in 0 .. 1 :
          LET es == Append(errors, e)
              m == Len(es)
          IN  /\ errors' = es
              /\ IF m >= f /\ m >= nextCheck
                 THEN /\ trace' = Append(trace, Brier(es, m - StabilityWindow + 1, m))
                      /\ converged' = Stable(es)
                      /\ nextCheck' = m + h
                 ELSE UNCHANGED <<trace, converged, nextCheck>>
    BY DEF Observe
<1>2. /\ phase = "calibrate" /\ phase' = phase /\ pairs' = pairs /\ driver' = driver
      /\ ~converged /\ n < MaxWarmupBars
  <2>1. n \in Nat /\ MaxWarmupBars \in Nat
    BY ConstantsAre DEF LoopOK, FoundOK
  <2> QED
    BY <2>1 DEF Observe, Stopped, feed
<1>3. FoundOK /\ AheadOK
    BY <1>2 DEF LoopOK
<1>4. f \in Nat \ {0} /\ h \in Nat \ {0} /\ f' = f /\ h' = h
    BY <1>2, <1>3, LoopNumbers DEF FoundOK, FirstAllowed, HalfWindow
<1>5. n \in Nat /\ c \in Nat /\ errors' = Append(errors, e) /\ Len(errors') = n + 1
      /\ errors' \in Seq(0 .. 1)
    BY <1>1, <1>3 DEF FoundOK
<1>6. n + 1 >= f /\ n + 1 >= nextCheck <=> n + 1 = f + c * h
  <2>1. /\ Larger(f, nextCheck) = f + c * h /\ n < f + c * h /\ nextCheck \in Nat
    BY <1>3 DEF AheadOK, NextAt
  <2>2. c * h \in Nat
    BY <1>4, <1>5
  <2> QED
    BY <1>4, <1>5, <2>1, <2>2 DEF Larger
<1>7. \A k \in 1 .. n : SubSeq(errors', 1, k) = SubSeq(errors, 1, k)
  <2>1. ASSUME NEW k \in 1 .. n PROVE SubSeq(errors', 1, k) = SubSeq(errors, 1, k)
    BY <1>3, <1>5 DEF FoundOK
  <2> QED
    BY <2>1
<1>8. CheckedAt(n + 1, f, h) <=> n + 1 = f + c * h
  <2> DEFINE m == n + 1
             at == f + c * h
  <2>1. m <= at /\ (c = 0 \/ at - h < m)
    BY <1>3, <1>4, <1>5 DEF AheadOK, NextAt
  <2>2. f \in Nat /\ h \in Nat \ {0} /\ c \in Nat /\ m \in Nat /\ at \in Nat
    BY <1>4, <1>5
  <2>3. at = f + c * h
    OBVIOUS
  <2> HIDE DEF n, f, h, c, m, at
  <2>4. CheckedAt(m, f, h) <=> m = at
    BY <2>1, <2>2, <2>3, NextIsCheck
  <2> QED
    BY <2>4 DEF m, at
<1>9. Checks' = IF n + 1 = f + c * h THEN Checks \cup {n + 1} ELSE Checks
  <2>1. Checks' = {k \in 1 .. n + 1 : CheckedAt(k, f, h)}
    BY <1>4, <1>5 DEF Checks
  <2>2. Checks = {k \in 1 .. n : CheckedAt(k, f, h)}
    BY DEF Checks
  <2>3. 1 .. n + 1 = (1 .. n) \cup {n + 1}
    BY <1>5
  <2> HIDE DEF n, f, h, c
  <2> QED
    BY <1>8, <2>1, <2>2, <2>3
<1>10. IsFiniteSet(Checks) /\ n + 1 \notin Checks /\ Len(trace) = Cardinality(Checks)
      /\ \A k \in Checks : k \in 1 .. n /\ ~Stable(SubSeq(errors, 1, k))
  <2>1. \A k \in Checks : k \in 1 .. n
    BY DEF Checks
  <2> QED
    BY <1>2, <1>3, <1>5, <2>1, ChecksFinite DEF FoundOK
<1>11. MaxWarmupBars \in Nat /\ n + 1 <= MaxWarmupBars
    BY <1>2, <1>5, ConstantsAre
<1>12. \A k \in Checks : ~Stable(SubSeq(errors', 1, k))
    BY <1>7, <1>10
<1>13. CASE n + 1 = f + c * h
  <2> DEFINE m == Len(Append(errors, e))
             x == Brier(Append(errors, e), m - StabilityWindow + 1, m)
  <2>0. m = n + 1
    BY <1>5
  <2>1. trace' = Append(trace, x) /\ converged' = Stable(errors') /\ nextCheck' = n + 1 + h
    BY <1>1, <1>5, <1>6, <1>13, <2>0
  <2> HIDE DEF x
  <2>2. PICK S : trace \in Seq(S)
    BY <1>3 DEF FoundOK
  <2>3. trace \in Seq(S \cup {x}) /\ x \in S \cup {x}
    BY <2>2
  <2>4. trace' \in Seq(S \cup {x}) /\ Len(trace') = c + 1
    BY <2>1, <2>3
  <2>5. Checks' = Checks \cup {n + 1} /\ Cardinality(Checks') = c + 1
    BY <1>9, <1>10, <1>13, FS_AddElement
  <2>6. SubSeq(errors', 1, n + 1) = errors'
    BY <1>5
  <2>7. converged' \in BOOLEAN
    BY <2>1 DEF Stable
  <2>8. \A k \in Checks' : Stable(SubSeq(errors', 1, k)) <=> converged' /\ k = n + 1
    BY <1>10, <1>12, <2>1, <2>5, <2>6
  <2>9. FoundOK'
    BY <1>2, <1>3, <1>5, <1>11, <2>4, <2>5, <2>7, <2>8 DEF FoundOK
  <2>10. (c + 1) * h = c * h + h
    BY <1>4, <1>5
  <2>11. NextAt' = n + 1 + h
    BY <1>4, <1>5, <1>13, <2>4, <2>10 DEF NextAt
  <2>12. AheadOK'
    <3>1. n + 1 >= f
        BY <1>6, <1>13
    <3> QED
        BY <1>4, <1>5, <2>1, <2>11, <3>1 DEF AheadOK, Larger
  <2> QED
    BY <1>2, <2>9, <2>12 DEF LoopOK
<1>14. CASE n + 1 # f + c * h
  <2>1. trace' = trace /\ converged' = converged /\ nextCheck' = nextCheck /\ Checks' = Checks
    BY <1>1, <1>5, <1>6, <1>9, <1>14
  <2>2. FoundOK'
    <3>1. \A k \in Checks' : Stable(SubSeq(errors', 1, k)) <=> converged' /\ k = n + 1
        BY <1>2, <1>12, <2>1
    <3> QED
        BY <1>2, <1>3, <1>5, <1>11, <2>1, <3>1 DEF FoundOK
  <2>3. NextAt' = NextAt
    BY <1>4, <2>1 DEF NextAt
  <2>4. NextAt \in Nat /\ n < NextAt /\ n + 1 # NextAt
        /\ (Len(trace) > 0 => NextAt - h <= n)
    BY <1>3, <1>4, <1>5, <1>14 DEF AheadOK, NextAt
  <2>5. AheadOK'
    BY <1>3, <1>4, <1>5, <2>1, <2>3, <2>4 DEF AheadOK
  <2> QED
    BY <1>2, <2>2, <2>5 DEF LoopOK
<1> QED
    BY <1>13, <1>14

-----------------------------------------------------------------------------
(* The replay source.                                                      *)

Blank == [buf |-> <<>>, bars |-> <<>>]

IsReplay(g, first, last) ==
    g = [t \in first - 1 .. last |->
            IF t < first THEN Blank
            ELSE IF t \in missing THEN g[t - 1] ELSE Fed(g[t - 1], t)]

(* There is such a function, as there is one for a minute less. *)
LEMMA ReplayExists ==
    ASSUME NEW first \in Nat, NEW n \in Nat
    PROVE  \E g : IsReplay(g, first, first - 1 + n)
<1> DEFINE D(k) == first - 1 .. first - 1 + k
           Bad == {k \in Nat : ~\E g : IsReplay(g, first, first - 1 + k)}
<1>1. SUFFICES ASSUME Bad # {} PROVE FALSE
    OBVIOUS
<1>2. PICK m \in Bad : \A k \in Bad : m <= k
  <2>1. Bad \in SUBSET Nat
    OBVIOUS
  <2> HIDE DEF Bad
  <2> QED
    BY <1>1, <2>1, LeastExists
<1>3. CASE m = 0
  <2> DEFINE g == [t \in D(0) |-> Blank]
  <2>1. \A t \in D(0) : t < first
    OBVIOUS
  <2>2. g = [t \in D(0) |-> IF t < first THEN Blank
               ELSE IF t \in missing THEN g[t - 1] ELSE Fed(g[t - 1], t)]
    <3> HIDE DEF D
    <3> QED
        BY <2>1, Zenon
  <2>3. IsReplay(g, first, first - 1 + 0)
    BY <2>2 DEF IsReplay
  <2>4. \E k : IsReplay(k, first, first - 1 + 0)
    BY <2>3, Zenon
  <2> QED
    BY <1>2, <1>3, <2>4
<1>4. CASE m # 0
  <2>1. m - 1 \in Nat /\ m - 1 \notin Bad
    <3>1. m \in Nat
        OBVIOUS
    <3>2. m - 1 \in Nat /\ ~(m <= m - 1)
        BY <1>4, <3>1
    <3> HIDE DEF Bad
    <3> QED
        BY <1>2, <3>2
  <2>2. PICK g : IsReplay(g, first, first - 1 + (m - 1))
    BY <2>1
  <2> DEFINE h == [t \in D(m) |->
                    IF t < first THEN Blank
                    ELSE IF t \in missing THEN g[t - 1] ELSE Fed(g[t - 1], t)]
  <2>3. \A t \in D(m - 1) : h[t] = g[t]
    <3>1. D(m - 1) \subseteq D(m)
        BY <2>1
    <3>2. \A t \in D(m - 1) : g[t] =
            IF t < first THEN Blank
            ELSE IF t \in missing THEN g[t - 1] ELSE Fed(g[t - 1], t)
        BY <2>2, Zenon DEF IsReplay
    <3>3. \A t \in D(m) : h[t] =
            IF t < first THEN Blank
            ELSE IF t \in missing THEN g[t - 1] ELSE Fed(g[t - 1], t)
        OBVIOUS
    <3> HIDE DEF D, h
    <3> QED
        BY <3>1, <3>2, <3>3, Zenon
  <2>4. \A t \in D(m) : ~(t < first) => t - 1 \in D(m - 1)
    BY <2>1
  <2> DEFINE k == [t \in D(m) |->
                    IF t < first THEN Blank
                    ELSE IF t \in missing THEN h[t - 1] ELSE Fed(h[t - 1], t)]
  <2>5. \A t \in D(m) : h[t] = k[t]
    <3>1. \A t \in D(m) : h[t] =
            IF t < first THEN Blank
            ELSE IF t \in missing THEN g[t - 1] ELSE Fed(g[t - 1], t)
        OBVIOUS
    <3>2. \A t \in D(m) : k[t] =
            IF t < first THEN Blank
            ELSE IF t \in missing THEN h[t - 1] ELSE Fed(h[t - 1], t)
        OBVIOUS
    <3>3. \A t \in D(m) : ~(t < first) => h[t - 1] = g[t - 1]
        BY <2>3, <2>4
    <3> HIDE DEF D, h, k
    <3> QED
        BY <3>1, <3>2, <3>3, Zenon
  <2>6. h = k
    <3>1. h = [t \in D(m) |-> h[t]] /\ k = [t \in D(m) |-> k[t]]
        OBVIOUS
    <3> HIDE DEF D, h, k
    <3> QED
        BY <2>5, <3>1, Zenon
  <2>7. IsReplay(h, first, first - 1 + m)
    BY <2>6 DEF IsReplay
  <2> QED
    BY <1>2, <2>7
<1> QED
    BY <1>3, <1>4

LEMMA ReplayIs ==
    ASSUME NEW first \in 0 .. LastMinute
    PROVE  \A t \in first - 1 .. LastMinute :
              Replay(first)[t] =
                 IF t < first THEN Blank
                 ELSE IF t \in missing THEN Replay(first)[t - 1]
                 ELSE Fed(Replay(first)[t - 1], t)
<1> DEFINE it == CHOOSE g : IsReplay(g, first, LastMinute)
<1>1. \E g : IsReplay(g, first, LastMinute)
  <2> DEFINE n == LastMinute - first + 1
  <2>1. n \in Nat /\ first - 1 + n = LastMinute /\ first \in Nat
    BY ConstantsAre
  <2> HIDE DEF n
  <2>2. PICK g : IsReplay(g, first, first - 1 + n)
    BY <2>1, ReplayExists
  <2>3. IsReplay(g, first, LastMinute)
    BY <2>1, <2>2
  <2> QED
    BY <2>3
<1>2. IsReplay(it, first, LastMinute)
    BY <1>1, Zenon
<1>3. Replay(first) = it
    BY DEF Replay, IsReplay, Blank
<1> HIDE DEF it
<1>4. \A t \in first - 1 .. LastMinute :
         it[t] = IF t < first THEN Blank
                 ELSE IF t \in missing THEN it[t - 1] ELSE Fed(it[t - 1], t)
    BY <1>2, Zenon DEF IsReplay
<1> QED
    BY <1>3, <1>4, Zenon

(* What the source has made by a minute: bars of M minutes, the last of    *)
(* each no earlier than if none had been missing, in their order.          *)
SourceOK(acc, first, t) ==
    /\ acc = [buf |-> acc.buf, bars |-> acc.bars]
    /\ acc.buf \in Seq(Int) /\ acc.bars \in Seq(Seq(Int))
    /\ Len(acc.buf) < M
    /\ Len(acc.bars) * M + Len(acc.buf) <= t - first + 1
    /\ \A j \in 1 .. Len(acc.bars) :
          /\ Len(acc.bars[j]) = M
          /\ Last(acc.bars[j]) \in Int
          /\ Last(acc.bars[j]) <= t
          /\ Last(acc.bars[j]) >= first + j * M - 1
    /\ \A j, k \in 1 .. Len(acc.bars) : j <= k => Last(acc.bars[j]) <= Last(acc.bars[k])

(* A bar more at most, and the bars before are as they were. *)
Extends(new, old) ==
    /\ Len(old) <= Len(new)
    /\ \A j \in 1 .. Len(old) : new[j] = old[j]

LEMMA FedKeeps ==
    ASSUME NEW first \in Int, NEW t \in Int, NEW acc, SourceOK(acc, first, t - 1)
    PROVE  SourceOK(Fed(acc, t), first, t) /\ Extends(Fed(acc, t).bars, acc.bars)
<1> DEFINE kept == IF acc.buf # <<>> /\ t - Last(acc.buf) > 1 THEN <<>> ELSE acc.buf
           buf == Append(kept, t)
           n == Len(acc.bars)
<1>0. M \in Nat \ {0}
    BY ConstantsAre
<1>1. acc.buf \in Seq(Int) /\ acc.bars \in Seq(Seq(Int)) /\ Len(acc.buf) < M
      /\ n * M + Len(acc.buf) <= (t - 1) - first + 1
    BY DEF SourceOK
<1>2. /\ \A j \in 1 .. n : /\ Len(acc.bars[j]) = M
                           /\ Last(acc.bars[j]) \in Int
                           /\ Last(acc.bars[j]) <= t - 1
                           /\ Last(acc.bars[j]) >= first + j * M - 1
      /\ \A j, k \in 1 .. n : j <= k => Last(acc.bars[j]) <= Last(acc.bars[k])
    BY DEF SourceOK
<1>3. kept \in Seq(Int) /\ Len(kept) <= Len(acc.buf) /\ Len(kept) \in Nat /\ n \in Nat
    BY <1>1
<1> HIDE DEF kept
<1>4. buf \in Seq(Int) /\ Len(buf) = Len(kept) + 1 /\ buf[Len(buf)] = t
    BY <1>3
<1>5. Fed(acc, t) = IF Len(buf) = M THEN [buf |-> <<>>, bars |-> Append(acc.bars, buf)]
                    ELSE [buf |-> buf, bars |-> acc.bars]
    BY DEF Fed, kept
<1> HIDE DEF buf
<1>6. CASE Len(buf) = M
  <2> DEFINE bars == Append(acc.bars, buf)
  <2>1. Fed(acc, t) = [buf |-> <<>>, bars |-> bars]
    BY <1>5, <1>6
  <2>2. bars \in Seq(Seq(Int)) /\ Len(bars) = n + 1 /\ bars[n + 1] = buf
        /\ \A j \in 1 .. n : bars[j] = acc.bars[j]
    BY <1>1, <1>4
  <2> HIDE DEF bars, n
  <2>3. (n + 1) * M = n * M + M /\ n * M \in Int
    BY <1>0, <1>3
  <2>4. (n + 1) * M <= t - first + 1
    <3>1. PICK p \in Int : p = n * M
        BY <2>3
    <3>2. p + Len(acc.buf) <= (t - 1) - first + 1 /\ Len(acc.buf) \in Nat
        BY <1>1, <3>1 DEF n
    <3>3. M <= Len(acc.buf) + 1
        BY <1>0, <1>3, <1>4, <1>6, <3>2
    <3> QED
        BY <1>0, <2>3, <3>1, <3>2, <3>3
  <2>5. Last(bars[n + 1]) = t
    BY <1>4, <2>2 DEF Last
  <2>6. ASSUME NEW j \in 1 .. n + 1
        PROVE  /\ Len(bars[j]) = M
               /\ Last(bars[j]) \in Int
               /\ Last(bars[j]) <= t
               /\ Last(bars[j]) >= first + j * M - 1
    <3>1. CASE j = n + 1
      <4>1. t >= first + (n + 1) * M - 1
        BY <2>3, <2>4, <1>0
      <4> QED
        BY <1>6, <2>2, <2>5, <3>1, <4>1
    <3>2. CASE j # n + 1
      <4>1. j \in 1 .. n /\ bars[j] = acc.bars[j]
        BY <1>3, <2>2, <3>2
      <4>2. Last(acc.bars[j]) <= t
        BY <1>2, <4>1
      <4> QED
        BY <1>2, <4>1, <4>2
    <3> QED
        BY <3>1, <3>2
  <2>7. ASSUME NEW j \in 1 .. n + 1, NEW k \in 1 .. n + 1, j <= k
        PROVE  Last(bars[j]) <= Last(bars[k])
    <3>1. CASE k = n + 1
        BY <2>5, <2>6, <3>1
    <3>2. CASE k # n + 1
      <4>1. j \in 1 .. n /\ k \in 1 .. n
        BY <1>3, <2>7, <3>2
      <4>2. bars[j] = acc.bars[j] /\ bars[k] = acc.bars[k]
        BY <2>2, <4>1
      <4> QED
        BY <1>2, <2>7, <4>1, <4>2
    <3> QED
        BY <3>1, <3>2
  <2>8. SourceOK([buf |-> <<>>, bars |-> bars], first, t)
    <3> DEFINE new == [buf |-> <<>>, bars |-> bars]
    <3>1. /\ new = [buf |-> new.buf, bars |-> new.bars] /\ new.bars = bars
          /\ new.buf \in Seq(Int) /\ Len(new.buf) = 0
        OBVIOUS
    <3>2. Len(bars) * M + 0 <= t - first + 1
        BY <2>2, <2>3, <2>4, <1>0
    <3> HIDE DEF new
    <3>3. Len(new.bars) * M + Len(new.buf) <= t - first + 1
        BY <3>1, <3>2
    <3>4. Len(new.bars) = n + 1 /\ new.bars \in Seq(Seq(Int)) /\ Len(new.buf) < M
        BY <1>0, <2>2, <3>1
    <3>5. SourceOK(new, first, t)
        BY <2>6, <2>7, <3>1, <3>3, <3>4 DEF SourceOK
    <3> QED
        BY <3>5 DEF new
  <2>9. Extends(bars, acc.bars)
    <3>1. n = Len(acc.bars) /\ n <= Len(bars)
        BY <1>0, <2>2 DEF n
    <3>2. \A j \in 1 .. n : bars[j] = acc.bars[j]
        BY <1>3, <2>2
    <3> QED
        BY <3>1, <3>2 DEF Extends
  <2> QED
    BY <2>1, <2>8, <2>9
<1>7. CASE Len(buf) # M
  <2>1. Fed(acc, t) = [buf |-> buf, bars |-> acc.bars]
    BY <1>5, <1>7
  <2>2. Len(buf) < M
    BY <1>0, <1>1, <1>3, <1>4, <1>7
  <2>3. n * M + Len(buf) <= t - first + 1
    <3>1. n * M \in Int
        BY <1>0, <1>3
    <3> HIDE DEF n
    <3> QED
        BY <1>1, <1>3, <1>4, <3>1
  <2>4. \A j \in 1 .. n : Last(acc.bars[j]) <= t
    BY <1>2
  <2>5. SourceOK([buf |-> buf, bars |-> acc.bars], first, t)
    BY <1>1, <1>2, <1>4, <2>2, <2>3, <2>4 DEF SourceOK
  <2>6. Extends(acc.bars, acc.bars)
    BY <1>3 DEF Extends
  <2> QED
    BY <2>1, <2>5, <2>6
<1> QED
    BY <1>6, <1>7

(* So much holds at every minute. *)
LEMMA SourceIs ==
    ASSUME NEW first \in 0 .. LastMinute, NEW t \in first - 1 .. LastMinute
    PROVE  SourceOK(Replay(first)[t], first, t)
<1> DEFINE Bad == {k \in Nat : /\ first - 1 + k <= LastMinute
                               /\ ~SourceOK(Replay(first)[first - 1 + k], first, first - 1 + k)}
<1>0. LastMinute \in Nat /\ first \in Nat
    BY ConstantsAre
<1>1. Bad = {}
  <2>1. SUFFICES ASSUME Bad # {} PROVE FALSE
    OBVIOUS
  <2>2. PICK m \in Bad : \A k \in Bad : m <= k
    <3>1. Bad \in SUBSET Nat
        OBVIOUS
    <3> HIDE DEF Bad
    <3> QED
        BY <2>1, <3>1, LeastExists
  <2> DEFINE u == first - 1 + m
  <2>3. m \in Nat /\ u \in first - 1 .. LastMinute /\ ~SourceOK(Replay(first)[u], first, u)
    BY <1>0, <2>2
  <2>4. CASE m = 0
    <3>1. Replay(first)[u] = Blank
      <4>1. u < first
        BY <1>0, <2>4
      <4> HIDE DEF u
      <4> QED
        BY <2>3, <4>1, ReplayIs
    <3>2. SourceOK(Blank, first, u)
      <4>1. u = first - 1 /\ M \in Nat \ {0}
        BY <1>0, <2>4, ConstantsAre
      <4> HIDE DEF u
      <4> QED
        BY <1>0, <4>1 DEF SourceOK, Blank
    <3> QED
        BY <2>3, <3>1, <3>2
  <2>5. CASE m # 0
    <3>1. m - 1 \in Nat /\ m - 1 \notin Bad
      <4>1. m - 1 \in Nat /\ ~(m <= m - 1)
        BY <2>3, <2>5
      <4> HIDE DEF Bad
      <4> QED
        BY <2>2, <4>1
    <3>2. SourceOK(Replay(first)[u - 1], first, u - 1)
      <4>1. first - 1 + (m - 1) = u - 1 /\ u - 1 <= LastMinute
        BY <1>0, <2>3
      <4> QED
        BY <3>1, <4>1
    <3>3. u \in Int /\ ~(u < first)
        BY <1>0, <2>3, <2>5
    <3> HIDE DEF u
    <3>4. Replay(first)[u] = IF u \in missing THEN Replay(first)[u - 1]
                             ELSE Fed(Replay(first)[u - 1], u)
        BY <2>3, <3>3, ReplayIs
    <3> DEFINE acc == Replay(first)[u - 1]
    <3> HIDE DEF acc
    <3>5. SourceOK(acc, first, u)
      <4>1. SourceOK(acc, first, u - 1)
        BY <3>2 DEF acc
      <4>2. \A j \in 1 .. Len(acc.bars) : Last(acc.bars[j]) <= u
        BY <3>3, <4>1 DEF SourceOK
      <4>3. Len(acc.bars) * M + Len(acc.buf) <= u - first + 1
        <5>1. Len(acc.bars) * M \in Int /\ Len(acc.buf) \in Int
            BY <4>1, ConstantsAre DEF SourceOK
        <5> QED
            BY <1>0, <3>3, <4>1, <5>1 DEF SourceOK
      <4> QED
        BY <4>1, <4>2, <4>3 DEF SourceOK
    <3>6. SourceOK(Fed(acc, u), first, u)
        BY <1>0, <3>2, <3>3, FedKeeps DEF acc
    <3> QED
        BY <2>3, <3>4, <3>5, <3>6 DEF acc
  <2> QED
    BY <2>4, <2>5
<1>2. t - first + 1 \in Nat /\ first - 1 + (t - first + 1) = t /\ t <= LastMinute
    BY <1>0
<1> DEFINE k == t - first + 1
<1>3. k \in Nat /\ first - 1 + k = t
    BY <1>2
<1> HIDE DEF k
<1>4. k \notin Bad
    BY <1>1
<1> QED
    BY <1>2, <1>3, <1>4

(* A replay that is cut short makes the first bars of one that is not. *)
LEMMA StreamsAgree ==
    ASSUME NEW first \in 0 .. LastMinute,
           NEW s \in first - 1 .. LastMinute, NEW t \in s .. LastMinute
    PROVE  Extends(Stream(first, t), Stream(first, s))
<1> DEFINE Bad == {k \in Nat : /\ s + k <= LastMinute
                               /\ ~Extends(Stream(first, s + k), Stream(first, s))}
<1>0. LastMinute \in Nat /\ first \in Nat /\ s \in Int /\ t \in Int
    BY ConstantsAre
<1>1. Bad = {}
  <2>1. SUFFICES ASSUME Bad # {} PROVE FALSE
    OBVIOUS
  <2>2. PICK m \in Bad : \A k \in Bad : m <= k
    <3>1. Bad \in SUBSET Nat
        OBVIOUS
    <3> HIDE DEF Bad
    <3> QED
        BY <2>1, <3>1, LeastExists
  <2> DEFINE u == s + m
  <2>3. m \in Nat /\ u \in s .. LastMinute /\ ~Extends(Stream(first, u), Stream(first, s))
    BY <1>0, <2>2
  <2>4. CASE m = 0
    <3>1. u = s
        BY <1>0, <2>4
    <3>2. Len(Stream(first, s)) \in Nat
        BY <1>0, SourceIs DEF SourceOK, Stream
    <3>3. Extends(Stream(first, s), Stream(first, s))
        BY <3>2 DEF Extends
    <3> HIDE DEF u
    <3> QED
        BY <2>3, <3>1, <3>3
  <2>5. CASE m # 0
    <3>1. m - 1 \in Nat /\ m - 1 \notin Bad
      <4>1. m - 1 \in Nat /\ ~(m <= m - 1)
        BY <2>3, <2>5
      <4> HIDE DEF Bad
      <4> QED
        BY <2>2, <4>1
    <3>2. Extends(Stream(first, u - 1), Stream(first, s))
      <4>1. s + (m - 1) = u - 1 /\ u - 1 <= LastMinute
        BY <1>0, <2>3
      <4> QED
        BY <3>1, <4>1
    <3>3. u \in Int /\ ~(u < first) /\ u \in first - 1 .. LastMinute
          /\ u - 1 \in first - 1 .. LastMinute
        BY <1>0, <2>3, <2>5
    <3> HIDE DEF u
    <3>4. Replay(first)[u] = IF u \in missing THEN Replay(first)[u - 1]
                             ELSE Fed(Replay(first)[u - 1], u)
        BY <3>3, ReplayIs
    <3>5. SourceOK(Replay(first)[u - 1], first, u - 1)
        BY <3>3, SourceIs
    <3>6. Extends(Fed(Replay(first)[u - 1], u).bars, Replay(first)[u - 1].bars)
        BY <1>0, <3>3, <3>5, FedKeeps
    <3>7. Extends(Stream(first, u), Stream(first, u - 1))
      <4>1. Len(Replay(first)[u - 1].bars) \in Nat
        BY <3>5 DEF SourceOK
      <4> QED
        BY <3>4, <3>6, <4>1 DEF Stream, Extends
    <3>8. /\ Len(Stream(first, u)) \in Nat /\ Len(Stream(first, u - 1)) \in Nat
          /\ Len(Stream(first, s)) \in Nat
        BY <1>0, <3>3, SourceIs DEF SourceOK, Stream
    <3>9. Extends(Stream(first, u), Stream(first, s))
        BY <3>2, <3>7, <3>8 DEF Extends
    <3> QED
        BY <2>3, <3>9
  <2> QED
    BY <2>4, <2>5
<1> DEFINE k == t - s
<1>2. k \in Nat /\ s + k = t /\ t <= LastMinute
    BY <1>0
<1> HIDE DEF k
<1>3. k \notin Bad
    BY <1>1
<1> QED
    BY <1>2, <1>3

-----------------------------------------------------------------------------
(* The bars of the clock, and their labels.                                *)

FeedOK == missing \in SUBSET (0 .. LastMinute)

LEMMA Extremes ==
    ASSUME NEW S \in SUBSET (0 .. LastMinute), S # {}
    PROVE  /\ Min(S) \in S /\ Max(S) \in S
           /\ \A x \in S : Min(S) <= x /\ x <= Max(S)
<1>0. LastMinute \in Nat
    BY ConstantsAre
<1>1. \E x \in S : \A y \in S : x <= y
  <2>1. S \in SUBSET Nat
    BY <1>0
  <2> QED
    BY <2>1, LeastExists
<1>2. \E x \in S : \A y \in S : x >= y
  <2> DEFINE T == {n \in Nat : LastMinute - n \in S}
  <2>1. PICK x \in S : TRUE
    OBVIOUS
  <2> DEFINE m == LastMinute - x
  <2>2. m \in Nat /\ LastMinute - m = x
    BY <1>0
  <2> HIDE DEF m
  <2>3. T # {} /\ T \in SUBSET Nat
    BY <2>1, <2>2
  <2>4. PICK n \in T : \A k \in T : n <= k
    <3> HIDE DEF T
    <3> QED
        BY <2>3, LeastExists
  <2>5. ASSUME NEW y \in S PROVE LastMinute - n >= y
    <3> DEFINE k == LastMinute - y
    <3>1. k \in Nat /\ LastMinute - k = y
        BY <1>0
    <3> HIDE DEF k
    <3>2. n <= k
        BY <2>4, <3>1
    <3> QED
        BY <1>0, <2>4, <3>1, <3>2
  <2> QED
    BY <2>4, <2>5
<1>3. Min(S) \in S /\ \A x \in S : Min(S) <= x
    BY <1>1, Zenon DEF Min
<1>4. Max(S) \in S /\ \A x \in S : Max(S) >= x
    BY <1>2, Zenon DEF Max
<1> QED
    BY <1>0, <1>3, <1>4

LEMMA OnTheClock ==
    ASSUME NEW t \in Nat, NEW k \in Nat
    PROVE  t \div M = k <=> k * M <= t /\ t <= k * M + M - 1
<1>1. M \in Nat \ {0}
    BY ConstantsAre
<1>2. PICK q \in Nat : q = t \div M
    BY <1>1
<1>3. q * M <= t /\ t < (q + 1) * M /\ (q + 1) * M = q * M + M
    BY <1>1, <1>2
<1>4. ASSUME k < q PROVE k * M + M <= t
  <2>1. (k + 1) * M <= q * M /\ (k + 1) * M = k * M + M
    BY <1>1, <1>4
  <2> QED
    BY <1>1, <1>3, <2>1
<1>5. ASSUME k > q PROVE k * M > t
  <2>1. (q + 1) * M <= k * M
    BY <1>1, <1>5
  <2> QED
    BY <1>1, <1>3, <2>1
<1>6. k * M \in Nat
    BY <1>1
<1> QED
    BY <1>1, <1>2, <1>3, <1>4, <1>5, <1>6

(* A bar lies within its M minutes. *)
LEMMA BarOfTheClock ==
    ASSUME NEW k \in Nat, ClockBar(k) # {}
    PROVE  LET bar == ClockBar(k) IN
           /\ Min(bar) \in 0 .. LastMinute /\ Min(bar) \notin missing
           /\ Max(bar) \in 0 .. LastMinute
           /\ k * M <= Min(bar) /\ Min(bar) <= Max(bar) /\ Max(bar) <= k * M + M - 1
<1> DEFINE bar == ClockBar(k)
<1>1. bar \in SUBSET (0 .. LastMinute) /\ bar # {}
      /\ \A t \in bar : t \div M = k /\ t \notin missing
    BY DEF ClockBar
<1> HIDE DEF bar
<1>2. /\ Min(bar) \in bar /\ Max(bar) \in bar
      /\ \A x \in bar : Min(bar) <= x /\ x <= Max(bar)
    BY <1>1, Extremes
<1>3. LastMinute \in Nat
    BY ConstantsAre
<1>4. \A t \in bar : k * M <= t /\ t <= k * M + M - 1
    BY <1>1, <1>3, OnTheClock
<1> QED
    BY <1>1, <1>2, <1>4 DEF bar

(* A label is given within the M minutes after those of its bar: if these  *)
(* are missing, the bar behind the gap is of another segment.              *)
LEMMA LabelIsNear ==
    ASSUME FeedOK, NEW l \in Labelled, NEW k \in Nat, l[1] = ClockBar(k)
    PROVE  /\ Max(l[2]) \in 0 .. LastMinute
           /\ Max(l[2]) <= k * M + M + M - 1
<1> DEFINE b == l[1]
           c == l[2]
           Gaps(x) == {t \in missing : t < x /\ t + 1 \notin missing}
<1>0. LastMinute \in Nat /\ M \in Nat \ {0} /\ k * M \in Nat
    BY ConstantsAre
<1>1. /\ b \in DecisionBars /\ c \in DecisionBars
      /\ Max(b) < Min(c)
      /\ \A bar \in DecisionBars : ~(Max(b) < Min(bar) /\ Max(bar) < Min(c))
      /\ Segment(Min(b)) = Segment(Min(c))
    BY DEF Labelled
<1>2. PICK i \in 0 .. LastMinute \div M : c = ClockBar(i) /\ ClockBar(i) # {}
    BY <1>1 DEF DecisionBars
<1>3. i \in Nat /\ i * M \in Nat /\ ClockBar(k) # {} /\ b = ClockBar(k)
    BY <1>0, <1>1 DEF DecisionBars
<1> HIDE DEF b, c
<1>4. /\ Min(b) \in 0 .. LastMinute /\ Max(b) \in 0 .. LastMinute
      /\ k * M <= Min(b) /\ Min(b) <= Max(b) /\ Max(b) <= k * M + M - 1
    BY <1>3, BarOfTheClock
<1>5. /\ Min(c) \in 0 .. LastMinute /\ Min(c) \notin missing /\ Max(c) \in 0 .. LastMinute
      /\ i * M <= Min(c) /\ Min(c) <= Max(c) /\ Max(c) <= i * M + M - 1
    BY <1>2, <1>3, BarOfTheClock
<1>6. CASE i <= k + 1
  <2>1. i * M <= (k + 1) * M /\ (k + 1) * M = k * M + M
    BY <1>0, <1>3, <1>6
  <2> QED
    BY <1>0, <1>3, <1>5, <2>1 DEF c
<1>7. CASE i > k + 1
  <2>1. (k + 1) * M = k * M + M /\ (k + 2) * M <= i * M /\ (k + 2) * M = k * M + M + M
    BY <1>0, <1>3, <1>7
  <2>2. ClockBar(k + 1) = {}
    <3>1. SUFFICES ASSUME ClockBar(k + 1) # {} PROVE FALSE
        OBVIOUS
    <3> DEFINE j == k + 1
    <3>2. j \in Nat /\ j * M = k * M + M /\ j \in 0 .. LastMinute \div M
      <4>1. PICK q \in Int : q = LastMinute \div M
        BY <1>0
      <4> QED
        BY <1>0, <1>2, <1>7, <2>1, <4>1
    <3> HIDE DEF j
    <3> DEFINE d == ClockBar(j)
    <3>3. d \in DecisionBars /\ d # {}
        BY <3>1, <3>2 DEF DecisionBars, j
    <3>4. Min(d) \in Int /\ Max(d) \in Int /\ j * M <= Min(d) /\ Max(d) <= j * M + M - 1
        BY <3>2, <3>3, BarOfTheClock
    <3> HIDE DEF d
    <3>5. Max(b) < Min(d) /\ Max(d) < Min(c)
        BY <1>0, <1>3, <1>4, <1>5, <2>1, <3>2, <3>4
    <3> QED
        BY <1>1, <3>3, <3>5
  <2> DEFINE u == k * M + M
             W == {t \in missing : u <= t /\ t < Min(c)}
  <2>3. u \in missing /\ u < Min(c) /\ Min(b) < u
    <3>1. u \in 0 .. LastMinute /\ u < Min(c) /\ Min(b) < u
        BY <1>0, <1>3, <1>4, <1>5, <2>1
    <3>2. u \div M = k + 1
      <4>1. u \in Nat /\ k + 1 \in Nat /\ (k + 1) * M <= u /\ u <= (k + 1) * M + M - 1
        BY <1>0, <2>1
      <4> DEFINE j == k + 1
      <4>2. j \in Nat /\ j * M <= u /\ u <= j * M + M - 1
        BY <4>1
      <4> HIDE DEF j, u
      <4>3. u \div M = j
        BY <4>1, <4>2, OnTheClock
      <4> QED
        BY <4>3 DEF j
    <3> HIDE DEF u
    <3> QED
        BY <2>2, <3>1, <3>2 DEF ClockBar
  <2> HIDE DEF u
  <2>4. u \in W /\ W \in SUBSET (0 .. LastMinute)
    <3>1. u \in 0 .. LastMinute /\ missing \in SUBSET (0 .. LastMinute)
        BY <2>3 DEF FeedOK
    <3>2. u <= u
        BY <1>0, <3>1
    <3> QED
        BY <2>3, <3>1, <3>2
  <2> DEFINE t == Max(W)
  <2>5. t \in W /\ \A x \in W : x <= t
    <3> HIDE DEF W
    <3> QED
        BY <2>4, Extremes
  <2> HIDE DEF t
  <2>6. t + 1 \notin missing
    <3>1. SUFFICES ASSUME t + 1 \in missing PROVE FALSE
        OBVIOUS
    <3>2. t \in Nat /\ u \in Nat /\ u <= t /\ t < Min(c) /\ Min(c) \in Nat
        BY <1>0, <1>5, <2>3, <2>5 DEF FeedOK
    <3>3. t + 1 # Min(c)
        BY <1>5, <3>1
    <3>4. t + 1 \in W
        BY <3>1, <3>2, <3>3
    <3> QED
        BY <2>5, <3>2, <3>4
  <2>7. t \in Gaps(Min(c)) /\ t \notin Gaps(Min(b))
    BY <1>0, <1>4, <2>3, <2>5, <2>6 DEF FeedOK
  <2>8. Gaps(Min(b)) \subseteq Gaps(Min(c))
    <3>1. Min(b) < Min(c)
        BY <1>0, <1>1, <1>4, <1>5
    <3>2. \A x \in missing : x < Min(b) => x < Min(c)
        BY <1>0, <1>4, <1>5, <3>1 DEF FeedOK
    <3> QED
        BY <3>2
  <2>9. IsFiniteSet(Gaps(Min(c)))
    <3>1. IsFiniteSet(0 .. LastMinute)
      <4>1. LastMinute \in Int /\ 0 \in Int
        BY <1>0
      <4> QED
        BY <4>1, FS_Interval
    <3>2. Gaps(Min(c)) \subseteq 0 .. LastMinute
        BY DEF FeedOK
    <3> QED
        BY <3>1, <3>2, FS_Subset
  <2>10. Cardinality(Gaps(Min(b))) # Cardinality(Gaps(Min(c)))
    <3> HIDE DEF Gaps
    <3> QED
        BY <2>7, <2>8, <2>9, FS_Subset
  <2> QED
    BY <1>1, <2>10 DEF Segment
<1> QED
    BY <1>3, <1>6, <1>7

-----------------------------------------------------------------------------
(* The two passes.                                                         *)

Pre == Stream(win.start, win.warmupEnd)
Main == Stream(win.start, win.end)

WindowOK ==
    /\ FeedOK
    /\ driver \in {"online", "offline", "alone"}
    /\ win.start \in {0, M} /\ win.warmupEnd \in 0 .. LastMinute /\ win.end = LastMinute
    /\ win.start < win.warmupEnd
    /\ driver = "offline" => win.warmupEnd % M = 0

PairsOK ==
    /\ driver = "online" =>
           \A i \in DOMAIN pairs : \E j \in 1 .. Len(Pre) : pairs[i] = Last(Pre[j])
    /\ driver = "offline" => \A i \in DOMAIN pairs : pairs[i] <= win.warmupEnd + M - 1

PassOK ==
    /\ seen \in Nat
    /\ phase \in {"pre", "calibrate", "main", "done", "failed"}
    /\ driver = "alone" => phase \notin {"pre", "main"} /\ decided = <<>>
    /\ driver = "offline" /\ phase = "pre" => seen = 0
    /\ phase \in {"pre", "calibrate"} => decided = <<>>
    /\ phase = "main" /\ decided = <<>> => seen <= WarmupSamples
    /\ decided # <<>> => /\ WarmupSamples + 1 <= Len(Main)
                         /\ decided = Main[WarmupSamples + 1]

XInv == WindowOK /\ LoopOK /\ PassOK /\ PairsOK

LEMMA WindowNumbers ==
    ASSUME WindowOK
    PROVE  /\ M \in Nat \ {0} /\ LastMinute \in Nat
           /\ win.start \in 0 .. LastMinute /\ win.warmupEnd \in 0 .. LastMinute
           /\ win.warmupEnd \in win.start - 1 .. LastMinute
           /\ win.end \in win.warmupEnd .. LastMinute
           /\ win.end \in win.start - 1 .. LastMinute
BY ExperimentAssumption DEF WindowOK

(* The bars of a pass. *)
LEMMA PassIs ==
    ASSUME WindowOK
    PROVE  /\ SourceOK(Replay(win.start)[win.warmupEnd], win.start, win.warmupEnd)
           /\ SourceOK(Replay(win.start)[win.end], win.start, win.end)
           /\ Extends(Main, Pre)
<1> DEFINE s == win.start
           w == win.warmupEnd
           e == win.end
<1>1. /\ s \in 0 .. LastMinute /\ w \in s - 1 .. LastMinute /\ e \in w .. LastMinute
      /\ e \in s - 1 .. LastMinute
    BY WindowNumbers
<1> HIDE DEF s, w, e
<1>2. SourceOK(Replay(s)[w], s, w) /\ SourceOK(Replay(s)[e], s, e)
    BY <1>1, SourceIs
<1>3. Extends(Stream(s, e), Stream(s, w))
    BY <1>1, StreamsAgree
<1> QED
    BY <1>2, <1>3 DEF Pre, Main, s, w, e

LEMMA BarsAre ==
    ASSUME WindowOK
    PROVE  /\ Len(Pre) \in Nat /\ Len(Main) \in Nat
           /\ \A j \in 1 .. Len(Pre) : Last(Pre[j]) \in Int /\ Last(Main[j]) = Last(Pre[j])
           /\ \A j \in 1 .. Len(Main) :
                 /\ Last(Main[j]) \in Int /\ Main[j] # <<>>
                 /\ Last(Main[j]) >= win.start + j * M - 1
           /\ \A j, k \in 1 .. Len(Main) : j <= k => Last(Main[j]) <= Last(Main[k])
           /\ Len(Pre) <= Len(Main)
           /\ Len(Pre) * M <= win.warmupEnd - win.start + 1
<1>0. M \in Nat \ {0} /\ win.start \in Int /\ win.warmupEnd \in Int
    BY WindowNumbers
<1>1. /\ Pre = Replay(win.start)[win.warmupEnd].bars
      /\ Main = Replay(win.start)[win.end].bars
    BY DEF Pre, Main, Stream
<1>2. /\ Len(Pre) \in Nat /\ Len(Main) \in Nat
      /\ \A j \in 1 .. Len(Pre) : Last(Pre[j]) \in Int
      /\ \A j \in 1 .. Len(Main) :
            /\ Last(Main[j]) \in Int /\ Len(Main[j]) = M
            /\ Last(Main[j]) >= win.start + j * M - 1
      /\ \A j, k \in 1 .. Len(Main) : j <= k => Last(Main[j]) <= Last(Main[k])
    BY <1>1, PassIs DEF SourceOK
<1>3. /\ Len(Pre) * M + Len(Replay(win.start)[win.warmupEnd].buf)
            <= win.warmupEnd - win.start + 1
      /\ Len(Replay(win.start)[win.warmupEnd].buf) \in Nat
    BY <1>1, PassIs DEF SourceOK
<1>4. Len(Pre) * M <= win.warmupEnd - win.start + 1
  <2>1. PICK p \in Int : p = Len(Pre) * M
    BY <1>0, <1>2
  <2>2. PICK b \in Nat : b = Len(Replay(win.start)[win.warmupEnd].buf)
    BY <1>3
  <2>3. p + b <= win.warmupEnd - win.start + 1
    BY <1>3, <2>1, <2>2
  <2>4. p <= win.warmupEnd - win.start + 1
    BY <1>0, <2>3
  <2> QED
    BY <2>1, <2>4
<1>5. \A j \in 1 .. Len(Main) : Main[j] # <<>>
  <2>1. Len(<<>>) = 0
    OBVIOUS
  <2> QED
    BY <1>0, <1>2, <2>1
<1>6. Len(Pre) <= Len(Main) /\ \A j \in 1 .. Len(Pre) : Last(Main[j]) = Last(Pre[j])
    BY PassIs DEF Extends
<1> QED
    BY <1>2, <1>4, <1>5, <1>6

LEMMA ExactDivision ==
    ASSUME NEW a \in Nat, NEW b \in Nat \ {0}, NEW q \in Nat, q * b = a
    PROVE  a \div b = q /\ a % b = 0
OBVIOUS

(* The warm-up, counted in bars, is at most one bar shorter than what the  *)
(* calibration saw, and as long where its end is on the clock.             *)
LEMMA WarmupIsLongEnough ==
    ASSUME WindowOK
    PROVE  /\ WarmupSamples \in Nat \ {0}
           /\ Len(Pre) <= WarmupSamples + 1
           /\ driver = "offline" => WarmupSamples * M = win.warmupEnd - win.start
<1> DEFINE a == win.warmupEnd - win.start
           q == a \div M
           r == 2 * (a % M)
<1>0. M \in Nat \ {0} /\ win.start \in Nat /\ win.warmupEnd \in Nat /\ a \in Nat \ {0}
    BY WindowNumbers DEF WindowOK
<1> HIDE DEF a
<1>1. q \in Nat /\ q * M <= a /\ a < (q + 1) * M /\ (q + 1) * M = q * M + M
    BY <1>0
<1>2. RoundDiv(a, M) = q \/ RoundDiv(a, M) = q + 1
    BY DEF RoundDiv
<1>3. WarmupSamples = IF RoundDiv(a, M) < 1 THEN 1 ELSE RoundDiv(a, M)
    BY DEF WarmupSamples, a
<1>4. WarmupSamples \in Nat \ {0} /\ q <= WarmupSamples
    BY <1>1, <1>2, <1>3
<1>5. Len(Pre) <= q + 1
  <2>1. Len(Pre) \in Nat /\ Len(Pre) * M <= a + 1
    BY BarsAre DEF a
  <2>2. CASE Len(Pre) > q + 1
    <3>1. (q + 2) * M <= Len(Pre) * M /\ (q + 2) * M = q * M + M + M
        BY <1>0, <1>1, <2>1, <2>2
    <3>2. q * M \in Nat /\ Len(Pre) * M \in Nat
        BY <1>0, <1>1, <2>1
    <3> QED
        BY <1>0, <1>1, <2>1, <3>1, <3>2
  <2> QED
    BY <1>1, <2>1, <2>2
<1>6. ASSUME driver = "offline"
      PROVE  WarmupSamples * M = a
  <2>1. win.warmupEnd % M = 0 /\ win.start \in {0, M}
    BY <1>6 DEF WindowOK
  <2>2. PICK k \in Nat : k * M = win.warmupEnd
    <3>1. (win.warmupEnd \div M) \in Nat /\ (win.warmupEnd \div M) * M = win.warmupEnd
        BY <1>0, <2>1
    <3> QED
        BY <3>1
  <2>3. \E i \in Nat : i * M = a
    <3>1. CASE win.start = 0
        BY <1>0, <2>2, <3>1 DEF a
    <3>2. CASE win.start = M
      <4>1. k # 0
        BY <1>0, <2>2, <3>2 DEF a
      <4>2. (k - 1) * M = k * M - M /\ k - 1 \in Nat
        BY <1>0, <4>1
      <4> QED
        BY <1>0, <2>2, <3>2, <4>2 DEF a
    <3> QED
        BY <2>1, <3>1, <3>2
  <2>4. PICK i \in Nat : i * M = a
    BY <2>3
  <2>5. q = i /\ a % M = 0
    BY <1>0, <2>4, ExactDivision
  <2>6. RoundDiv(a, M) = q
    BY <1>0, <2>5 DEF RoundDiv
  <2>7. q >= 1
    BY <1>0, <2>4, <2>5
  <2> QED
    BY <1>1, <1>3, <2>4, <2>5, <2>6, <2>7
<1> QED
    BY <1>0, <1>1, <1>4, <1>5, <1>6, BarsAre DEF a

(* What was decided first comes after all that was paired. *)
LEMMA PrecedesTrading ==
    ASSUME XInv
    PROVE  CalibrationPrecedesTrading
<1> SUFFICES ASSUME decided # <<>>, NEW i \in DOMAIN pairs
             PROVE  pairs[i] <= Last(decided)
    BY DEF CalibrationPrecedesTrading
<1> DEFINE n == WarmupSamples + 1
<1>1. WindowOK /\ PairsOK /\ driver # "alone" /\ driver \in {"online", "offline", "alone"}
      /\ pairs \in Seq(Int)
    BY DEF XInv, PassOK, WindowOK, LoopOK, FoundOK
<1>2. n <= Len(Main) /\ decided = Main[n]
    BY DEF XInv, PassOK
<1>3. WarmupSamples \in Nat \ {0} /\ Len(Pre) <= n
    BY <1>1, WarmupIsLongEnough
<1>4. n \in 1 .. Len(Main) /\ Last(Main[n]) \in Int
    BY <1>1, <1>2, <1>3, BarsAre
<1>5. CASE driver = "online"
  <2>1. PICK j \in 1 .. Len(Pre) : pairs[i] = Last(Pre[j])
    BY <1>1, <1>5 DEF PairsOK
  <2>2. j \in 1 .. Len(Main) /\ j <= n /\ Last(Main[j]) = Last(Pre[j])
    BY <1>1, <1>2, <1>3, <2>1, BarsAre
  <2>3. Last(Main[j]) <= Last(Main[n])
    <3> HIDE DEF n
    <3> QED
        BY <1>1, <1>4, <2>2, BarsAre
  <2> QED
    BY <1>2, <2>1, <2>2, <2>3
<1>6. CASE driver = "offline"
  <2>1. pairs[i] <= win.warmupEnd + M - 1 /\ pairs[i] \in Int
    BY <1>1, <1>6 DEF PairsOK
  <2>2. M \in Nat /\ win.start \in Int /\ win.warmupEnd \in Int
    BY <1>1, WindowNumbers
  <2>3. n * M = win.warmupEnd - win.start + M
    <3>1. WarmupSamples * M = win.warmupEnd - win.start
        BY <1>1, <1>6, WarmupIsLongEnough
    <3>2. n * M = WarmupSamples * M + M
        BY <1>3, <2>2
    <3> QED
        BY <3>1, <3>2
  <2>4. Last(Main[n]) >= win.start + n * M - 1
    <3> HIDE DEF n
    <3> QED
        BY <1>1, <1>4, BarsAre
  <2>5. Last(Main[n]) >= win.warmupEnd + M - 1
    BY <1>4, <2>2, <2>3, <2>4
  <2> QED
    BY <1>2, <1>4, <2>1, <2>2, <2>5
<1> QED
    BY <1>1, <1>5, <1>6

-----------------------------------------------------------------------------
(* The steps.                                                              *)

(* Before the first error there is nothing to keep. *)
LEMMA NothingFound ==
    ASSUME pairs \in Seq(Int), errors = <<>>, trace = <<>>, converged = FALSE
    PROVE  FoundOK
<1>1. Checks = {}
  <2>1. Len(errors) = 0
    OBVIOUS
  <2> QED
    BY <2>1 DEF Checks
<1>2. errors \in Seq(0 .. 1) /\ Len(errors) = 0
    OBVIOUS
<1>3. Len(trace) = 0 /\ trace \in Seq(Int)
    OBVIOUS
<1>4. \E S : trace \in Seq(S)
    BY <1>3
<1>5. Len(trace) = Cardinality(Checks)
    BY <1>1, <1>3, FS_EmptySet
<1>6. Len(errors) <= MaxWarmupBars
    BY <1>2, ConstantsAre
<1>7. (\A n \in Checks : Stable(SubSeq(errors, 1, n)) <=> converged /\ n = Len(errors))
    BY <1>1
<1>8. ~converged /\ converged \in BOOLEAN
    OBVIOUS
<1>9. Len(trace) \in Nat
    BY <1>3
<1> QED
    BY <1>2, <1>4, <1>5, <1>6, <1>7, <1>8, <1>9, Zenon DEF FoundOK

(* The same of the state after a step. *)
LEMMA NothingFoundYet ==
    ASSUME pairs' \in Seq(Int), errors' = <<>>, trace' = <<>>, converged' = FALSE
    PROVE  FoundOK'
<1>1. Checks' = {}
  <2>1. Len(errors') = 0
    OBVIOUS
  <2> QED
    BY <2>1 DEF Checks
<1>2. errors' \in Seq(0 .. 1) /\ Len(errors') = 0
    OBVIOUS
<1>3. Len(trace') = 0 /\ trace' \in Seq(Int)
    OBVIOUS
<1>4. \E S : trace' \in Seq(S)
    BY <1>3
<1>5. Len(trace') = Cardinality(Checks')
    BY <1>1, <1>3, FS_EmptySet
<1>6. Len(errors') <= MaxWarmupBars
    BY <1>2, ConstantsAre
<1>7. (\A n \in Checks : Stable(SubSeq(errors, 1, n)) <=> converged /\ n = Len(errors))'
    BY <1>1
<1>8. ~converged' /\ converged' \in BOOLEAN
    OBVIOUS
<1>9. Len(trace') \in Nat
    BY <1>3
<1> QED
    BY <1>2, <1>4, <1>5, <1>6, <1>7, <1>8, <1>9, Zenon DEF FoundOK

LEMMA FoundUntouched ==
    ASSUME FoundOK, UNCHANGED <<driver, pairs, errors, trace, converged>>
    PROVE  FoundOK'
BY DEF FoundOK, Checks, CheckedAt, FirstAllowed, HalfWindow

(* The window and its bars never change. *)
LEMMA WindowStays ==
    ASSUME WindowOK, UNCHANGED feed
    PROVE  /\ WindowOK' /\ Pre' = Pre /\ Main' = Main /\ WarmupSamples' = WarmupSamples
           /\ driver' = driver
<1>1. driver' = driver /\ missing' = missing /\ win' = win
    BY DEF feed
<1>2. WindowOK'
    BY <1>1 DEF WindowOK, FeedOK
<1>3. Pre' = Pre /\ Main' = Main
    BY <1>1 DEF Pre, Main, Stream, Replay
<1>4. WarmupSamples' = WarmupSamples
    BY <1>1 DEF WarmupSamples
<1> QED
    BY <1>1, <1>2, <1>3, <1>4

LEMMA PairsStay ==
    ASSUME WindowOK, PairsOK, UNCHANGED feed, pairs' = pairs
    PROVE  PairsOK'
<1>1. driver' = driver /\ Pre' = Pre /\ win' = win
    BY WindowStays DEF feed
<1> QED
    BY <1>1 DEF PairsOK

LEMMA PreBarKeeps ==
    ASSUME XInv, driver = "online", PreBar
    PROVE  XInv'
<1> DEFINE bar == Pre[seen + 1]
           follows == seen > 0 /\ Segment(Pre[seen][1]) = Segment(bar[1])
<1>1. WindowOK /\ LoopOK /\ PassOK /\ PairsOK
    BY DEF XInv
<1>2. /\ phase = "pre" /\ seen < Len(Pre) /\ seen' = seen + 1
      /\ pairs' = IF follows THEN Append(pairs, Last(bar)) ELSE pairs
      /\ UNCHANGED feed /\ phase' = phase /\ UNCHANGED loop /\ decided' = decided
    BY DEF PreBar, Pre
<1>3. /\ WindowOK' /\ Pre' = Pre /\ Main' = Main /\ WarmupSamples' = WarmupSamples
      /\ driver' = driver
    BY <1>1, <1>2, WindowStays
<1>4. pairs \in Seq(Int) /\ seen \in Nat /\ decided = <<>>
    BY <1>1, <1>2 DEF LoopOK, FoundOK, PassOK
<1>5. seen + 1 \in 1 .. Len(Pre) /\ Last(bar) \in Int
    BY <1>1, <1>2, <1>4, BarsAre
<1> HIDE DEF bar, follows
<1>6. pairs' \in Seq(Int)
    BY <1>2, <1>4, <1>5
<1>7. LoopOK'
  <2>1. errors = <<>> /\ trace = <<>> /\ converged = FALSE
    BY <1>1, <1>2 DEF LoopOK, FoundOK
  <2>2. errors' = <<>> /\ trace' = <<>> /\ converged' = FALSE
    BY <1>2, <2>1 DEF loop
  <2>3. FoundOK'
    BY <1>6, <2>2, NothingFoundYet
  <2> QED
    BY <1>2, <2>2, <2>3 DEF LoopOK
<1>8. PassOK'
    BY <1>1, <1>2, <1>3, <1>4 DEF PassOK
<1>9. PairsOK'
  <2>1. ASSUME NEW i \in DOMAIN pairs'
        PROVE  \E j \in 1 .. Len(Pre) : pairs'[i] = Last(Pre[j])
    <3>1. CASE i \in DOMAIN pairs
      <4>1. pairs'[i] = pairs[i]
        BY <1>2, <1>4, <3>1
      <4> QED
        BY <1>1, <3>1, <4>1 DEF PairsOK
    <3>2. CASE i \notin DOMAIN pairs
      <4>1. pairs'[i] = Last(bar)
        BY <1>2, <1>4, <1>5, <2>1, <3>2
      <4> QED
        BY <1>5, <4>1 DEF bar
    <3> QED
        BY <3>1, <3>2
  <2> QED
    BY <1>3, <2>1 DEF PairsOK
<1> QED
    BY <1>3, <1>7, <1>8, <1>9 DEF XInv

LEMMA PreDoneKeeps ==
    ASSUME XInv, driver = "online", PreDone
    PROVE  XInv'
<1>1. WindowOK /\ LoopOK /\ PassOK /\ PairsOK
    BY DEF XInv
<1>2. /\ phase = "pre" /\ phase' \in {"failed", "calibrate"}
      /\ nextCheck' = IF Len(pairs) < MinWarmupBars THEN Len(pairs) ELSE MinWarmupBars
      /\ UNCHANGED feed /\ seen' = seen /\ pairs' = pairs /\ errors' = errors
      /\ trace' = trace /\ converged' = converged /\ decided' = decided
    BY DEF PreDone
<1>3. /\ WindowOK' /\ Pre' = Pre /\ Main' = Main /\ WarmupSamples' = WarmupSamples
      /\ driver' = driver
    BY <1>1, <1>2, WindowStays
<1>4. FoundOK /\ FoundOK' /\ pairs \in Seq(Int) /\ errors = <<>> /\ trace = <<>>
    BY <1>1, <1>2, <1>3, FoundUntouched DEF LoopOK, FoundOK
<1>5. AheadOK'
  <2>1. FirstAllowed' = FirstAllowed /\ HalfWindow' = HalfWindow
    BY <1>2, <1>3 DEF FirstAllowed, HalfWindow
  <2>2. FirstAllowed \in Nat \ {0} /\ HalfWindow \in Nat \ {0}
    BY <1>4, LoopNumbers
  <2>3. Len(pairs) \in Nat /\ MinWarmupBars \in Nat /\ 2 * StabilityWindow \in Nat
    BY <1>4, ConstantsAre
  <2>4. nextCheck' \in Nat /\ nextCheck' <= FirstAllowed
    BY <1>2, <2>3 DEF FirstAllowed, Larger
  <2>5. Len(trace') = 0 /\ Len(errors') = 0
    BY <1>2, <1>4
  <2>6. NextAt' = FirstAllowed
    BY <2>1, <2>2, <2>5 DEF NextAt
  <2>7. Larger(FirstAllowed, nextCheck)' = FirstAllowed
    BY <2>1, <2>2, <2>4 DEF Larger
  <2> QED
    BY <2>2, <2>4, <2>5, <2>6, <2>7 DEF AheadOK
<1>6. LoopOK'
    BY <1>2, <1>4, <1>5 DEF LoopOK
<1>7. PassOK'
    BY <1>1, <1>2, <1>3 DEF PassOK
<1>8. PairsOK'
    BY <1>1, <1>2, PairsStay
<1> QED
    BY <1>3, <1>6, <1>7, <1>8 DEF XInv

(* SetToSeq lists a finite set. *)
LEMMA SetToSeqIs ==
    ASSUME NEW S, IsFiniteSet(S)
    PROVE  /\ SetToSeq(S) \in Seq(S)
           /\ \A i \in DOMAIN SetToSeq(S) : SetToSeq(S)[i] \in S
<1>1. Cardinality(S) \in Nat /\ ExistsBijection(1 .. Cardinality(S), S)
    BY FS_CardinalityType
<1>2. \E f \in [1 .. Cardinality(S) -> S] : IsInjective(f)
    BY <1>1 DEF ExistsBijection, Bijection, Injection, IsInjective
<1>3. SetToSeq(S) \in [1 .. Cardinality(S) -> S]
    BY <1>2 DEF SetToSeq
<1> QED
    BY <1>1, <1>3

(* A sequence over a set of integers is one of integers. *)
LEMMA SeqOfInt ==
    ASSUME NEW S \in SUBSET Int, NEW q \in Seq(S)
    PROVE  q \in Seq(Int)
<1>1. Len(q) \in Nat /\ q \in [1 .. Len(q) -> S]
    BY LenProperties
<1>2. \A i \in 1 .. Len(q) : q[i] \in Int
    BY <1>1
<1>3. q \in [1 .. Len(q) -> Int]
    BY <1>1, <1>2
<1> QED
    BY <1>1, <1>3

LEMMA ReadOfflineKeeps ==
    ASSUME XInv, ReadOffline
    PROVE  XInv'
<1> DEFINE rows == {bar \in DecisionBars : win.start <= Min(bar) /\ Min(bar) < win.warmupEnd}
           labels == {l \in Labelled : l[1] \in rows}
           S == {Max(l[2]) : l \in labels}
<1>1. WindowOK /\ LoopOK /\ PassOK /\ PairsOK
    BY DEF XInv
<1>2. /\ phase = "pre" /\ driver = "offline" /\ phase' \in {"main", "failed"}
      /\ pairs' = SetToSeq(S) \/ pairs' = pairs
      /\ UNCHANGED feed /\ seen' = seen /\ UNCHANGED loop /\ decided' = decided
    BY DEF ReadOffline
<1>3. /\ WindowOK' /\ Pre' = Pre /\ Main' = Main /\ WarmupSamples' = WarmupSamples
      /\ driver' = driver /\ win' = win
    BY <1>1, <1>2, WindowStays DEF feed
<1>4. ASSUME NEW l \in labels
      PROVE  Max(l[2]) \in 0 .. LastMinute /\ Max(l[2]) <= win.warmupEnd + M - 1
  <2>1. l \in Labelled /\ l[1] \in DecisionBars /\ Min(l[1]) < win.warmupEnd
    OBVIOUS
  <2>2. PICK k \in 0 .. LastMinute \div M : l[1] = ClockBar(k) /\ ClockBar(k) # {}
    BY <2>1 DEF DecisionBars
  <2>3. M \in Nat \ {0} /\ LastMinute \in Nat /\ win.warmupEnd \in Nat
    BY <1>1, WindowNumbers
  <2>4. k \in Nat /\ k * M \in Nat
    BY <2>3
  <2>5. k * M < win.warmupEnd
    <3>1. k * M <= Min(l[1]) /\ Min(l[1]) \in 0 .. LastMinute
        BY <2>2, <2>4, BarOfTheClock
    <3> QED
        BY <2>1, <2>3, <2>4, <3>1
  <2>6. k * M + M <= win.warmupEnd
    <3>1. win.warmupEnd % M = 0
        BY <1>1, <1>2 DEF WindowOK
    <3>2. PICK q \in Nat : q * M = win.warmupEnd
      <4>1. (win.warmupEnd \div M) \in Nat /\ (win.warmupEnd \div M) * M = win.warmupEnd
        BY <2>3, <3>1
      <4> QED
        BY <4>1
    <3>3. k < q
      <4>1. q <= k => q * M <= k * M
        BY <2>3, <2>4
      <4> QED
        BY <2>3, <2>4, <2>5, <3>2, <4>1
    <3>4. (k + 1) * M <= q * M /\ (k + 1) * M = k * M + M
        BY <2>3, <2>4, <3>3
    <3> QED
        BY <3>2, <3>4
  <2>7. Max(l[2]) \in 0 .. LastMinute /\ Max(l[2]) <= k * M + M + M - 1
    BY <1>1, <2>1, <2>2, <2>4, LabelIsNear DEF WindowOK
  <2> QED
    BY <2>3, <2>4, <2>6, <2>7
<1> HIDE DEF rows, labels
<1>5. S \in SUBSET (0 .. LastMinute) /\ IsFiniteSet(S)
  <2>1. LastMinute \in Int /\ 0 \in Int
    BY ConstantsAre
  <2>2. IsFiniteSet(0 .. LastMinute)
    BY <2>1, FS_Interval
  <2>3. S \in SUBSET (0 .. LastMinute)
    BY <1>4
  <2> QED
    BY <2>2, <2>3, FS_Subset
<1>6. \A x \in S : x <= win.warmupEnd + M - 1
    BY <1>4
<1> HIDE DEF S
<1>7. SetToSeq(S) \in Seq(S) /\ \A i \in DOMAIN SetToSeq(S) : SetToSeq(S)[i] \in S
    BY <1>5, SetToSeqIs
<1>8. pairs' \in Seq(Int)
  <2> DEFINE q == SetToSeq(S)
  <2>1. S \subseteq Int
    <3>1. LastMinute \in Int
        BY ConstantsAre
    <3> QED
        BY <1>5, <3>1
  <2>2. q \in Seq(S)
    BY <1>7
  <2>3. pairs' = q \/ pairs' = pairs
    BY <1>2
  <2> HIDE DEF q
  <2>4. q \in Seq(Int)
    BY <2>1, <2>2, SeqOfInt
  <2> QED
    BY <1>1, <2>3, <2>4 DEF LoopOK, FoundOK
<1>9. LoopOK'
  <2>1. errors = <<>> /\ trace = <<>> /\ converged = FALSE
    BY <1>1, <1>2 DEF LoopOK, FoundOK
  <2>2. errors' = <<>> /\ trace' = <<>> /\ converged' = FALSE
    BY <1>2, <2>1 DEF loop
  <2>3. FoundOK'
    BY <1>8, <2>2, NothingFoundYet
  <2> QED
    BY <1>2, <2>2, <2>3 DEF LoopOK
<1>10. PassOK'
  <2>1. seen = 0 /\ decided = <<>>
    BY <1>1, <1>2 DEF PassOK
  <2>2. 0 <= WarmupSamples
    BY <1>1, WarmupIsLongEnough
  <2> QED
    BY <1>2, <1>3, <2>1, <2>2 DEF PassOK
<1>11. PairsOK'
  <2>1. CASE pairs' = SetToSeq(S)
    <3>1. \A i \in DOMAIN pairs' : pairs'[i] <= win.warmupEnd + M - 1
        BY <1>6, <1>7, <2>1
    <3> QED
        BY <1>2, <1>3, <3>1 DEF PairsOK
  <2>2. CASE pairs' = pairs
    BY <1>1, <1>2, <2>2, PairsStay
  <2> QED
    BY <1>2, <2>1, <2>2
<1> QED
    BY <1>3, <1>9, <1>10, <1>11 DEF XInv

LEMMA ObserveKeeps ==
    ASSUME XInv, Observe
    PROVE  XInv'
<1>1. WindowOK /\ LoopOK /\ PassOK /\ PairsOK
    BY DEF XInv
<1>2. /\ UNCHANGED feed /\ phase' = phase /\ seen' = seen /\ pairs' = pairs
      /\ decided' = decided
    BY DEF Observe
<1>3. /\ WindowOK' /\ Main' = Main /\ WarmupSamples' = WarmupSamples /\ driver' = driver
    BY <1>1, <1>2, WindowStays
<1>4. LoopOK'
    BY <1>1, ObserveKeepsLoop
<1>5. PassOK'
    BY <1>1, <1>2, <1>3 DEF PassOK
<1>6. PairsOK'
    BY <1>1, <1>2, PairsStay
<1> QED
    BY <1>3, <1>4, <1>5, <1>6 DEF XInv

(* After the loop nothing of it is touched. *)
LEMMA PastTheLoop ==
    ASSUME LoopOK, driver' = driver, pairs' = pairs, UNCHANGED loop,
           phase' \notin {"pre", "calibrate"}
    PROVE  LoopOK'
<1>1. FoundOK'
    BY FoundUntouched DEF LoopOK, loop
<1> QED
    BY <1>1 DEF LoopOK

LEMMA ReduceKeeps ==
    ASSUME XInv, Reduce
    PROVE  XInv'
<1>1. WindowOK /\ LoopOK /\ PassOK /\ PairsOK
    BY DEF XInv
<1>2. /\ phase = "calibrate" /\ phase' \in {"failed", "done", "main"} /\ seen' = 0
      /\ UNCHANGED feed /\ pairs' = pairs /\ UNCHANGED loop /\ decided' = decided
      /\ driver = "alone" => phase' # "main"
    BY DEF Reduce
<1>3. /\ WindowOK' /\ Main' = Main /\ WarmupSamples' = WarmupSamples /\ driver' = driver
    BY <1>1, <1>2, WindowStays
<1>4. LoopOK'
    BY <1>1, <1>2, <1>3, PastTheLoop
<1>5. PassOK'
  <2>1. decided = <<>>
    BY <1>1, <1>2 DEF PassOK
  <2>2. 0 <= WarmupSamples
    BY <1>1, WarmupIsLongEnough
  <2> QED
    BY <1>1, <1>2, <1>3, <2>1, <2>2 DEF PassOK
<1>6. PairsOK'
    BY <1>1, <1>2, PairsStay
<1> QED
    BY <1>3, <1>4, <1>5, <1>6 DEF XInv

LEMMA MainBarKeeps ==
    ASSUME XInv, MainBar
    PROVE  XInv'
<1>1. WindowOK /\ LoopOK /\ PassOK /\ PairsOK
    BY DEF XInv
<1>2. /\ phase = "main" /\ phase' = phase /\ seen < Len(Main) /\ seen' = seen + 1
      /\ decided' = IF decided = <<>> /\ seen + 1 > WarmupSamples THEN Main[seen + 1]
                    ELSE decided
      /\ UNCHANGED feed /\ pairs' = pairs /\ UNCHANGED loop
    BY DEF MainBar, Main
<1>3. /\ WindowOK' /\ Main' = Main /\ WarmupSamples' = WarmupSamples /\ driver' = driver
    BY <1>1, <1>2, WindowStays
<1>4. LoopOK'
    BY <1>1, <1>2, <1>3, PastTheLoop
<1>5. seen \in Nat /\ WarmupSamples \in Nat \ {0} /\ driver # "alone"
      /\ (decided = <<>> => seen <= WarmupSamples)
    BY <1>1, <1>2, WarmupIsLongEnough DEF PassOK
<1>6. CASE decided = <<>> /\ seen + 1 > WarmupSamples
  <2>1. seen = WarmupSamples /\ seen + 1 \in 1 .. Len(Main)
    BY <1>1, <1>2, <1>5, <1>6, BarsAre
  <2>2. decided' = Main[WarmupSamples + 1] /\ Main[seen + 1] # <<>>
    BY <1>1, <1>2, <1>6, <2>1, BarsAre
  <2>3. PassOK'
    BY <1>1, <1>2, <1>3, <1>5, <2>1, <2>2 DEF PassOK
  <2> QED
    BY <1>1, <1>2, <1>3, <1>4, <2>3, PairsStay DEF XInv
<1>7. CASE ~(decided = <<>> /\ seen + 1 > WarmupSamples)
  <2>1. decided' = decided
    BY <1>2, <1>7
  <2>2. decided = <<>> => seen' <= WarmupSamples
    BY <1>2, <1>5, <1>7
  <2>3. PassOK'
    BY <1>1, <1>2, <1>3, <1>5, <2>1, <2>2 DEF PassOK
  <2> QED
    BY <1>1, <1>2, <1>3, <1>4, <2>3, PairsStay DEF XInv
<1> QED
    BY <1>6, <1>7

LEMMA MainDoneKeeps ==
    ASSUME XInv, MainDone
    PROVE  XInv'
<1>1. WindowOK /\ LoopOK /\ PassOK /\ PairsOK
    BY DEF XInv
<1>2. /\ phase = "main" /\ phase' = "done" /\ seen' = seen /\ decided' = decided
      /\ UNCHANGED feed /\ pairs' = pairs /\ UNCHANGED loop
    BY DEF MainDone
<1>3. /\ WindowOK' /\ Main' = Main /\ WarmupSamples' = WarmupSamples /\ driver' = driver
    BY <1>1, <1>2, WindowStays
<1>4. LoopOK'
    BY <1>1, <1>2, <1>3, PastTheLoop
<1>5. PassOK'
    BY <1>1, <1>2, <1>3 DEF PassOK
<1> QED
    BY <1>1, <1>2, <1>3, <1>4, <1>5, PairsStay DEF XInv

LEMMA InitXInv ==
    ASSUME Init
    PROVE  XInv
<1>1. /\ M \in Nat \ {0} /\ MinWarmupBars \in Nat \ {0} /\ StabilityWindow \in Nat \ {0}
    BY ConstantsAre
<1>2. WindowOK
  <2>1. win \in [start : {0, M}, warmupEnd : 0 .. LastMinute, end : {LastMinute}]
        /\ win.start < win.warmupEnd
    BY DEF Init, Windows
  <2>2. driver = "offline" => win.warmupEnd % M = 0
    BY DEF Init
  <2>3. driver \in {"online", "offline", "alone"} /\ missing \in SUBSET (0 .. LastMinute)
    BY DEF Init
  <2> QED
    BY <2>1, <2>2, <2>3 DEF WindowOK, FeedOK
<1>3. /\ errors = <<>> /\ trace = <<>> /\ converged = FALSE /\ seen = 0 /\ decided = <<>>
      /\ nextCheck = MinWarmupBars
      /\ phase = IF driver = "alone" THEN "calibrate" ELSE "pre"
      /\ driver # "alone" => pairs = <<>>
    BY DEF Init
<1>4. pairs \in Seq(Int)
  <2>1. CASE driver = "alone"
    <3>1. PICK n \in 0 .. MaxPairs : pairs = [i \in 1 .. n |-> 0]
        BY <2>1 DEF Init
    <3> QED
        BY <3>1, ConstantsAre
  <2>2. CASE driver # "alone"
    BY <1>3, <2>2
  <2> QED
    BY <2>1, <2>2
<1>5. FoundOK
    BY <1>3, <1>4, NothingFound
<1>6. ASSUME driver = "alone"
      PROVE  AheadOK
  <2>1. FirstAllowed \in Nat \ {0} /\ HalfWindow \in Nat \ {0}
    BY <1>4, LoopNumbers
  <2>2. 2 * StabilityWindow \in Nat
    BY <1>1
  <2>3. nextCheck <= FirstAllowed /\ nextCheck \in Nat
    BY <1>1, <1>3, <1>6, <2>2 DEF FirstAllowed, Larger
  <2>4. Len(trace) = 0 /\ Len(errors) = 0
    BY <1>3
  <2>5. NextAt = FirstAllowed
    BY <2>1, <2>4 DEF NextAt
  <2>6. Larger(FirstAllowed, nextCheck) = FirstAllowed
    BY <2>1, <2>3 DEF Larger
  <2> QED
    BY <2>1, <2>3, <2>4, <2>5, <2>6 DEF AheadOK
<1>7. LoopOK
    BY <1>3, <1>5, <1>6 DEF LoopOK
<1>8. PassOK
    BY <1>2, <1>3 DEF PassOK, WindowOK
<1>9. PairsOK
    BY <1>3 DEF PairsOK
<1> QED
    BY <1>2, <1>7, <1>8, <1>9 DEF XInv

LEMMA NextKeepsXInv ==
    ASSUME XInv, [Next]_vars
    PROVE  XInv'
<1>1. CASE UNCHANGED vars
  <2>1. UNCHANGED feed /\ UNCHANGED loop /\ pairs' = pairs /\ phase' = phase
        /\ seen' = seen /\ decided' = decided
    BY <1>1 DEF vars, feed, loop
  <2>2. WindowOK /\ LoopOK /\ PassOK /\ PairsOK
    BY DEF XInv
  <2>3. /\ WindowOK' /\ Main' = Main /\ WarmupSamples' = WarmupSamples /\ driver' = driver
    BY <2>1, <2>2, WindowStays
  <2>4. LoopOK'
    <3>1. FoundOK'
        BY <2>1, <2>2, <2>3, FoundUntouched DEF LoopOK, loop
    <3>2. AheadOK => AheadOK'
        BY <2>1, <2>3 DEF AheadOK, NextAt, FirstAllowed, HalfWindow, loop
    <3> QED
        BY <2>1, <2>2, <3>1, <3>2 DEF LoopOK, loop
  <2>5. PassOK'
    BY <2>1, <2>2, <2>3 DEF PassOK
  <2> QED
    BY <2>1, <2>2, <2>3, <2>4, <2>5, PairsStay DEF XInv
<1> QED
    BY <1>1, PreBarKeeps, PreDoneKeeps, ReadOfflineKeeps, ObserveKeeps, ReduceKeeps,
       MainBarKeeps, MainDoneKeeps DEF Next

-----------------------------------------------------------------------------
(* What runs check.                                                        *)

(* What links the two passes over the feed, the pairs they give and the    *)
(* loop that takes them, in every reachable state, for any missing minutes *)
(* and any window (run_adaptive_experiment.py, warmup_calibration.py).     *)
THEOREM ExperimentInvariance == Spec => []XInv
<1>1. Init => XInv
    BY InitXInv
<1>2. XInv /\ [Next]_vars => XInv'
    BY NextKeepsXInv
<1> QED
    BY <1>1, <1>2, PTL DEF Spec

(* No bar is decided before all that the calibration saw was replayed,     *)
(* however the feed is broken, in both drivers (CalibrationPrecedesTrading)*)
THEOREM CalibrationComesFirst == Spec => []CalibrationPrecedesTrading
<1>1. XInv => CalibrationPrecedesTrading
    BY PrecedesTrading
<1> QED
    BY <1>1, ExperimentInvariance, PTL

(* The loop makes each check it is due, passes none after the first that   *)
(* finds the error stable and converges at no other bar, whatever its      *)
(* parameters (StopsAtFirstStable).                                        *)
THEOREM LoopStopsAtFirstStable == Spec => []StopsAtFirstStable
<1>1. ASSUME XInv PROVE StopsAtFirstStable
  <2> DEFINE stable == {n \in Checks : Stable(SubSeq(errors, 1, n))}
  <2>1. FoundOK
    BY <1>1 DEF XInv, LoopOK
  <2>2. Checks = {n \in 1 .. Len(errors) :
                     \E i \in 0 .. n : n = FirstAllowed + i * HalfWindow}
    BY DEF Checks, CheckedAt
  <2>3. /\ converged => Len(errors) \in stable
        /\ \A n \in stable \ {FirstAllowed} : converged /\ n = Len(errors)
    BY <2>1 DEF FoundOK
  <2>4. Len(trace) = Cardinality(Checks) /\ Len(errors) <= MaxWarmupBars
    BY <2>1 DEF FoundOK
  <2> QED
    BY <2>2, <2>3, <2>4, Zenon DEF StopsAtFirstStable
<1> QED
    BY <1>1, ExperimentInvariance, PTL

-----------------------------------------------------------------------------
(* The protocol and its scores.                                            *)

(* What the assumptions say of each constant.                              *)
LEMMA ProtocolConstants ==
    /\ BarMinutes \in Nat \ {0} /\ NRows \in Nat \ {0}
    /\ NFolds \in Nat \ {0} /\ NTestFolds \in Nat \ {0} /\ MaxBars \in Nat \ {0}
    /\ Window \in Nat \ {0} /\ Unit \in Nat /\ Minutes \in Nat
    /\ Bins \in Nat \ {0} /\ Scale \in Nat \ {0} /\ Dispersed \in Nat \ {0}
    /\ MinPeriods \in Nat /\ MaxChunks \in Nat
    /\ MinPeriods >= 2 /\ MaxChunks >= 2 /\ MaxChunks % 2 = 0
BY ProtocolAssumption, ScoresAssumption

(* A nonempty finite set of integers has a least and a greatest element. *)
LEMMA IntExtremes ==
    ASSUME NEW S \in SUBSET Int, IsFiniteSet(S), S # {}
    PROVE  /\ Min(S) \in S /\ Max(S) \in S
           /\ \A x \in S : Min(S) <= x /\ x <= Max(S)
<1> DEFINE Good(T) == /\ \E x \in T : \A y \in T : x <= y
                      /\ \E x \in T : \A y \in T : x >= y
           Sizes == {n \in Nat : \E T \in SUBSET S : T # {} /\ ~Good(T) /\ Cardinality(T) = n}
<1>1. \A T \in SUBSET S : IsFiniteSet(T) /\ Cardinality(T) \in Nat
    BY FS_Subset, FS_CardinalityType
<1>2. Sizes = {}
  <2> SUFFICES ASSUME Sizes # {} PROVE FALSE
    OBVIOUS
  <2>1. PICK n \in Sizes : \A k \in Sizes : n <= k
    <3>1. Sizes \in SUBSET Nat
        OBVIOUS
    <3> HIDE DEF Sizes
    <3> QED
        BY <3>1, LeastExists
  <2>2. PICK T \in SUBSET S : T # {} /\ ~Good(T) /\ Cardinality(T) = n
    OBVIOUS
  <2>3. PICK z \in T : TRUE
    BY <2>2
  <2>4. IsFiniteSet(T \ {z}) /\ Cardinality(T \ {z}) = Cardinality(T) - 1
    BY <1>1, <2>2, <2>3, FS_RemoveElement
  <2>5. CASE T \ {z} = {}
    <3>1. T = {z} /\ z \in Int
        BY <2>3, <2>5
    <3> QED
        BY <2>2, <3>1
  <2>6. CASE T \ {z} # {}
    <3>1. Good(T \ {z})
      <4>1. Cardinality(T \ {z}) \in Nat /\ n \in Nat /\ ~(n <= Cardinality(T \ {z}))
        BY <1>1, <2>2, <2>4
      <4>2. Cardinality(T \ {z}) \notin Sizes
        BY <2>1, <4>1
      <4> QED
        BY <2>2, <2>6, <4>1, <4>2
    <3>2. PICK lo \in T \ {z} : \A y \in T \ {z} : lo <= y
        BY <3>1
    <3>3. PICK hi \in T \ {z} : \A y \in T \ {z} : hi >= y
        BY <3>1
    <3>4. T \subseteq Int
        BY <2>2
    <3>5. \E x \in T : \A y \in T : x <= y
      <4>1. CASE z <= lo
        BY <2>3, <3>2, <3>4, <4>1
      <4>2. CASE ~(z <= lo)
        BY <2>3, <3>2, <3>4, <4>2
      <4> QED
        BY <4>1, <4>2
    <3>6. \E x \in T : \A y \in T : x >= y
      <4>1. CASE z >= hi
        BY <2>3, <3>3, <3>4, <4>1
      <4>2. CASE ~(z >= hi)
        BY <2>3, <3>3, <3>4, <4>2
      <4> QED
        BY <4>1, <4>2
    <3> QED
        BY <2>2, <3>5, <3>6
  <2> QED
    BY <2>5, <2>6
<1>3. Good(S)
    BY <1>1, <1>2
<1>4. Min(S) \in S /\ \A x \in S : Min(S) <= x
    BY <1>3, Zenon DEF Min
<1>5. Max(S) \in S /\ \A x \in S : Max(S) >= x
    BY <1>3, Zenon DEF Max
<1> QED
    BY <1>4, <1>5

(* Every group of bars lies inside the bars there are. *)
LEMMA GroupsInside ==
    ASSUME NEW g \in 1 .. NFolds
    PROVE  Group(g) \subseteq 0 .. NBars - 1
<1>1. NBars \in Nat /\ NFolds \in Nat \ {0} /\ g \in Nat \ {0} /\ g <= NFolds
    BY ProtocolConstants DEF NBars
<1>2. PICK a \in Nat : a = (g - 1) * NBars /\ a >= 0
    BY <1>1
<1>3. PICK b \in Nat : b = g * NBars /\ b <= NFolds * NBars
    BY <1>1
<1>4. (a \div NFolds) \in Nat
    BY <1>1, <1>2
<1>5. (b \div NFolds) \in Nat /\ (b \div NFolds) <= NBars
  <2>1. PICK q \in Nat : q = b \div NFolds /\ q * NFolds <= b
    BY <1>1, <1>3
  <2>2. ASSUME q >= NBars + 1 PROVE FALSE
    <3>1. q * NFolds >= (NBars + 1) * NFolds
        BY <1>1, <2>1, <2>2
    <3>2. (NBars + 1) * NFolds = NFolds * NBars + NFolds /\ q * NFolds \in Nat /\ NFolds * NBars \in Nat
        BY <1>1, <2>1
    <3> QED
        BY <1>1, <1>3, <2>1, <3>1, <3>2
  <2> QED
    BY <1>1, <2>1, <2>2
<1> QED
    BY <1>1, <1>2, <1>3, <1>4, <1>5 DEF Group

(* What a fold tests. *)
LEMMA FoldsTest ==
    /\ Len(TestGroups) \in Nat /\ DOMAIN TestGroups = 1 .. Len(TestGroups)
    /\ \A k \in 1 .. Len(TestGroups) : TestBars(k) \subseteq 0 .. NBars - 1
<1> DEFINE S == kSubset(NTestFolds, 1 .. NFolds)
<1>1. IsFiniteSet(S) /\ S \subseteq SUBSET (1 .. NFolds)
  <2>1. IsFiniteSet(SUBSET (1 .. NFolds))
    <3>1. IsFiniteSet(1 .. NFolds)
        BY ProtocolConstants, FS_Interval
    <3> QED
        BY <3>1, FS_SUBSET
  <2>2. S \subseteq SUBSET (1 .. NFolds)
    BY DEF kSubset
  <2> HIDE DEF S
  <2> QED
    BY <2>1, <2>2, FS_Subset
<1>2. TestGroups = SetToSeq(S)
    BY DEF TestGroups
<1> HIDE DEF S
<1>3. /\ TestGroups \in Seq(S)
      /\ \A k \in DOMAIN TestGroups : TestGroups[k] \in S
    BY <1>1, <1>2, SetToSeqIs
<1>4. Len(TestGroups) \in Nat /\ DOMAIN TestGroups = 1 .. Len(TestGroups)
    BY <1>3
<1>5. ASSUME NEW k \in 1 .. Len(TestGroups) PROVE TestBars(k) \subseteq 0 .. NBars - 1
  <2>1. TestGroups[k] \subseteq 1 .. NFolds
    BY <1>1, <1>3, <1>4, <1>5
  <2> QED
    BY <2>1, GroupsInside DEF TestBars
<1> QED
    BY <1>4, <1>5

(* A fold's rows take in those of each bar it tests. *)
LEMMA TestBarsReplayed ==
    ASSUME NEW k \in 1 .. Len(TestGroups), NEW b \in TestBars(k)
    PROVE  b * BarMinutes .. (b + 1) * BarMinutes - 1 \subseteq Replayed(k)
<1> DEFINE flat == TestBars(k)
           lo == Min(flat)
           hi == Max(flat)
<1>1. NBars \in Nat /\ BarMinutes \in Nat \ {0} /\ NRows \in Nat \ {0}
    BY ProtocolConstants DEF NBars
<1>2. NBars * BarMinutes <= NRows
    BY <1>1 DEF NBars
<1>3. flat \subseteq 0 .. NBars - 1
    BY FoldsTest
<1>4. lo \in 0 .. NBars - 1 /\ hi \in 0 .. NBars - 1 /\ lo <= b /\ b <= hi
  <2>1. IsFiniteSet(flat) /\ flat # {} /\ flat \in SUBSET Int
    <3>1. IsFiniteSet(0 .. NBars - 1)
        BY <1>1, FS_Interval
    <3>2. IsFiniteSet(flat)
        BY <1>3, <3>1, FS_Subset, Zenon
    <3>3. b \in flat
        OBVIOUS
    <3>4. \A x \in 0 .. NBars - 1 : x \in Int
        OBVIOUS
    <3> QED
        BY <1>3, <3>2, <3>3, <3>4, Zenon
  <2> QED
    BY <1>3, <2>1, IntExtremes
<1>5. Replayed(k) = lo * BarMinutes .. Smaller((hi + 1) * BarMinutes, NRows - 1)
    BY DEF Replayed
<1>6. b \in 0 .. NBars - 1
    BY <1>3
<1> HIDE DEF flat, lo, hi
<1>7. ASSUME NEW r \in b * BarMinutes .. (b + 1) * BarMinutes - 1
      PROVE  r \in Replayed(k)
  <2>1. lo * BarMinutes \in Nat /\ b * BarMinutes \in Nat /\ lo * BarMinutes <= b * BarMinutes
    BY <1>1, <1>4, <1>6
  <2>2. (b + 1) * BarMinutes \in Nat /\ (hi + 1) * BarMinutes \in Nat
        /\ (b + 1) * BarMinutes <= (hi + 1) * BarMinutes
    BY <1>1, <1>4, <1>6
  <2>3. (b + 1) * BarMinutes <= NBars * BarMinutes /\ NBars * BarMinutes \in Nat
    BY <1>1, <1>6
  <2> QED
    BY <1>1, <1>2, <1>5, <2>1, <2>2, <2>3 DEF Smaller
<1> QED
    BY <1>7

-----------------------------------------------------------------------------
(* What a sequence has at some positions.                                  *)

CountTo(i, I) == Cardinality({j \in I : j <= i})
PickAt(k, I) == CHOOSE i \in I : CountTo(i, I) = k

(* Counted in order, the positions take the places from one on. *)
LEMMA PlacesAre ==
    ASSUME NEW n \in Nat, NEW I \in SUBSET (1 .. n)
    PROVE  /\ IsFiniteSet(I) /\ Cardinality(I) \in Nat
           /\ \A i \in I : CountTo(i, I) \in 1 .. Cardinality(I)
           /\ \A i, j \in I : i < j => CountTo(i, I) < CountTo(j, I)
           /\ \A k \in 1 .. Cardinality(I) : \E i \in I : CountTo(i, I) = k
<1> DEFINE upTo(i) == {j \in I : j <= i}
           c == Cardinality(I)
<1>1. IsFiniteSet(I)
  <2>1. IsFiniteSet(1 .. n)
    BY FS_Interval
  <2> QED
    BY <2>1, FS_Subset
<1>2. c \in Nat
    BY <1>1, FS_CardinalityType
<1>3. \A i \in I : IsFiniteSet(upTo(i)) /\ Cardinality(upTo(i)) \in Nat /\ Cardinality(upTo(i)) <= c
  <2> SUFFICES ASSUME NEW i \in I
               PROVE  IsFiniteSet(upTo(i)) /\ Cardinality(upTo(i)) \in Nat /\ Cardinality(upTo(i)) <= c
    OBVIOUS
  <2>1. upTo(i) \in SUBSET I
    OBVIOUS
  <2> HIDE DEF upTo
  <2>2. IsFiniteSet(upTo(i)) /\ Cardinality(upTo(i)) <= c
    BY <1>1, <2>1, FS_Subset
  <2> QED
    BY <2>2, FS_CardinalityType
<1>4. ASSUME NEW i \in I PROVE Cardinality(upTo(i)) # 0
  <2>1. IsFiniteSet(upTo(i))
    BY <1>3
  <2>2. i \in upTo(i)
    OBVIOUS
  <2>3. \A T : IsFiniteSet(T) => (Cardinality(T) = 0 <=> T = {})
    BY FS_EmptySet
  <2> HIDE DEF upTo
  <2> QED
    BY <2>1, <2>2, <2>3, Zenon
<1>5. ASSUME NEW i \in I, NEW j \in I, i < j
      PROVE  Cardinality(upTo(i)) < Cardinality(upTo(j))
  <2>1. upTo(i) \in SUBSET upTo(j) /\ j \in upTo(j) /\ j \notin upTo(i)
    <3>1. \A k \in I : k \in Int
        OBVIOUS
    <3>2. \A k \in I : k <= i => k <= j
        BY <1>5, <3>1
    <3>3. j <= j /\ ~(j <= i)
        BY <1>5, <3>1
    <3> QED
        BY <3>2, <3>3
  <2> HIDE DEF upTo
  <2>2. /\ Cardinality(upTo(i)) <= Cardinality(upTo(j))
        /\ Cardinality(upTo(i)) # Cardinality(upTo(j))
    BY <1>3, <2>1, FS_Subset
  <2> QED
    BY <1>3, <2>2
<1>6. \A i \in I : CountTo(i, I) = Cardinality(upTo(i))
    BY DEF CountTo
<1> HIDE DEF upTo
<1>7. \A i \in I : CountTo(i, I) \in 1 .. c
    BY <1>2, <1>3, <1>4, <1>6
<1>8. \A i, j \in I : i < j => CountTo(i, I) < CountTo(j, I)
    BY <1>5, <1>6
<1> DEFINE r == [i \in I |-> CountTo(i, I)]
<1>9. r \in [I -> 1 .. c]
    BY <1>7
<1>10. ASSUME NEW i \in I, NEW j \in I, r[i] = r[j] PROVE i = j
  <2>1. i \in Int /\ j \in Int
    OBVIOUS
  <2>2. CountTo(i, I) = CountTo(j, I)
    BY <1>10
  <2>3. CountTo(i, I) \in Int /\ CountTo(j, I) \in Int
    BY <1>2, <1>7
  <2> QED
    BY <1>8, <2>1, <2>2, <2>3
<1>11. \A i \in I : r[i] = CountTo(i, I)
    OBVIOUS
<1> HIDE DEF r, c
<1>12. r \in Injection(I, 1 .. c)
    BY <1>9, <1>10 DEF Injection, IsInjective
<1>13. IsFiniteSet(1 .. c) /\ Cardinality(1 .. c) = c
    BY <1>2, FS_Interval
<1>14. r \in Surjection(I, 1 .. c)
    BY <1>12, <1>13, FS_Injection DEF c
<1>15. \A k \in 1 .. c : \E i \in I : r[i] = k
    BY <1>14 DEF Surjection
<1> QED
    BY <1>1, <1>2, <1>7, <1>8, <1>11, <1>15 DEF c

(* What is picked is what stood there, each once and in order. *)
LEMMA PickedIs ==
    ASSUME NEW n \in Nat, NEW I \in SUBSET (1 .. n), NEW S, NEW s, \A i \in I : s[i] \in S
    PROVE  /\ Picked(s, I) \in Seq(S) /\ Len(Picked(s, I)) = Cardinality(I)
           /\ DOMAIN Picked(s, I) = 1 .. Cardinality(I)
           /\ \A k \in 1 .. Cardinality(I) :
                  /\ PickAt(k, I) \in I /\ CountTo(PickAt(k, I), I) = k
                  /\ Picked(s, I)[k] = s[PickAt(k, I)]
           /\ \A i \in I : PickAt(CountTo(i, I), I) = i
           /\ \A k, l \in 1 .. Cardinality(I) : k < l => PickAt(k, I) < PickAt(l, I)
<1> DEFINE c == Cardinality(I)
<1>1. /\ c \in Nat
      /\ \A i \in I : CountTo(i, I) \in 1 .. c
      /\ \A i, j \in I : i < j => CountTo(i, I) < CountTo(j, I)
      /\ \A k \in 1 .. c : \E i \in I : CountTo(i, I) = k
    BY PlacesAre
<1>2. \A k \in 1 .. c : PickAt(k, I) \in I /\ CountTo(PickAt(k, I), I) = k
    BY <1>1 DEF PickAt
<1>3. Picked(s, I) = [k \in 1 .. c |-> s[PickAt(k, I)]]
    BY DEF Picked, PickAt, CountTo
<1>4. Picked(s, I) \in [1 .. c -> S]
    BY <1>2, <1>3
<1>5. \A i, j \in I : CountTo(i, I) = CountTo(j, I) => i = j
  <2>1. \A i \in I : i \in Int /\ CountTo(i, I) \in Int
    BY <1>1
  <2> QED
    BY <1>1, <2>1
<1>6. \A i \in I : PickAt(CountTo(i, I), I) = i
    BY <1>1, <1>2, <1>5
<1>7. ASSUME NEW k \in 1 .. c, NEW l \in 1 .. c, k < l PROVE PickAt(k, I) < PickAt(l, I)
  <2>1. /\ PickAt(k, I) \in I /\ PickAt(l, I) \in I
        /\ CountTo(PickAt(k, I), I) = k /\ CountTo(PickAt(l, I), I) = l
    BY <1>2
  <2>2. PickAt(k, I) \in Int /\ PickAt(l, I) \in Int
    <3>1. \A i \in I : i \in Int
        OBVIOUS
    <3> QED
        BY <2>1, <3>1
  <2>3. k \in Int /\ l \in Int /\ ~(l < k) /\ k # l
    BY <1>1, <1>7
  <2>4. PickAt(k, I) # PickAt(l, I)
    BY <2>1, <2>3
  <2>5. ~(PickAt(l, I) < PickAt(k, I))
    <3>1. PickAt(l, I) < PickAt(k, I) => CountTo(PickAt(l, I), I) < CountTo(PickAt(k, I), I)
        BY <1>1, <2>1, Zenon
    <3> QED
        BY <2>1, <2>3, <3>1
  <2> QED
    BY <2>2, <2>4, <2>5
<1> HIDE DEF c
<1>8. Picked(s, I) \in Seq(S) /\ Len(Picked(s, I)) = c /\ DOMAIN Picked(s, I) = 1 .. c
    BY <1>1, <1>4
<1>9. \A k \in 1 .. c : Picked(s, I)[k] = s[PickAt(k, I)]
    BY <1>3
<1> QED
    BY <1>2, <1>6, <1>7, <1>8, <1>9 DEF c

-----------------------------------------------------------------------------
(* Folds over a sequence.  FoldLeft goes through sets of positions, taking *)
(* the last out; a step is given as a function, for the facts that hold of *)
(* every fold.                                                             *)

Folds(it, D, s, F, b) ==
    \A r \in SUBSET D : it[r] = IF r = {} THEN b ELSE F[<<it[r \ {Max(r)}], s[Max(r)]>>]

(* The greatest of some places up to m is the last if it is among them.    *)
LEMMA MaxIsLast ==
    ASSUME NEW m \in Nat, NEW r \in SUBSET (1 .. m), r # {}
    PROVE  /\ Max(r) \in r /\ \A x \in r : x <= Max(r)
           /\ m \in r => Max(r) = m
<1>1. IsFiniteSet(r)
  <2>1. IsFiniteSet(1 .. m)
    BY FS_Interval
  <2> QED
    BY <2>1, FS_Subset
<1>2. r \in SUBSET Int
    OBVIOUS
<1>3. Max(r) \in r /\ \A x \in r : x <= Max(r)
    BY <1>1, <1>2, IntExtremes
<1>4. \A x \in r : x \in Int /\ x <= m
    OBVIOUS
<1>5. Max(r) \in Int /\ Max(r) <= m
    BY <1>3, <1>4
<1>6. ASSUME m \in r PROVE Max(r) = m
  <2>1. m <= Max(r)
    BY <1>3, <1>6
  <2> QED
    BY <1>5, <2>1
<1> QED
    BY <1>3, <1>6

(* There is such a function, with values where the steps have theirs. *)
LEMMA FoldExists ==
    ASSUME NEW A, NEW E, NEW n \in Nat, NEW s, \A i \in 1 .. n : s[i] \in E,
           NEW b \in A, NEW F \in [A \X E -> A]
    PROVE  \E it \in [SUBSET (1 .. n) -> A] : Folds(it, 1 .. n, s, F, b)
<1> DEFINE Good(m) == \E it \in [SUBSET (1 .. m) -> A] : Folds(it, 1 .. m, s, F, b)
           Bad == {m \in Nat : m <= n /\ ~Good(m)}
<1>0. SUFFICES Good(n)
    OBVIOUS
<1> HIDE DEF Good
<1> SUFFICES ASSUME Bad # {} PROVE FALSE
    OBVIOUS
<1>1. PICK m \in Bad : \A k \in Bad : m <= k
  <2>1. Bad \in SUBSET Nat
    OBVIOUS
  <2> HIDE DEF Bad
  <2> QED
    BY <2>1, LeastExists
<1>2. m \in Nat /\ m <= n /\ ~Good(m)
    OBVIOUS
<1>3. CASE m = 0
  <2> DEFINE it == [r \in SUBSET (1 .. 0) |-> b]
  <2>1. \A r \in SUBSET (1 .. 0) : r = {}
    OBVIOUS
  <2>2. it \in [SUBSET (1 .. 0) -> A]
    OBVIOUS
  <2>3. Folds(it, 1 .. 0, s, F, b)
    BY <2>1 DEF Folds
  <2> QED
    BY <1>2, <1>3, <2>2, <2>3 DEF Good
<1>4. CASE m # 0
  <2> DEFINE l == m - 1
  <2>1. l \in Nat /\ m = l + 1 /\ l <= n /\ m \in 1 .. n
    BY <1>2, <1>4
  <2>2. Good(l)
    BY <1>1, <1>2, <2>1
  <2> HIDE DEF l
  <2>3. PICK it \in [SUBSET (1 .. l) -> A] : Folds(it, 1 .. l, s, F, b)
    BY <2>2 DEF Good
  <2> DEFINE on == [r \in SUBSET (1 .. m) |->
                       IF m \in r THEN F[<<it[r \ {m}], s[m]>>] ELSE it[r]]
  <2>4. \A r \in SUBSET (1 .. m) : r \ {m} \in SUBSET (1 .. l) /\ (m \notin r => r \in SUBSET (1 .. l))
    BY <2>1
  <2>5. on \in [SUBSET (1 .. m) -> A]
    <3>1. \A r \in SUBSET (1 .. m) : it[r \ {m}] \in A
        BY <2>3, <2>4
    <3>2. s[m] \in E
        BY <2>1
    <3>3. \A r \in SUBSET (1 .. m) : F[<<it[r \ {m}], s[m]>>] \in A
        BY <3>1, <3>2
    <3>4. \A r \in SUBSET (1 .. m) : m \notin r => it[r] \in A
        BY <2>3, <2>4
    <3> QED
        BY <3>3, <3>4
  <2>6. ASSUME NEW r \in SUBSET (1 .. m)
        PROVE  on[r] = IF r = {} THEN b ELSE F[<<on[r \ {Max(r)}], s[Max(r)]>>]
    <3>1. CASE m \in r
      <4>1. Max(r) = m /\ r # {}
        BY <1>2, <3>1, MaxIsLast
      <4>2. on[r] = F[<<it[r \ {m}], s[m]>>]
        BY <3>1
      <4>3. on[r \ {m}] = it[r \ {m}]
        <5>1. r \ {m} \in SUBSET (1 .. m) /\ m \notin r \ {m}
            OBVIOUS
        <5> QED
            BY <5>1
      <4> QED
        BY <4>1, <4>2, <4>3
    <3>2. CASE m \notin r
      <4>1. r \in SUBSET (1 .. l) /\ on[r] = it[r]
        BY <2>4, <3>2
      <4>2. on[r \ {Max(r)}] = it[r \ {Max(r)}]
        <5>1. r \ {Max(r)} \in SUBSET (1 .. m) /\ m \notin r \ {Max(r)}
            BY <3>2
        <5> QED
            BY <5>1
      <4> QED
        BY <2>3, <4>1, <4>2 DEF Folds
    <3> QED
        BY <3>1, <3>2
  <2> HIDE DEF on
  <2> QED
    BY <1>2, <2>5, <2>6 DEF Folds, Good
<1> QED
    BY <1>3, <1>4

(* What holds of nothing, and of each place if of the one before, holds of *)
(* all of them.                                                            *)
LEMMA Upwards ==
    ASSUME NEW n \in Nat, NEW G, 0 \in G, \A k \in 1 .. n : k - 1 \in G => k \in G
    PROVE  \A k \in 0 .. n : k \in G
<1> DEFINE Bad == {k \in Nat : k <= n /\ k \notin G}
<1> SUFFICES ASSUME Bad # {} PROVE FALSE
    OBVIOUS
<1>1. PICK k \in Bad : \A l \in Bad : k <= l
  <2>1. Bad \in SUBSET Nat
    OBVIOUS
  <2> HIDE DEF Bad
  <2> QED
    BY <2>1, LeastExists
<1>2. k \in Nat /\ k <= n /\ k \notin G /\ k # 0
    OBVIOUS
<1>3. k - 1 \in Nat /\ k - 1 <= n /\ ~(k <= k - 1) /\ k \in 1 .. n
    BY <1>2
<1> QED
    BY <1>1, <1>2, <1>3

(* The positions up to some place. *)
LEMMA PrefixLast ==
    ASSUME NEW n \in Nat
    PROVE  /\ 1 .. 0 = {}
           /\ \A k \in 1 .. n :
                  /\ 1 .. k \in SUBSET (1 .. n) /\ 1 .. k # {} /\ Max(1 .. k) = k
                  /\ (1 .. k) \ {k} = 1 .. k - 1 /\ k - 1 \in 0 .. n
<1>1. ASSUME NEW k \in 1 .. n PROVE Max(1 .. k) = k
  <2>1. k \in Nat /\ 1 .. k \in SUBSET (1 .. k) /\ 1 .. k # {} /\ k \in 1 .. k
    OBVIOUS
  <2> QED
    BY <2>1, MaxIsLast
<1>2. 1 .. 0 = {}
    OBVIOUS
<1>3. \A k \in 1 .. n : 1 .. k \in SUBSET (1 .. n) /\ 1 .. k # {}
    OBVIOUS
<1>4. \A k \in 1 .. n : (1 .. k) \ {k} = 1 .. k - 1 /\ k - 1 \in 0 .. n
    OBVIOUS
<1> QED
    BY <1>1, <1>2, <1>3, <1>4, Zenon

(* Sums. *)
Plus == [x \in Int \X Int |-> x[1] + x[2]]

(* A sum goes through the elements in turn. *)
Sums(h, n, s) == h[0] = 0 /\ \A k \in 1 .. n : h[k] = h[k - 1] + s[k]

(* A sum goes through the sums of the first few.                           *)
LEMMA SumRuns ==
    ASSUME NEW n \in Nat, NEW s, DOMAIN s = 1 .. n, \A i \in 1 .. n : s[i] \in Int
    PROVE  \E h \in [0 .. n -> Int] : Sums(h, n, s) /\ h[n] = Sum(s)
<1> DEFINE D == 1 .. n
           Is(it) == it = [r \in SUBSET D |->
                              IF r = {} THEN 0 ELSE it[r \ {Max(r)}] + s[Max(r)]]
           it == CHOOSE it : Is(it)
<1>1. Plus \in [Int \X Int -> Int] /\ \A x, y \in Int : Plus[<<x, y>>] = x + y
    BY DEF Plus
<1>2. \E f : Is(f)
  <2>1. PICK f \in [SUBSET D -> Int] : Folds(f, D, s, Plus, 0)
    <3>1. 0 \in Int
        OBVIOUS
    <3> QED
        BY <1>1, <3>1, FoldExists, Zenon
  <2>2. ASSUME NEW r \in SUBSET D
        PROVE  f[r] = IF r = {} THEN 0 ELSE f[r \ {Max(r)}] + s[Max(r)]
    <3>1. CASE r = {}
        BY <2>1, <3>1 DEF Folds
    <3>2. CASE r # {}
      <4>1. f[r] = Plus[<<f[r \ {Max(r)}], s[Max(r)]>>]
        BY <2>1, <3>2 DEF Folds
      <4>2. Max(r) \in D
        BY <3>2, MaxIsLast
      <4>3. f[r \ {Max(r)}] \in Int /\ s[Max(r)] \in Int
        BY <2>1, <4>2
      <4> QED
        BY <1>1, <3>2, <4>1, <4>3
    <3> QED
        BY <3>1, <3>2
  <2>3. Is(f)
    BY <2>1, <2>2
  <2> QED
    BY <2>3
<1>3. Is(it)
    BY <1>2, Zenon
<1>4. Sum(s) = it[1 .. n]
    BY DEF Sum, FoldLeft, MapThenFoldSet
<1> HIDE DEF it
<1> DEFINE h == [k \in 0 .. n |-> it[1 .. k]]
<1>5. h[0] = 0
    BY <1>3, PrefixLast
<1>6. ASSUME NEW k \in 1 .. n PROVE h[k] = h[k - 1] + s[k]
  <2>1. h[k] = it[1 .. k] /\ h[k - 1] = it[1 .. k - 1]
    OBVIOUS
  <2> DEFINE r == 1 .. k
  <2>2. r \in SUBSET D /\ r # {} /\ Max(r) = k /\ r \ {k} = 1 .. k - 1
    BY PrefixLast
  <2>3. it[r] = it[r \ {Max(r)}] + s[Max(r)]
    <3> HIDE DEF r
    <3> QED
        BY <1>3, <2>2
  <2> QED
    BY <2>1, <2>2, <2>3
<1>7. h[n] = Sum(s)
    BY <1>4
<1>8. \A k \in 0 .. n : h[k] \in Int
  <2> DEFINE G == {k \in 0 .. n : h[k] \in Int}
  <2> HIDE DEF h
  <2>1. 0 \in G
    BY <1>5
  <2>2. \A k \in 1 .. n : k - 1 \in G => k \in G
    BY <1>6
  <2> HIDE DEF G
  <2>3. \A k \in 0 .. n : k \in G
    BY <2>1, <2>2, Upwards
  <2> QED
    BY <2>3 DEF G
<1> QED
  <2>1. h \in [0 .. n -> Int]
    BY <1>8
  <2> HIDE DEF h
  <2> QED
    BY <1>5, <1>6, <1>7, <2>1 DEF Sums

-----------------------------------------------------------------------------
(* What an experiment has collected at any time, and what its score is of. *)
Prediction == [p : 0 .. Unit, y : 0 .. 1]
FoldRow == [fold : Nat, pnl : Returns]

ProtocolInv ==
    /\ mode \in {"backtest", "cv"}
    /\ preds \in Seq(Prediction) /\ paused \in Seq(BOOLEAN) /\ trades \in Seq(Trades)
    /\ fold \in 0 .. Len(TestGroups)
    /\ perFold \in Seq(FoldRow)
    /\ stage = "run" => pbo = NaN
    /\ pbo # NaN =>
           /\ Len(Matrix) >= 2 /\ Len(Matrix[1]) >= MinPeriods
           /\ pbo = <<Cardinality(Overfit(Matrix, Chunks)), Cardinality(Splits(Chunks))>>

(* The score of a cross-validation is that of the matrix of all its folds, *)
(* and stays it (protocol.py, cv.py cross_validation).                     *)
THEOREM ProtocolInvariance == ProtocolSpec => []ProtocolInv
<1>1. ProtocolInit => ProtocolInv
  <2>1. Len(TestGroups) \in Nat
    BY FoldsTest
  <2> QED
    BY <2>1 DEF ProtocolInit, ProtocolInv
<1>2. ProtocolInv /\ [ProtocolNext]_protocolVars => ProtocolInv'
  <2> SUFFICES ASSUME ProtocolInv, [ProtocolNext]_protocolVars PROVE ProtocolInv'
    OBVIOUS
  <2>0. Len(TestGroups)' = Len(TestGroups) /\ Len(TestGroups) \in Nat
    BY FoldsTest DEF TestGroups, kSubset
  <2>1. CASE BacktestBar
    <3>1. UNCHANGED <<mode, stage, fold, perFold, pbo>>
        BY <2>1 DEF BacktestBar, cv
    <3>2. preds' \in Seq(Prediction) /\ paused' \in Seq(BOOLEAN) /\ trades' \in Seq(Trades)
      <4>1. \A p \in 0 .. Unit, y \in 0 .. 1 : [p |-> p, y |-> y] \in Prediction
        BY DEF Prediction
      <4>2. /\ preds' = preds \/ \E x \in Prediction : preds' = Append(preds, x)
            /\ paused' = paused \/ \E x \in BOOLEAN : paused' = Append(paused, x)
            /\ trades' = trades \/ \E x \in Trades : trades' = Append(trades, x)
        BY <2>1, <4>1 DEF BacktestBar
      <4>3. preds \in Seq(Prediction) /\ paused \in Seq(BOOLEAN) /\ trades \in Seq(Trades)
        BY DEF ProtocolInv
      <4>4. preds' \in Seq(Prediction)
        BY <4>2, <4>3
      <4>5. paused' \in Seq(BOOLEAN)
        BY <4>2, <4>3
      <4>6. trades' \in Seq(Trades)
        BY <4>2, <4>3
      <4> QED
        BY <4>4, <4>5, <4>6
    <3>3. stage = "run" /\ pbo = NaN
        BY <2>1 DEF BacktestBar, ProtocolInv
    <3> QED
        BY <2>0, <3>1, <3>2, <3>3 DEF ProtocolInv
  <2>2. CASE BacktestEnds
    BY <2>0, <2>2 DEF BacktestEnds, ProtocolInv, result, cv
  <2>3. CASE Fold
    <3>1. UNCHANGED <<mode, stage, preds, paused, trades, pbo>> /\ stage = "run" /\ pbo = NaN
        BY <2>3 DEF Fold, result, ProtocolInv
    <3>2. fold' \in 0 .. Len(TestGroups)
        BY <2>0, <2>3 DEF Fold, ProtocolInv
    <3>3. perFold' \in Seq(FoldRow)
      <4>1. fold \in Nat
        BY <2>0 DEF ProtocolInv
      <4>2. \A pnl \in Returns : [fold |-> fold + 1, pnl |-> pnl] \in FoldRow
        BY <4>1 DEF FoldRow
      <4>3. \/ perFold' = perFold
            \/ \E pnl \in Returns : perFold' = Append(perFold, [fold |-> fold + 1, pnl |-> pnl])
        BY <2>3, Zenon DEF Fold
      <4>4. CASE perFold' = perFold
        BY <4>4 DEF ProtocolInv
      <4>5. ASSUME NEW pnl \in Returns, perFold' = Append(perFold, [fold |-> fold + 1, pnl |-> pnl])
            PROVE  perFold' \in Seq(FoldRow)
        <5> DEFINE x == [fold |-> fold + 1, pnl |-> pnl]
        <5>1. x \in FoldRow
            BY <4>2
        <5>2. perFold' = Append(perFold, x) /\ perFold \in Seq(FoldRow)
            BY <4>5 DEF ProtocolInv
        <5> HIDE DEF x
        <5> QED
            BY <5>1, <5>2
      <4> QED
        BY <4>3, <4>4, <4>5
    <3> QED
        BY <2>0, <3>1, <3>2, <3>3 DEF ProtocolInv
  <2>4. CASE CvEnds
    <3>1. UNCHANGED <<mode, preds, paused, trades, fold, perFold>> /\ stage' = "gate"
        BY <2>4 DEF CvEnds, result
    <3>2. Matrix' = Matrix
        BY <3>1 DEF Matrix
    <3>3. Chunks' = Chunks
        BY <3>2 DEF Chunks
    <3>4. pbo' # NaN =>
             /\ Len(Matrix) >= 2 /\ Len(Matrix[1]) >= MinPeriods
             /\ pbo' = <<Cardinality(Overfit(Matrix, Chunks)), Cardinality(Splits(Chunks))>>
        BY <2>4 DEF CvEnds
    <3> QED
        BY <2>0, <3>1, <3>2, <3>3, <3>4 DEF ProtocolInv
  <2>5. CASE Gate \/ Render \/ UNCHANGED protocolVars
    <3>1. UNCHANGED <<mode, preds, paused, trades, fold, perFold, pbo>>
        BY <2>5 DEF Gate, Render, protocolVars, result, cv
    <3>2. stage' # "run" \/ stage' = stage
        BY <2>5 DEF Gate, Render, protocolVars
    <3>3. Matrix' = Matrix
        BY <3>1 DEF Matrix
    <3>4. Chunks' = Chunks
        BY <3>3 DEF Chunks
    <3> QED
        BY <2>0, <3>1, <3>2, <3>3, <3>4 DEF ProtocolInv
  <2> QED
    BY <2>1, <2>2, <2>3, <2>4, <2>5 DEF ProtocolNext
<1> QED
  BY <1>1, <1>2, PTL DEF ProtocolSpec

(* A fold replays every row of the bars it tests (protocol.py, cv.py): its *)
(* first row is that of the first bar, and the last is inside the file.    *)
THEOREM RowsReplayedInvariance == ProtocolSpec => []TestRowsReplayed
<1>1. ProtocolInv => TestRowsReplayed
  <2> SUFFICES ASSUME ProtocolInv, fold > 0, NEW b \in TestBars(fold)
               PROVE  b * BarMinutes .. (b + 1) * BarMinutes - 1 \subseteq Replayed(fold)
    BY DEF TestRowsReplayed
  <2>1. fold \in 1 .. Len(TestGroups)
    BY FoldsTest DEF ProtocolInv
  <2> QED
    BY <2>1, TestBarsReplayed
<1> QED
  BY <1>1, ProtocolInvariance, PTL

-----------------------------------------------------------------------------
(* Overfitting.                                                            *)
Ratio == [mean : Int, var : Int]

(* The mean and the variance of a Sharpe ratio are whole numbers.          *)
LEMMA SharpeIs ==
    ASSUME NEW r \in Seq(Int)
    PROVE  Sharpe(r) \in Ratio
<1> DEFINE n == Len(r)
           sq == Map(r, Square)
<1>1. n \in Nat /\ DOMAIN r = 1 .. n /\ \A i \in 1 .. n : r[i] \in Int
    OBVIOUS
<1>2. DOMAIN sq = 1 .. n /\ \A i \in 1 .. n : sq[i] \in Int
    BY <1>1 DEF Map, Square
<1>3. Sum(r) \in Int
  <2>1. PICK h \in [0 .. n -> Int] : h[n] = Sum(r)
    BY <1>1, SumRuns
  <2> QED
    BY <1>1, <2>1
<1>4. Sum(sq) \in Int
  <2> HIDE DEF sq
  <2>1. PICK h \in [0 .. n -> Int] : h[n] = Sum(sq)
    BY <1>1, <1>2, SumRuns
  <2> QED
    BY <1>1, <2>1
<1> DEFINE v == Len(r) * Sum(sq) - Square(Sum(r))
<1>5. v \in Int
  <2>1. \A a, b, c \in Int : a * b - c * c \in Int
    OBVIOUS
  <2>2. v = Len(r) * Sum(sq) - Sum(r) * Sum(r)
    BY DEF Square
  <2>3. Len(r) \in Int
    BY <1>1
  <2> HIDE DEF sq, v
  <2> QED
    BY <1>3, <1>4, <2>1, <2>2, <2>3
<1>6. (IF v = 0 THEN 1 ELSE Dispersed * v) \in Int
  <2>1. \A a \in Int : (IF a = 0 THEN 1 ELSE Dispersed * a) \in Int
    BY ProtocolConstants
  <2> HIDE DEF v
  <2> QED
    BY <1>5, <2>1
<1>7. Sharpe(r) = [mean |-> Sum(r), var |-> IF v = 0 THEN 1 ELSE Dispersed * v]
    BY DEF Sharpe
<1> HIDE DEF v
<1> QED
    BY <1>3, <1>6, <1>7 DEF Ratio

(* To do worse than another is to do better in no way. *)
LEMMA BelowIsStrict ==
    ASSUME NEW a \in Ratio, NEW b \in Ratio, Below(a, b)
    PROVE  ~Below(b, a) /\ a # b
<1>1. SignedSquare(a.mean) \in Int /\ SignedSquare(b.mean) \in Int
    BY DEF SignedSquare, Square, Ratio
<1>2. SignedSquare(a.mean) * b.var \in Int /\ SignedSquare(b.mean) * a.var \in Int
    BY <1>1 DEF Ratio
<1> QED
    BY <1>2 DEF Below

(* The one that all the others are below is the argmax, and the highest in *)
(* rank; the one that is below all the others is the lowest.               *)
LEMMA BestIsArgMax ==
    ASSUME NEW n \in Nat, NEW f \in [1 .. n -> Ratio], NEW s \in 1 .. n,
           \A o \in 1 .. n \ {s} : Below(f[o], f[s])
    PROVE  ArgMax(f) = s /\ Rank(f, s) = n
<1>0. \A o \in 1 .. n : f[o] \in Ratio
    OBVIOUS
<1>1. \A t \in 1 .. n : ~Below(f[s], f[t])
    BY <1>0, BelowIsStrict
<1>2. {x \in DOMAIN f : ~\E t \in DOMAIN f : Below(f[x], f[t])} = {s}
  <2>1. DOMAIN f = 1 .. n
    OBVIOUS
  <2> QED
    BY <1>1, <2>1, Zenon
<1>3. Min({s}) = s
  <2>1. IsFiniteSet({s})
    BY FS_Singleton
  <2>2. {s} \in SUBSET Int /\ {s} # {}
    OBVIOUS
  <2>3. Min({s}) \in {s}
    BY <2>1, <2>2, IntExtremes
  <2> QED
    BY <2>3
<1>4. {o \in DOMAIN f : Below(f[o], f[s])} = 1 .. n \ {s}
  <2>1. DOMAIN f = 1 .. n
    OBVIOUS
  <2> QED
    BY <1>1, <2>1, Zenon
<1>5. Cardinality(1 .. n \ {s}) = n - 1
  <2>1. IsFiniteSet(1 .. n) /\ Cardinality(1 .. n) = n
    BY FS_Interval
  <2> QED
    BY <2>1, FS_RemoveElement
<1>6. ArgMax(f) = s
    BY <1>2, <1>3 DEF ArgMax
<1>7. Rank(f, s) = n - 1 + 1
    BY <1>4, <1>5 DEF Rank
<1> QED
    BY <1>6, <1>7

(* What all others beat has the lowest rank.                               *)
LEMMA WorstIsLast ==
    ASSUME NEW n \in Nat, NEW f \in [1 .. n -> Ratio], NEW s \in 1 .. n,
           \A o \in 1 .. n \ {s} : Below(f[s], f[o])
    PROVE  Rank(f, s) = 1
<1>0. \A o \in 1 .. n : f[o] \in Ratio
    OBVIOUS
<1>1. \A t \in 1 .. n : ~Below(f[t], f[s])
    BY <1>0, BelowIsStrict
<1>2. {o \in DOMAIN f : Below(f[o], f[s])} = {}
  <2>1. DOMAIN f = 1 .. n
    OBVIOUS
  <2> QED
    BY <1>1, <2>1, Zenon
<1>3. Cardinality({}) = 0
    BY FS_EmptySet
<1>4. Rank(f, s) = 0 + 1
    BY <1>2, <1>3 DEF Rank
<1> QED
    BY <1>4

(* The other half of the chunks is a half. *)
LEMMA OtherHalf ==
    ASSUME NEW n \in Nat, NEW I \in Splits(n)
    PROVE  (1 .. n) \ I \in Splits(n)
<1>1. IsFiniteSet(1 .. n) /\ Cardinality(1 .. n) = n
    BY FS_Interval
<1>2. I \in SUBSET (1 .. n) /\ 2 * Cardinality(I) = n
    BY DEF Splits
<1>3. IsFiniteSet(I) /\ Cardinality(I) \in Nat
    BY <1>1, <1>2, FS_Subset, FS_CardinalityType
<1>4. (1 .. n) \cap I = I
    BY <1>2
<1>5. Cardinality((1 .. n) \ I) = n - Cardinality(I)
    BY <1>1, <1>3, <1>4, FS_Difference
<1>6. (1 .. n) \ I \in SUBSET (1 .. n)
    OBVIOUS
<1>7. 2 * Cardinality((1 .. n) \ I) = n
    BY <1>2, <1>3, <1>5
<1> QED
    BY <1>6, <1>7 DEF Splits

(* The rows of the matrix are of one length. *)
LEMMA MatrixIs ==
    ASSUME perFold \in Seq(FoldRow)
    PROVE  /\ Len(Matrix) \in Nat /\ DOMAIN Matrix = 1 .. Len(Matrix)
           /\ \E w \in Nat : \A i \in DOMAIN Matrix : Matrix[i] \in [1 .. w -> Int]
<1> DEFINE I == {i \in DOMAIN perFold : perFold[i].pnl # <<>>}
           traded == Picked(perFold, I)
           lengths == {Len(traded[i].pnl) : i \in DOMAIN traded}
           longest == IF traded = <<>> THEN 0 ELSE Max(lengths)
           c == Cardinality(I)
<1>1. traded \in Seq(FoldRow) /\ Len(traded) \in Nat /\ DOMAIN traded = 1 .. Len(traded)
  <2>1. Len(perFold) \in Nat /\ DOMAIN perFold = 1 .. Len(perFold)
        /\ \A i \in 1 .. Len(perFold) : perFold[i] \in FoldRow
    OBVIOUS
  <2>2. I \in SUBSET (1 .. Len(perFold))
    BY <2>1
  <2>3. \A i \in I : perFold[i] \in FoldRow
    BY <2>1
  <2> HIDE DEF I
  <2>4. traded \in Seq(FoldRow)
    BY <2>1, <2>2, <2>3, PickedIs
  <2> HIDE DEF traded
  <2> QED
    BY <2>4
<1> HIDE DEF I
<1>2. Matrix = [i \in DOMAIN traded |-> Padded(traded[i].pnl, longest)]
    BY DEF Matrix, I
<1> HIDE DEF traded
<1>3. \A i \in DOMAIN traded : traded[i].pnl \in Seq(Int) /\ Len(traded[i].pnl) \in Nat
  <2>1. \A i \in DOMAIN traded : traded[i] \in FoldRow
    BY <1>1
  <2>2. Returns \subseteq Seq(Int)
    BY ProtocolAssumption
  <2>3. \A i \in DOMAIN traded : traded[i].pnl \in Seq(Int)
    BY <2>1, <2>2 DEF FoldRow
  <2> QED
    BY <2>3
<1>4. longest \in Nat
  <2>1. CASE traded = <<>>
    BY <2>1
  <2>2. CASE traded # <<>>
    <3>1. 1 \in DOMAIN traded
        BY <1>1, <2>2
    <3>2. IsFiniteSet(DOMAIN traded)
        BY <1>1, FS_Interval
    <3>3. IsFiniteSet(lengths)
      <4> DEFINE g == [i \in DOMAIN traded |-> Len(traded[i].pnl)]
      <4>1. g \in Surjection(DOMAIN traded, lengths)
        BY DEF Surjection
      <4> HIDE DEF g, lengths
      <4> QED
        BY <3>2, <4>1, FS_Surjection
    <3>4. lengths \subseteq Nat
        BY <1>3
    <3>5. lengths # {}
        BY <3>1
    <3>6. \A x \in Nat : x \in Int
        OBVIOUS
    <3> HIDE DEF lengths
    <3>7. lengths \in SUBSET Int
        BY <3>4, <3>6
    <3>8. Max(lengths) \in lengths
        BY <3>3, <3>5, <3>7, IntExtremes
    <3> QED
        BY <2>2, <3>4, <3>8
  <2> QED
    BY <2>1, <2>2
<1> HIDE DEF longest
<1>5. ASSUME NEW i \in DOMAIN traded PROVE Padded(traded[i].pnl, longest) \in [1 .. longest -> Int]
  <2> DEFINE s == traded[i].pnl
  <2>1. s \in Seq(Int) /\ \A t \in 1 .. longest : t <= Len(s) => s[t] \in Int
    BY <1>3
  <2>2. \A t \in 1 .. longest : (IF t <= Len(s) THEN s[t] ELSE 0) \in Int
    BY <2>1
  <2> HIDE DEF s
  <2>3. Padded(s, longest) \in [1 .. longest -> Int]
    BY <2>2 DEF Padded
  <2> QED
    BY <2>3 DEF s
<1>6. DOMAIN Matrix = DOMAIN traded /\ \A i \in DOMAIN traded : Matrix[i] \in [1 .. longest -> Int]
    BY <1>2, <1>5
<1>7. Matrix \in Seq([1 .. longest -> Int]) /\ Len(Matrix) = Len(traded)
    BY <1>1, <1>2, <1>6
<1> QED
    BY <1>1, <1>4, <1>6, <1>7

(* A fold's returns in some of the chunks, and the fold that does best     *)
(* there.                                                                  *)
ChunkScore(I, s) == Sharpe(InChunks(Matrix[s], I, Len(Matrix[1]) \div Chunks))
Scored(I) == [s \in DOMAIN Matrix |-> ChunkScore(I, s)]
Best(s, I) == \A o \in DOMAIN Matrix \ {s} : Below(ChunkScore(I, o), ChunkScore(I, s))
Worst(s, I) == \A o \in DOMAIN Matrix \ {s} : Below(ChunkScore(I, s), ChunkScore(I, o))
Other(I) == (1 .. Chunks) \ I

(* Each row of the matrix has a ratio on each half of the chunks.          *)
LEMMA ScoredIs ==
    ASSUME ProtocolInv, NEW I
    PROVE  Scored(I) \in [1 .. Len(Matrix) -> Ratio]
<1>1. PICK w \in Nat : \A i \in DOMAIN Matrix : Matrix[i] \in [1 .. w -> Int]
    BY MatrixIs DEF ProtocolInv
<1>2. DOMAIN Matrix = 1 .. Len(Matrix)
    BY MatrixIs DEF ProtocolInv
<1>3. ASSUME NEW s \in DOMAIN Matrix PROVE ChunkScore(I, s) \in Ratio
  <2> DEFINE row == Matrix[s]
             at == {t \in DOMAIN row : (t - 1) \div (Len(Matrix[1]) \div Chunks) + 1 \in I}
  <2>1. row \in [1 .. w -> Int]
    BY <1>1
  <2>2. at \in SUBSET (1 .. w) /\ \A t \in 1 .. w : row[t] \in Int
    BY <2>1
  <2>3. ChunkScore(I, s) = Sharpe(Picked(row, at))
    BY DEF ChunkScore, InChunks
  <2> HIDE DEF at, row
  <2>4. Picked(row, at) \in Seq(Int)
    BY <2>2, PickedIs
  <2> QED
    BY <2>3, <2>4, SharpeIs
<1> QED
    BY <1>2, <1>3 DEF Scored

(* The overfit splits, in the terms of the lemmas.                         *)
LEMMA OverfitIs ==
    Overfit(Matrix, Chunks) =
        {I \in Splits(Chunks) : 2 * Rank(Scored(Other(I)), ArgMax(Scored(I))) - 1 < Len(Matrix)}
BY DEF Overfit, Scored, ChunkScore, Other

(* To be the best or the worst of a half is to be it among the ratios.     *)
LEMMA ScoredAt ==
    ASSUME ProtocolInv, NEW I, NEW s \in 1 .. Len(Matrix)
    PROVE  /\ Best(s, I) <=> \A o \in 1 .. Len(Matrix) \ {s} : Below(Scored(I)[o], Scored(I)[s])
           /\ Worst(s, I) <=> \A o \in 1 .. Len(Matrix) \ {s} : Below(Scored(I)[s], Scored(I)[o])
<1>1. DOMAIN Matrix = 1 .. Len(Matrix)
    BY MatrixIs DEF ProtocolInv
<1>2. \A o \in 1 .. Len(Matrix) : Scored(I)[o] = ChunkScore(I, o)
    BY <1>1 DEF Scored
<1> QED
    BY <1>1, <1>2, Zenon DEF Best, Worst

(* The share of overfit splits is none where one fold always wins, and all *)
(* of them where whoever wins a half loses the other to all the rest       *)
(* (cscv.py cscv_pbo, cv.py cross_validation).                             *)
THEOREM OverfitInvariance == ProtocolSpec => []OverfitScore
<1>1. ASSUME ProtocolInv, pbo # NaN PROVE OverfitScore
  <2> DEFINE n == Len(Matrix)
             S == Splits(Chunks)
  <2>1. /\ n \in Nat /\ DOMAIN Matrix = 1 .. n /\ n >= 2
        /\ pbo = <<Cardinality(Overfit(Matrix, Chunks)), Cardinality(S)>>
    BY <1>1, MatrixIs DEF ProtocolInv
  <2>2. Chunks \in Nat
    <3>1. PICK w \in Nat : \A i \in DOMAIN Matrix : Matrix[i] \in [1 .. w -> Int]
        BY <1>1, MatrixIs DEF ProtocolInv
    <3>2. Matrix[1] \in [1 .. w -> Int]
        BY <2>1, <3>1
    <3>3. Len(Matrix[1]) \in Nat
        BY <3>1, <3>2
    <3>4. \A l \in Nat : (l \div 2) * 2 \in Nat
        OBVIOUS
    <3>5. (Len(Matrix[1]) \div 2) * 2 \in Nat /\ MaxChunks \in Nat
        BY <3>3, <3>4, ProtocolConstants
    <3> QED
        BY <3>5 DEF Chunks, Smaller
  <2>3. \A I \in S : Other(I) \in S
    BY <2>2, OtherHalf DEF Other
  <2> HIDE DEF S
  <2>4. ASSUME NEW s \in 1 .. n, \A I \in S : Best(s, I)
        PROVE  Overfit(Matrix, Chunks) = {}
    <3>1. ASSUME NEW I \in S PROVE Rank(Scored(Other(I)), ArgMax(Scored(I))) = n
      <4>1. ArgMax(Scored(I)) = s
        BY <1>1, <2>1, <2>4, ScoredIs, ScoredAt, BestIsArgMax
      <4>2. Rank(Scored(Other(I)), s) = n
        BY <1>1, <2>1, <2>3, <2>4, ScoredIs, ScoredAt, BestIsArgMax
      <4> QED
        BY <4>1, <4>2
    <3>2. ~(2 * n - 1 < n)
        BY <2>1
    <3>3. \A I \in S : ~(2 * Rank(Scored(Other(I)), ArgMax(Scored(I))) - 1 < n)
        BY <3>1, <3>2
    <3> QED
        BY <3>3, OverfitIs DEF S
  <2>5. ASSUME \A I \in S : \E s \in 1 .. n : Best(s, I) /\ Worst(s, Other(I))
        PROVE  Overfit(Matrix, Chunks) = S
    <3>1. ASSUME NEW I \in S PROVE Rank(Scored(Other(I)), ArgMax(Scored(I))) = 1
      <4>1. PICK s \in 1 .. n : Best(s, I) /\ Worst(s, Other(I))
        BY <2>5
      <4>2. ArgMax(Scored(I)) = s
        BY <1>1, <2>1, <4>1, ScoredIs, ScoredAt, BestIsArgMax
      <4>3. Rank(Scored(Other(I)), s) = 1
        BY <1>1, <2>1, <4>1, ScoredIs, ScoredAt, WorstIsLast
      <4> QED
        BY <4>2, <4>3
    <3>2. 2 * 1 - 1 < n
        BY <2>1
    <3>3. \A I \in S : 2 * Rank(Scored(Other(I)), ArgMax(Scored(I))) - 1 < n
        BY <3>1, <3>2
    <3> QED
        BY <3>3, OverfitIs DEF S
  <2>6. Cardinality({}) = 0
    BY FS_EmptySet
  <2>7. (\E s \in DOMAIN Matrix : \A I \in S : Best(s, I)) => pbo[1] = 0
    BY <2>1, <2>4, <2>6
  <2>8. (\A I \in S : \E s \in DOMAIN Matrix : Best(s, I) /\ Worst(s, Other(I))) => pbo[1] = pbo[2]
    BY <2>1, <2>5
  <2> QED
    BY <2>7, <2>8 DEF OverfitScore, Best, Worst, ChunkScore, Other, S
<1>2. ProtocolInv => OverfitScore
    BY <1>1 DEF OverfitScore
<1> QED
  BY <1>2, ProtocolInvariance, PTL

-----------------------------------------------------------------------------
(* Running sums.                                                           *)
Grown == Seq(Int) \ {<<>>}
Growing == [x \in Grown \X Int |-> Append(x[1], Last(x[1]) + x[2])]

(* What a list of running sums is once a sum is appended.                  *)
LEMMA GrownIs ==
    ASSUME NEW q \in Grown, NEW x \in Int
    PROVE  /\ Last(q) = q[Len(q)] /\ Last(q) \in Int /\ Len(q) \in Nat \ {0}
           /\ Append(q, x) \in Grown /\ Len(Append(q, x)) = Len(q) + 1
           /\ Append(q, x)[Len(q) + 1] = x
           /\ \A j \in 1 .. Len(q) : Append(q, x)[j] = q[j]
BY DEF Grown, Last

(* cumsum goes through a list that grows by a sum at each place.           *)
LEMMA CumSumRuns ==
    ASSUME NEW n \in Nat, NEW s, DOMAIN s = 1 .. n, \A i \in 1 .. n : s[i] \in Int
    PROVE  \E q : /\ q[0] = <<0>>
                  /\ \A k \in 1 .. n : q[k] = Append(q[k - 1], Last(q[k - 1]) + s[k])
                  /\ q[n] = CumSum(s)
<1> DEFINE D == 1 .. n
           Is(it) == it = [r \in SUBSET D |->
                              IF r = {} THEN <<0>>
                              ELSE Append(it[r \ {Max(r)}], Last(it[r \ {Max(r)}]) + s[Max(r)])]
           it == CHOOSE it : Is(it)
<1>1. /\ Growing \in [Grown \X Int -> Grown]
      /\ \A q \in Grown, x \in Int : Growing[<<q, x>>] = Append(q, Last(q) + x)
  <2>1. \A q \in Grown, x \in Int : Append(q, Last(q) + x) \in Grown
    BY GrownIs
  <2> QED
    BY <2>1 DEF Growing
<1>2. \E f : Is(f)
  <2>1. PICK f \in [SUBSET D -> Grown] : Folds(f, D, s, Growing, <<0>>)
    <3>1. <<0>> \in Grown
        BY DEF Grown
    <3> QED
        BY <1>1, <3>1, FoldExists, Zenon
  <2>2. ASSUME NEW r \in SUBSET D
        PROVE  f[r] = IF r = {} THEN <<0>>
                      ELSE Append(f[r \ {Max(r)}], Last(f[r \ {Max(r)}]) + s[Max(r)])
    <3>1. CASE r = {}
        BY <2>1, <3>1 DEF Folds
    <3>2. CASE r # {}
      <4>1. f[r] = Growing[<<f[r \ {Max(r)}], s[Max(r)]>>]
        BY <2>1, <3>2 DEF Folds
      <4>2. Max(r) \in D
        BY <3>2, MaxIsLast
      <4>3. f[r \ {Max(r)}] \in Grown /\ s[Max(r)] \in Int
        BY <2>1, <4>2
      <4> QED
        BY <1>1, <3>2, <4>1, <4>3
    <3> QED
        BY <3>1, <3>2
  <2>3. Is(f)
    BY <2>1, <2>2, Zenon
  <2> QED
    BY <2>3
<1>3. Is(it)
    BY <1>2, Zenon
<1>4. CumSum(s) = it[1 .. n]
    BY DEF CumSum, FoldLeft, MapThenFoldSet
<1> HIDE DEF it
<1> DEFINE q == [k \in 0 .. n |-> it[1 .. k]]
<1>5. q[0] = <<0>>
    BY <1>3, PrefixLast
<1>6. ASSUME NEW k \in 1 .. n PROVE q[k] = Append(q[k - 1], Last(q[k - 1]) + s[k])
  <2>1. q[k] = it[1 .. k] /\ q[k - 1] = it[1 .. k - 1]
    OBVIOUS
  <2> DEFINE r == 1 .. k
  <2>2. r \in SUBSET D /\ r # {} /\ Max(r) = k /\ r \ {k} = 1 .. k - 1
    BY PrefixLast
  <2>3. it[r] = Append(it[r \ {Max(r)}], Last(it[r \ {Max(r)}]) + s[Max(r)])
    <3> HIDE DEF r
    <3> QED
        BY <1>3, <2>2
  <2> QED
    BY <2>1, <2>2, <2>3
<1>7. q[n] = CumSum(s)
    BY <1>4
<1> HIDE DEF q
<1> QED
    BY <1>5, <1>6, <1>7

(* A running sum holds the sum of each prefix. *)
CumSumOf(h, n, s) ==
    /\ Sums(h, n, s)
    /\ CumSum(s) \in Seq(Int) /\ Len(CumSum(s)) = n + 1
    /\ \A k \in 0 .. n : CumSum(s)[k + 1] = h[k]

(* cumsum lists, behind a 0, the sum up to each place.                     *)
LEMMA CumSumIs ==
    ASSUME NEW n \in Nat, NEW s, DOMAIN s = 1 .. n, \A i \in 1 .. n : s[i] \in Int
    PROVE  \E h \in [0 .. n -> Int] : CumSumOf(h, n, s)
<1>1. PICK h \in [0 .. n -> Int] : Sums(h, n, s)
    BY SumRuns
<1>2. PICK q : /\ q[0] = <<0>>
               /\ \A k \in 1 .. n : q[k] = Append(q[k - 1], Last(q[k - 1]) + s[k])
               /\ q[n] = CumSum(s)
    BY CumSumRuns
<1> DEFINE G == {k \in 0 .. n : /\ q[k] \in Grown /\ Len(q[k]) = k + 1
                                /\ \A j \in 0 .. k : q[k][j + 1] = h[j]}
<1>3. 0 \in G
  <2>1. q[0] \in Grown /\ Len(q[0]) = 1 /\ q[0][1] = 0 /\ h[0] = 0
    BY <1>1, <1>2 DEF Grown, Sums
  <2> QED
    BY <2>1
<1>4. ASSUME NEW k \in 1 .. n, k - 1 \in G PROVE k \in G
  <2>1. q[k - 1] \in Grown /\ Len(q[k - 1]) = k /\ \A j \in 0 .. k - 1 : q[k - 1][j + 1] = h[j]
    BY <1>4
  <2> HIDE DEF G
  <2> DEFINE p == q[k - 1]
             x == Last(p) + s[k]
  <2>2. Last(p) = h[k - 1]
    <3>1. Last(p) = p[Len(p)] /\ Len(p) = k
        BY <2>1, GrownIs
    <3>2. k - 1 \in 0 .. k - 1 /\ (k - 1) + 1 = k
        OBVIOUS
    <3> QED
        BY <2>1, <3>1, <3>2
  <2>3. x = h[k] /\ x \in Int
    BY <1>1, <2>2 DEF Sums
  <2>4. q[k] = Append(p, x)
    BY <1>2
  <2>5. p \in Grown /\ Len(p) = k /\ \A j \in 0 .. k - 1 : p[j + 1] = h[j]
    BY <2>1
  <2> HIDE DEF p, x
  <2>6. /\ q[k] \in Grown /\ Len(q[k]) = k + 1 /\ q[k][k + 1] = h[k]
        /\ \A j \in 1 .. k : q[k][j] = p[j]
    <3>1. /\ Append(p, x) \in Grown /\ Len(Append(p, x)) = Len(p) + 1
          /\ Append(p, x)[Len(p) + 1] = x
          /\ \A j \in 1 .. Len(p) : Append(p, x)[j] = p[j]
        BY <2>3, <2>5, GrownIs
    <3> QED
        BY <2>3, <2>4, <2>5, <3>1
  <2>7. ASSUME NEW j \in 0 .. k PROVE q[k][j + 1] = h[j]
    <3>1. j = k \/ (j \in 0 .. k - 1 /\ j + 1 \in 1 .. k)
        OBVIOUS
    <3> QED
        BY <2>5, <2>6, <3>1
  <2> QED
    BY <2>6, <2>7 DEF G
<1> HIDE DEF G
<1>5. n \in G
  <2>1. \A k \in 1 .. n : k - 1 \in G => k \in G
    BY <1>4
  <2>2. \A k \in 0 .. n : k \in G
    BY <1>3, <2>1, Upwards
  <2> QED
    BY <2>2
<1> QED
    BY <1>1, <1>2, <1>5 DEF G, Grown, CumSumOf

(* The equity leaves out the start. *)
EquityOf(h, n, s) ==
    /\ Sums(h, n, s)
    /\ Equity(s) \in Seq(Int) /\ Len(Equity(s)) = n
    /\ \A k \in 1 .. n : Equity(s)[k] = h[k]

(* The equity after each trade is the sum of the PnL up to it.             *)
LEMMA EquityIs ==
    ASSUME NEW n \in Nat, NEW s, DOMAIN s = 1 .. n, \A i \in 1 .. n : s[i] \in Int
    PROVE  \E h \in [0 .. n -> Int] : EquityOf(h, n, s)
<1>1. PICK h \in [0 .. n -> Int] : CumSumOf(h, n, s)
    BY CumSumIs
<1> DEFINE c == CumSum(s)
<1>2. c \in Seq(Int) /\ Len(c) = n + 1 /\ c # <<>> /\ \A k \in 0 .. n : c[k + 1] = h[k]
    BY <1>1 DEF CumSumOf
<1>3. Equity(s) = Tail(c)
    BY DEF Equity
<1> HIDE DEF c
<1>4. Tail(c) \in Seq(Int) /\ Len(Tail(c)) = n /\ \A k \in 1 .. n : Tail(c)[k] = c[k + 1]
    BY <1>2
<1> QED
    BY <1>1, <1>2, <1>3, <1>4 DEF CumSumOf, EquityOf

-----------------------------------------------------------------------------
(* The largest fall.                                                       *)
Higher(q, x) == IF q # <<>> /\ Last(q) > x THEN Last(q) ELSE x
Peaking == [x \in Seq(Int) \X Int |-> Append(x[1], Higher(x[1], x[2]))]
Peaks(eq) ==
    FoldLeft(LAMBDA acc, x : Append(acc, IF acc # <<>> /\ Last(acc) > x THEN Last(acc) ELSE x),
             <<>>, eq)

(* The running maximum takes the higher of the last one and what comes.    *)
LEMMA PeakingIs ==
    ASSUME NEW q \in Seq(Int), NEW x \in Int
    PROVE  /\ Higher(q, x) \in Int /\ Append(q, Higher(q, x)) \in Seq(Int)
           /\ q # <<>> => Higher(q, x) = IF q[Len(q)] > x THEN q[Len(q)] ELSE x
           /\ q = <<>> => Higher(q, x) = x
BY DEF Higher, Last

(* The peaks go through a list that grows by one at each trade.            *)
LEMMA PeakRuns ==
    ASSUME NEW n \in Nat, NEW s, DOMAIN s = 1 .. n, \A i \in 1 .. n : s[i] \in Int
    PROVE  \E q : /\ q[0] = <<>>
                  /\ \A k \in 1 .. n : q[k] = Append(q[k - 1], Higher(q[k - 1], s[k]))
                  /\ q[n] = Peaks(s)
<1> DEFINE D == 1 .. n
           Is(it) == it = [r \in SUBSET D |->
                              IF r = {} THEN <<>>
                              ELSE Append(it[r \ {Max(r)}], Higher(it[r \ {Max(r)}], s[Max(r)]))]
           it == CHOOSE it : Is(it)
<1>1. /\ Peaking \in [Seq(Int) \X Int -> Seq(Int)]
      /\ \A q \in Seq(Int), x \in Int : Peaking[<<q, x>>] = Append(q, Higher(q, x))
  <2>1. \A q \in Seq(Int), x \in Int : Append(q, Higher(q, x)) \in Seq(Int)
    BY PeakingIs
  <2> QED
    BY <2>1 DEF Peaking
<1>2. \E f : Is(f)
  <2>1. PICK f \in [SUBSET D -> Seq(Int)] : Folds(f, D, s, Peaking, <<>>)
    <3>1. <<>> \in Seq(Int)
        OBVIOUS
    <3> QED
        BY <1>1, <3>1, FoldExists, Zenon
  <2>2. ASSUME NEW r \in SUBSET D
        PROVE  f[r] = IF r = {} THEN <<>>
                      ELSE Append(f[r \ {Max(r)}], Higher(f[r \ {Max(r)}], s[Max(r)]))
    <3>1. CASE r = {}
        BY <2>1, <3>1 DEF Folds
    <3>2. CASE r # {}
      <4>1. f[r] = Peaking[<<f[r \ {Max(r)}], s[Max(r)]>>]
        BY <2>1, <3>2 DEF Folds
      <4>2. Max(r) \in D
        BY <3>2, MaxIsLast
      <4>3. f[r \ {Max(r)}] \in Seq(Int) /\ s[Max(r)] \in Int
        BY <2>1, <4>2
      <4> QED
        BY <1>1, <3>2, <4>1, <4>3
    <3> QED
        BY <3>1, <3>2
  <2>3. Is(f)
    BY <2>1, <2>2, Zenon
  <2> QED
    BY <2>3
<1>3. Is(it)
    BY <1>2, Zenon
<1>4. Peaks(s) = it[1 .. n]
    BY DEF Peaks, FoldLeft, MapThenFoldSet, Higher
<1> HIDE DEF it
<1> DEFINE q == [k \in 0 .. n |-> it[1 .. k]]
<1>5. q[0] = <<>>
    BY <1>3, PrefixLast
<1>6. ASSUME NEW k \in 1 .. n PROVE q[k] = Append(q[k - 1], Higher(q[k - 1], s[k]))
  <2>1. q[k] = it[1 .. k] /\ q[k - 1] = it[1 .. k - 1]
    OBVIOUS
  <2> DEFINE r == 1 .. k
  <2>2. r \in SUBSET D /\ r # {} /\ Max(r) = k /\ r \ {k} = 1 .. k - 1
    BY PrefixLast
  <2>3. it[r] = Append(it[r \ {Max(r)}], Higher(it[r \ {Max(r)}], s[Max(r)]))
    <3> HIDE DEF r
    <3> QED
        BY <1>3, <2>2
  <2> QED
    BY <2>1, <2>2, <2>3
<1>7. q[n] = Peaks(s)
    BY <1>4
<1> HIDE DEF q
<1> QED
    BY <1>5, <1>6, <1>7

(* Each peak is the largest so far. *)
PeakAt(v, s, i) == /\ \E j \in 1 .. i : v = s[j]
                   /\ \A j \in 1 .. i : s[j] <= v

(* A peak is an equity up to its trade, and none up to it is higher.       *)
LEMMA PeaksAre ==
    ASSUME NEW n \in Nat, NEW s, DOMAIN s = 1 .. n, \A i \in 1 .. n : s[i] \in Int
    PROVE  /\ Peaks(s) \in Seq(Int) /\ Len(Peaks(s)) = n
           /\ \A i \in 1 .. n : PeakAt(Peaks(s)[i], s, i)
<1>1. PICK q : /\ q[0] = <<>>
               /\ \A k \in 1 .. n : q[k] = Append(q[k - 1], Higher(q[k - 1], s[k]))
               /\ q[n] = Peaks(s)
    BY PeakRuns
<1> DEFINE G == {k \in 0 .. n : /\ q[k] \in Seq(Int) /\ Len(q[k]) = k
                                /\ \A i \in 1 .. k : PeakAt(q[k][i], s, i)}
<1>2. 0 \in G
  <2>1. q[0] \in Seq(Int) /\ Len(q[0]) = 0
    BY <1>1
  <2> QED
    BY <2>1
<1>3. ASSUME NEW k \in 1 .. n, k - 1 \in G PROVE k \in G
  <2> DEFINE p == q[k - 1]
             x == Higher(p, s[k])
  <2>1. p \in Seq(Int) /\ Len(p) = k - 1 /\ \A i \in 1 .. k - 1 : PeakAt(p[i], s, i)
    BY <1>3
  <2> HIDE DEF G
  <2>2. q[k] = Append(p, x)
    BY <1>1
  <2>3. x \in Int /\ PeakAt(x, s, k)
    <3>1. s[k] \in Int
        OBVIOUS
    <3>2. CASE k = 1
      <4>1. p = <<>>
        BY <2>1, <3>2
      <4>2. x = s[1]
        BY <2>1, <3>1, <3>2, <4>1, PeakingIs
      <4> HIDE DEF p, x
      <4> QED
        BY <3>1, <3>2, <4>2 DEF PeakAt
    <3>3. CASE k # 1
      <4>1. p # <<>> /\ k - 1 \in 1 .. k - 1 /\ p[k - 1] \in Int
        BY <2>1, <3>3
      <4>2. x = IF p[k - 1] > s[k] THEN p[k - 1] ELSE s[k]
        BY <2>1, <3>1, <4>1, PeakingIs
      <4>3. PeakAt(p[k - 1], s, k - 1)
        BY <2>1, <4>1
      <4> HIDE DEF x
      <4>4. \A j \in 1 .. k : s[j] \in Int /\ (j \in 1 .. k - 1 \/ j = k)
        OBVIOUS
      <4>5. k \in 1 .. k /\ \A j \in 1 .. k - 1 : j \in 1 .. k
        OBVIOUS
      <4> HIDE DEF p
      <4>6. CASE p[k - 1] > s[k]
        <5>1. x = p[k - 1]
            BY <4>2, <4>6
        <5>2. \A j \in 1 .. k : s[j] <= x
            BY <3>1, <4>1, <4>3, <4>4, <4>6, <5>1 DEF PeakAt
        <5>3. \E j \in 1 .. k : x = s[j]
            BY <4>3, <4>5, <5>1 DEF PeakAt
        <5> QED
            BY <4>1, <5>1, <5>2, <5>3 DEF PeakAt
      <4>7. CASE ~(p[k - 1] > s[k])
        <5>1. x = s[k]
            BY <4>2, <4>7
        <5>2. \A j \in 1 .. k : s[j] <= x
            BY <3>1, <4>1, <4>3, <4>4, <4>7, <5>1 DEF PeakAt
        <5> QED
            BY <3>1, <4>5, <5>1, <5>2 DEF PeakAt
      <4> QED
        BY <4>6, <4>7
    <3> QED
        BY <3>2, <3>3
  <2> HIDE DEF p, x
  <2>4. /\ q[k] \in Seq(Int) /\ Len(q[k]) = k /\ q[k][k] = x
        /\ \A i \in 1 .. k - 1 : q[k][i] = p[i]
    BY <2>1, <2>2, <2>3
  <2>5. ASSUME NEW i \in 1 .. k PROVE PeakAt(q[k][i], s, i)
    <3>1. i = k \/ i \in 1 .. k - 1
        OBVIOUS
    <3> QED
        BY <2>1, <2>3, <2>4, <3>1
  <2> QED
    BY <2>4, <2>5 DEF G
<1> HIDE DEF G
<1>4. n \in G
  <2>1. \A k \in 1 .. n : k - 1 \in G => k \in G
    BY <1>3
  <2>2. \A k \in 0 .. n : k \in G
    BY <1>2, <2>1, Upwards
  <2> QED
    BY <2>2
<1> QED
    BY <1>1, <1>4 DEF G

(* A member that no other exceeds is the maximum.                          *)
LEMMA MaxIs ==
    ASSUME NEW S \in SUBSET Int, NEW m \in S, \A x \in S : m >= x
    PROVE  Max(S) = m
<1>1. Max(S) \in S /\ \A x \in S : Max(S) >= x
    BY Zenon DEF Max
<1>2. m >= Max(S) /\ Max(S) >= m
    BY <1>1
<1>3. m \in Int /\ Max(S) \in Int
    BY <1>1
<1> QED
    BY <1>2, <1>3

(* The largest fall from a peak is the largest between two trades. *)
Falls(eq) == UNION {{eq[i] - eq[j] : j \in i .. Len(eq)} : i \in DOMAIN eq}

(* The drawdown is the largest fall of the equity between two trades.      *)
LEMMA DrawdownIs ==
    ASSUME NEW n \in Nat \ {0}, NEW pnl, DOMAIN pnl = 1 .. n, \A i \in 1 .. n : pnl[i] \in Int
    PROVE  MaxDrawdown(pnl) = Max(Falls(Equity(pnl)))
<1> DEFINE eq == Equity(pnl)
           peaks == Peaks(eq)
           A == {peaks[i] - eq[i] : i \in DOMAIN eq}
           B == Falls(eq)
<1>1. eq \in Seq(Int) /\ Len(eq) = n
  <2>1. PICK h \in [0 .. n -> Int] : EquityOf(h, n, pnl)
    BY EquityIs
  <2> QED
    BY <2>1 DEF EquityOf
<1>2. MaxDrawdown(pnl) = Max(A)
    BY DEF MaxDrawdown, Peaks
<1> HIDE DEF eq
<1>3. DOMAIN eq = 1 .. n /\ \A i \in 1 .. n : eq[i] \in Int
    BY <1>1
<1>4. /\ peaks \in Seq(Int) /\ Len(peaks) = n
      /\ \A i \in 1 .. n : PeakAt(peaks[i], eq, i)
    BY <1>3, PeaksAre
<1> HIDE DEF peaks
<1>5. \A i \in 1 .. n : peaks[i] \in Int
    BY <1>4
<1>6. A \in SUBSET Int
    BY <1>3, <1>5
<1>7. Max(A) \in A /\ \A x \in A : x <= Max(A)
  <2>1. IsFiniteSet(A)
    <3> DEFINE g == [i \in DOMAIN eq |-> peaks[i] - eq[i]]
    <3>1. g \in Surjection(DOMAIN eq, A)
        BY DEF Surjection
    <3>2. IsFiniteSet(DOMAIN eq)
        BY <1>3, FS_Interval
    <3> HIDE DEF g, A
    <3> QED
        BY <3>1, <3>2, FS_Surjection
  <2>2. A # {}
    BY <1>3
  <2> HIDE DEF A
  <2> QED
    BY <1>6, <2>1, <2>2, IntExtremes
<1>8. \A i, j \in 1 .. n : i <= j => eq[i] - eq[j] \in B
    BY <1>1, <1>3 DEF Falls
<1>9. ASSUME NEW b \in B PROVE \E i, j \in 1 .. n : i <= j /\ b = eq[i] - eq[j]
    BY <1>1, <1>3 DEF Falls
<1> HIDE DEF B
<1>10. B \in SUBSET Int
    BY <1>3, <1>9
<1>11. Max(A) \in B
  <2>1. PICK j \in 1 .. n : Max(A) = peaks[j] - eq[j]
    BY <1>3, <1>7
  <2>2. PICK i \in 1 .. j : peaks[j] = eq[i]
    BY <1>4 DEF PeakAt
  <2>3. i \in 1 .. n /\ i <= j
    OBVIOUS
  <2> QED
    BY <1>8, <2>1, <2>2, <2>3
<1>12. ASSUME NEW b \in B PROVE Max(A) >= b
  <2>1. PICK i, j \in 1 .. n : i <= j /\ b = eq[i] - eq[j]
    BY <1>9
  <2>2. j \in 1 .. n /\ i \in 1 .. j
    BY <2>1
  <2>3. eq[i] <= peaks[j]
    BY <1>4, <2>2 DEF PeakAt
  <2>4. peaks[j] - eq[j] \in A
    BY <1>3, <2>2
  <2>5. peaks[j] - eq[j] <= Max(A)
    BY <1>7, <2>4
  <2>6. eq[i] \in Int /\ eq[j] \in Int /\ peaks[j] \in Int /\ Max(A) \in Int
    BY <1>3, <1>5, <1>6, <1>7, <2>2
  <2> HIDE DEF A
  <2> QED
    BY <2>1, <2>3, <2>5, <2>6
<1>13. Max(B) = Max(A)
  <2> HIDE DEF A
  <2> QED
    BY <1>10, <1>11, <1>12, MaxIs
<1> QED
    BY <1>2, <1>13 DEF B, eq

-----------------------------------------------------------------------------
(* The pauses that are drawn.                                              *)
Span == Int \X Int
Spanned(q, i, on) ==
    IF ~on THEN q
    ELSE IF q # <<>> /\ Last(q)[2] = i
         THEN Front(q) \o <<<<Last(q)[1], i + 1>>>>
         ELSE Append(q, <<i, i + 1>>)

(* What a list of spans is without its last.                               *)
LEMMA ButLastIs ==
    ASSUME NEW q \in Seq(Span), q # <<>>
    PROVE  /\ SubSeq(q, 1, Len(q) - 1) \in Seq(Span)
           /\ Len(SubSeq(q, 1, Len(q) - 1)) = Len(q) - 1
           /\ \A j \in 1 .. Len(q) - 1 : SubSeq(q, 1, Len(q) - 1)[j] = q[j]
<1>1. Len(q) \in Nat \ {0} /\ DOMAIN q = 1 .. Len(q) /\ \A j \in 1 .. Len(q) : q[j] \in Span
    OBVIOUS
<1> QED
    BY <1>1

(* A paused bar that follows the last span prolongs it by one.             *)
LEMMA SpannedOn ==
    ASSUME NEW q \in Seq(Span), NEW i \in Int, q # <<>>, q[Len(q)][2] = i
    PROVE  /\ Spanned(q, i, TRUE) \in Seq(Span) /\ Len(Spanned(q, i, TRUE)) = Len(q)
           /\ \A j \in 1 .. Len(q) - 1 : Spanned(q, i, TRUE)[j] = q[j]
           /\ Spanned(q, i, TRUE)[Len(q)] = <<q[Len(q)][1], i + 1>>
<1> DEFINE l == Len(q)
           f == SubSeq(q, 1, l - 1)
           x == <<q[l][1], i + 1>>
<1>1. l \in Nat \ {0} /\ q[l] \in Span
    OBVIOUS
<1>2. x \in Span
    BY <1>1 DEF Span
<1>3. f \in Seq(Span) /\ Len(f) = l - 1 /\ \A j \in 1 .. l - 1 : f[j] = q[j]
    BY ButLastIs
<1>4. Spanned(q, i, TRUE) = f \o <<x>>
  <2>1. Last(q) = q[l] /\ Front(q) = f
    BY DEF Last, Front
  <2> QED
    BY <2>1 DEF Spanned
<1> HIDE DEF f, x, l
<1>5. f \o <<x>> = Append(f, x)
    BY <1>2, <1>3
<1>6. /\ Append(f, x) \in Seq(Span) /\ Len(Append(f, x)) = l /\ Append(f, x)[l] = x
      /\ \A j \in 1 .. l - 1 : Append(f, x)[j] = f[j]
    BY <1>1, <1>2, <1>3
<1>7. Spanned(q, i, TRUE) = Append(f, x)
    BY <1>4, <1>5
<1>8. Spanned(q, i, TRUE) \in Seq(Span) /\ Len(Spanned(q, i, TRUE)) = l /\ Spanned(q, i, TRUE)[l] = x
    BY <1>6, <1>7
<1>9. \A j \in 1 .. l - 1 : Spanned(q, i, TRUE)[j] = q[j]
    BY <1>3, <1>6, <1>7
<1> QED
    BY <1>8, <1>9 DEF x, l

(* A paused bar that follows none begins a span.                           *)
LEMMA SpannedNew ==
    ASSUME NEW q \in Seq(Span), NEW i \in Int, NEW on, on, ~(q # <<>> /\ q[Len(q)][2] = i)
    PROVE  /\ Spanned(q, i, on) = Append(q, <<i, i + 1>>)
           /\ <<i, i + 1>> \in Span /\ Spanned(q, i, on) \in Seq(Span)
<1>1. Spanned(q, i, on) = Append(q, <<i, i + 1>>)
    BY DEF Spanned, Last
<1> DEFINE x == <<i, i + 1>>
<1>2. x \in Span
    BY DEF Span
<1> HIDE DEF x
<1>3. Append(q, x) \in Seq(Span)
    BY <1>2
<1> QED
    BY <1>1, <1>2, <1>3 DEF x

(* A bar that is not paused leaves the spans alone.                        *)
LEMMA SpannedIs ==
    ASSUME NEW q \in Seq(Span), NEW i \in Int, NEW on \in BOOLEAN
    PROVE  Spanned(q, i, on) \in Seq(Span) /\ (~on => Spanned(q, i, on) = q)
<1>1. CASE ~on
    BY <1>1 DEF Spanned
<1>2. CASE on /\ q # <<>> /\ q[Len(q)][2] = i
  <2>1. on = TRUE
    BY <1>2
  <2> QED
    BY <1>2, <2>1, SpannedOn
<1>3. CASE on /\ ~(q # <<>> /\ q[Len(q)][2] = i)
    BY <1>3, SpannedNew
<1> QED
    BY <1>1, <1>2, <1>3

SpansAlong(on, s) ==
    FoldLeft(LAMBDA spans, i :
                 IF ~on[i] THEN spans
                 ELSE IF spans # <<>> /\ Last(spans)[2] = i
                      THEN Front(spans) \o <<<<Last(spans)[1], i + 1>>>>
                      ELSE Append(spans, <<i, i + 1>>),
             <<>>, s)

(* The encoding goes through the spans of the bars so far.                 *)
LEMMA SpanRuns ==
    ASSUME NEW n \in Nat, NEW on, \A i \in 1 .. n : on[i] \in BOOLEAN,
           NEW s, DOMAIN s = 1 .. n, \A i \in 1 .. n : s[i] = i
    PROVE  \E q : /\ q[0] = <<>>
                  /\ \A k \in 1 .. n : q[k] = Spanned(q[k - 1], k, on[k])
                  /\ q[n] = SpansAlong(on, s)
<1> DEFINE D == 1 .. n
           Step == [x \in Seq(Span) \X D |-> Spanned(x[1], x[2], on[x[2]])]
           Is(it) == it = [r \in SUBSET D |->
                              IF r = {} THEN <<>>
                              ELSE Spanned(it[r \ {Max(r)}], s[Max(r)], on[s[Max(r)]])]
           it == CHOOSE it : Is(it)
<1>0. DOMAIN s = D /\ \A i \in D : s[i] = i
    OBVIOUS
<1>1. /\ Step \in [Seq(Span) \X D -> Seq(Span)]
      /\ \A q \in Seq(Span), i \in D : Step[<<q, i>>] = Spanned(q, i, on[i])
  <2>1. \A q \in Seq(Span), i \in D : Spanned(q, i, on[i]) \in Seq(Span)
    BY SpannedIs
  <2> QED
    BY <2>1
<1> HIDE DEF Step
<1>2. \E f : Is(f)
  <2>1. PICK f \in [SUBSET D -> Seq(Span)] : Folds(f, D, s, Step, <<>>)
    <3>1. <<>> \in Seq(Span) /\ \A i \in 1 .. n : s[i] \in D
        BY <1>0
    <3> QED
        BY <1>1, <3>1, FoldExists, Zenon
  <2>2. ASSUME NEW r \in SUBSET D
        PROVE  f[r] = IF r = {} THEN <<>>
                      ELSE Spanned(f[r \ {Max(r)}], s[Max(r)], on[s[Max(r)]])
    <3>1. CASE r = {}
        BY <2>1, <3>1 DEF Folds
    <3>2. CASE r # {}
      <4>1. f[r] = Step[<<f[r \ {Max(r)}], s[Max(r)]>>]
        BY <2>1, <3>2 DEF Folds
      <4>2. Max(r) \in D
        BY <3>2, MaxIsLast
      <4>3. f[r \ {Max(r)}] \in Seq(Span) /\ s[Max(r)] \in D
        BY <1>0, <2>1, <4>2
      <4> QED
        BY <1>1, <3>2, <4>1, <4>3
    <3> QED
        BY <3>1, <3>2
  <2>3. Is(f)
    BY <2>1, <2>2, Zenon
  <2> QED
    BY <2>3
<1>3. Is(it)
    BY <1>2, Zenon
<1>4. SpansAlong(on, s) = it[1 .. n]
    BY DEF SpansAlong, FoldLeft, MapThenFoldSet, Spanned
<1> HIDE DEF it
<1> DEFINE q == [k \in 0 .. n |-> it[1 .. k]]
<1>5. q[0] = <<>>
    BY <1>3, PrefixLast
<1>6. ASSUME NEW k \in 1 .. n PROVE q[k] = Spanned(q[k - 1], k, on[k])
  <2>1. q[k] = it[1 .. k] /\ q[k - 1] = it[1 .. k - 1]
    OBVIOUS
  <2> DEFINE r == 1 .. k
  <2>2. r \in SUBSET D /\ r # {} /\ Max(r) = k /\ r \ {k} = 1 .. k - 1
    BY PrefixLast
  <2>3. it[r] = Spanned(it[r \ {Max(r)}], s[Max(r)], on[s[Max(r)]])
    <3> HIDE DEF r
    <3> QED
        BY <1>3, <2>2
  <2>4. s[k] = k
    BY <1>0
  <2> QED
    BY <2>1, <2>2, <2>3, <2>4
<1>7. q[n] = SpansAlong(on, s)
    BY <1>4
<1> HIDE DEF q
<1> QED
    BY <1>5, <1>6, <1>7

(* After k bars the spans cover just the paused bars, and do not touch. *)
Covers(x, i) == x[1] <= i /\ i < x[2]
Cuts(q, k, on) ==
    /\ q \in Seq(Span)
    /\ \A j \in 1 .. Len(q) : q[j][1] < q[j][2] /\ q[j][2] <= k + 1
    /\ \A j \in 1 .. Len(q) - 1 : q[j][2] < q[j + 1][1]
    /\ \A i \in 1 .. k : on[i] <=> \E j \in 1 .. Len(q) : Covers(q[j], i)

(* With one more bar the spans are those of the bars up to it.             *)
LEMMA CutsOneMore ==
    ASSUME NEW k \in Nat \ {0}, NEW on, \A i \in 1 .. k : on[i] \in BOOLEAN,
           NEW q, Cuts(q, k - 1, on)
    PROVE  Cuts(Spanned(q, k, on[k]), k, on)
<1> DEFINE l == Len(q)
           r == Spanned(q, k, on[k])
<1>1. /\ q \in Seq(Span) /\ l \in Nat
      /\ \A j \in 1 .. l : q[j] \in Span /\ q[j][1] < q[j][2] /\ q[j][2] <= k
      /\ \A j \in 1 .. l - 1 : q[j][2] < q[j + 1][1]
      /\ \A i \in 1 .. k - 1 : on[i] <=> \E j \in 1 .. l : Covers(q[j], i)
    BY DEF Cuts
<1>2. \A j \in 1 .. l : q[j][1] \in Int /\ q[j][2] \in Int
    BY <1>1 DEF Span
<1>3. on[k] \in BOOLEAN /\ k \in 1 .. k /\ k \in Int
    OBVIOUS
<1>4. \A i \in 1 .. k : i = k \/ i \in 1 .. k - 1
    OBVIOUS
<1>5. CASE ~on[k]
  <2>1. r = q
    BY <1>1, <1>3, <1>5, SpannedIs
  <2>2. \A j \in 1 .. l : ~Covers(q[j], k)
    BY <1>1, <1>2 DEF Covers
  <2>3. \A i \in 1 .. k : on[i] <=> \E j \in 1 .. l : Covers(q[j], i)
    BY <1>1, <1>4, <1>5, <2>2
  <2>4. \A j \in 1 .. l : q[j][2] <= k + 1
    BY <1>1, <1>2
  <2> QED
    BY <1>1, <2>1, <2>3, <2>4 DEF Cuts
<1>6. CASE on[k] /\ q # <<>> /\ q[l][2] = k
  <2>1. /\ r \in Seq(Span) /\ Len(r) = l
        /\ \A j \in 1 .. l - 1 : r[j] = q[j]
        /\ r[l] = <<q[l][1], k + 1>>
    <3>1. r = Spanned(q, k, TRUE)
        BY <1>3, <1>6
    <3>2. q \in Seq(Span) /\ k \in Int /\ q # <<>> /\ q[Len(q)][2] = k
        BY <1>1, <1>3, <1>6
    <3>3. Spanned(q, k, TRUE) \in Seq(Span) /\ Len(Spanned(q, k, TRUE)) = Len(q)
        BY <3>2, SpannedOn
    <3>4. \A j \in 1 .. Len(q) - 1 : Spanned(q, k, TRUE)[j] = q[j]
        BY <3>2, SpannedOn, Zenon
    <3>5. Spanned(q, k, TRUE)[Len(q)] = <<q[Len(q)][1], k + 1>>
        BY <3>2, SpannedOn, Zenon
    <3> QED
        BY <3>1, <3>3, <3>4, <3>5, Zenon
  <2> HIDE DEF r
  <2>2. l \in 1 .. l /\ \A j \in 1 .. l : j = l \/ j \in 1 .. l - 1
    BY <1>1, <1>6
  <2>3. r[l][1] = q[l][1] /\ r[l][2] = k + 1
    BY <2>1
  <2>4. \A j \in 1 .. l : r[j][1] < r[j][2] /\ r[j][2] <= k + 1
    BY <1>1, <1>2, <2>1, <2>2, <2>3
  <2>5. \A j \in 1 .. l : r[j][1] = q[j][1]
    BY <2>1, <2>2, <2>3
  <2>6. \A j \in 1 .. l - 1 : r[j][2] < r[j + 1][1]
    BY <1>1, <2>1, <2>2, <2>5
  <2>7. ASSUME NEW i \in 1 .. k - 1, NEW j \in 1 .. l PROVE Covers(r[j], i) <=> Covers(q[j], i)
    <3>1. CASE j = l
        BY <1>2, <1>6, <2>3, <3>1 DEF Covers
    <3>2. CASE j \in 1 .. l - 1
        BY <2>1, <3>2 DEF Covers
    <3> QED
        BY <2>2, <3>1, <3>2
  <2>8. Covers(r[l], k)
    BY <1>1, <1>2, <1>6, <2>2, <2>3 DEF Covers
  <2>9. \A i \in 1 .. k : on[i] <=> \E j \in 1 .. l : Covers(r[j], i)
    BY <1>1, <1>4, <1>6, <2>2, <2>7, <2>8
  <2> QED
    BY <2>1, <2>4, <2>6, <2>9 DEF Cuts, r
<1>7. CASE on[k] /\ ~(q # <<>> /\ q[l][2] = k)
  <2>1. r = Append(q, <<k, k + 1>>) /\ <<k, k + 1>> \in Span
    BY <1>1, <1>3, <1>7, SpannedNew
  <2>2. /\ r \in Seq(Span) /\ Len(r) = l + 1 /\ r[l + 1] = <<k, k + 1>>
        /\ \A j \in 1 .. l : r[j] = q[j]
    BY <1>1, <2>1
  <2> HIDE DEF r
  <2>3. r[l + 1][1] = k /\ r[l + 1][2] = k + 1
    BY <2>2
  <2>4. \A j \in 1 .. l + 1 : j = l + 1 \/ j \in 1 .. l
    BY <1>1
  <2>5. \A j \in 1 .. l + 1 : r[j][1] < r[j][2] /\ r[j][2] <= k + 1
    BY <1>1, <1>2, <2>2, <2>3, <2>4
  <2>6. ASSUME NEW j \in 1 .. l PROVE r[j][2] < r[j + 1][1]
    <3>1. CASE j = l
      <4>1. q # <<>> /\ q[l][2] # k
        BY <1>1, <1>7, <3>1
      <4> QED
        BY <1>1, <1>2, <2>2, <2>3, <3>1, <4>1
    <3>2. CASE j # l
      <4>1. j \in 1 .. l - 1 /\ j + 1 \in 1 .. l
        BY <1>1, <3>2
      <4> QED
        BY <1>1, <2>2, <4>1
    <3> QED
        BY <3>1, <3>2
  <2>7. \A i \in 1 .. k - 1 : ~Covers(r[l + 1], i)
    BY <2>3 DEF Covers
  <2>8. Covers(r[l + 1], k) /\ l + 1 \in 1 .. l + 1
    BY <1>1, <2>3 DEF Covers
  <2>9. \A i \in 1 .. k : on[i] <=> \E j \in 1 .. l + 1 : Covers(r[j], i)
    <3>1. \A i \in 1 .. k - 1 : on[i] <=> \E j \in 1 .. l + 1 : Covers(r[j], i)
      <4>1. \A j \in 1 .. l : j \in 1 .. l + 1
        BY <1>1
      <4> QED
        BY <1>1, <2>2, <2>4, <2>7, <4>1
    <3> QED
        BY <1>4, <1>7, <2>8, <3>1
  <2>10. l + 1 - 1 = l
    BY <1>1
  <2> QED
    BY <2>2, <2>5, <2>6, <2>9, <2>10 DEF Cuts, r
<1> QED
    BY <1>3, <1>5, <1>6, <1>7

(* The spans hold the paused bars and no other, apart from each other.     *)
LEMMA PauseSpansAre ==
    ASSUME NEW on \in Seq(BOOLEAN)
    PROVE  Cuts(PauseSpans(on), Len(on), on)
<1> DEFINE n == Len(on)
           s == [i \in DOMAIN on |-> i]
<1>1. n \in Nat /\ DOMAIN on = 1 .. n /\ \A i \in 1 .. n : on[i] \in BOOLEAN
    OBVIOUS
<1>2. DOMAIN s = 1 .. n /\ \A i \in 1 .. n : s[i] = i
    BY <1>1
<1>3. PauseSpans(on) = SpansAlong(on, s)
    BY DEF PauseSpans, SpansAlong
<1> HIDE DEF s
<1>4. PICK q : /\ q[0] = <<>>
               /\ \A k \in 1 .. n : q[k] = Spanned(q[k - 1], k, on[k])
               /\ q[n] = SpansAlong(on, s)
    BY <1>1, <1>2, SpanRuns
<1> HIDE DEF n
<1> DEFINE G == {k \in 0 .. n : Cuts(q[k], k, on)}
<1>5. 0 \in G
  <2>1. Cuts(<<>>, 0, on)
    BY DEF Cuts
  <2> QED
    BY <1>1, <1>4, <2>1
<1>6. ASSUME NEW k \in 1 .. n, k - 1 \in G PROVE k \in G
  <2>1. Cuts(q[k - 1], k - 1, on)
    BY <1>6
  <2>2. k \in Nat \ {0} /\ \A i \in 1 .. k : on[i] \in BOOLEAN
    BY <1>1
  <2>3. Cuts(Spanned(q[k - 1], k, on[k]), k, on)
    BY <2>1, <2>2, CutsOneMore
  <2> QED
    BY <1>4, <2>3
<1> HIDE DEF G
<1>7. n \in G
  <2>1. \A k \in 1 .. n : k - 1 \in G => k \in G
    BY <1>6
  <2>2. \A k \in 0 .. n : k \in G
    BY <1>1, <1>5, <2>1, Upwards
  <2> QED
    BY <1>1, <2>2
<1> QED
    BY <1>3, <1>4, <1>7 DEF G, n

-----------------------------------------------------------------------------
(* Sums of the same length, term by term.                                  *)
Terms(s, n) == DOMAIN s = 1 .. n /\ \A i \in 1 .. n : s[i] \in Int

(* A sum of whole terms is whole, and the end of a run.                    *)
LEMMA SumIsRun ==
    ASSUME NEW n \in Nat, NEW s, Terms(s, n)
    PROVE  /\ Sum(s) \in Int
           /\ \E h \in [0 .. n -> Int] : Sums(h, n, s) /\ h[n] = Sum(s)
<1>1. PICK h \in [0 .. n -> Int] : Sums(h, n, s) /\ h[n] = Sum(s)
    BY SumRuns DEF Terms
<1>2. n \in 0 .. n
    OBVIOUS
<1> QED
    BY <1>1, <1>2

(* The sum of sums, term by term.                                          *)
LEMMA SumAdds ==
    ASSUME NEW n \in Nat, NEW s, NEW t, NEW u, Terms(s, n), Terms(t, n), Terms(u, n),
           \A i \in 1 .. n : u[i] = s[i] + t[i]
    PROVE  Sum(u) = Sum(s) + Sum(t)
<1>1. PICK f \in [0 .. n -> Int] : Sums(f, n, s) /\ f[n] = Sum(s)
    BY SumIsRun
<1>2. PICK g \in [0 .. n -> Int] : Sums(g, n, t) /\ g[n] = Sum(t)
    BY SumIsRun
<1>3. PICK h \in [0 .. n -> Int] : Sums(h, n, u) /\ h[n] = Sum(u)
    BY SumIsRun
<1> DEFINE G == {k \in 0 .. n : h[k] = f[k] + g[k]}
<1>4. 0 \in G
    BY <1>1, <1>2, <1>3 DEF Sums
<1>5. ASSUME NEW k \in 1 .. n, k - 1 \in G PROVE k \in G
  <2>1. k - 1 \in 0 .. n /\ k \in 0 .. n /\ h[k - 1] = f[k - 1] + g[k - 1]
    BY <1>5
  <2>2. f[k] = f[k - 1] + s[k] /\ g[k] = g[k - 1] + t[k] /\ h[k] = h[k - 1] + u[k]
    BY <1>1, <1>2, <1>3 DEF Sums
  <2>3. s[k] \in Int /\ t[k] \in Int /\ u[k] = s[k] + t[k] /\ f[k - 1] \in Int /\ g[k - 1] \in Int
    BY <2>1 DEF Terms
  <2> QED
    BY <2>1, <2>2, <2>3
<1> HIDE DEF G
<1>6. \A k \in 1 .. n : k - 1 \in G => k \in G
    BY <1>5
<1>7. \A k \in 0 .. n : k \in G
    BY <1>4, <1>6, Upwards
<1>8. n \in 0 .. n
    OBVIOUS
<1> QED
    BY <1>1, <1>2, <1>3, <1>7, <1>8 DEF G

(* Terms that are no smaller have no smaller sum.                          *)
LEMMA SumGrows ==
    ASSUME NEW n \in Nat, NEW s, NEW t, Terms(s, n), Terms(t, n),
           \A i \in 1 .. n : s[i] <= t[i]
    PROVE  Sum(s) <= Sum(t)
<1>1. PICK f \in [0 .. n -> Int] : Sums(f, n, s) /\ f[n] = Sum(s)
    BY SumIsRun
<1>2. PICK g \in [0 .. n -> Int] : Sums(g, n, t) /\ g[n] = Sum(t)
    BY SumIsRun
<1> DEFINE G == {k \in 0 .. n : f[k] <= g[k]}
<1>3. 0 \in G
    BY <1>1, <1>2 DEF Sums
<1>4. ASSUME NEW k \in 1 .. n, k - 1 \in G PROVE k \in G
  <2>1. k - 1 \in 0 .. n /\ k \in 0 .. n /\ f[k - 1] <= g[k - 1]
    BY <1>4
  <2>2. f[k] = f[k - 1] + s[k] /\ g[k] = g[k - 1] + t[k]
    BY <1>1, <1>2 DEF Sums
  <2>3. s[k] \in Int /\ t[k] \in Int /\ s[k] <= t[k] /\ f[k - 1] \in Int /\ g[k - 1] \in Int
    BY <2>1 DEF Terms
  <2> QED
    BY <2>1, <2>2, <2>3
<1> HIDE DEF G
<1>5. \A k \in 1 .. n : k - 1 \in G => k \in G
    BY <1>4
<1>6. \A k \in 0 .. n : k \in G
    BY <1>3, <1>5, Upwards
<1>7. n \in 0 .. n
    OBVIOUS
<1> QED
    BY <1>1, <1>2, <1>6, <1>7 DEF G

(* Equal terms have equal sums.                                            *)
LEMMA SumSame ==
    ASSUME NEW n \in Nat, NEW s, NEW t, Terms(s, n), Terms(t, n), \A i \in 1 .. n : s[i] = t[i]
    PROVE  Sum(s) = Sum(t)
<1>1. \A i \in 1 .. n : s[i] <= t[i] /\ t[i] <= s[i]
    BY DEF Terms
<1>2. Sum(s) <= Sum(t) /\ Sum(t) <= Sum(s)
    BY <1>1, SumGrows
<1>3. Sum(s) \in Int /\ Sum(t) \in Int
    BY SumIsRun
<1> QED
    BY <1>2, <1>3

(* A constant c at the places I, nothing elsewhere. *)
At(c, I, n) == [k \in 1 .. n |-> IF k \in I THEN c ELSE 0]

(* Counting goes up by one at each of the positions. *)
LEMMA CountSteps ==
    ASSUME NEW n \in Nat, NEW I \in SUBSET (1 .. n)
    PROVE  /\ CountTo(0, I) = 0 /\ CountTo(n, I) = Cardinality(I)
           /\ \A k \in 0 .. n : CountTo(k, I) \in 0 .. Cardinality(I)
           /\ \A k \in 1 .. n : CountTo(k, I) = CountTo(k - 1, I) + IF k \in I THEN 1 ELSE 0
<1> DEFINE upTo(k) == {j \in I : j <= k}
<1>1. IsFiniteSet(I) /\ Cardinality(I) \in Nat
    BY PlacesAre
<1>2. \A k \in 0 .. n :
          /\ IsFiniteSet(upTo(k)) /\ Cardinality(upTo(k)) \in Nat
          /\ Cardinality(upTo(k)) <= Cardinality(I)
  <2> SUFFICES ASSUME NEW k \in 0 .. n
               PROVE  /\ IsFiniteSet(upTo(k)) /\ Cardinality(upTo(k)) \in Nat
                      /\ Cardinality(upTo(k)) <= Cardinality(I)
    OBVIOUS
  <2>1. upTo(k) \in SUBSET I
    OBVIOUS
  <2> HIDE DEF upTo
  <2> QED
    BY <1>1, <2>1, FS_Subset, FS_CardinalityType
<1>3. \A k : CountTo(k, I) = Cardinality(upTo(k))
    BY DEF CountTo
<1>4. CountTo(0, I) = 0
  <2>1. \A j \in I : ~(j <= 0)
    OBVIOUS
  <2>2. upTo(0) = {}
    BY <2>1
  <2> HIDE DEF upTo
  <2> QED
    BY <1>3, <2>2, FS_EmptySet
<1>5. CountTo(n, I) = Cardinality(I)
  <2>1. \A j \in I : j <= n
    OBVIOUS
  <2>2. upTo(n) = I
    BY <2>1
  <2> HIDE DEF upTo
  <2> QED
    BY <1>3, <2>2
<1>6. ASSUME NEW k \in 1 .. n
      PROVE  CountTo(k, I) = CountTo(k - 1, I) + IF k \in I THEN 1 ELSE 0
  <2>1. k - 1 \in 0 .. n /\ ~(k <= k - 1)
    OBVIOUS
  <2>2. \A j \in I : j <= k <=> (j <= k - 1 \/ j = k)
    OBVIOUS
  <2>3. CASE k \in I
    <3>1. upTo(k) = upTo(k - 1) \cup {k} /\ k \notin upTo(k - 1)
        BY <2>1, <2>2, <2>3
    <3> HIDE DEF upTo
    <3>2. Cardinality(upTo(k)) = Cardinality(upTo(k - 1)) + 1
        BY <1>2, <2>1, <3>1, FS_AddElement
    <3> QED
        BY <1>3, <2>3, <3>2
  <2>4. CASE k \notin I
    <3>1. upTo(k) = upTo(k - 1)
        BY <2>2, <2>4
    <3> HIDE DEF upTo
    <3> QED
        BY <1>2, <1>3, <2>1, <2>4, <3>1
  <2> QED
    BY <2>3, <2>4
<1>7. \A k \in 0 .. n : CountTo(k, I) \in 0 .. Cardinality(I)
  <2> HIDE DEF upTo
  <2> QED
    BY <1>1, <1>2, <1>3
<1> QED
    BY <1>4, <1>5, <1>6, <1>7

(* Counting is to sum ones, and c of each is c times the count. *)
LEMMA SumOfConstant ==
    ASSUME NEW n \in Nat, NEW I \in SUBSET (1 .. n), NEW c \in Int
    PROVE  /\ Terms(At(c, I, n), n) /\ Cardinality(I) \in Nat
           /\ Sum(At(c, I, n)) = c * Cardinality(I)
<1> DEFINE s == At(c, I, n)
           m(k) == CountTo(k, I)
<1>1. Terms(s, n) /\ \A k \in 1 .. n : s[k] = IF k \in I THEN c ELSE 0
    BY DEF Terms, At
<1> HIDE DEF s
<1>2. PICK h \in [0 .. n -> Int] : Sums(h, n, s) /\ h[n] = Sum(s)
    BY <1>1, SumIsRun
<1>3. Cardinality(I) \in Nat
    BY PlacesAre
<1>4. /\ m(0) = 0 /\ m(n) = Cardinality(I)
      /\ \A k \in 0 .. n : m(k) \in 0 .. Cardinality(I)
      /\ \A k \in 1 .. n : m(k) = m(k - 1) + IF k \in I THEN 1 ELSE 0
    BY CountSteps
<1> HIDE DEF m
<1> DEFINE G == {k \in 0 .. n : h[k] = c * m(k)}
<1>5. 0 \in G
    BY <1>2, <1>4 DEF Sums
<1>6. ASSUME NEW k \in 1 .. n, k - 1 \in G PROVE k \in G
  <2>1. k - 1 \in 0 .. n /\ k \in 0 .. n /\ h[k - 1] = c * m(k - 1)
    BY <1>6
  <2>2. h[k] = h[k - 1] + IF k \in I THEN c ELSE 0
    BY <1>1, <1>2 DEF Sums
  <2>3. m(k - 1) \in Nat
    BY <1>3, <1>4, <2>1
  <2>4. \A a \in Nat : c * (a + 1) = c * a + c /\ c * a + 0 = c * a /\ a + 0 = a
    OBVIOUS
  <2>5. m(k) = m(k - 1) + IF k \in I THEN 1 ELSE 0
    BY <1>4
  <2> QED
    BY <2>1, <2>2, <2>3, <2>4, <2>5
<1> HIDE DEF G
<1>7. \A k \in 1 .. n : k - 1 \in G => k \in G
    BY <1>6
<1>8. n \in G
  <2>1. \A k \in 0 .. n : k \in G
    BY <1>5, <1>7, Upwards
  <2> QED
    BY <2>1
<1> QED
    BY <1>1, <1>2, <1>3, <1>4, <1>8 DEF G, s

(* To sum what is picked is to sum it where it stands. *)
LEMMA SumOfPicked ==
    ASSUME NEW n \in Nat, NEW I \in SUBSET (1 .. n),
           NEW g, Terms(g, Cardinality(I)), NEW w, Terms(w, n),
           \A k \in 1 .. Cardinality(I) : g[k] = w[PickAt(k, I)],
           \A i \in (1 .. n) \ I : w[i] = 0
    PROVE  Sum(g) = Sum(w)
<1> DEFINE c == Cardinality(I)
           m(k) == CountTo(k, I)
<1>1. c \in Nat /\ \A i \in I : m(i) \in 1 .. c /\ PickAt(m(i), I) = i
  <2> DEFINE id == [i \in I |-> i]
  <2>1. \A i \in I : id[i] \in I
    OBVIOUS
  <2> HIDE DEF id
  <2>2. \A i \in I : PickAt(CountTo(i, I), I) = i
    BY <2>1, PickedIs
  <2> QED
    BY <2>2, PlacesAre
<1>2. /\ m(0) = 0 /\ m(n) = c
      /\ \A k \in 0 .. n : m(k) \in 0 .. c
      /\ \A k \in 1 .. n : m(k) = m(k - 1) + IF k \in I THEN 1 ELSE 0
    BY CountSteps
<1> HIDE DEF m, c
<1>3. Terms(g, c) /\ \A k \in 1 .. c : g[k] = w[PickAt(k, I)]
    BY DEF c
<1>4. PICK f \in [0 .. c -> Int] : Sums(f, c, g) /\ f[c] = Sum(g)
    BY <1>1, <1>3, SumIsRun
<1>5. PICK h \in [0 .. n -> Int] : Sums(h, n, w) /\ h[n] = Sum(w)
    BY SumIsRun
<1> DEFINE G == {k \in 0 .. n : h[k] = f[m(k)]}
<1>6. 0 \in G
    BY <1>2, <1>4, <1>5 DEF Sums
<1>7. ASSUME NEW k \in 1 .. n, k - 1 \in G PROVE k \in G
  <2>1. k - 1 \in 0 .. n /\ k \in 0 .. n /\ h[k - 1] = f[m(k - 1)] /\ h[k - 1] \in Int
    BY <1>7
  <2>2. h[k] = h[k - 1] + w[k]
    BY <1>5 DEF Sums
  <2>3. m(k - 1) \in 0 .. c /\ m(k) \in 0 .. c
    BY <1>2, <2>1
  <2>4. CASE k \in I
    <3>1. m(k) \in 1 .. c /\ PickAt(m(k), I) = k /\ m(k) = m(k - 1) + 1
        BY <1>1, <1>2, <2>4
    <3>2. m(k) - 1 = m(k - 1)
        BY <1>1, <2>3, <3>1
    <3>3. f[m(k)] = f[m(k - 1)] + g[m(k)]
        BY <1>4, <3>1, <3>2 DEF Sums
    <3>4. g[m(k)] = w[k]
        BY <1>3, <3>1
    <3> QED
        BY <2>1, <2>2, <3>3, <3>4
  <2>5. CASE k \notin I
    <3>1. m(k) = m(k - 1) + 0 /\ w[k] = 0
        BY <1>2, <2>5
    <3>2. m(k) = m(k - 1)
        BY <1>1, <2>3, <3>1
    <3> QED
        BY <2>1, <2>2, <3>1, <3>2
  <2> QED
    BY <2>4, <2>5
<1> HIDE DEF G
<1>8. \A k \in 1 .. n : k - 1 \in G => k \in G
    BY <1>7
<1>9. n \in G
  <2>1. \A k \in 0 .. n : k \in G
    BY <1>6, <1>8, Upwards
  <2> QED
    BY <2>1
<1> QED
    BY <1>2, <1>4, <1>5, <1>9 DEF G

-----------------------------------------------------------------------------
(* Sums over a set of pairs: in whatever order the pairs are taken out.    *)
OneOf(r) == CHOOSE x \in r : TRUE
Totals(f, Q) ==
    f = [r \in SUBSET Q |-> IF r = {} THEN 0 ELSE OneOf(r)[2] + f[r \ {OneOf(r)}]]

(* Two ways of taking the pairs of a set out give one total.               *)
LEMMA TotalsAgree ==
    ASSUME NEW Q, IsFiniteSet(Q), NEW f, NEW g, Totals(f, Q), Totals(g, Q)
    PROVE  f[Q] = g[Q]
<1> DEFINE Bad == {r \in SUBSET Q : f[r] # g[r]}
           Sizes == {Cardinality(r) : r \in Bad}
<1> SUFFICES ASSUME Bad # {} PROVE FALSE
    OBVIOUS
<1>1. \A r \in SUBSET Q : IsFiniteSet(r) /\ Cardinality(r) \in Nat
    BY FS_Subset, FS_CardinalityType
<1>2. PICK m \in Sizes : \A k \in Sizes : m <= k
  <2>1. Sizes \in SUBSET Nat /\ Sizes # {}
    BY <1>1
  <2> HIDE DEF Sizes
  <2> QED
    BY <2>1, LeastExists
<1>3. PICK r \in Bad : Cardinality(r) = m
    BY <1>2
<1>4. r \in SUBSET Q /\ f[r] # g[r]
    OBVIOUS
<1>5. /\ f[r] = IF r = {} THEN 0 ELSE OneOf(r)[2] + f[r \ {OneOf(r)}]
      /\ g[r] = IF r = {} THEN 0 ELSE OneOf(r)[2] + g[r \ {OneOf(r)}]
    BY <1>4, Zenon DEF Totals
<1>6. r # {} /\ OneOf(r) \in r
    BY <1>4, <1>5 DEF OneOf
<1>7. Cardinality(r \ {OneOf(r)}) = Cardinality(r) - 1
    BY <1>1, <1>4, <1>6, FS_RemoveElement
<1>8. r \ {OneOf(r)} \in Bad
    BY <1>4, <1>5, <1>6
<1>9. Cardinality(r \ {OneOf(r)}) \in Sizes
    BY <1>8
<1>10. m <= Cardinality(r \ {OneOf(r)}) /\ m \in Nat
  <2> HIDE DEF Sizes
  <2> QED
    BY <1>1, <1>2, <1>3, <1>4, <1>9
<1> QED
    BY <1>3, <1>7, <1>10

(* However a set of pairs is numbered, its sum is that of the list. *)
Lists(e, n, s, Q) ==
    /\ n \in Nat /\ Terms(s, n) /\ Q = {e[k] : k \in 1 .. n}
    /\ \A k \in 1 .. n : e[k][2] \in Int /\ s[k] = e[k][2]
    /\ \A k, l \in 1 .. n : e[k] = e[l] => k = l

(* A sum over a set of pairs is that of any list of them.                  *)
LEMMA SumOverIs ==
    ASSUME NEW n, NEW e, NEW s, NEW R, Lists(e, n, s, R)
    PROVE  SumOver(R) = Sum(s)
<1>0. /\ n \in Nat /\ Terms(s, n) /\ R = {e[k] : k \in 1 .. n}
      /\ \A k \in 1 .. n : e[k][2] \in Int /\ s[k] = e[k][2]
      /\ \A k, l \in 1 .. n : e[k] = e[l] => k = l
    BY DEF Lists
<1> USE <1>0
<1> DEFINE Q == {e[k] : k \in 1 .. n}
           part(r) == [k \in 1 .. n |-> IF e[k] \in r THEN s[k] ELSE 0]
           g == [r \in SUBSET Q |-> Sum(part(r))]
           it == CHOOSE it : Totals(it, Q)
<1>1. \A r : Terms(part(r), n)
    BY DEF Terms
<1>2. IsFiniteSet(Q)
  <2> DEFINE num == [k \in 1 .. n |-> e[k]]
  <2>1. num \in Surjection(1 .. n, Q)
    BY DEF Surjection
  <2>2. IsFiniteSet(1 .. n)
    BY FS_Interval
  <2> HIDE DEF num, Q
  <2> QED
    BY <2>1, <2>2, FS_Surjection
<1>3. g[{}] = 0
  <2>1. {} \in SUBSET Q
    OBVIOUS
  <2>2. \A k \in 1 .. n : part({})[k] = 0
    OBVIOUS
  <2> DEFINE none == At(0, {}, n)
  <2>3. Terms(none, n) /\ Sum(none) = 0 * Cardinality({}) /\ Cardinality({}) \in Nat
    <3>1. {} \in SUBSET (1 .. n) /\ 0 \in Int
        OBVIOUS
    <3> QED
        BY <3>1, SumOfConstant
  <2>4. \A k \in 1 .. n : none[k] = part({})[k]
    BY <2>2 DEF At
  <2> HIDE DEF none, part
  <2>5. Sum(part({})) = Sum(none)
    BY <1>1, <2>3, <2>4, SumSame
  <2> QED
    BY <2>1, <2>3, <2>5
<1>4. ASSUME NEW r \in SUBSET Q, NEW x \in r
      PROVE  g[r] = x[2] + g[r \ {x}]
  <2>1. PICK k \in 1 .. n : x = e[k]
    OBVIOUS
  <2> DEFINE one == At(s[k], {k}, n)
  <2>2. Terms(one, n) /\ Sum(one) = s[k]
    <3>1. {k} \in SUBSET (1 .. n) /\ s[k] \in Int
        BY DEF Terms
    <3>2. Sum(one) = s[k] * Cardinality({k}) /\ Terms(one, n)
        BY <3>1, SumOfConstant
    <3>3. Cardinality({k}) = 1
        BY FS_Singleton
    <3> HIDE DEF one
    <3> QED
        BY <3>1, <3>2, <3>3
  <2>3. ASSUME NEW l \in 1 .. n PROVE part(r)[l] = part(r \ {x})[l] + one[l]
    <3>1. s[l] \in Int
        BY DEF Terms
    <3>2. CASE l = k
      <4>1. part(r)[l] = s[k] /\ part(r \ {x})[l] = 0 /\ one[l] = s[k]
        BY <2>1, <3>2 DEF At
      <4> QED
        BY <3>1, <3>2, <4>1
    <3>3. CASE l # k
      <4>1. e[l] # x
        BY <2>1, <3>3
      <4>2. part(r)[l] = part(r \ {x})[l] /\ one[l] = 0 /\ part(r)[l] \in Int
        BY <3>1, <3>3, <4>1 DEF At
      <4> QED
        BY <4>2
    <3> QED
        BY <3>2, <3>3
  <2>4. Sum(part(r)) = Sum(part(r \ {x})) + Sum(one)
    <3> DEFINE u == part(r)
               t == part(r \ {x})
    <3>1. Terms(u, n) /\ Terms(t, n) /\ Terms(one, n)
        BY <1>1, <2>2
    <3>2. \A l \in 1 .. n : u[l] = t[l] + one[l]
        BY <2>3
    <3> HIDE DEF u, t, one, part, g, it, Q
    <3>3. Sum(u) = Sum(t) + Sum(one)
        BY <1>0, <3>1, <3>2, SumAdds
    <3> QED
        BY <3>3 DEF u, t
  <2> HIDE DEF one, part
  <2>5. Sum(part(r \ {x})) \in Int
    BY <1>1, SumIsRun
  <2>6. x[2] = s[k] /\ s[k] \in Int
    BY <2>1 DEF Terms
  <2>7. g[r] = Sum(part(r)) /\ g[r \ {x}] = Sum(part(r \ {x}))
    OBVIOUS
  <2> QED
    BY <2>2, <2>4, <2>5, <2>6, <2>7
<1> HIDE DEF part
<1>5. Totals(g, Q)
  <2>1. ASSUME NEW r \in SUBSET Q
        PROVE  g[r] = IF r = {} THEN 0 ELSE OneOf(r)[2] + g[r \ {OneOf(r)}]
    <3>1. r # {} => OneOf(r) \in r
        BY DEF OneOf
    <3> HIDE DEF g
    <3> QED
        BY <1>3, <1>4, <3>1
  <2>2. g = [r \in SUBSET Q |-> g[r]]
    OBVIOUS
  <2> HIDE DEF g, Q
  <2> QED
    BY <2>1, <2>2, Zenon DEF Totals
<1>6. Totals(it, Q)
  <2> HIDE DEF g, Q
  <2> QED
    BY <1>5, Zenon
<1>7. SumOver(Q) = it[Q]
    BY DEF SumOver, FoldSet, MapThenFoldSet, Totals, OneOf
<1>8. g[Q] = Sum(s)
  <2>1. \A k \in 1 .. n : part(Q)[k] = s[k]
    BY DEF part
  <2>2. Sum(part(Q)) = Sum(s)
    <3> HIDE DEF Q
    <3> QED
        BY <1>1, <2>1, SumSame
  <2> QED
    BY <2>2
<1> HIDE DEF it, g, Q
<1>9. it[Q] = g[Q]
    BY <1>2, <1>5, <1>6, TotalsAgree
<1> QED
    BY <1>7, <1>8, <1>9 DEF Q

(* A part of a running sum. *)
IsPart(s, n, v, m, a, h) ==
    /\ m \in Nat /\ h \in [0 .. m -> Int] /\ Sums(h, m, v)
    /\ a \in 0 .. m /\ n \in Nat /\ a + n <= m
    /\ Terms(s, n) /\ \A k \in 1 .. n : s[k] = v[a + k]

(* The sum of a part is the difference of two running sums.                *)
LEMMA SumOfPart ==
    ASSUME NEW s, NEW n, NEW v, NEW m, NEW a, NEW h, IsPart(s, n, v, m, a, h)
    PROVE  Sum(s) = h[a + n] - h[a]
<1>0. /\ m \in Nat /\ h \in [0 .. m -> Int] /\ Sums(h, m, v)
      /\ a \in 0 .. m /\ n \in Nat /\ a + n <= m
      /\ Terms(s, n) /\ \A k \in 1 .. n : s[k] = v[a + k]
    BY DEF IsPart
<1> USE <1>0
<1>1. PICK f \in [0 .. n -> Int] : Sums(f, n, s) /\ f[n] = Sum(s)
    BY SumIsRun
<1>2. \A k \in 0 .. n : a + k \in 0 .. m /\ h[a + k] \in Int /\ h[a] \in Int /\ f[k] \in Int
    BY <1>1
<1> DEFINE G == {k \in 0 .. n : f[k] = h[a + k] - h[a]}
<1>3. 0 \in G
  <2>1. f[0] = 0 /\ a + 0 = a /\ h[a] - h[a] = 0
    BY <1>1, <1>2 DEF Sums
  <2> QED
    BY <2>1
<1>4. ASSUME NEW k \in 1 .. n, k - 1 \in G PROVE k \in G
  <2>1. k - 1 \in 0 .. n /\ k \in 0 .. n /\ f[k - 1] = h[a + (k - 1)] - h[a]
    BY <1>4
  <2>2. a + k \in 1 .. m /\ (a + k) - 1 = a + (k - 1)
    BY <1>2, <2>1
  <2>3. h[a + k] = h[a + (k - 1)] + v[a + k]
    BY <2>2 DEF Sums
  <2>4. f[k] = f[k - 1] + v[a + k]
    BY <1>1 DEF Sums
  <2>5. v[a + k] \in Int
    BY DEF Terms
  <2>6. h[a + (k - 1)] \in Int /\ h[a] \in Int
    BY <1>2, <2>1
  <2>7. \A x, y, z \in Int : (x - y) + z = (x + z) - y
    OBVIOUS
  <2>8. f[k] = h[a + k] - h[a]
    <3> DEFINE x == h[a + (k - 1)]
               y == h[a]
               z == v[a + k]
    <3>1. f[k] = (x - y) + z
        BY <2>1, <2>4
    <3>2. h[a + k] = x + z
        BY <2>3
    <3>3. x \in Int /\ y \in Int /\ z \in Int
        BY <2>5, <2>6
    <3> HIDE DEF x, z
    <3> QED
        BY <2>7, <3>1, <3>2, <3>3
  <2> QED
    BY <2>1, <2>8
<1> HIDE DEF G
<1>5. \A k \in 1 .. n : k - 1 \in G => k \in G
    BY <1>4
<1>6. n \in G
  <2>1. \A k \in 0 .. n : k \in G
    BY <1>3, <1>5, Upwards
  <2> QED
    BY <2>1
<1> QED
    BY <1>1, <1>6 DEF G

-----------------------------------------------------------------------------
(* How unique the trades are.                                              *)
OpenAt(trs, t) == {i \in DOMAIN trs : trs[i].open <= t /\ t < trs[i].close}
ClosesAt(trs, i) == Smaller(trs[i].close, Minutes)

(* When a trade closes, as far as the run lasts.                           *)
LEMMA TradesAre ==
    ASSUME NEW trs \in Seq(Trades)
    PROVE  /\ Minutes \in Nat /\ Len(trs) \in Nat /\ DOMAIN trs = 1 .. Len(trs)
           /\ \A i \in DOMAIN trs :
                  /\ trs[i].pnl \in Int /\ trs[i].open \in 0 .. Minutes /\ trs[i].close \in Nat
                  /\ trs[i].open <= trs[i].close
                  /\ ClosesAt(trs, i) \in 0 .. Minutes /\ trs[i].open <= ClosesAt(trs, i)
                  /\ ClosesAt(trs, i) <= trs[i].close
                  /\ \A t \in 0 .. Minutes - 1 : ClosesAt(trs, i) <= t <=> trs[i].close <= t
<1>1. Minutes \in Nat
    BY ProtocolConstants
<1>2. Len(trs) \in Nat /\ DOMAIN trs = 1 .. Len(trs) /\ \A i \in DOMAIN trs : trs[i] \in Trades
    OBVIOUS
<1>3. \A t \in Trades : t \in [pnl : Int, open : 0 .. Minutes, close : Nat] /\ t.open <= t.close
    BY ProtocolAssumption
<1>4. ASSUME NEW i \in DOMAIN trs
      PROVE  /\ trs[i].pnl \in Int /\ trs[i].open \in 0 .. Minutes /\ trs[i].close \in Nat
             /\ trs[i].open <= trs[i].close
  <2>1. trs[i] \in [pnl : Int, open : 0 .. Minutes, close : Nat] /\ trs[i].open <= trs[i].close
    BY <1>2, <1>3
  <2> QED
    BY <2>1
<1>5. ASSUME NEW i \in DOMAIN trs
      PROVE  /\ ClosesAt(trs, i) \in 0 .. Minutes /\ trs[i].open <= ClosesAt(trs, i)
             /\ ClosesAt(trs, i) <= trs[i].close
             /\ \A t \in 0 .. Minutes - 1 : ClosesAt(trs, i) <= t <=> trs[i].close <= t
  <2>1. CASE trs[i].close < Minutes
    <3>1. ClosesAt(trs, i) = trs[i].close
        BY <2>1 DEF ClosesAt, Smaller
    <3> QED
        BY <1>1, <1>4, <2>1, <3>1
  <2>2. CASE ~(trs[i].close < Minutes)
    <3>1. ClosesAt(trs, i) = Minutes
        BY <2>2 DEF ClosesAt, Smaller
    <3> QED
        BY <1>1, <1>4, <2>2, <3>1
  <2> QED
    BY <2>1, <2>2
<1> QED
    BY <1>1, <1>2, <1>4, <1>5

(* The changes of the concurrency, minute by minute. *)
Change(trs, t) == Cardinality({i \in DOMAIN trs : trs[i].open = t})
                  - Cardinality({i \in DOMAIN trs : Smaller(trs[i].close, Minutes) = t})
Changes(trs) == [t \in 1 .. Minutes |-> Change(trs, t - 1)]

(* What has opened less what has closed is what is open. *)
LEMMA ChangesAddUp ==
    ASSUME NEW trs \in Seq(Trades), NEW h \in [0 .. Minutes -> Int],
           Sums(h, Minutes, Changes(trs))
    PROVE  \A t \in 1 .. Minutes :
               Cardinality(OpenAt(trs, t - 1)) \in Nat /\ h[t] = Cardinality(OpenAt(trs, t - 1))
<1> DEFINE D == DOMAIN trs
           opened(t) == {i \in D : trs[i].open <= t}
           closed(t) == {i \in D : ClosesAt(trs, i) <= t}
           opens(t) == {i \in D : trs[i].open = t}
           closes(t) == {i \in D : ClosesAt(trs, i) = t}
<1>1. /\ Minutes \in Nat
      /\ \A i \in D :
             /\ trs[i].open \in Nat /\ ClosesAt(trs, i) \in Nat /\ trs[i].close \in Nat
             /\ trs[i].open <= ClosesAt(trs, i)
             /\ \A t \in 0 .. Minutes - 1 : ClosesAt(trs, i) <= t <=> trs[i].close <= t
    BY TradesAre
<1>2. IsFiniteSet(D)
    BY TradesAre, FS_Interval
<1>3. \A S \in SUBSET D : IsFiniteSet(S) /\ Cardinality(S) \in Nat
    BY <1>2, FS_Subset, FS_CardinalityType
<1>4. \A t \in 1 .. Minutes :
          h[t] = h[t - 1] + (Cardinality(opens(t - 1)) - Cardinality(closes(t - 1)))
    BY DEF Sums, Changes, Change, ClosesAt
<1>5. h[0] = 0
    BY DEF Sums
<1>6. \A t : opened(t) \in SUBSET D /\ closed(t) \in SUBSET D
             /\ opens(t) \in SUBSET D /\ closes(t) \in SUBSET D
    OBVIOUS
<1>7. ASSUME NEW t \in 0 .. Minutes
      PROVE  /\ opened(t) = opened(t - 1) \cup opens(t) /\ opened(t - 1) \cap opens(t) = {}
             /\ closed(t) = closed(t - 1) \cup closes(t) /\ closed(t - 1) \cap closes(t) = {}
  <2>1. \A x \in Nat : (x <= t <=> (x <= t - 1 \/ x = t)) /\ ~(x <= t - 1 /\ x = t)
    OBVIOUS
  <2>2. \A i \in D : trs[i].open <= t <=> (trs[i].open <= t - 1 \/ trs[i].open = t)
    BY <1>1, <2>1
  <2>3. \A i \in D : ClosesAt(trs, i) <= t <=> (ClosesAt(trs, i) <= t - 1 \/ ClosesAt(trs, i) = t)
    BY <1>1, <2>1
  <2>4. \A i \in D : ~(trs[i].open <= t - 1 /\ trs[i].open = t)
                     /\ ~(ClosesAt(trs, i) <= t - 1 /\ ClosesAt(trs, i) = t)
    BY <1>1, <2>1
  <2> QED
    BY <2>2, <2>3, <2>4, Zenon
<1>8. opened(-1) = {} /\ closed(-1) = {}
  <2>1. \A i \in D : ~(trs[i].open <= -1) /\ ~(ClosesAt(trs, i) <= -1)
    BY <1>1
  <2> QED
    BY <2>1
<1>9. ASSUME NEW t \in 0 .. Minutes - 1
      PROVE  closed(t) \in SUBSET opened(t) /\ OpenAt(trs, t) = opened(t) \ closed(t)
  <2>1. \A i \in D : ClosesAt(trs, i) <= t => trs[i].open <= t
    BY <1>1
  <2>2. \A i \in D : t < trs[i].close <=> ~(ClosesAt(trs, i) <= t)
    BY <1>1
  <2> QED
    BY <2>1, <2>2 DEF OpenAt
<1> HIDE DEF opened, closed, opens, closes, D
<1> DEFINE G == {t \in 0 .. Minutes :
                    h[t] = Cardinality(opened(t - 1)) - Cardinality(closed(t - 1))}
<1>10. 0 \in G
  <2>1. Cardinality({}) = 0
    BY FS_EmptySet
  <2>2. 0 - 1 = -1 /\ 0 \in 0 .. Minutes
    BY <1>1
  <2>3. Cardinality(opened(0 - 1)) = 0 /\ Cardinality(closed(0 - 1)) = 0
    BY <1>8, <2>1, <2>2
  <2> QED
    BY <1>5, <2>2, <2>3
<1>11. ASSUME NEW t \in 1 .. Minutes, t - 1 \in G PROVE t \in G
  <2> DEFINE u == t - 1
  <2>1. u \in 0 .. Minutes /\ t \in 0 .. Minutes
    BY <1>1
  <2>2. h[u] = Cardinality(opened(u - 1)) - Cardinality(closed(u - 1))
    BY <1>11
  <2>3. h[t] = h[u] + (Cardinality(opens(u)) - Cardinality(closes(u)))
    BY <1>4
  <2> HIDE DEF u
  <2>4. /\ opened(u) = opened(u - 1) \cup opens(u) /\ opened(u - 1) \cap opens(u) = {}
        /\ closed(u) = closed(u - 1) \cup closes(u) /\ closed(u - 1) \cap closes(u) = {}
    BY <1>7, <2>1
  <2>5. /\ IsFiniteSet(opened(u - 1)) /\ IsFiniteSet(opens(u))
        /\ IsFiniteSet(closed(u - 1)) /\ IsFiniteSet(closes(u))
        /\ Cardinality(opened(u - 1)) \in Nat /\ Cardinality(opens(u)) \in Nat
        /\ Cardinality(closed(u - 1)) \in Nat /\ Cardinality(closes(u)) \in Nat
    BY <1>3, <1>6
  <2>6. Cardinality({}) = 0
    BY FS_EmptySet
  <2>7. /\ Cardinality(opened(u)) = Cardinality(opened(u - 1)) + Cardinality(opens(u)) - 0
        /\ Cardinality(closed(u)) = Cardinality(closed(u - 1)) + Cardinality(closes(u)) - 0
    BY <2>4, <2>5, <2>6, FS_Union
  <2>8. h[t] = Cardinality(opened(u)) - Cardinality(closed(u))
    BY <2>2, <2>3, <2>5, <2>7
  <2> QED
    BY <2>1, <2>8 DEF u
<1> HIDE DEF G
<1>12. \A t \in 1 .. Minutes : t - 1 \in G => t \in G
    BY <1>11
<1>13. \A t \in 0 .. Minutes : t \in G
    BY <1>1, <1>10, <1>12, Upwards
<1>14. ASSUME NEW t \in 1 .. Minutes
       PROVE  Cardinality(OpenAt(trs, t - 1)) \in Nat /\ h[t] = Cardinality(OpenAt(trs, t - 1))
  <2> DEFINE u == t - 1
  <2>1. u \in 0 .. Minutes - 1 /\ t \in 0 .. Minutes
    BY <1>1
  <2>2. h[t] = Cardinality(opened(u)) - Cardinality(closed(u))
    BY <1>13, <2>1 DEF G
  <2> HIDE DEF u
  <2>3. closed(u) \in SUBSET opened(u) /\ OpenAt(trs, u) = opened(u) \ closed(u)
    BY <1>9, <2>1
  <2>4. IsFiniteSet(opened(u)) /\ opened(u) \cap closed(u) = closed(u)
    BY <1>3, <1>6, <2>3
  <2>5. Cardinality(OpenAt(trs, u)) = Cardinality(opened(u)) - Cardinality(closed(u))
    BY <2>3, <2>4, FS_Difference
  <2>6. Cardinality(OpenAt(trs, u)) \in Nat
    <3>1. OpenAt(trs, u) \in SUBSET D
        BY <1>6, <2>3
    <3> QED
        BY <1>3, <3>1
  <2> QED
    BY <2>2, <2>5, <2>6 DEF u
<1> QED
    BY <1>14

(* The openings less the closings so far count the trades open now.        *)
LEMMA ConcurrencyIs ==
    ASSUME NEW trs \in Seq(Trades)
    PROVE  /\ DOMAIN Concurrency(trs, Minutes) = 1 .. Minutes
           /\ \A t \in 1 .. Minutes :
                  /\ Cardinality(OpenAt(trs, t - 1)) \in Nat
                  /\ Concurrency(trs, Minutes)[t] = Cardinality(OpenAt(trs, t - 1))
<1>1. /\ Minutes \in Nat /\ DOMAIN trs = 1 .. Len(trs) /\ Len(trs) \in Nat
    BY TradesAre
<1>2. Terms(Changes(trs), Minutes)
  <2>1. \A S \in SUBSET DOMAIN trs : Cardinality(S) \in Nat
    <3>1. IsFiniteSet(DOMAIN trs)
        BY <1>1, FS_Interval
    <3> QED
        BY <3>1, FS_Subset, FS_CardinalityType
  <2>2. ASSUME NEW t PROVE Change(trs, t) \in Int
    <3>1. /\ {i \in DOMAIN trs : trs[i].open = t} \in SUBSET DOMAIN trs
          /\ {i \in DOMAIN trs : Smaller(trs[i].close, Minutes) = t} \in SUBSET DOMAIN trs
        OBVIOUS
    <3>2. /\ Cardinality({i \in DOMAIN trs : trs[i].open = t}) \in Nat
          /\ Cardinality({i \in DOMAIN trs : Smaller(trs[i].close, Minutes) = t}) \in Nat
        BY <2>1, <3>1, Zenon
    <3> QED
        BY <3>2 DEF Change
  <2> QED
    BY <2>2 DEF Changes, Terms
<1>3. PICK h \in [0 .. Minutes -> Int] : EquityOf(h, Minutes, Changes(trs))
    BY <1>1, <1>2, EquityIs DEF Terms
<1>4. Concurrency(trs, Minutes) = Equity(Changes(trs))
    BY DEF Concurrency, Equity, Changes, Change
<1>5. /\ Equity(Changes(trs)) \in Seq(Int) /\ Len(Equity(Changes(trs))) = Minutes
      /\ \A k \in 1 .. Minutes : Equity(Changes(trs))[k] = h[k]
      /\ Sums(h, Minutes, Changes(trs))
    BY <1>3 DEF EquityOf
<1>6. \A t \in 1 .. Minutes :
          Cardinality(OpenAt(trs, t - 1)) \in Nat /\ h[t] = Cardinality(OpenAt(trs, t - 1))
    BY <1>5, ChangesAddUp
<1> DEFINE c == Equity(Changes(trs))
<1>7. DOMAIN c = 1 .. Minutes
  <2> HIDE DEF c
  <2> QED
    BY <1>5 DEF c
<1> QED
    BY <1>4, <1>5, <1>6, <1>7

SumsBetween(s, n, a, h) == Sum(s) = h[a + n] - h[a]

(* SumOfPart, for all parts at once.                                       *)
LEMMA PartsSum ==
    \A s, n, v, m, a, h : IsPart(s, n, v, m, a, h) => SumsBetween(s, n, a, h)
<1> TAKE s, n, v, m, a, h
<1> HAVE IsPart(s, n, v, m, a, h)
<1>1. Sum(s) = h[a + n] - h[a]
    BY SumOfPart
<1> QED
    BY <1>1 DEF SumsBetween

(* The share of a minute that each trade open then has. *)
Share(trs, t) == Scale \div Cardinality(OpenAt(trs, t))
Shares(trs) == LET c == Concurrency(trs, Minutes)
               IN  [t \in 1 .. Minutes |-> IF c[t] > 0 THEN Scale \div c[t] ELSE 0]

(* In a minute a trade is open in, its share is one over those open then.  *)
LEMMA SharesAre ==
    ASSUME NEW trs \in Seq(Trades)
    PROVE  /\ Terms(Shares(trs), Minutes)
           /\ \A i \in DOMAIN trs, t \in 1 .. Minutes :
                  i \in OpenAt(trs, t - 1) =>
                      Shares(trs)[t] = Share(trs, t - 1) /\ Share(trs, t - 1) \in Int
<1> DEFINE c == Concurrency(trs, Minutes)
<1>1. \A t \in 1 .. Minutes : c[t] \in Nat /\ c[t] = Cardinality(OpenAt(trs, t - 1))
    BY ConcurrencyIs
<1>2. Shares(trs) = [t \in 1 .. Minutes |-> IF c[t] > 0 THEN Scale \div c[t] ELSE 0]
    BY DEF Shares
<1> HIDE DEF c
<1>3. \A x \in Nat : x > 0 => (Scale \div x) \in Int
    BY ProtocolConstants
<1>4. ASSUME NEW t \in 1 .. Minutes PROVE Shares(trs)[t] \in Int
  <2>1. Shares(trs)[t] = IF c[t] > 0 THEN Scale \div c[t] ELSE 0
    BY <1>2
  <2> QED
    BY <1>1, <1>3, <2>1
<1>5. DOMAIN Shares(trs) = 1 .. Minutes
    BY <1>2
<1>6. ASSUME NEW i \in DOMAIN trs, NEW t \in 1 .. Minutes, i \in OpenAt(trs, t - 1)
      PROVE  Shares(trs)[t] = Share(trs, t - 1) /\ Share(trs, t - 1) \in Int
  <2>1. IsFiniteSet(OpenAt(trs, t - 1))
    <3>1. IsFiniteSet(DOMAIN trs)
        BY TradesAre, FS_Interval
    <3>2. OpenAt(trs, t - 1) \in SUBSET DOMAIN trs
        BY DEF OpenAt
    <3> QED
        BY <3>1, <3>2, FS_Subset
  <2>2. Cardinality(OpenAt(trs, t - 1)) # 0
    BY <1>6, <2>1, FS_EmptySet, Zenon
  <2>3. c[t] > 0
    BY <1>1, <2>2
  <2>4. Shares(trs)[t] = Scale \div c[t]
    BY <1>2, <2>3
  <2> QED
    BY <1>1, <1>4, <2>4 DEF Share
<1> QED
    BY <1>4, <1>5, <1>6 DEF Terms

(* What a trade's minutes are: from a on, n of them, until b. *)
Lasts(trs, i, a, b, n) ==
    /\ a = trs[i].open /\ b = ClosesAt(trs, i) /\ n = b - a
    /\ n \in Nat /\ a \in 0 .. Minutes /\ b \in 0 .. Minutes /\ a + n = b
    /\ b <= trs[i].close /\ trs[i].close \in Nat

(* The minutes of a trade are minutes of the run, and it is open in them.  *)
LEMMA MinutesShared ==
    ASSUME NEW trs \in Seq(Trades), NEW i \in DOMAIN trs,
           NEW a, NEW b, NEW n, Lasts(trs, i, a, b, n), NEW k \in 1 .. n
    PROVE  /\ a + k \in 1 .. Minutes /\ Shares(trs)[a + k] = Share(trs, a + k - 1)
           /\ Share(trs, a + k - 1) \in Int
<1>1. /\ Minutes \in Nat /\ n \in Nat /\ a \in 0 .. Minutes /\ b \in 0 .. Minutes /\ a + n = b
      /\ b <= trs[i].close /\ trs[i].close \in Nat /\ a = trs[i].open
    BY ProtocolConstants DEF Lasts
<1>2. a + k \in 1 .. Minutes /\ a <= a + k - 1 /\ a + k - 1 < trs[i].close
    BY <1>1
<1>3. PICK t \in 1 .. Minutes : t = a + k /\ t - 1 = a + k - 1
  <2>1. (a + k) - 1 = a + k - 1 /\ a + k \in 1 .. Minutes
    BY <1>1, <1>2
  <2> QED
    BY <2>1, Zenon
<1>4. i \in OpenAt(trs, t - 1)
    BY <1>1, <1>2, <1>3 DEF OpenAt
<1>5. Shares(trs)[t] = Share(trs, t - 1) /\ Share(trs, t - 1) \in Int
    BY <1>4, SharesAre
<1>6. Shares(trs)[a + k] = Shares(trs)[t]
    BY <1>3
<1>7. Share(trs, a + k - 1) = Share(trs, t - 1)
  <2> DEFINE u == t - 1
             w == a + k - 1
  <2>1. u = w
    BY <1>3
  <2> HIDE DEF u, w
  <2>2. Share(trs, u) = Share(trs, w)
    BY <2>1, Zenon
  <2> QED
    BY <2>2 DEF u, w
<1> QED
    BY <1>2, <1>5, <1>6, <1>7

(* The difference of two running sums is the sum over the minutes between. *)
LEMMA SharesBetween ==
    ASSUME NEW trs \in Seq(Trades), NEW i \in DOMAIN trs,
           NEW a, NEW b, NEW n, Lasts(trs, i, a, b, n)
    PROVE  Uniqueness(trs, Minutes)[i] = Sum([k \in 1 .. n |-> Share(trs, a + k - 1)])
<1> DEFINE v == Shares(trs)
           s == [k \in 1 .. n |-> Share(trs, a + k - 1)]
<1>1. /\ Minutes \in Nat /\ n \in Nat /\ a \in 0 .. Minutes /\ b \in 0 .. Minutes /\ a + n = b
      /\ a = trs[i].open /\ b = ClosesAt(trs, i)
    BY ProtocolConstants DEF Lasts
<1>2. Terms(v, Minutes)
    BY SharesAre
<1>3. \A k \in 1 .. n : v[a + k] = Share(trs, a + k - 1) /\ Share(trs, a + k - 1) \in Int
    BY MinutesShared
<1>4. Uniqueness(trs, Minutes)[i] = CumSum(v)[b + 1] - CumSum(v)[a + 1]
    BY <1>1 DEF Uniqueness, Shares, ClosesAt
<1> HIDE DEF v
<1>5. PICK h \in [0 .. Minutes -> Int] : CumSumOf(h, Minutes, v)
    BY <1>1, <1>2, CumSumIs DEF Terms
<1>6. Uniqueness(trs, Minutes)[i] = h[b] - h[a]
    BY <1>1, <1>4, <1>5 DEF CumSumOf
<1>7. Terms(s, n) /\ \A k \in 1 .. n : s[k] = v[a + k]
    BY <1>3 DEF Terms
<1>8. Sums(h, Minutes, v)
    BY <1>5 DEF CumSumOf
<1> HIDE DEF s
<1>9. IsPart(s, n, v, Minutes, a, h)
    BY <1>1, <1>2, <1>7, <1>8 DEF IsPart
<1>10. SumsBetween(s, n, a, h)
    BY <1>9, PartsSum, Zenon
<1>11. Sum(s) = h[b] - h[a]
    BY <1>1, <1>10 DEF SumsBetween
<1> QED
    BY <1>6, <1>11 DEF s

(* A trade's uniqueness is the sum of its shares of its minutes.           *)
LEMMA UniquenessIs ==
    ASSUME NEW trs \in Seq(Trades), NEW i \in DOMAIN trs
    PROVE  Uniqueness(trs, Minutes)[i] =
               SumOver({<<t, Share(trs, t)>> : t \in trs[i].open .. ClosesAt(trs, i) - 1})
<1>1. PICK a, b, n : Lasts(trs, i, a, b, n)
  <2>1. /\ Minutes \in Nat /\ trs[i].open \in 0 .. Minutes /\ ClosesAt(trs, i) \in 0 .. Minutes
        /\ trs[i].open <= ClosesAt(trs, i)
        /\ ClosesAt(trs, i) <= trs[i].close /\ trs[i].close \in Nat
    BY TradesAre
  <2>2. Lasts(trs, i, trs[i].open, ClosesAt(trs, i), ClosesAt(trs, i) - trs[i].open)
    BY <2>1 DEF Lasts
  <2> QED
    BY <2>2, Zenon
<1> DEFINE e == [k \in 1 .. n |-> <<a + k - 1, Share(trs, a + k - 1)>>]
           s == [k \in 1 .. n |-> Share(trs, a + k - 1)]
           R == {<<t, Share(trs, t)>> : t \in a .. b - 1}
<1>2. /\ n \in Nat /\ a \in 0 .. Minutes /\ b \in 0 .. Minutes /\ a + n = b /\ Minutes \in Nat
      /\ a = trs[i].open /\ b = ClosesAt(trs, i)
    BY <1>1, ProtocolConstants DEF Lasts
<1>3. Uniqueness(trs, Minutes)[i] = Sum(s)
    BY <1>1, SharesBetween
<1>4. \A k \in 1 .. n : Share(trs, a + k - 1) \in Int
    BY <1>1, MinutesShared
<1>5. Terms(s, n) /\ \A k \in 1 .. n : e[k][2] \in Int /\ s[k] = e[k][2]
    BY <1>4 DEF Terms
<1>6. \A k \in 1 .. n : e[k] = <<a + k - 1, Share(trs, a + k - 1)>> /\ e[k][1] = a + k - 1
    OBVIOUS
<1>7. \A k, l \in 1 .. n : a + k - 1 = a + l - 1 => k = l
    BY <1>2
<1> HIDE DEF e, s
<1>8. \A k, l \in 1 .. n : e[k] = e[l] => k = l
    BY <1>6, <1>7
<1>9. R = {e[k] : k \in 1 .. n}
  <2>1. \A k \in 1 .. n : a + k - 1 \in a .. b - 1
    BY <1>2
  <2>2. \A t \in a .. b - 1 : t - a + 1 \in 1 .. n /\ a + (t - a + 1) - 1 = t
    BY <1>2
  <2>3. ASSUME NEW k \in 1 .. n PROVE e[k] \in R
    BY <1>6, <2>1
  <2>4. ASSUME NEW x \in R PROVE \E k \in 1 .. n : x = e[k]
    <3>1. PICK t \in a .. b - 1 : x = <<t, Share(trs, t)>>
        OBVIOUS
    <3> DEFINE k == t - a + 1
    <3>2. k \in 1 .. n /\ a + k - 1 = t
        BY <2>2
    <3> HIDE DEF k
    <3>3. x = e[k]
        BY <1>6, <3>1, <3>2
    <3> QED
        BY <3>2, <3>3
  <2> HIDE DEF R
  <2> QED
    BY <2>3, <2>4
<1> HIDE DEF R
<1>10. Lists(e, n, s, R)
    BY <1>2, <1>5, <1>8, <1>9 DEF Lists
<1>11. SumOver(R) = Sum(s)
    BY <1>10, SumOverIs
<1> QED
    BY <1>2, <1>3, <1>11 DEF R

(* The scores of trades and pauses, by running maxima, sums and encodings, *)
(* are what they stand for (trading.py max_drawdown_log, bootstrap.py      *)
(* average_uniqueness, metrics/__init__.py _pause_spans).                  *)
THEOREM TradeScoresInvariance == ProtocolSpec => []TradeScores
<1>1. ASSUME ProtocolInv PROVE TradeScores
  <2> DEFINE pnl == Map(trades, LAMBDA t : t.pnl)
             eq == Equity(pnl)
             spans == PauseSpans(paused)
  <2>1. trades \in Seq(Trades) /\ paused \in Seq(BOOLEAN)
    BY <1>1 DEF ProtocolInv
  <2>2. trades # <<>> => MaxDrawdown(pnl) = Max(Falls(eq))
    <3>1. /\ Len(trades) \in Nat /\ DOMAIN trades = 1 .. Len(trades)
          /\ \A i \in DOMAIN trades : trades[i].pnl \in Int
        BY <2>1, TradesAre
    <3>2. DOMAIN pnl = 1 .. Len(trades) /\ \A i \in 1 .. Len(trades) : pnl[i] \in Int
        BY <3>1 DEF Map
    <3>3. trades # <<>> => Len(trades) # 0
        BY <2>1
    <3> HIDE DEF pnl
    <3> QED
        BY <3>1, <3>2, <3>3, DrawdownIs
  <2>3. \A i \in DOMAIN trades :
            Uniqueness(trades, Minutes)[i] =
                SumOver({<<t, Share(trades, t)>> :
                            t \in trades[i].open .. ClosesAt(trades, i) - 1})
    BY <2>1, UniquenessIs
  <2>4. Cuts(spans, Len(paused), paused)
    BY <2>1, PauseSpansAre
  <2>5. /\ DOMAIN paused = 1 .. Len(paused) /\ spans \in Seq(Span)
        /\ DOMAIN spans = 1 .. Len(spans)
    BY <2>1, <2>4 DEF Cuts
  <2>6. \A i \in DOMAIN paused :
            paused[i] <=> \E x \in ToSet(spans) : x[1] <= i /\ i < x[2]
    <3>1. \A i \in 1 .. Len(paused) :
              paused[i] <=> \E j \in 1 .. Len(spans) : Covers(spans[j], i)
        BY <2>4 DEF Cuts
    <3> HIDE DEF spans
    <3> QED
        BY <2>5, <3>1, Zenon DEF ToSet, Covers
  <2>7. \A i \in 1 .. Len(spans) - 1 : spans[i][2] < spans[i + 1][1]
    BY <2>4 DEF Cuts
  <2> QED
    BY <2>2, <2>3, <2>6, <2>7 DEF TradeScores, Falls, Share, OpenAt, ClosesAt
<1> QED
  BY <1>1, ProtocolInvariance, PTL

-----------------------------------------------------------------------------
(* Sizes of sets.                                                          *)

(* As many as there are of what they are paired with, one to one. *)
LEMMA AsMany ==
    ASSUME NEW A, NEW B, IsFiniteSet(A), NEW g \in [A -> B],
           \A x, y \in A : g[x] = g[y] => x = y,
           \A z \in B : \E x \in A : g[x] = z
    PROVE  IsFiniteSet(B) /\ Cardinality(B) = Cardinality(A)
<1>1. g \in Surjection(A, B)
    BY DEF Surjection
<1>2. g \in Injection(A, B)
    BY DEF Injection, IsInjective
<1> QED
    BY <1>1, <1>2, FS_Surjection

(* A set of two parts. *)
LEMMA TwoParts ==
    ASSUME NEW A, NEW B, NEW C, IsFiniteSet(C), C = A \cup B, A \cap B = {}
    PROVE  /\ IsFiniteSet(A) /\ IsFiniteSet(B)
           /\ Cardinality(A) \in Nat /\ Cardinality(B) \in Nat
           /\ Cardinality(C) = Cardinality(A) + Cardinality(B)
<1>1. A \in SUBSET C /\ B \in SUBSET C
    OBVIOUS
<1>2. IsFiniteSet(A) /\ IsFiniteSet(B)
    BY <1>1, FS_Subset
<1>3. Cardinality(A) \in Nat /\ Cardinality(B) \in Nat
    BY <1>2, FS_CardinalityType
<1>4. Cardinality(A \cup B) = Cardinality(A) + Cardinality(B) - Cardinality(A \cap B)
    BY <1>2, FS_Union
<1>5. Cardinality(A \cap B) = 0
    BY FS_EmptySet
<1> QED
    BY <1>2, <1>3, <1>4, <1>5

-----------------------------------------------------------------------------
(* Ranks.                                                                  *)

Lower(x, s, n) == {j \in 1 .. n : s[j] < x}
Equal(x, s, n) == {j \in 1 .. n : s[j] = x}

(* The places with less than x, and those with x, can be counted.          *)
LEMMA LowerEqual ==
    ASSUME NEW n \in Nat, NEW s, NEW x
    PROVE  /\ Lower(x, s, n) \in SUBSET (1 .. n) /\ Equal(x, s, n) \in SUBSET (1 .. n)
           /\ IsFiniteSet(Lower(x, s, n)) /\ IsFiniteSet(Equal(x, s, n))
           /\ Cardinality(Lower(x, s, n)) \in Nat /\ Cardinality(Equal(x, s, n)) \in Nat
<1>1. Lower(x, s, n) \in SUBSET (1 .. n) /\ Equal(x, s, n) \in SUBSET (1 .. n)
    BY DEF Lower, Equal
<1> QED
    BY <1>1, PlacesAre

(* Those that are less come before, and those that tie in their order. *)
LEMMA PlaceOf ==
    ASSUME NEW n \in Nat, NEW s, Terms(s, n), NEW i \in 1 .. n
    PROVE  /\ Within(i, s) = Cardinality(Lower(s[i], s, n)) + CountTo(i, Equal(s[i], s, n))
           /\ CountTo(i, Equal(s[i], s, n)) \in 1 .. Cardinality(Equal(s[i], s, n))
<1> DEFINE C == {j \in DOMAIN s : s[j] < s[i] \/ (s[j] = s[i] /\ j <= i)}
           A == Lower(s[i], s, n)
           B == {j \in Equal(s[i], s, n) : j <= i}
<1>1. C = A \cup B
    BY DEF Terms, Lower, Equal
<1>2. A \cap B = {}
  <2>1. \A j \in 1 .. n : s[j] \in Int
    BY DEF Terms
  <2> QED
    BY <2>1 DEF Lower, Equal
<1>3. IsFiniteSet(C)
  <2>1. C \in SUBSET (1 .. n)
    BY DEF Terms
  <2> HIDE DEF C
  <2> QED
    BY <2>1, PlacesAre
<1>4. Within(i, s) = Cardinality(C)
    BY DEF Within
<1>5. CountTo(i, Equal(s[i], s, n)) = Cardinality(B)
    BY DEF CountTo
<1>6. CountTo(i, Equal(s[i], s, n)) \in 1 .. Cardinality(Equal(s[i], s, n))
  <2>1. i \in Equal(s[i], s, n)
    BY DEF Equal
  <2> QED
    BY <2>1, LowerEqual, PlacesAre
<1> HIDE DEF A, B, C
<1>7. Cardinality(C) = Cardinality(A) + Cardinality(B)
    BY <1>1, <1>2, <1>3, TwoParts
<1> QED
    BY <1>4, <1>5, <1>6, <1>7 DEF A

(* Each takes a place of its own, the less before the greater. *)
LEMMA PlacesTaken ==
    ASSUME NEW n \in Nat, NEW s, Terms(s, n)
    PROVE  /\ \A i \in 1 .. n : Within(i, s) \in 1 .. n
           /\ \A i, j \in 1 .. n : s[i] < s[j] => Within(i, s) < Within(j, s)
           /\ \A i, j \in 1 .. n : Within(i, s) = Within(j, s) => i = j
           /\ \A k \in 1 .. n : \E i \in 1 .. n : Within(i, s) = k
<1>1. ASSUME NEW i \in 1 .. n PROVE Within(i, s) \in 1 .. n
  <2> DEFINE C == {j \in DOMAIN s : s[j] < s[i] \/ (s[j] = s[i] /\ j <= i)}
  <2>1. C \in SUBSET (1 .. n) /\ Within(i, s) = Cardinality(C)
    BY DEF Terms, Within
  <2> HIDE DEF C
  <2>2. IsFiniteSet(1 .. n) /\ Cardinality(1 .. n) = n
    BY FS_Interval
  <2>3. Cardinality(C) <= n
    BY <2>1, <2>2, FS_Subset
  <2>4. /\ Within(i, s) = Cardinality(Lower(s[i], s, n)) + CountTo(i, Equal(s[i], s, n))
        /\ CountTo(i, Equal(s[i], s, n)) \in 1 .. Cardinality(Equal(s[i], s, n))
    BY PlaceOf
  <2>5. Cardinality(Lower(s[i], s, n)) \in Nat /\ Cardinality(Equal(s[i], s, n)) \in Nat
    BY LowerEqual
  <2> QED
    BY <2>1, <2>3, <2>4, <2>5
<1>2. ASSUME NEW i \in 1 .. n, NEW j \in 1 .. n, s[i] < s[j]
      PROVE  Within(i, s) < Within(j, s)
  <2> DEFINE A == Lower(s[i], s, n)
             B == Equal(s[i], s, n)
             C == Lower(s[j], s, n)
  <2>1. /\ Within(i, s) = Cardinality(A) + CountTo(i, B)
        /\ CountTo(i, B) \in 1 .. Cardinality(B)
    BY PlaceOf
  <2>2. /\ Within(j, s) = Cardinality(C) + CountTo(j, Equal(s[j], s, n))
        /\ CountTo(j, Equal(s[j], s, n)) \in 1 .. Cardinality(Equal(s[j], s, n))
    BY PlaceOf
  <2>3. IsFiniteSet(C) /\ Cardinality(C) \in Nat /\ Cardinality(Equal(s[j], s, n)) \in Nat
    BY LowerEqual
  <2>4. \A k \in 1 .. n : s[k] \in Int
    BY DEF Terms
  <2>5. A \cup B \in SUBSET C /\ A \cap B = {}
    BY <1>2, <2>4 DEF Lower, Equal
  <2> HIDE DEF A, B, C
  <2>6. IsFiniteSet(A \cup B) /\ Cardinality(A \cup B) <= Cardinality(C)
    BY <2>3, <2>5, FS_Subset
  <2>7. /\ Cardinality(A) \in Nat /\ Cardinality(B) \in Nat
        /\ Cardinality(A \cup B) = Cardinality(A) + Cardinality(B)
    BY <2>5, <2>6, TwoParts
  <2> QED
    BY <2>1, <2>2, <2>3, <2>6, <2>7
<1>3. ASSUME NEW i \in 1 .. n, NEW j \in 1 .. n, Within(i, s) = Within(j, s)
      PROVE  i = j
  <2>1. s[i] \in Int /\ s[j] \in Int /\ Within(i, s) \in Int /\ Within(j, s) \in Int
    BY <1>1 DEF Terms
  <2>2. ~(s[i] < s[j]) /\ ~(s[j] < s[i])
    BY <1>2, <1>3, <2>1
  <2>3. s[i] = s[j]
    BY <2>1, <2>2
  <2> DEFINE B == Equal(s[i], s, n)
             m == Cardinality(Lower(s[i], s, n))
  <2>4. i \in B /\ j \in B /\ B \in SUBSET (1 .. n) /\ m \in Nat
    BY <2>3, LowerEqual DEF Equal
  <2>5. Within(i, s) = m + CountTo(i, B)
    BY PlaceOf
  <2>6. Within(j, s) = m + CountTo(j, B)
    BY <2>3, PlaceOf
  <2> HIDE DEF B, m
  <2>7. /\ CountTo(i, B) \in 1 .. Cardinality(B) /\ CountTo(j, B) \in 1 .. Cardinality(B)
        /\ i < j => CountTo(i, B) < CountTo(j, B)
        /\ j < i => CountTo(j, B) < CountTo(i, B)
    BY <2>4, PlacesAre
  <2> DEFINE c == CountTo(i, B)
             d == CountTo(j, B)
  <2>8. m + c = m + d
    BY <1>3, <2>5, <2>6
  <2>9. c \in Int /\ d \in Int /\ (i < j => c < d) /\ (j < i => d < c)
    BY <2>7
  <2>10. i \in Int /\ j \in Int
    OBVIOUS
  <2> HIDE DEF c, d
  <2> QED
    BY <2>4, <2>8, <2>9, <2>10
<1> DEFINE r == [i \in 1 .. n |-> Within(i, s)]
<1>4. r \in [1 .. n -> 1 .. n]
    BY <1>1
<1>5. \A i \in 1 .. n : r[i] = Within(i, s)
    OBVIOUS
<1> HIDE DEF r
<1>6. r \in Injection(1 .. n, 1 .. n)
  <2>1. \A i, j \in 1 .. n : r[i] = r[j] => i = j
    BY <1>3, <1>5
  <2> QED
    BY <1>4, <2>1 DEF Injection, IsInjective
<1>7. IsFiniteSet(1 .. n)
    BY FS_Interval
<1>8. r \in Surjection(1 .. n, 1 .. n)
    BY <1>6, <1>7, FS_Injection
<1>9. \A k \in 1 .. n : \E i \in 1 .. n : Within(i, s) = k
    BY <1>5, <1>8 DEF Surjection
<1> QED
    BY <1>1, <1>2, <1>3, <1>9

(* Sorted: what stands at each place, and nothing falls. *)
LEMMA AscendingIs ==
    ASSUME NEW n \in Nat, NEW s, Terms(s, n)
    PROVE  /\ Terms(Ascending(s), n)
           /\ \A i \in 1 .. n : Ascending(s)[Within(i, s)] = s[i]
           /\ \A k, l \in 1 .. n : k <= l => Ascending(s)[k] <= Ascending(s)[l]
<1> DEFINE a == Ascending(s)
<1>1. /\ \A i \in 1 .. n : Within(i, s) \in 1 .. n
      /\ \A i, j \in 1 .. n : s[i] < s[j] => Within(i, s) < Within(j, s)
      /\ \A i, j \in 1 .. n : Within(i, s) = Within(j, s) => i = j
      /\ \A k \in 1 .. n : \E i \in 1 .. n : Within(i, s) = k
    BY PlacesTaken
<1>2. a = [k \in 1 .. n |-> s[CHOOSE i \in 1 .. n : Within(i, s) = k]]
    BY DEF Ascending, Terms
<1>3. \A i \in 1 .. n : s[i] \in Int
    BY DEF Terms
<1>4. \A k \in 1 .. n : \E i \in 1 .. n : Within(i, s) = k /\ a[k] = s[i]
  <2> SUFFICES ASSUME NEW k \in 1 .. n
               PROVE  \E i \in 1 .. n : Within(i, s) = k /\ a[k] = s[i]
    OBVIOUS
  <2> DEFINE i == CHOOSE i \in 1 .. n : Within(i, s) = k
  <2>1. i \in 1 .. n /\ Within(i, s) = k
    BY <1>1
  <2>2. a[k] = s[i]
    BY <1>2
  <2> HIDE DEF a, i
  <2> QED
    BY <2>1, <2>2
<1>5. DOMAIN a = 1 .. n
    BY <1>2
<1> HIDE DEF a
<1>6. \A k \in 1 .. n : a[k] \in Int
    BY <1>3, <1>4
<1>7. ASSUME NEW i \in 1 .. n PROVE a[Within(i, s)] = s[i]
    BY <1>1, <1>4
<1>8. ASSUME NEW k \in 1 .. n, NEW l \in 1 .. n, k <= l PROVE a[k] <= a[l]
  <2>1. PICK i \in 1 .. n : Within(i, s) = k /\ a[k] = s[i]
    BY <1>4
  <2>2. PICK j \in 1 .. n : Within(j, s) = l /\ a[l] = s[j]
    BY <1>4
  <2>3. s[j] < s[i] => l < k
    BY <1>1, <2>1, <2>2
  <2> QED
    BY <1>3, <1>8, <2>1, <2>2, <2>3
<1> QED
    BY <1>5, <1>6, <1>7, <1>8 DEF a, Terms

(* The places of a value are those between the less and the greater, and   *)
(* the mean of the first and the last of them its rank.                    *)
LEMMA MidRankIs ==
    ASSUME NEW n \in Nat, NEW s, Terms(s, n), NEW i \in 1 .. n
    PROVE  TwiceMidRank(s[i], s) =
               2 * Cardinality(Lower(s[i], s, n)) + Cardinality(Equal(s[i], s, n)) + 1
<1> DEFINE x == s[i]
           a == Ascending(s)
           I == Equal(x, s, n)
           L == Cardinality(Lower(x, s, n))
           E == Cardinality(I)
           places == {k \in DOMAIN a : a[k] = x}
<1>1. L \in Nat /\ E \in Nat /\ I \in SUBSET (1 .. n) /\ i \in I
    BY LowerEqual DEF Equal
<1>2. /\ \A j \in 1 .. n : Within(j, s) \in 1 .. n
      /\ \A k \in 1 .. n : \E j \in 1 .. n : Within(j, s) = k
    BY PlacesTaken
<1>3. DOMAIN a = 1 .. n /\ \A j \in 1 .. n : a[Within(j, s)] = s[j]
    BY AscendingIs DEF Terms
<1>4. \A j \in I : j \in 1 .. n /\ Within(j, s) = L + CountTo(j, I) /\ s[j] = x
  <2>1. \A j \in 1 .. n : s[j] = x => Within(j, s) = L + CountTo(j, I)
    BY PlaceOf
  <2> QED
    BY <2>1 DEF Equal
<1>5. /\ \A j \in I : CountTo(j, I) \in 1 .. E
      /\ \A k \in 1 .. E : \E j \in I : CountTo(j, I) = k
    BY <1>1, PlacesAre
<1>6. \A j \in 1 .. n : s[j] = x => j \in I
    BY DEF Equal
<1> HIDE DEF x, a, I, L, E
<1>7. places = L + 1 .. L + E
  <2>1. ASSUME NEW k \in places PROVE k \in L + 1 .. L + E
    <3>1. PICK j \in 1 .. n : Within(j, s) = k
        BY <1>2, <1>3
    <3>2. j \in I
        BY <1>3, <1>6, <3>1
    <3>3. k = L + CountTo(j, I) /\ CountTo(j, I) \in 1 .. E
        BY <1>4, <1>5, <3>1, <3>2
    <3> QED
        BY <1>1, <3>3
  <2>2. ASSUME NEW k \in L + 1 .. L + E PROVE k \in places
    <3>1. k - L \in 1 .. E
        BY <1>1
    <3>2. PICK j \in I : CountTo(j, I) = k - L
        BY <1>5, <3>1
    <3>3. Within(j, s) = k /\ j \in 1 .. n /\ s[j] = x
        BY <1>1, <1>4, <3>2
    <3> QED
        BY <1>2, <1>3, <3>3
  <2> HIDE DEF places
  <2> QED
    BY <2>1, <2>2
<1>8. E >= 1
    BY <1>1, <1>5
<1>9. /\ Min(places) \in places /\ Max(places) \in places
      /\ \A k \in places : Min(places) <= k /\ k <= Max(places)
  <2>1. L + 1 \in Int /\ L + E \in Int
    BY <1>1
  <2>2. IsFiniteSet(L + 1 .. L + E)
    BY <2>1, FS_Interval
  <2> HIDE DEF places
  <2>3. places \in SUBSET Int
    BY <1>7
  <2>4. IsFiniteSet(places)
    BY <1>7, <2>2
  <2>5. L + 1 \in places
    BY <1>1, <1>7, <1>8
  <2>6. places # {}
    BY <2>5
  <2> QED
    BY <2>3, <2>4, <2>6, IntExtremes
<1>10. TwiceMidRank(x, s) = Min(places) + Max(places)
    BY DEF TwiceMidRank, a
<1> HIDE DEF places
<1>11. L + 1 \in places /\ L + E \in places
    BY <1>1, <1>7, <1>8
<1>12. Min(places) = L + 1 /\ Max(places) = L + E
  <2> DEFINE lo == Min(places)
             hi == Max(places)
  <2>1. lo \in L + 1 .. L + E /\ hi \in L + 1 .. L + E
    BY <1>7, <1>9
  <2>2. lo <= L + 1 /\ L + E <= hi
    BY <1>9, <1>11
  <2> HIDE DEF lo, hi
  <2>3. lo = L + 1 /\ hi = L + E
    BY <1>1, <2>1, <2>2
  <2> QED
    BY <2>3 DEF lo, hi
<1>13. TwiceMidRank(x, s) = 2 * L + E + 1
    BY <1>1, <1>10, <1>12
<1> QED
    BY <1>13 DEF x, L, E, I

-----------------------------------------------------------------------------
(* Counting pairs, by rows and by columns.                                 *)

Rows(R, m, n) == [i \in 1 .. m |-> Cardinality({j \in 1 .. n : <<i, j>> \in R})]
Swapped(R) == {<<x[2], x[1]>> : x \in R}

(* Pairs are as many as their rows have together.                          *)
LEMMA RowsCount ==
    ASSUME NEW m \in Nat, NEW n \in Nat, NEW R \in SUBSET ((1 .. m) \X (1 .. n))
    PROVE  /\ IsFiniteSet(R) /\ Cardinality(R) \in Nat
           /\ Terms(Rows(R, m, n), m) /\ Sum(Rows(R, m, n)) = Cardinality(R)
           /\ \A i \in 1 .. m : Rows(R, m, n)[i] \in Nat
<1> DEFINE s == Rows(R, m, n)
           row(i) == {j \in 1 .. n : <<i, j>> \in R}
           upTo(k) == {x \in R : x[1] <= k}
<1>1. IsFiniteSet(R) /\ Cardinality(R) \in Nat
  <2>1. IsFiniteSet(1 .. m) /\ IsFiniteSet(1 .. n)
    BY FS_Interval
  <2>2. IsFiniteSet((1 .. m) \X (1 .. n))
    BY <2>1, FS_Product
  <2> QED
    BY <2>2, FS_Subset, FS_CardinalityType
<1>2. \A i : IsFiniteSet(row(i)) /\ Cardinality(row(i)) \in Nat
  <2>1. \A i : row(i) \in SUBSET (1 .. n)
    OBVIOUS
  <2> HIDE DEF row
  <2> QED
    BY <2>1, PlacesAre
<1>3. DOMAIN s = 1 .. m /\ \A i \in 1 .. m : s[i] = Cardinality(row(i))
    BY DEF Rows
<1> HIDE DEF s
<1>4. Terms(s, m) /\ \A i \in 1 .. m : s[i] \in Nat
  <2> HIDE DEF row
  <2>1. \A i \in 1 .. m : s[i] \in Nat
    BY <1>2, <1>3
  <2> QED
    BY <1>3, <2>1 DEF Terms
<1>5. PICK h \in [0 .. m -> Int] : Sums(h, m, s) /\ h[m] = Sum(s)
    BY <1>4, SumIsRun
<1>6. \A k : IsFiniteSet(upTo(k)) /\ Cardinality(upTo(k)) \in Nat
  <2>1. \A k : upTo(k) \in SUBSET R
    OBVIOUS
  <2> HIDE DEF upTo
  <2> QED
    BY <1>1, <2>1, FS_Subset, FS_CardinalityType
<1>7. \A x \in R : x[1] \in 1 .. m /\ x[2] \in 1 .. n /\ x = <<x[1], x[2]>>
    OBVIOUS
<1> DEFINE G == {k \in 0 .. m : h[k] = Cardinality(upTo(k))}
<1>8. 0 \in G
  <2>1. \A x \in R : ~(x[1] <= 0)
    BY <1>7
  <2>2. upTo(0) = {}
    BY <2>1
  <2> HIDE DEF upTo
  <2>3. h[0] = 0 /\ Cardinality(upTo(0)) = 0
    BY <1>5, <2>2, FS_EmptySet DEF Sums
  <2>4. 0 \in 0 .. m
    OBVIOUS
  <2> QED
    BY <2>3, <2>4
<1>9. ASSUME NEW k \in 1 .. m, k - 1 \in G PROVE k \in G
  <2> DEFINE at == {x \in R : x[1] = k}
             g == [j \in row(k) |-> <<k, j>>]
  <2>1. h[k - 1] = Cardinality(upTo(k - 1)) /\ h[k] = h[k - 1] + s[k]
    BY <1>5, <1>9 DEF Sums
  <2>2. upTo(k) = upTo(k - 1) \cup at /\ upTo(k - 1) \cap at = {}
    <3>1. \A x \in R : x[1] \in Int
        BY <1>7
    <3>2. \A x \in R : (x[1] <= k <=> x[1] <= k - 1 \/ x[1] = k) /\ ~(x[1] <= k - 1 /\ x[1] = k)
        BY <3>1
    <3> QED
        BY <3>2
  <2>3. Cardinality(at) = Cardinality(row(k))
    <3>1. g \in [row(k) -> at]
        OBVIOUS
    <3>2. \A i, j \in row(k) : g[i] = g[j] => i = j
      <4>1. \A j \in row(k) : g[j][2] = j
        OBVIOUS
      <4> HIDE DEF g, row
      <4> QED
        BY <4>1, Zenon
    <3>3. \A x \in at : \E j \in row(k) : g[j] = x
      <4>1. \A x \in at : x[2] \in row(k) /\ <<k, x[2]>> = x
        BY <1>7
      <4> QED
        BY <4>1
    <3> HIDE DEF g, at, row
    <3> QED
        BY <1>2, <3>1, <3>2, <3>3, AsMany
  <2> HIDE DEF upTo, at, row
  <2>4. Cardinality(upTo(k)) = Cardinality(upTo(k - 1)) + Cardinality(at)
    BY <1>6, <2>2, TwoParts
  <2>5. h[k] = Cardinality(upTo(k)) /\ k \in 0 .. m
    BY <1>3, <2>1, <2>3, <2>4
  <2> QED
    BY <2>5
<1> HIDE DEF G
<1>10. \A k \in 1 .. m : k - 1 \in G => k \in G
    BY <1>9
<1>11. \A k \in 0 .. m : k \in G
    BY <1>8, <1>10, Upwards
<1>12. h[m] = Cardinality(upTo(m))
    BY <1>11 DEF G
<1>13. upTo(m) = R
    BY <1>7
<1> HIDE DEF upTo
<1> QED
    BY <1>1, <1>4, <1>5, <1>12, <1>13 DEF s

(* Pairs are as many by their columns as by their rows.                    *)
LEMMA SwapCounts ==
    ASSUME NEW m \in Nat, NEW n \in Nat, NEW R \in SUBSET ((1 .. m) \X (1 .. n))
    PROVE  /\ Swapped(R) \in SUBSET ((1 .. n) \X (1 .. m))
           /\ Cardinality(Swapped(R)) = Cardinality(R)
           /\ Sum(Rows(Swapped(R), n, m)) = Cardinality(R)
           /\ \A i \in 1 .. m, j \in 1 .. n : <<j, i>> \in Swapped(R) <=> <<i, j>> \in R
<1> DEFINE g == [x \in R |-> <<x[2], x[1]>>]
<1>1. \A x \in R : x[1] \in 1 .. m /\ x[2] \in 1 .. n /\ x = <<x[1], x[2]>>
    OBVIOUS
<1>2. Swapped(R) \in SUBSET ((1 .. n) \X (1 .. m))
    BY <1>1 DEF Swapped
<1>3. Cardinality(Swapped(R)) = Cardinality(R)
  <2>1. g \in [R -> Swapped(R)]
    BY DEF Swapped
  <2>2. \A x, y \in R : g[x] = g[y] => x = y
    <3>1. \A x \in R : g[x][1] = x[2] /\ g[x][2] = x[1]
        OBVIOUS
    <3> HIDE DEF g
    <3>2. ASSUME NEW x \in R, NEW y \in R, g[x] = g[y] PROVE x = y
      <4>1. x[1] = y[1] /\ x[2] = y[2]
        BY <3>1, <3>2
      <4>2. x = <<x[1], x[2]>> /\ y = <<y[1], y[2]>>
        BY <1>1
      <4> QED
        BY <4>1, <4>2, Zenon
    <3> QED
        BY <3>2
  <2>3. \A z \in Swapped(R) : \E x \in R : g[x] = z
    BY DEF Swapped
  <2>4. IsFiniteSet(R)
    BY RowsCount
  <2> HIDE DEF g
  <2> QED
    BY <2>1, <2>2, <2>3, <2>4, AsMany
<1>4. Sum(Rows(Swapped(R), n, m)) = Cardinality(Swapped(R))
    BY <1>2, RowsCount
<1>5. ASSUME NEW i \in 1 .. m, NEW j \in 1 .. n
      PROVE  <<j, i>> \in Swapped(R) <=> <<i, j>> \in R
  <2>1. <<i, j>> \in R => <<j, i>> \in Swapped(R)
    <3>1. <<i, j>>[1] = i /\ <<i, j>>[2] = j
        OBVIOUS
    <3> QED
        BY <3>1 DEF Swapped
  <2>2. ASSUME <<j, i>> \in Swapped(R) PROVE <<i, j>> \in R
    <3>1. PICK x \in R : <<j, i>> = <<x[2], x[1]>>
        BY <2>2 DEF Swapped
    <3>2. j = x[2] /\ i = x[1]
        BY <3>1
    <3> QED
        BY <1>1, <3>2
  <2> QED
    BY <2>1, <2>2
<1> QED
    BY <1>2, <1>3, <1>4, <1>5

(* Sums of sums, and of multiples. *)
Added(s, t, n) == [i \in 1 .. n |-> s[i] + t[i]]

(* Two sequences added up.                                                 *)
LEMMA AddedIs ==
    ASSUME NEW n \in Nat, NEW s, NEW t, Terms(s, n), Terms(t, n)
    PROVE  /\ Terms(Added(s, t, n), n) /\ Sum(Added(s, t, n)) = Sum(s) + Sum(t)
           /\ Sum(s) \in Int /\ Sum(t) \in Int
           /\ \A i \in 1 .. n : Added(s, t, n)[i] = s[i] + t[i] /\ s[i] \in Int /\ t[i] \in Int
<1> DEFINE u == Added(s, t, n)
<1>1. \A i \in 1 .. n : s[i] \in Int /\ t[i] \in Int
    BY DEF Terms
<1>2. Terms(u, n) /\ \A i \in 1 .. n : u[i] = s[i] + t[i]
    BY <1>1 DEF Added, Terms
<1> HIDE DEF u
<1>3. Sum(u) = Sum(s) + Sum(t)
    BY <1>2, SumAdds
<1>4. Sum(s) \in Int /\ Sum(t) \in Int
    BY SumIsRun
<1> QED
    BY <1>1, <1>2, <1>3, <1>4 DEF u

(* The sum of multiples is the multiple of the sum.                        *)
LEMMA SumScales ==
    ASSUME NEW n \in Nat, NEW s, NEW t, NEW c \in Int, Terms(s, n), Terms(t, n),
           \A i \in 1 .. n : t[i] = c * s[i]
    PROVE  Sum(t) = c * Sum(s)
<1>1. PICK f \in [0 .. n -> Int] : Sums(f, n, s) /\ f[n] = Sum(s)
    BY SumIsRun
<1>2. PICK g \in [0 .. n -> Int] : Sums(g, n, t) /\ g[n] = Sum(t)
    BY SumIsRun
<1> DEFINE G == {k \in 0 .. n : g[k] = c * f[k]}
<1>3. 0 \in G
    BY <1>1, <1>2 DEF Sums
<1>4. ASSUME NEW k \in 1 .. n, k - 1 \in G PROVE k \in G
  <2>1. k - 1 \in 0 .. n /\ k \in 0 .. n /\ g[k - 1] = c * f[k - 1]
    BY <1>4
  <2>2. f[k] = f[k - 1] + s[k] /\ g[k] = g[k - 1] + t[k]
    BY <1>1, <1>2 DEF Sums
  <2>3. s[k] \in Int /\ t[k] = c * s[k] /\ f[k - 1] \in Int
    BY <2>1 DEF Terms
  <2>4. \A x, y \in Int : c * (x + y) = c * x + c * y
    OBVIOUS
  <2>5. c * (f[k - 1] + s[k]) = c * f[k - 1] + c * s[k]
    BY <2>3, <2>4
  <2>6. g[k] = c * f[k]
    BY <2>1, <2>2, <2>3, <2>5
  <2> QED
    BY <2>1, <2>6
<1> HIDE DEF G
<1>5. \A k \in 1 .. n : k - 1 \in G => k \in G
    BY <1>4
<1>6. \A k \in 0 .. n : k \in G
    BY <1>3, <1>5, Upwards
<1>7. n \in 0 .. n
    OBVIOUS
<1> QED
    BY <1>1, <1>2, <1>6, <1>7 DEF G

-----------------------------------------------------------------------------
(* What is under, level with and over one of the values, among some.       *)

Under(s, i, Q) == {j \in Q : s[j] < s[i]}
Level(s, i, Q) == {j \in Q : s[j] = s[i]}
Over(s, i, Q) == {j \in Q : s[i] < s[j]}

(* Each value is under, level with or over the one at i.                   *)
LEMMA UnderLevelOver ==
    ASSUME NEW n \in Nat, NEW s, Terms(s, n), NEW i \in 1 .. n, NEW Q \in SUBSET (1 .. n)
    PROVE  /\ Cardinality(Under(s, i, Q)) \in Nat /\ Cardinality(Level(s, i, Q)) \in Nat
           /\ Cardinality(Over(s, i, Q)) \in Nat /\ Cardinality(Q) \in Nat
           /\ Cardinality(Q) = Cardinality(Under(s, i, Q)) + Cardinality(Level(s, i, Q))
                               + Cardinality(Over(s, i, Q))
<1> DEFINE A == Under(s, i, Q)
           B == Level(s, i, Q)
           C == Over(s, i, Q)
<1>1. \A j \in Q : s[j] \in Int /\ s[i] \in Int
    BY DEF Terms
<1>2. Q = (A \cup B) \cup C /\ (A \cup B) \cap C = {} /\ A \cap B = {}
  <2>1. \A j \in Q : /\ j \in A <=> s[j] < s[i]
                     /\ j \in B <=> s[j] = s[i]
                     /\ j \in C <=> s[i] < s[j]
    BY DEF Under, Level, Over
  <2>2. A \in SUBSET Q /\ B \in SUBSET Q /\ C \in SUBSET Q
    BY DEF Under, Level, Over
  <2> HIDE DEF A, B, C
  <2>3. ASSUME NEW j \in Q
        PROVE  /\ j \in A \/ j \in B \/ j \in C
               /\ ~(j \in A /\ j \in B) /\ ~(j \in A /\ j \in C) /\ ~(j \in B /\ j \in C)
    BY <1>1, <2>1
  <2> QED
    BY <2>2, <2>3
<1>3. IsFiniteSet(Q)
    BY PlacesAre
<1> HIDE DEF A, B, C
<1> DEFINE D == A \cup B
<1>4. Q = D \cup C /\ D \cap C = {}
    BY <1>2
<1> HIDE DEF D
<1>5. /\ IsFiniteSet(D) /\ Cardinality(D) \in Nat /\ Cardinality(C) \in Nat
      /\ Cardinality(Q) = Cardinality(D) + Cardinality(C)
    BY <1>3, <1>4, TwoParts
<1>6. /\ Cardinality(A) \in Nat /\ Cardinality(B) \in Nat
      /\ Cardinality(D) = Cardinality(A) + Cardinality(B)
    BY <1>2, <1>5, TwoParts DEF D
<1> QED
    BY <1>5, <1>6 DEF A, B, C

(* Two classes: what is lower or equal is so in one of them. *)
LEMMA TwoClasses ==
    ASSUME NEW n \in Nat, NEW s, Terms(s, n), NEW i \in 1 .. n,
           NEW P \in SUBSET (1 .. n), NEW N \in SUBSET (1 .. n),
           P \cup N = 1 .. n, P \cap N = {}
    PROVE  /\ Cardinality(Lower(s[i], s, n)) =
                  Cardinality(Under(s, i, P)) + Cardinality(Under(s, i, N))
           /\ Cardinality(Equal(s[i], s, n)) =
                  Cardinality(Level(s, i, P)) + Cardinality(Level(s, i, N))
<1>1. Lower(s[i], s, n) = Under(s, i, P) \cup Under(s, i, N)
    BY DEF Lower, Under
<1>2. Under(s, i, P) \cap Under(s, i, N) = {}
    BY DEF Under
<1>3. Equal(s[i], s, n) = Level(s, i, P) \cup Level(s, i, N)
    BY DEF Equal, Level
<1>4. Level(s, i, P) \cap Level(s, i, N) = {}
    BY DEF Level
<1>5. IsFiniteSet(Lower(s[i], s, n)) /\ IsFiniteSet(Equal(s[i], s, n))
    BY LowerEqual
<1>6. Cardinality(Lower(s[i], s, n)) = Cardinality(Under(s, i, P)) + Cardinality(Under(s, i, N))
    BY <1>1, <1>2, <1>5, TwoParts
<1>7. Cardinality(Equal(s[i], s, n)) = Cardinality(Level(s, i, P)) + Cardinality(Level(s, i, N))
    BY <1>3, <1>4, <1>5, TwoParts
<1> QED
    BY <1>6, <1>7

(* The pairs of two classes that are ordered, and those that tie. *)
Ordered(s, P, Q) == {x \in P \X Q : s[x[1]] > s[x[2]]}
Tied(s, P, Q) == {x \in P \X Q : s[x[1]] = s[x[2]]}

(* What the rows of the ordered and of the tied pairs count.               *)
LEMMA RowsAre ==
    ASSUME NEW n \in Nat, NEW s, Terms(s, n), NEW i \in 1 .. n,
           NEW P \in SUBSET (1 .. n), NEW Q \in SUBSET (1 .. n)
    PROVE  /\ Rows(Ordered(s, P, Q), n, n)[i] =
                  IF i \in P THEN Cardinality(Under(s, i, Q)) ELSE 0
           /\ Rows(Tied(s, P, Q), n, n)[i] =
                  IF i \in P THEN Cardinality(Level(s, i, Q)) ELSE 0
           /\ Rows(Swapped(Ordered(s, Q, P)), n, n)[i] =
                  IF i \in P THEN Cardinality(Over(s, i, Q)) ELSE 0
<1> DEFINE row(R) == {j \in 1 .. n : <<i, j>> \in R}
           O == Ordered(s, P, Q)
           T == Tied(s, P, Q)
           W == Swapped(Ordered(s, Q, P))
<1>1. \A R : Rows(R, n, n)[i] = Cardinality(row(R))
    BY DEF Rows
<1>2. Cardinality({}) = 0
    BY FS_EmptySet
<1>3. \A j : <<i, j>>[1] = i /\ <<i, j>>[2] = j
    OBVIOUS
<1>4. \A j \in 1 .. n : s[j] \in Int
    BY DEF Terms
<1>5. \A j \in 1 .. n : <<i, j>> \in O <=> i \in P /\ j \in Q /\ s[j] < s[i]
    BY <1>3, <1>4 DEF Ordered
<1>6. \A j \in 1 .. n : <<i, j>> \in T <=> i \in P /\ j \in Q /\ s[j] = s[i]
    BY <1>3, <1>4 DEF Tied
<1>7. \A j \in 1 .. n : <<i, j>> \in W <=> i \in P /\ j \in Q /\ s[i] < s[j]
  <2> DEFINE V == Ordered(s, Q, P)
  <2>1. V \in SUBSET ((1 .. n) \X (1 .. n))
    BY DEF Ordered
  <2>2. \A j \in 1 .. n : <<j, i>> \in V <=> i \in P /\ j \in Q /\ s[i] < s[j]
    <3>1. \A j : <<j, i>>[1] = j /\ <<j, i>>[2] = i
        OBVIOUS
    <3> QED
        BY <1>4, <3>1 DEF Ordered
  <2> HIDE DEF V
  <2>3. \A j \in 1 .. n : <<i, j>> \in Swapped(V) <=> <<j, i>> \in V
    BY <2>1, SwapCounts
  <2> QED
    BY <2>2, <2>3 DEF V
<1> HIDE DEF O, T, W
<1>8. /\ row(O) = IF i \in P THEN Under(s, i, Q) ELSE {}
      /\ row(T) = IF i \in P THEN Level(s, i, Q) ELSE {}
      /\ row(W) = IF i \in P THEN Over(s, i, Q) ELSE {}
  <2>1. CASE i \in P
    BY <1>5, <1>6, <1>7, <2>1 DEF Under, Level, Over
  <2>2. CASE i \notin P
    BY <1>5, <1>6, <1>7, <2>2
  <2> QED
    BY <2>1, <2>2
<1> HIDE DEF row
<1> QED
    BY <1>1, <1>2, <1>8 DEF O, T, W

(* The ranks of one class among all count the pairs that it wins against   *)
(* the other: among themselves its members win as many as they lose.       *)
LEMMA RanksAddUp ==
    ASSUME NEW n \in Nat, NEW s, Terms(s, n),
           NEW P \in SUBSET (1 .. n), NEW N \in SUBSET (1 .. n),
           P \cup N = 1 .. n, P \cap N = {},
           NEW w, Terms(w, n),
           \A i \in 1 .. n : w[i] = IF i \in P THEN TwiceMidRank(s[i], s) ELSE 0
    PROVE  /\ Cardinality(P) \in Nat
           /\ Sum(w) - Cardinality(P) * (Cardinality(P) + 1) =
                  2 * Cardinality(Ordered(s, P, N)) + Cardinality(Tied(s, P, N))
<1> DEFINE c == Cardinality(P)
           O == Ordered(s, P, N)
           T == Tied(s, P, N)
           OP == Ordered(s, P, P)
           o == Rows(O, n, n)
           t == Rows(T, n, n)
           op == Rows(OP, n, n)
           lp == Rows(Swapped(OP), n, n)
           all == At(c, P, n)
           one == At(1, P, n)
<1>1. /\ O \in SUBSET ((1 .. n) \X (1 .. n)) /\ T \in SUBSET ((1 .. n) \X (1 .. n))
      /\ OP \in SUBSET ((1 .. n) \X (1 .. n))
    BY DEF Ordered, Tied
<1>2. /\ Terms(o, n) /\ Sum(o) = Cardinality(O) /\ Cardinality(O) \in Nat
      /\ Terms(t, n) /\ Sum(t) = Cardinality(T) /\ Cardinality(T) \in Nat
      /\ Terms(op, n) /\ Sum(op) = Cardinality(OP) /\ Cardinality(OP) \in Nat
  <2> HIDE DEF O, T, OP
  <2> QED
    BY <1>1, RowsCount
<1>3. Terms(lp, n) /\ Sum(lp) = Cardinality(OP)
  <2> HIDE DEF OP
  <2>1. Swapped(OP) \in SUBSET ((1 .. n) \X (1 .. n)) /\ Sum(lp) = Cardinality(OP)
    BY <1>1, SwapCounts
  <2> QED
    BY <2>1, RowsCount
<1>4. c \in Nat
    BY PlacesAre
<1>5. /\ Terms(all, n) /\ Sum(all) = c * c /\ Terms(one, n) /\ Sum(one) = c
  <2>1. c \in Int /\ 1 \in Int
    BY <1>4
  <2> QED
    BY <1>4, <2>1, SumOfConstant
<1>6. ASSUME NEW i \in 1 .. n
      PROVE  /\ w[i] + lp[i] = o[i] + o[i] + t[i] + op[i] + all[i] + one[i]
  <2>1. /\ o[i] = IF i \in P THEN Cardinality(Under(s, i, N)) ELSE 0
        /\ t[i] = IF i \in P THEN Cardinality(Level(s, i, N)) ELSE 0
    BY RowsAre
  <2>2. /\ op[i] = IF i \in P THEN Cardinality(Under(s, i, P)) ELSE 0
        /\ lp[i] = IF i \in P THEN Cardinality(Over(s, i, P)) ELSE 0
    BY RowsAre
  <2>3. /\ all[i] = IF i \in P THEN c ELSE 0
        /\ one[i] = IF i \in P THEN 1 ELSE 0
    BY DEF At
  <2>4. /\ Cardinality(Under(s, i, P)) \in Nat /\ Cardinality(Level(s, i, P)) \in Nat
        /\ Cardinality(Over(s, i, P)) \in Nat
        /\ c = Cardinality(Under(s, i, P)) + Cardinality(Level(s, i, P))
               + Cardinality(Over(s, i, P))
    BY UnderLevelOver
  <2>5. Cardinality(Under(s, i, N)) \in Nat /\ Cardinality(Level(s, i, N)) \in Nat
    BY UnderLevelOver
  <2>6. /\ Cardinality(Lower(s[i], s, n)) =
               Cardinality(Under(s, i, P)) + Cardinality(Under(s, i, N))
        /\ Cardinality(Equal(s[i], s, n)) =
               Cardinality(Level(s, i, P)) + Cardinality(Level(s, i, N))
    BY TwoClasses
  <2>7. TwiceMidRank(s[i], s) =
            2 * Cardinality(Lower(s[i], s, n)) + Cardinality(Equal(s[i], s, n)) + 1
    BY MidRankIs
  <2> HIDE DEF c, o, t, op, lp, all, one
  <2>8. CASE i \in P
    BY <1>4, <2>1, <2>2, <2>3, <2>4, <2>5, <2>6, <2>7, <2>8
  <2>9. CASE i \notin P
    BY <2>1, <2>2, <2>3, <2>9
  <2> QED
    BY <2>8, <2>9
<1> HIDE DEF c, O, T, OP, o, t, op, lp, all, one
<1> DEFINE u1 == Added(o, o, n)
           u2 == Added(u1, t, n)
           u3 == Added(u2, op, n)
           u4 == Added(u3, all, n)
           u5 == Added(u4, one, n)
           v == Added(w, lp, n)
<1>7. Terms(u1, n) /\ Sum(u1) = Sum(o) + Sum(o) /\ \A i \in 1 .. n : u1[i] = o[i] + o[i]
    BY <1>2, AddedIs
<1> HIDE DEF u1
<1>8. Terms(u2, n) /\ Sum(u2) = Sum(u1) + Sum(t) /\ \A i \in 1 .. n : u2[i] = u1[i] + t[i]
    BY <1>2, <1>7, AddedIs
<1> HIDE DEF u2
<1>9. Terms(u3, n) /\ Sum(u3) = Sum(u2) + Sum(op) /\ \A i \in 1 .. n : u3[i] = u2[i] + op[i]
    BY <1>2, <1>8, AddedIs
<1> HIDE DEF u3
<1>10. Terms(u4, n) /\ Sum(u4) = Sum(u3) + Sum(all) /\ \A i \in 1 .. n : u4[i] = u3[i] + all[i]
    BY <1>5, <1>9, AddedIs
<1> HIDE DEF u4
<1>11. Terms(u5, n) /\ Sum(u5) = Sum(u4) + Sum(one) /\ \A i \in 1 .. n : u5[i] = u4[i] + one[i]
    BY <1>5, <1>10, AddedIs
<1> HIDE DEF u5
<1>12. Terms(v, n) /\ Sum(v) = Sum(w) + Sum(lp) /\ \A i \in 1 .. n : v[i] = w[i] + lp[i]
    BY <1>3, AddedIs
<1> HIDE DEF v
<1>13. Sum(v) = Sum(u5)
  <2>1. \A i \in 1 .. n : v[i] = u5[i]
    BY <1>6, <1>7, <1>8, <1>9, <1>10, <1>11, <1>12
  <2> QED
    BY <1>11, <1>12, <2>1, SumSame
<1>14. Sum(w) \in Int
    BY SumIsRun
<1>15. Sum(w) + Cardinality(OP) =
           2 * Cardinality(O) + Cardinality(T) + Cardinality(OP) + c * c + c
    BY <1>2, <1>3, <1>4, <1>5, <1>7, <1>8, <1>9, <1>10, <1>11, <1>12, <1>13, <1>14
<1>16. c * (c + 1) = c * c + c
    BY <1>4
<1>17. Sum(w) - c * (c + 1) = 2 * Cardinality(O) + Cardinality(T)
    BY <1>2, <1>4, <1>14, <1>15, <1>16
<1> QED
    BY <1>4, <1>17 DEF c, O, T

-----------------------------------------------------------------------------
(* The scores of a class, taken out of those of all.                       *)

Takes(c, s, I, n) ==
    /\ n \in Nat /\ I \in SUBSET (1 .. n) /\ Terms(s, n)
    /\ Terms(c, Cardinality(I)) /\ Cardinality(I) \in Nat
    /\ \A k \in 1 .. Cardinality(I) : PickAt(k, I) \in I /\ c[k] = s[PickAt(k, I)]

(* Picked from anything: the elements at the positions, in their order. *)
LEMMA PicksAre ==
    ASSUME NEW n \in Nat, NEW I \in SUBSET (1 .. n)
    PROVE  /\ Cardinality(I) \in Nat
           /\ \A k \in 1 .. Cardinality(I) : PickAt(k, I) \in I /\ CountTo(PickAt(k, I), I) = k
           /\ \A s : Picked(s, I) = [k \in 1 .. Cardinality(I) |-> s[PickAt(k, I)]]
<1>1. Cardinality(I) \in Nat /\ \A k \in 1 .. Cardinality(I) : \E i \in I : CountTo(i, I) = k
    BY PlacesAre
<1>2. \A k \in 1 .. Cardinality(I) : PickAt(k, I) \in I /\ CountTo(PickAt(k, I), I) = k
    BY <1>1 DEF PickAt
<1>3. \A s : Picked(s, I) = [k \in 1 .. Cardinality(I) |-> s[PickAt(k, I)]]
    BY DEF Picked, PickAt, CountTo
<1> QED
    BY <1>1, <1>2, <1>3

(* Each of those at the positions is taken once. *)
LEMMA PickedCount ==
    ASSUME NEW n \in Nat, NEW I \in SUBSET (1 .. n), NEW T \in SUBSET I
    PROVE  Cardinality({k \in 1 .. Cardinality(I) : PickAt(k, I) \in T}) = Cardinality(T)
<1> DEFINE m == Cardinality(I)
           K == {k \in 1 .. m : PickAt(k, I) \in T}
           g == [k \in K |-> PickAt(k, I)]
<1>1. /\ m \in Nat /\ \A i \in I : CountTo(i, I) \in 1 .. m
    BY PlacesAre
<1>2. /\ \A k \in 1 .. m : PickAt(k, I) \in I /\ CountTo(PickAt(k, I), I) = k
      /\ \A i \in I : PickAt(CountTo(i, I), I) = i
  <2> DEFINE id == [i \in I |-> i]
  <2>1. \A i \in I : id[i] \in I
    OBVIOUS
  <2> HIDE DEF id
  <2>2. \A i \in I : PickAt(CountTo(i, I), I) = i
    BY <2>1, PickedIs
  <2>3. \A k \in 1 .. m : \E i \in I : CountTo(i, I) = k
    BY PlacesAre
  <2>4. \A k \in 1 .. m : PickAt(k, I) \in I /\ CountTo(PickAt(k, I), I) = k
    BY <2>3 DEF PickAt
  <2> QED
    BY <2>2, <2>4
<1> HIDE DEF m
<1>3. IsFiniteSet(K)
  <2>1. K \in SUBSET (1 .. m)
    OBVIOUS
  <2> HIDE DEF K
  <2> QED
    BY <1>1, <2>1, PlacesAre
<1>4. \A k \in K : k \in 1 .. m /\ g[k] = PickAt(k, I) /\ g[k] \in T
    OBVIOUS
<1>5. g \in [K -> T]
    OBVIOUS
<1>6. \A i \in T : CountTo(i, I) \in K
    BY <1>1, <1>2
<1> HIDE DEF K, g
<1>7. \A k, l \in K : g[k] = g[l] => k = l
  <2> TAKE k, l \in K
  <2>1. CountTo(g[k], I) = k /\ CountTo(g[l], I) = l
    BY <1>2, <1>4
  <2> QED
    BY <2>1
<1>8. \A i \in T : \E k \in K : g[k] = i
    BY <1>2, <1>4, <1>6
<1>9. Cardinality(T) = Cardinality(K)
    BY <1>3, <1>5, <1>7, <1>8, AsMany
<1> QED
    BY <1>9 DEF K, m

LowIn(c, x) == {k \in DOMAIN c : c[k] < x}
LevelIn(c, x) == {k \in DOMAIN c : c[k] = x}
OverIn(c, x) == {k \in DOMAIN c : x < c[k]}

(* Values taken out keep how many are under, level with and over one.      *)
LEMMA TakenCounts ==
    ASSUME NEW n, NEW s, NEW I, NEW c, Takes(c, s, I, n), NEW i \in 1 .. n
    PROVE  /\ Cardinality(LowIn(c, s[i])) = Cardinality(Under(s, i, I))
           /\ Cardinality(LevelIn(c, s[i])) = Cardinality(Level(s, i, I))
           /\ Cardinality(OverIn(c, s[i])) = Cardinality(Over(s, i, I))
<1>1. /\ n \in Nat /\ I \in SUBSET (1 .. n) /\ DOMAIN c = 1 .. Cardinality(I)
      /\ \A k \in 1 .. Cardinality(I) : PickAt(k, I) \in I /\ c[k] = s[PickAt(k, I)]
    BY DEF Takes, Terms
<1> DEFINE m == Cardinality(I)
           at(T) == {k \in 1 .. m : PickAt(k, I) \in T}
<1>2. \A T \in SUBSET I : Cardinality(at(T)) = Cardinality(T)
    BY <1>1, PickedCount
<1>3. /\ Under(s, i, I) \in SUBSET I /\ Level(s, i, I) \in SUBSET I /\ Over(s, i, I) \in SUBSET I
    BY DEF Under, Level, Over
<1>4. LowIn(c, s[i]) = at(Under(s, i, I))
    BY <1>1 DEF Under, LowIn
<1>5. LevelIn(c, s[i]) = at(Level(s, i, I))
    BY <1>1 DEF Level, LevelIn
<1>6. OverIn(c, s[i]) = at(Over(s, i, I))
    BY <1>1 DEF Over, OverIn
<1> HIDE DEF at
<1> QED
    BY <1>2, <1>3, <1>4, <1>5, <1>6

(* A class without ties: the rank among all less the place in the class is *)
(* what was won against the other.                                         *)
LEMMA PlacementIs ==
    ASSUME NEW n, NEW s, NEW I, NEW c, Takes(c, s, I, n), NoTieWithin(c),
           NEW J \in SUBSET (1 .. n), I \cup J = 1 .. n, I \cap J = {},
           NEW k \in DOMAIN c
    PROVE  /\ PickAt(k, I) \in 1 .. n /\ c[k] = s[PickAt(k, I)]
           /\ TwiceMidRank(c[k], s) - 2 * Within(k, c) =
                  2 * Cardinality(Under(s, PickAt(k, I), J))
                  + Cardinality(Level(s, PickAt(k, I), J))
<1> DEFINE m == Cardinality(I)
           i == PickAt(k, I)
<1>1. /\ n \in Nat /\ I \in SUBSET (1 .. n) /\ DOMAIN c = 1 .. m /\ m \in Nat
      /\ Terms(s, n) /\ Terms(c, m) /\ i \in 1 .. n /\ c[k] = s[i] /\ k \in 1 .. m
    BY DEF Takes, Terms
<1> HIDE DEF m, i
<1>2. TwiceMidRank(s[i], s) =
          2 * Cardinality(Lower(s[i], s, n)) + Cardinality(Equal(s[i], s, n)) + 1
    BY <1>1, MidRankIs
<1>3. /\ Cardinality(Lower(s[i], s, n)) =
             Cardinality(Under(s, i, I)) + Cardinality(Under(s, i, J))
      /\ Cardinality(Equal(s[i], s, n)) =
             Cardinality(Level(s, i, I)) + Cardinality(Level(s, i, J))
    BY <1>1, TwoClasses
<1>4. /\ Within(k, c) = Cardinality(Lower(c[k], c, m)) + CountTo(k, Equal(c[k], c, m))
      /\ CountTo(k, Equal(c[k], c, m)) \in 1 .. Cardinality(Equal(c[k], c, m))
    BY <1>1, PlaceOf
<1>5. Cardinality(Lower(c[k], c, m)) = Cardinality(Under(s, i, I))
  <2>1. Lower(c[k], c, m) = LowIn(c, s[i])
    BY <1>1 DEF Lower, LowIn
  <2> QED
    BY <1>1, <2>1, TakenCounts
<1>6. Cardinality(Equal(c[k], c, m)) = Cardinality(Level(s, i, I))
  <2>1. Equal(c[k], c, m) = LevelIn(c, s[i])
    BY <1>1 DEF Equal, LevelIn
  <2> QED
    BY <1>1, <2>1, TakenCounts
<1>7. Cardinality(Equal(c[k], c, m)) = 1
  <2>1. Equal(c[k], c, m) = {k}
    BY <1>1 DEF Equal, NoTieWithin
  <2> QED
    BY <2>1, FS_Singleton
<1>8. /\ Cardinality(Under(s, i, I)) \in Nat /\ Cardinality(Under(s, i, J)) \in Nat
      /\ Cardinality(Level(s, i, J)) \in Nat
    BY <1>1, UnderLevelOver
<1>9. Within(k, c) = Cardinality(Under(s, i, I)) + 1
  <2>1. CountTo(k, Equal(c[k], c, m)) = 1
    BY <1>4, <1>7
  <2> QED
    BY <1>4, <1>5, <2>1
<1>10. TwiceMidRank(c[k], s) - 2 * Within(k, c) =
           2 * Cardinality(Under(s, i, J)) + Cardinality(Level(s, i, J))
    BY <1>1, <1>2, <1>3, <1>6, <1>7, <1>8, <1>9
<1> QED
    BY <1>1, <1>10 DEF i

-----------------------------------------------------------------------------
(* The area under the curve, and its placements.                           *)

Class(ps, y) == {i \in DOMAIN ps : ps[i].y = y}

(* The scores of a sequence of predictions.                                *)
LEMMA ScoresAre ==
    ASSUME NEW ps \in Seq(Prediction)
    PROVE  /\ Len(ps) \in Nat /\ DOMAIN ps = 1 .. Len(ps)
           /\ Terms(ScoresOf(ps), Len(ps))
           /\ \A i \in 1 .. Len(ps) :
                  /\ ps[i] \in Prediction /\ ScoresOf(ps)[i] = ps[i].p
                  /\ ps[i].p \in 0 .. Unit /\ ps[i].y \in 0 .. 1
<1>1. Len(ps) \in Nat /\ DOMAIN ps = 1 .. Len(ps) /\ \A i \in 1 .. Len(ps) : ps[i] \in Prediction
    BY SeqOfInt
<1>2. \A d \in Prediction : d.p \in 0 .. Unit /\ d.y \in 0 .. 1
    BY DEF Prediction
<1>3. \A x \in 0 .. Unit : x \in Int
    OBVIOUS
<1>4. DOMAIN ScoresOf(ps) = 1 .. Len(ps) /\ \A i \in 1 .. Len(ps) : ScoresOf(ps)[i] = ps[i].p
    BY <1>1 DEF ScoresOf, Map
<1> QED
    BY <1>1, <1>2, <1>3, <1>4 DEF Terms

(* Every prediction is in one class of two.                                *)
LEMMA ClassesAre ==
    ASSUME NEW ps \in Seq(Prediction)
    PROVE  /\ Class(ps, 0) \in SUBSET (1 .. Len(ps)) /\ Class(ps, 1) \in SUBSET (1 .. Len(ps))
           /\ Class(ps, 1) \cup Class(ps, 0) = 1 .. Len(ps)
           /\ Class(ps, 1) \cap Class(ps, 0) = {}
           /\ Class(ps, 0) = DOMAIN ps \ Class(ps, 1)
<1>1. DOMAIN ps = 1 .. Len(ps) /\ \A i \in 1 .. Len(ps) : ps[i].y = 0 \/ ps[i].y = 1
    BY ScoresAre
<1> QED
    BY <1>1 DEF Class

(* The scores of a class are those at its places, in their order.          *)
LEMMA ClassTaken ==
    ASSUME NEW ps \in Seq(Prediction), NEW y \in 0 .. 1
    PROVE  /\ Takes(OfClass(ps, y), ScoresOf(ps), Class(ps, y), Len(ps))
           /\ DOMAIN OfClass(ps, y) = 1 .. Cardinality(Class(ps, y))
           /\ Len(OfClass(ps, y)) = Cardinality(Class(ps, y))
<1> DEFINE I == Class(ps, y)
           n == Len(ps)
           s == ScoresOf(ps)
           q == Picked(ps, I)
           c == OfClass(ps, y)
<1>1. /\ n \in Nat /\ DOMAIN ps = 1 .. n /\ Terms(s, n)
      /\ \A i \in 1 .. n : s[i] = ps[i].p /\ s[i] \in Int
    BY ScoresAre DEF Terms
<1>2. I \in SUBSET (1 .. n)
    BY <1>1 DEF Class
<1>3. c = ScoresOf(q)
    BY DEF OfClass, Class
<1> HIDE DEF I, n, s, q, c
<1>4. Cardinality(I) \in Nat
    BY <1>1, <1>2, PlacesAre
<1>5. /\ DOMAIN q = 1 .. Cardinality(I)
      /\ \A k \in 1 .. Cardinality(I) : PickAt(k, I) \in I /\ q[k] = ps[PickAt(k, I)]
  <2>1. /\ \A k \in 1 .. Cardinality(I) : PickAt(k, I) \in I
        /\ Picked(ps, I) = [k \in 1 .. Cardinality(I) |-> ps[PickAt(k, I)]]
    BY <1>1, <1>2, PicksAre
  <2> QED
    BY <2>1 DEF q
<1>6. c = [k \in 1 .. Cardinality(I) |-> q[k].p]
    BY <1>3, <1>5 DEF ScoresOf, Map
<1>7. \A k \in 1 .. Cardinality(I) : PickAt(k, I) \in I /\ c[k] = s[PickAt(k, I)]
    BY <1>1, <1>2, <1>5, <1>6
<1>8. DOMAIN c = 1 .. Cardinality(I) /\ Len(c) = Cardinality(I)
    BY <1>4, <1>6
<1>9. \A k \in 1 .. Cardinality(I) : c[k] \in Int
    BY <1>1, <1>2, <1>7
<1>10. Takes(c, s, I, n)
    BY <1>1, <1>2, <1>4, <1>7, <1>8, <1>9 DEF Takes, Terms
<1> QED
    BY <1>8, <1>10 DEF I, n, s, c

(* The area, from the ranks, counts ordered pairs and half of the tied.    *)
LEMMA AreaIs ==
    ASSUME NEW ps \in Seq(Prediction)
    PROVE  TwiceU(ps) =
               2 * Cardinality(Ordered(ScoresOf(ps), Class(ps, 1), Class(ps, 0)))
               + Cardinality(Tied(ScoresOf(ps), Class(ps, 1), Class(ps, 0)))
<1> DEFINE n == Len(ps)
           s == ScoresOf(ps)
           P == Class(ps, 1)
           N == Class(ps, 0)
           c == OfClass(ps, 1)
           m == Cardinality(P)
           g == Map(c, LAMBDA x : TwiceMidRank(x, s))
           w == [i \in 1 .. n |-> IF i \in P THEN TwiceMidRank(s[i], s) ELSE 0]
<1>1. n \in Nat /\ Terms(s, n)
    BY ScoresAre
<1>2. /\ P \in SUBSET (1 .. n) /\ N \in SUBSET (1 .. n)
      /\ P \cup N = 1 .. n /\ P \cap N = {}
    BY ClassesAre
<1>3. Takes(c, s, P, n) /\ DOMAIN c = 1 .. m /\ Len(c) = m
    BY ClassTaken
<1>4. TwiceU(ps) = Sum(g) - m * (m + 1)
    BY <1>3 DEF TwiceU
<1> HIDE DEF n, s, P, N, c
<1>5. m \in Nat /\ \A k \in 1 .. m : PickAt(k, P) \in P /\ c[k] = s[PickAt(k, P)]
    BY <1>3 DEF Takes
<1>6. \A i \in 1 .. n : TwiceMidRank(s[i], s) \in Int
  <2> TAKE i \in 1 .. n
  <2>1. TwiceMidRank(s[i], s) =
            2 * Cardinality(Lower(s[i], s, n)) + Cardinality(Equal(s[i], s, n)) + 1
    BY <1>1, MidRankIs
  <2>2. Cardinality(Lower(s[i], s, n)) \in Nat /\ Cardinality(Equal(s[i], s, n)) \in Nat
    BY <1>1, LowerEqual
  <2> QED
    BY <2>1, <2>2
<1>7. /\ DOMAIN w = 1 .. n
      /\ \A i \in 1 .. n : w[i] = IF i \in P THEN TwiceMidRank(s[i], s) ELSE 0
    OBVIOUS
<1>8. DOMAIN g = 1 .. m /\ \A k \in 1 .. m : g[k] = TwiceMidRank(c[k], s)
    BY <1>3 DEF Map
<1> HIDE DEF m, g, w
<1>9. Terms(w, n)
    BY <1>6, <1>7 DEF Terms
<1>10. \A k \in 1 .. m : g[k] = w[PickAt(k, P)] /\ g[k] \in Int
  <2> TAKE k \in 1 .. m
  <2>1. PickAt(k, P) \in P /\ PickAt(k, P) \in 1 .. n /\ c[k] = s[PickAt(k, P)]
    BY <1>2, <1>5
  <2>2. w[PickAt(k, P)] = TwiceMidRank(s[PickAt(k, P)], s)
    BY <1>7, <2>1
  <2> QED
    BY <1>6, <1>8, <2>1, <2>2
<1>11. Terms(g, m)
    BY <1>8, <1>10 DEF Terms
<1>12. Sum(g) = Sum(w)
  <2>1. \A i \in (1 .. n) \ P : w[i] = 0
    BY <1>7
  <2>2. Terms(g, Cardinality(P)) /\ \A k \in 1 .. Cardinality(P) : g[k] = w[PickAt(k, P)]
    BY <1>10, <1>11 DEF m
  <2> QED
    BY <1>1, <1>2, <1>9, <2>1, <2>2, SumOfPicked
<1>13. Sum(w) - m * (m + 1) = 2 * Cardinality(Ordered(s, P, N)) + Cardinality(Tied(s, P, N))
    BY <1>1, <1>2, <1>7, <1>9, RanksAddUp DEF m
<1> QED
    BY <1>4, <1>12, <1>13 DEF s, P, N

(* The placement of a positive counts the negatives under it and level.    *)
LEMMA V10Is ==
    ASSUME NEW ps \in Seq(Prediction), NoTieWithin(OfClass(ps, 1)),
           NEW k \in DOMAIN OfClass(ps, 1)
    PROVE  V10(ps)[k] = 2 * Cardinality(LowIn(OfClass(ps, 0), OfClass(ps, 1)[k]))
                        + Cardinality(LevelIn(OfClass(ps, 0), OfClass(ps, 1)[k]))
<1> DEFINE n == Len(ps)
           s == ScoresOf(ps)
           P == Class(ps, 1)
           N == Class(ps, 0)
           c == OfClass(ps, 1)
           d == OfClass(ps, 0)
           i == PickAt(k, P)
<1>1. V10(ps)[k] = TwiceMidRank(c[k], s) - 2 * Within(k, c)
    BY DEF V10
<1>2. /\ P \in SUBSET (1 .. n) /\ N \in SUBSET (1 .. n)
      /\ P \cup N = 1 .. n /\ P \cap N = {}
    BY ClassesAre
<1>3. Takes(c, s, P, n) /\ Takes(d, s, N, n)
    BY ClassTaken
<1> HIDE DEF n, s, P, N, c, d
<1>4. NoTieWithin(c) /\ k \in DOMAIN c
    BY DEF c
<1>5. /\ i \in 1 .. n /\ c[k] = s[i]
      /\ TwiceMidRank(c[k], s) - 2 * Within(k, c) =
             2 * Cardinality(Under(s, i, N)) + Cardinality(Level(s, i, N))
    BY <1>2, <1>3, <1>4, PlacementIs
<1> HIDE DEF i
<1>6. /\ Cardinality(LowIn(d, s[i])) = Cardinality(Under(s, i, N))
      /\ Cardinality(LevelIn(d, s[i])) = Cardinality(Level(s, i, N))
    BY <1>3, <1>5, TakenCounts
<1>7. V10(ps)[k] = 2 * Cardinality(LowIn(d, c[k])) + Cardinality(LevelIn(d, c[k]))
    BY <1>1, <1>5, <1>6
<1> QED
    BY <1>7 DEF c, d

(* The placement of a negative counts the positives over it and level.     *)
LEMMA V01Is ==
    ASSUME NEW ps \in Seq(Prediction), NoTieWithin(OfClass(ps, 0)),
           NEW k \in DOMAIN OfClass(ps, 0)
    PROVE  V01(ps)[k] = 2 * Cardinality(OverIn(OfClass(ps, 1), OfClass(ps, 0)[k]))
                        + Cardinality(LevelIn(OfClass(ps, 1), OfClass(ps, 0)[k]))
<1> DEFINE n == Len(ps)
           s == ScoresOf(ps)
           P == Class(ps, 1)
           N == Class(ps, 0)
           c == OfClass(ps, 0)
           d == OfClass(ps, 1)
           i == PickAt(k, N)
<1>1. V01(ps)[k] = 2 * (n - Len(c)) - (TwiceMidRank(c[k], s) - 2 * Within(k, c))
    BY DEF V01
<1>2. /\ n \in Nat /\ P \in SUBSET (1 .. n) /\ N \in SUBSET (1 .. n)
      /\ P \cup N = 1 .. n /\ P \cap N = {}
      /\ N \cup P = 1 .. n /\ N \cap P = {} /\ Terms(s, n)
  <2>1. n \in Nat /\ Terms(s, n)
    BY ScoresAre
  <2>2. /\ P \in SUBSET (1 .. n) /\ N \in SUBSET (1 .. n)
        /\ P \cup N = 1 .. n /\ P \cap N = {}
    BY ClassesAre
  <2> QED
    BY <2>1, <2>2
<1>3. Takes(c, s, N, n) /\ Takes(d, s, P, n) /\ Len(c) = Cardinality(N)
    BY ClassTaken
<1> HIDE DEF n, s, P, N, c, d
<1>4. NoTieWithin(c) /\ k \in DOMAIN c
    BY DEF c
<1>5. /\ i \in 1 .. n /\ c[k] = s[i]
      /\ TwiceMidRank(c[k], s) - 2 * Within(k, c) =
             2 * Cardinality(Under(s, i, P)) + Cardinality(Level(s, i, P))
  <2>1. N \cup P = 1 .. n /\ N \cap P = {} /\ P \in SUBSET (1 .. n)
    BY <1>2
  <2>2. Takes(c, s, N, n)
    BY <1>3
  <2> QED
    BY <1>4, <2>1, <2>2, PlacementIs
<1> HIDE DEF i
<1>6. /\ Cardinality(OverIn(d, s[i])) = Cardinality(Over(s, i, P))
      /\ Cardinality(LevelIn(d, s[i])) = Cardinality(Level(s, i, P))
    BY <1>3, <1>5, TakenCounts
<1>7. n - Cardinality(N) = Cardinality(P) /\ Cardinality(P) \in Nat
  <2>1. IsFiniteSet(1 .. n) /\ Cardinality(1 .. n) = n
    BY <1>2, FS_Interval
  <2>2. /\ Cardinality(P) \in Nat /\ Cardinality(N) \in Nat
        /\ Cardinality(1 .. n) = Cardinality(P) + Cardinality(N)
    BY <1>2, <2>1, TwoParts
  <2> QED
    BY <1>2, <2>1, <2>2
<1>8. /\ Cardinality(Under(s, i, P)) \in Nat /\ Cardinality(Level(s, i, P)) \in Nat
      /\ Cardinality(Over(s, i, P)) \in Nat
      /\ Cardinality(P) = Cardinality(Under(s, i, P)) + Cardinality(Level(s, i, P))
                          + Cardinality(Over(s, i, P))
    BY <1>2, <1>5, UnderLevelOver
<1>9. V01(ps)[k] = 2 * Cardinality(Over(s, i, P)) + Cardinality(Level(s, i, P))
    BY <1>1, <1>3, <1>5, <1>7, <1>8
<1>10. V01(ps)[k] = 2 * Cardinality(OverIn(d, c[k])) + Cardinality(LevelIn(d, c[k]))
    BY <1>5, <1>6, <1>9
<1> QED
    BY <1>10 DEF c, d

-----------------------------------------------------------------------------
(* The bins: their edges never fall, so each prediction is in one of them. *)

(* What multiplication keeps of an order, for corners of a broken line.    *)
LEMMA Products ==
    /\ \A b \in Nat, x, y \in Int : x <= y => b * x <= b * y
    /\ \A b, r \in Nat, x, y \in Int :
           r <= b /\ x <= y => /\ b * x <= b * x + r * (y - x)
                               /\ b * x + r * (y - x) <= b * y
    /\ \A b, r, t \in Nat, x, y \in Int :
           r <= t /\ x <= y => b * x + r * (y - x) <= b * x + t * (y - x)
<1>1. \A b \in Nat, x, y \in Int : x <= y => b * x <= b * y
  <2> TAKE b \in Nat, x \in Int, y \in Int
  <2> HAVE x <= y
  <2>1. y - x \in Nat /\ b * y = b * x + b * (y - x)
    OBVIOUS
  <2>2. \A u, v \in Nat : u * v \in Nat
    OBVIOUS
  <2>3. b * (y - x) \in Nat
    BY <2>1, <2>2
  <2> QED
    BY <2>1, <2>3
<1>2. \A r, t \in Nat, d \in Nat : r <= t => r * d <= t * d /\ 0 <= r * d
  <2> TAKE r \in Nat, t \in Nat, d \in Nat
  <2> HAVE r <= t
  <2>1. d * r <= d * t
    BY <1>1
  <2>2. d * r = r * d /\ d * t = t * d
    OBVIOUS
  <2>3. \A u, v \in Nat : u * v \in Nat
    OBVIOUS
  <2> QED
    BY <2>1, <2>2, <2>3
<1>3. \A b, r \in Nat, x, y \in Int :
          r <= b /\ x <= y => /\ b * x <= b * x + r * (y - x)
                              /\ b * x + r * (y - x) <= b * y
  <2> TAKE b \in Nat, r \in Nat, x \in Int, y \in Int
  <2> HAVE r <= b /\ x <= y
  <2> DEFINE d == y - x
  <2>1. d \in Nat /\ b * y = b * x + b * d /\ b * x \in Int
    OBVIOUS
  <2>2. r * d <= b * d /\ 0 <= r * d
    BY <1>2, <2>1
  <2>3. r * d \in Int /\ b * d \in Int
    BY <2>1
  <2> HIDE DEF d
  <2>4. b * x <= b * x + r * d /\ b * x + r * d <= b * y
    BY <2>1, <2>2, <2>3
  <2> QED
    BY <2>4 DEF d
<1>4. \A b, r, t \in Nat, x, y \in Int :
          r <= t /\ x <= y => b * x + r * (y - x) <= b * x + t * (y - x)
  <2> TAKE b \in Nat, r \in Nat, t \in Nat, x \in Int, y \in Int
  <2> HAVE r <= t /\ x <= y
  <2> DEFINE d == y - x
  <2>1. d \in Nat /\ b * x \in Int
    OBVIOUS
  <2>2. r * d <= t * d
    BY <1>2, <2>1
  <2>3. r * d \in Int /\ t * d \in Int
    BY <2>1
  <2> HIDE DEF d
  <2>4. b * x + r * d <= b * x + t * d
    BY <2>1, <2>2, <2>3
  <2> QED
    BY <2>4 DEF d
<1> QED
    BY <1>1, <1>3, <1>4

(* Where the quantile of an inner edge is: between which two elements. *)
QuantileOf(at, q, r, n) ==
    /\ at \in Nat /\ q \in Nat /\ r \in 0 .. Bins - 1 /\ at = Bins * q + r
    /\ q + 1 <= n /\ (r # 0 => q + 2 <= n)

(* A quantile lies at a place and a part of the way to the next.           *)
LEMMA QuantileAt ==
    ASSUME NEW n \in Nat \ {0}, NEW i \in 1 .. Bins - 1
    PROVE  QuantileOf(i * (n - 1), (i * (n - 1)) \div Bins, (i * (n - 1)) % Bins, n)
<1>1. Bins \in Nat \ {0} /\ i \in Nat /\ n - 1 \in Nat
    BY ProtocolConstants
<1>2. \A u, v \in Nat : u * v \in Nat
    OBVIOUS
<1> DEFINE at == i * (n - 1)
           q == at \div Bins
           r == at % Bins
<1>3. at \in Nat
    BY <1>1, <1>2
<1>4. q \in Nat /\ r \in 0 .. Bins - 1 /\ at = Bins * q + r
  <2> HIDE DEF at
  <2> QED
    BY <1>1, <1>3
<1>5. at + (n - 1) <= Bins * (n - 1)
  <2> DEFINE d == n - 1
  <2>1. d * (i + 1) <= d * Bins
    <3>1. d \in Nat /\ i + 1 \in Int /\ Bins \in Int /\ i + 1 <= Bins
        BY <1>1
    <3> HIDE DEF d
    <3> QED
        BY <3>1, Products
  <2>2. d * (i + 1) = i * d + d /\ d * Bins = Bins * d
    BY <1>1
  <2> HIDE DEF d
  <2>3. i * d + d <= Bins * d
    BY <2>1, <2>2
  <2> QED
    BY <2>3 DEF d
<1> HIDE DEF at, q, r
<1>6. n - 1 <= q => n - 1 = 0
  <2> HAVE n - 1 <= q
  <2>1. Bins * (n - 1) <= Bins * q
    BY <1>1, <1>4, Products
  <2>2. Bins * (n - 1) \in Int /\ Bins * q \in Int
    BY <1>1, <1>4
  <2> QED
    BY <1>1, <1>3, <1>4, <1>5, <2>1, <2>2
<1>7. n - 1 = 0 => at = 0 /\ q = 0 /\ r = 0
  <2> HAVE n - 1 = 0
  <2>1. at = 0
    BY <1>1 DEF at
  <2>2. 0 \div Bins = 0 /\ 0 % Bins = 0
    BY <1>1
  <2> QED
    BY <2>1, <2>2 DEF q, r
<1>8. q + 1 <= n /\ (r # 0 => q + 2 <= n)
    BY <1>1, <1>4, <1>6, <1>7
<1>9. QuantileOf(at, q, r, n)
    BY <1>3, <1>4, <1>8 DEF QuantileOf
<1> QED
    BY <1>9 DEF at, q, r

(* An edge, between the elements lo and hi, the first of them the (q+1)th. *)
Corner(e, a, n, q, r, lo, hi) ==
    /\ q \in Nat /\ r \in Nat /\ r < Bins /\ q + 1 \in 1 .. n
    /\ r # 0 => q + 2 \in 1 .. n
    /\ lo = a[q + 1] /\ hi = IF r = 0 THEN lo ELSE a[q + 2]
    /\ lo \in Int /\ hi \in Int /\ lo <= hi
    /\ e = Bins * lo + r * (hi - lo) /\ e \in Int

NeverFalls(a, n) == Terms(a, n) /\ \A k, l \in 1 .. n : k <= l => a[k] <= a[l]

(* An inner edge is interpolated between the two values around it.         *)
LEMMA CornerIs ==
    ASSUME NEW n \in Nat \ {0}, NEW a, Len(a) = n, NeverFalls(a, n), NEW i \in 1 .. Bins - 1
    PROVE  \E q, r, lo, hi : Corner(Edge(i, a), a, n, q, r, lo, hi) /\ i * (n - 1) = Bins * q + r
<1> DEFINE at == i * (n - 1)
           q == at \div Bins
           r == at % Bins
           lo == a[q + 1]
           hi == IF r = 0 THEN lo ELSE a[q + 2]
<1>1. Bins \in Nat \ {0} /\ n \in Nat
    BY ProtocolConstants
<1>2. /\ q \in Nat /\ r \in 0 .. Bins - 1 /\ at = Bins * q + r
      /\ q + 1 <= n /\ (r # 0 => q + 2 <= n)
  <2>1. QuantileOf(at, q, r, n)
    BY QuantileAt
  <2> HIDE DEF at, q, r
  <2> QED
    BY <2>1 DEF QuantileOf
<1>3. Edge(i, a) = Bins * lo + r * (hi - lo)
  <2>1. Edge(i, a) = Bins * lo + r * ((IF at % Bins = 0 THEN lo ELSE a[at \div Bins + 2]) - lo)
    BY DEF Edge
  <2> QED
    BY <2>1
<1> HIDE DEF at, q, r
<1>4. q + 1 \in 1 .. n /\ (r # 0 => q + 2 \in 1 .. n /\ q + 1 <= q + 2)
    BY <1>1, <1>2
<1>5. \A k \in 1 .. n : a[k] \in Int
    BY DEF NeverFalls, Terms
<1>6. lo \in Int /\ hi \in Int /\ lo <= hi
  <2>1. CASE r = 0
    BY <1>4, <1>5, <2>1
  <2>2. CASE r # 0
    <3>1. lo <= a[q + 2] /\ a[q + 2] \in Int /\ lo \in Int
        BY <1>4, <1>5, <2>2 DEF NeverFalls
    <3> QED
        BY <2>2, <3>1
  <2> QED
    BY <2>1, <2>2
<1>7. lo = a[q + 1] /\ hi = IF r = 0 THEN lo ELSE a[q + 2]
    OBVIOUS
<1> HIDE DEF lo, hi
<1>8. r \in Nat /\ r < Bins
    BY <1>1, <1>2
<1>9. Bins * lo + r * (hi - lo) \in Int
    BY <1>1, <1>6, <1>8
<1>10. Corner(Edge(i, a), a, n, q, r, lo, hi)
    BY <1>2, <1>3, <1>4, <1>6, <1>7, <1>8, <1>9 DEF Corner
<1>11. i * (n - 1) = Bins * q + r
    BY <1>2 DEF at
<1> QED
    BY <1>10, <1>11

(* A quantile further along sorted values is no smaller.                   *)
LEMMA CornersGrow ==
    ASSUME NEW n \in Nat, NEW a, NeverFalls(a, n),
           NEW e, NEW q, NEW r, NEW lo, NEW hi, Corner(e, a, n, q, r, lo, hi),
           NEW f, NEW u, NEW t, NEW la, NEW ha, Corner(f, a, n, u, t, la, ha),
           Bins * q + r <= Bins * u + t
    PROVE  e <= f
<1>1. Bins \in Nat \ {0} /\ Bins \in Nat
    BY ProtocolConstants
<1>2. /\ q \in Nat /\ r \in Nat /\ r < Bins /\ lo \in Int /\ hi \in Int /\ lo <= hi
      /\ e = Bins * lo + r * (hi - lo) /\ e \in Int
    BY DEF Corner
<1>3. /\ u \in Nat /\ t \in Nat /\ t < Bins /\ la \in Int /\ ha \in Int /\ la <= ha
      /\ f = Bins * la + t * (ha - la) /\ f \in Int
    BY DEF Corner
<1>4. /\ lo = a[q + 1] /\ hi = IF r = 0 THEN lo ELSE a[q + 2]
      /\ la = a[u + 1] /\ ha = IF t = 0 THEN la ELSE a[u + 2]
    BY DEF Corner
<1>5. /\ q + 1 \in 1 .. n /\ (r # 0 => q + 2 \in 1 .. n)
      /\ u + 1 \in 1 .. n /\ (t # 0 => u + 2 \in 1 .. n)
    BY DEF Corner
<1>6. Bins * q \in Int /\ Bins * u \in Int
    BY <1>1, <1>2, <1>3
<1>7. q <= u
  <2> SUFFICES ASSUME u + 1 <= q PROVE FALSE
    BY <1>2, <1>3
  <2>1. Bins * (u + 1) <= Bins * q
    BY <1>1, <1>2, <1>3, Products
  <2>2. Bins * (u + 1) = Bins * u + Bins
    BY <1>1, <1>3
  <2> QED
    BY <1>1, <1>2, <1>3, <1>6, <2>1, <2>2
<1>8. CASE q = u
  <2>1. lo = la /\ r <= t
    <3>1. Bins * q = Bins * u
        BY <1>8
    <3>2. r <= t
        BY <1>2, <1>3, <1>6, <3>1
    <3> QED
        BY <1>4, <1>8, <3>2
  <2>2. CASE r = 0
    <3>1. e = Bins * lo
        BY <1>1, <1>2, <2>2
    <3>2. Bins * la <= Bins * la + t * (ha - la)
        BY <1>1, <1>3, Products
    <3> QED
        BY <1>3, <2>1, <3>1, <3>2
  <2>3. CASE r # 0
    <3>1. t # 0
        BY <1>2, <1>3, <2>1, <2>3
    <3>2. hi = ha
        BY <1>4, <1>8, <2>3, <3>1
    <3>3. Bins * la + r * (ha - la) <= Bins * la + t * (ha - la)
        BY <1>1, <1>2, <1>3, <2>1, Products
    <3> QED
        BY <1>2, <1>3, <2>1, <3>2, <3>3
  <2> QED
    BY <2>2, <2>3
<1>9. CASE q # u
  <2>1. q + 1 <= u
    BY <1>2, <1>3, <1>7, <1>9
  <2>2. hi <= la
    <3>1. CASE r = 0
      <4>1. hi = a[q + 1] /\ q + 1 <= u + 1
        BY <1>2, <1>3, <1>4, <2>1, <3>1
      <4> QED
        BY <1>4, <1>5, <4>1 DEF NeverFalls
    <3>2. CASE r # 0
      <4>1. hi = a[q + 2] /\ q + 2 <= u + 1
        BY <1>2, <1>3, <1>4, <2>1, <3>2
      <4> QED
        BY <1>4, <1>5, <3>2, <4>1 DEF NeverFalls
    <3> QED
        BY <3>1, <3>2
  <2>3. e <= Bins * hi
    <3>1. r <= Bins
        BY <1>1, <1>2
    <3>2. Bins * lo + r * (hi - lo) <= Bins * hi
        BY <1>1, <1>2, <3>1, Products
    <3> QED
        BY <1>2, <3>2
  <2>4. Bins * hi <= Bins * la
    BY <1>1, <1>2, <1>3, <2>2, Products
  <2>5. Bins * la <= f
    <3>1. t <= Bins
        BY <1>1, <1>3
    <3>2. Bins * la <= Bins * la + t * (ha - la)
        BY <1>1, <1>3, <3>1, Products
    <3> QED
        BY <1>3, <3>2
  <2>6. Bins * hi \in Int /\ Bins * la \in Int
    BY <1>1, <1>2, <1>3
  <2> QED
    BY <1>2, <1>3, <2>3, <2>4, <2>5, <2>6
<1> QED
    BY <1>8, <1>9

(* The edges of the bins never fall. *)
LEMMA EdgesGrow ==
    ASSUME NEW n \in Nat \ {0}, NEW a, Len(a) = n, NeverFalls(a, n),
           NEW i \in 1 .. Bins - 1, NEW j \in 1 .. Bins - 1, i <= j
    PROVE  Edge(i, a) \in Int /\ Edge(j, a) \in Int /\ Edge(i, a) <= Edge(j, a)
<1>1. PICK q, r, lo, hi : Corner(Edge(i, a), a, n, q, r, lo, hi) /\ i * (n - 1) = Bins * q + r
    BY CornerIs
<1>2. PICK u, t, la, ha : Corner(Edge(j, a), a, n, u, t, la, ha) /\ j * (n - 1) = Bins * u + t
    BY CornerIs
<1>3. i * (n - 1) <= j * (n - 1)
  <2>1. n - 1 \in Nat /\ i \in Int /\ j \in Int
    OBVIOUS
  <2>2. (n - 1) * i <= (n - 1) * j
    BY <2>1, Products
  <2>3. (n - 1) * i = i * (n - 1) /\ (n - 1) * j = j * (n - 1)
    BY <2>1
  <2> QED
    BY <2>2, <2>3
<1>4. Edge(i, a) \in Int /\ Edge(j, a) \in Int
    BY <1>1, <1>2 DEF Corner
<1>5. Bins * q + r <= Bins * u + t
    BY <1>1, <1>2, <1>3
<1>6. Edge(i, a) <= Edge(j, a)
    BY <1>1, <1>2, <1>5, CornersGrow
<1> QED
    BY <1>4, <1>6

(* A value is in one bin and in no other. *)
OnlyBin(b, x, a) ==
    /\ b \in 1 .. Bins /\ InBin(b, x, a)
    /\ \A c \in 1 .. Bins : InBin(c, x, a) => c = b

(* Between edges that never fall every value has one bin.                  *)
LEMMA OneBin ==
    ASSUME NEW n \in Nat \ {0}, NEW a, Len(a) = n, NeverFalls(a, n), NEW x \in Int
    PROVE  \E b : OnlyBin(b, x, a)
<1> DEFINE Ends == {i \in 1 .. Bins : i = Bins \/ Bins * x < Edge(i, a)}
<1>1. Bins \in Nat \ {0} /\ Bins * x \in Int
    BY ProtocolConstants
<1>2. Bins \in Ends /\ Ends \in SUBSET Nat /\ \A i \in Ends : i \in 1 .. Bins
    BY <1>1
<1>3. \A i \in 1 .. Bins : i \in Ends <=> i = Bins \/ Bins * x < Edge(i, a)
    OBVIOUS
<1> HIDE DEF Ends
<1>4. PICK b \in Ends : \A i \in Ends : b <= i
    BY <1>2, LeastExists
<1>5. b \in 1 .. Bins
    BY <1>2
<1>6. \A i \in 1 .. Bins - 1 : i \in 1 .. Bins /\ i # Bins /\ Edge(i, a) \in Int
  <2>1. \A i \in 1 .. Bins - 1 : i <= i
    OBVIOUS
  <2>2. \A i \in 1 .. Bins - 1 : Edge(i, a) \in Int
    BY <2>1, EdgesGrow
  <2> QED
    BY <1>1, <2>2
<1>7. b # 1 => Bins * x >= Edge(b - 1, a)
  <2> HAVE b # 1
  <2>1. b - 1 \in 1 .. Bins - 1 /\ ~(b <= b - 1)
    BY <1>1, <1>5
  <2>2. b - 1 \notin Ends
    BY <1>4, <2>1
  <2>3. ~(Bins * x < Edge(b - 1, a)) /\ Edge(b - 1, a) \in Int
    BY <1>3, <1>6, <2>1, <2>2
  <2> QED
    BY <1>1, <2>3
<1>8. InBin(b, x, a)
    BY <1>3, <1>5, <1>7 DEF InBin
<1>9. ASSUME NEW c \in 1 .. Bins, InBin(c, x, a) PROVE c = b
  <2>1. c \in Ends
    BY <1>3, <1>9 DEF InBin
  <2>2. b <= c
    BY <1>4, <2>1
  <2>3. b < c => FALSE
    <3> HAVE b < c
    <3>1. c # 1 /\ b # Bins /\ b \in 1 .. Bins - 1 /\ c - 1 \in 1 .. Bins - 1 /\ b <= c - 1
        BY <1>1, <1>5
    <3>2. Bins * x >= Edge(c - 1, a)
        BY <1>9, <3>1 DEF InBin
    <3>3. Bins * x < Edge(b, a)
        BY <1>3, <1>5, <3>1
    <3>4. Edge(b, a) \in Int /\ Edge(c - 1, a) \in Int /\ Edge(b, a) <= Edge(c - 1, a)
        BY <3>1, EdgesGrow
    <3> QED
        BY <1>1, <3>2, <3>3, <3>4
  <2> QED
    BY <1>1, <1>5, <2>2, <2>3
<1>10. OnlyBin(b, x, a)
    BY <1>5, <1>8, <1>9 DEF OnlyBin
<1> QED
    BY <1>10

Sorted(ps) == Ascending(ScoresOf(ps))
InBins(ps, b) == {i \in DOMAIN ps : InBin(b, ps[i].p, Sorted(ps))}

(* The sorted scores never fall.                                           *)
LEMMA SortedIs ==
    ASSUME NEW ps \in Seq(Prediction)
    PROVE  Len(Sorted(ps)) = Len(ps) /\ NeverFalls(Sorted(ps), Len(ps))
<1> DEFINE n == Len(ps)
           s == ScoresOf(ps)
           a == Ascending(s)
<1>1. n \in Nat /\ Terms(s, n)
    BY ScoresAre
<1>2. DOMAIN s = 1 .. n
    BY <1>1 DEF Terms
<1> HIDE DEF n, s
<1>3. a = [k \in 1 .. n |-> s[CHOOSE i \in 1 .. n : Within(i, s) = k]]
    BY <1>2 DEF Ascending
<1>4. NeverFalls(a, n)
    BY <1>1, AscendingIs DEF NeverFalls
<1>5. Len(a) = n
    BY <1>1, <1>3
<1> QED
    BY <1>4, <1>5 DEF Sorted, s, n

(* Every prediction is in one bin, whatever ties.                          *)
LEMMA EachInOneBin ==
    ASSUME NEW ps \in Seq(Prediction), NEW i \in DOMAIN ps
    PROVE  /\ DOMAIN ps = 1 .. Len(ps) /\ Len(ps) \in Nat
           /\ ps[i].p \in Int /\ \E b : OnlyBin(b, ps[i].p, Sorted(ps))
<1>1. /\ DOMAIN ps = 1 .. Len(ps) /\ Len(ps) \in Nat
      /\ \A j \in 1 .. Len(ps) : ps[j].p \in 0 .. Unit
    BY ScoresAre
<1>2. Len(ps) \in Nat \ {0}
    BY <1>1
<1>3. ps[i].p \in Int
  <2>1. ps[i].p \in 0 .. Unit
    BY <1>1
  <2> QED
    BY <2>1
<1>4. Len(Sorted(ps)) = Len(ps) /\ NeverFalls(Sorted(ps), Len(ps))
    BY SortedIs
<1>5. \E b : OnlyBin(b, ps[i].p, Sorted(ps))
    BY <1>2, <1>3, <1>4, OneBin
<1> QED
    BY <1>1, <1>3, <1>5

(* The bins that have a prediction, in their order. *)
BinOf(ps, b) == Picked(ps, InBins(ps, b))
Filled(ps) == {b \in 1 .. Bins : BinOf(ps, b) # <<>>}

(* A bin holds the predictions at its places and no other.                 *)
LEMMA BinOfIs ==
    ASSUME NEW ps \in Seq(Prediction), NEW b
    PROVE  /\ InBins(ps, b) \in SUBSET (1 .. Len(ps)) /\ Cardinality(InBins(ps, b)) \in Nat
           /\ BinOf(ps, b) \in Seq(Prediction) /\ Len(BinOf(ps, b)) = Cardinality(InBins(ps, b))
           /\ BinOf(ps, b) = <<>> <=> InBins(ps, b) = {}
           /\ \A d : d \in ToSet(BinOf(ps, b)) <=> \E i \in InBins(ps, b) : d = ps[i]
<1> DEFINE I == InBins(ps, b)
           n == Len(ps)
           q == BinOf(ps, b)
           m == Cardinality(I)
<1>1. n \in Nat /\ DOMAIN ps = 1 .. n /\ \A i \in 1 .. n : ps[i] \in Prediction
    BY ScoresAre
<1>2. I \in SUBSET (1 .. n)
    BY <1>1 DEF InBins
<1>3. q = Picked(ps, I)
    BY DEF BinOf
<1> HIDE DEF I, n, q
<1>4. /\ m \in Nat /\ IsFiniteSet(I)
      /\ \A k \in 1 .. m : PickAt(k, I) \in I
      /\ q = [k \in 1 .. m |-> ps[PickAt(k, I)]]
  <2>1. m \in Nat /\ IsFiniteSet(I)
    BY <1>1, <1>2, PlacesAre
  <2>2. /\ \A k \in 1 .. m : PickAt(k, I) \in I
        /\ Picked(ps, I) = [k \in 1 .. m |-> ps[PickAt(k, I)]]
    BY <1>1, <1>2, PicksAre
  <2> QED
    BY <1>3, <2>1, <2>2
<1>5. \A i \in I : CountTo(i, I) \in 1 .. m /\ PickAt(CountTo(i, I), I) = i
  <2> DEFINE id == [i \in I |-> i]
  <2>1. \A i \in I : id[i] \in I
    OBVIOUS
  <2> HIDE DEF id
  <2>2. \A i \in I : PickAt(CountTo(i, I), I) = i
    BY <1>1, <1>2, <2>1, PickedIs
  <2> QED
    BY <1>1, <1>2, <2>2, PlacesAre
<1>6. m = 0 <=> I = {}
    BY <1>4, FS_EmptySet
<1> HIDE DEF m
<1>7. \A k \in 1 .. m : ps[PickAt(k, I)] \in Prediction
    BY <1>1, <1>2, <1>4
<1>8. q \in Seq(Prediction) /\ Len(q) = m /\ DOMAIN q = 1 .. m
    BY <1>4, <1>7
<1>9. q = <<>> <=> I = {}
    BY <1>4, <1>6, <1>8
<1>10. ASSUME NEW d PROVE d \in ToSet(q) <=> \E i \in I : d = ps[i]
  <2>1. d \in ToSet(q) <=> \E k \in 1 .. m : q[k] = d
    BY <1>8 DEF ToSet
  <2>2. \A k \in 1 .. m : q[k] = ps[PickAt(k, I)] /\ PickAt(k, I) \in I
    BY <1>4
  <2>3. ASSUME NEW i \in I, d = ps[i] PROVE \E k \in 1 .. m : q[k] = d
    <3>1. CountTo(i, I) \in 1 .. m /\ PickAt(CountTo(i, I), I) = i
        BY <1>5
    <3>2. q[CountTo(i, I)] = d
        BY <2>2, <2>3, <3>1
    <3> QED
        BY <3>1, <3>2
  <2> QED
    BY <2>1, <2>2, <2>3
<1>11. I \in SUBSET (1 .. Len(ps)) /\ Cardinality(I) \in Nat /\ Len(q) = Cardinality(I)
    BY <1>2, <1>4, <1>8 DEF m, n
<1> QED
    BY <1>8, <1>9, <1>10, <1>11 DEF I, q

(* The bins reported are those that hold a prediction, in their order.     *)
LEMMA ReliabilityIs ==
    ASSUME NEW ps \in Seq(Prediction)
    PROVE  /\ Filled(ps) \in SUBSET (1 .. Bins) /\ Cardinality(Filled(ps)) \in Nat
           /\ DOMAIN ReliabilityBins(ps) = 1 .. Cardinality(Filled(ps))
           /\ \A k \in 1 .. Cardinality(Filled(ps)) :
                  /\ PickAt(k, Filled(ps)) \in Filled(ps)
                  /\ CountTo(PickAt(k, Filled(ps)), Filled(ps)) = k
                  /\ ReliabilityBins(ps)[k] = BinOf(ps, PickAt(k, Filled(ps)))
<1> DEFINE bins == [b \in 1 .. Bins |-> BinOf(ps, b)]
           F == Filled(ps)
           m == Cardinality(F)
<1>1. F = {b \in 1 .. Bins : bins[b] # <<>>}
    BY DEF Filled
<1>2. ReliabilityBins(ps) = Picked(bins, F)
  <2>1. bins = [b \in 1 .. Bins |->
                    Picked(ps, {i \in DOMAIN ps : InBin(b, ps[i].p, Ascending(ScoresOf(ps)))})]
    BY DEF BinOf, InBins, Sorted
  <2> HIDE DEF F
  <2> QED
    BY <1>1, <2>1 DEF ReliabilityBins
<1>3. Bins \in Nat /\ F \in SUBSET (1 .. Bins)
    BY <1>1, ProtocolConstants
<1> HIDE DEF F
<1>4. /\ m \in Nat
      /\ \A k \in 1 .. m : PickAt(k, F) \in F /\ CountTo(PickAt(k, F), F) = k
      /\ ReliabilityBins(ps) = [k \in 1 .. m |-> bins[PickAt(k, F)]]
    BY <1>2, <1>3, PicksAre
<1>5. \A k \in 1 .. m : bins[PickAt(k, F)] = BinOf(ps, PickAt(k, F))
    BY <1>3, <1>4
<1> HIDE DEF bins, m
<1>6. DOMAIN ReliabilityBins(ps) = 1 .. m
    BY <1>4
<1>7. \A k \in 1 .. m : ReliabilityBins(ps)[k] = BinOf(ps, PickAt(k, F))
    BY <1>4, <1>5
<1> QED
    BY <1>3, <1>4, <1>6, <1>7 DEF F, m

(* All of the bins hold all of the predictions. *)
LEMMA BinsHoldAll ==
    ASSUME NEW ps \in Seq(Prediction)
    PROVE  Sum(Map(ReliabilityBins(ps), Len)) = Len(ps)
<1> DEFINE n == Len(ps)
           R == {x \in (1 .. Bins) \X (1 .. n) : InBin(x[1], ps[x[2]].p, Sorted(ps))}
           w == Rows(R, Bins, n)
           v == Rows(Swapped(R), n, Bins)
           F == Filled(ps)
           m == Cardinality(F)
           g == Map(ReliabilityBins(ps), Len)
<1>1. n \in Nat /\ DOMAIN ps = 1 .. n /\ Bins \in Nat
    BY ScoresAre, ProtocolConstants
<1>2. R \in SUBSET ((1 .. Bins) \X (1 .. n))
    OBVIOUS
<1>3. \A b \in 1 .. Bins, i \in 1 .. n :
          <<b, i>> \in R <=> InBin(b, ps[i].p, Sorted(ps))
    OBVIOUS
<1>4. \A b \in 1 .. Bins : w[b] = Cardinality(InBins(ps, b))
  <2> TAKE b \in 1 .. Bins
  <2>1. w[b] = Cardinality({i \in 1 .. n : <<b, i>> \in R})
    BY DEF Rows
  <2>2. {i \in 1 .. n : <<b, i>> \in R} = InBins(ps, b)
    BY <1>1, <1>3 DEF InBins
  <2> QED
    BY <2>1, <2>2
<1> HIDE DEF R
<1>5. Terms(w, Bins) /\ Sum(w) = Cardinality(R)
    BY <1>1, <1>2, RowsCount
<1>6. /\ Swapped(R) \in SUBSET ((1 .. n) \X (1 .. Bins)) /\ Sum(v) = Cardinality(R)
      /\ \A b \in 1 .. Bins, i \in 1 .. n : <<i, b>> \in Swapped(R) <=> <<b, i>> \in R
    BY <1>1, <1>2, SwapCounts
<1>7. Terms(v, n)
    BY <1>1, <1>6, RowsCount
<1>8. \A i \in 1 .. n : v[i] = 1
  <2> TAKE i \in 1 .. n
  <2>1. PICK b : OnlyBin(b, ps[i].p, Sorted(ps))
    BY <1>1, EachInOneBin
  <2>2. v[i] = Cardinality({c \in 1 .. Bins : <<i, c>> \in Swapped(R)})
    BY DEF Rows
  <2>3. {c \in 1 .. Bins : <<i, c>> \in Swapped(R)} = {b}
    BY <1>3, <1>6, <2>1 DEF OnlyBin
  <2> QED
    BY <2>2, <2>3, FS_Singleton
<1>9. Sum(v) = n
  <2> DEFINE one == At(1, 1 .. n, n)
  <2>1. Terms(one, n) /\ Sum(one) = 1 * Cardinality(1 .. n)
    <3>1. 1 .. n \in SUBSET (1 .. n) /\ 1 \in Int
        OBVIOUS
    <3> QED
        BY <1>1, <3>1, SumOfConstant
  <2>2. Cardinality(1 .. n) = n
    BY <1>1, FS_Interval
  <2>3. \A i \in 1 .. n : v[i] = one[i]
    BY <1>8 DEF At
  <2> HIDE DEF one, v
  <2>4. Sum(v) = Sum(one)
    BY <1>1, <1>7, <2>1, <2>3, SumSame
  <2> QED
    BY <1>1, <2>1, <2>2, <2>4
<1>10. /\ F \in SUBSET (1 .. Bins) /\ m \in Nat /\ DOMAIN ReliabilityBins(ps) = 1 .. m
       /\ \A k \in 1 .. m :
              PickAt(k, F) \in F /\ ReliabilityBins(ps)[k] = BinOf(ps, PickAt(k, F))
    BY ReliabilityIs
<1>11. DOMAIN g = 1 .. m /\ \A k \in 1 .. m : g[k] = Len(ReliabilityBins(ps)[k])
    BY <1>10 DEF Map
<1>12. \A b \in 1 .. Bins : b \notin F => InBins(ps, b) = {}
    BY BinOfIs DEF Filled
<1> HIDE DEF w, v, F, m, g
<1>13. \A k \in 1 .. m : g[k] = w[PickAt(k, F)] /\ g[k] \in Int
  <2> TAKE k \in 1 .. m
  <2>1. PickAt(k, F) \in 1 .. Bins /\ g[k] = Len(BinOf(ps, PickAt(k, F)))
    BY <1>10, <1>11
  <2>2. Len(BinOf(ps, PickAt(k, F))) = Cardinality(InBins(ps, PickAt(k, F)))
    BY BinOfIs
  <2>3. w[PickAt(k, F)] \in Int
    BY <1>5, <2>1 DEF Terms
  <2> QED
    BY <1>4, <2>1, <2>2, <2>3
<1>14. Terms(g, m)
    BY <1>11, <1>13 DEF Terms
<1>15. \A b \in (1 .. Bins) \ F : w[b] = 0
    BY <1>4, <1>12, FS_EmptySet
<1>16. Sum(g) = Sum(w)
  <2>1. Terms(g, Cardinality(F)) /\ \A k \in 1 .. Cardinality(F) : g[k] = w[PickAt(k, F)]
    BY <1>13, <1>14 DEF m
  <2> QED
    BY <1>1, <1>5, <1>10, <1>15, <2>1, SumOfPicked
<1> QED
    BY <1>5, <1>6, <1>9, <1>16 DEF g

(* Each value is in one of the bins. *)
LEMMA OneOfTheBins ==
    ASSUME NEW ps \in Seq(Prediction), NEW d \in ToSet(ps)
    PROVE  Cardinality({k \in DOMAIN ReliabilityBins(ps) : d \in ToSet(ReliabilityBins(ps)[k])}) = 1
<1> DEFINE F == Filled(ps)
           m == Cardinality(F)
           R == ReliabilityBins(ps)
<1>1. PICK i \in DOMAIN ps : ps[i] = d
    BY DEF ToSet
<1>2. PICK b : OnlyBin(b, d.p, Sorted(ps))
    BY <1>1, EachInOneBin
<1>3. /\ F \in SUBSET (1 .. Bins) /\ m \in Nat /\ DOMAIN R = 1 .. m
      /\ \A k \in 1 .. m :
             /\ PickAt(k, F) \in F /\ CountTo(PickAt(k, F), F) = k
             /\ R[k] = BinOf(ps, PickAt(k, F))
    BY ReliabilityIs
<1>4. \A c \in 1 .. Bins : d \in ToSet(BinOf(ps, c)) <=> c = b
  <2> TAKE c \in 1 .. Bins
  <2>1. d \in ToSet(BinOf(ps, c)) <=> \E j \in InBins(ps, c) : d = ps[j]
    BY BinOfIs
  <2>2. \A j \in InBins(ps, c) : InBin(c, ps[j].p, Sorted(ps))
    BY DEF InBins
  <2>3. InBin(c, d.p, Sorted(ps)) => i \in InBins(ps, c)
    BY <1>1 DEF InBins
  <2>4. InBin(c, d.p, Sorted(ps)) <=> c = b
    BY <1>2 DEF OnlyBin
  <2> QED
    BY <1>1, <2>1, <2>2, <2>3, <2>4
<1>5. b \in 1 .. Bins /\ b \in F
  <2>1. b \in 1 .. Bins /\ InBin(b, d.p, Sorted(ps))
    BY <1>2 DEF OnlyBin
  <2>2. i \in InBins(ps, b)
    BY <1>1, <2>1 DEF InBins
  <2>3. BinOf(ps, b) # <<>>
    BY <2>2, BinOfIs
  <2> QED
    BY <2>1, <2>3 DEF Filled
<1>6. CountTo(b, F) \in 1 .. m /\ PickAt(CountTo(b, F), F) = b
  <2> HIDE DEF F
  <2> DEFINE id == [x \in F |-> x]
  <2>1. \A x \in F : id[x] \in F
    OBVIOUS
  <2> HIDE DEF id
  <2>2. Bins \in Nat
    BY ProtocolConstants
  <2>3. \A x \in F : PickAt(CountTo(x, F), F) = x
    BY <1>3, <2>1, <2>2, PickedIs
  <2>4. \A x \in F : CountTo(x, F) \in 1 .. m
    BY <1>3, <2>2, PlacesAre
  <2> QED
    BY <1>5, <2>3, <2>4
<1> HIDE DEF F, m, R
<1> DEFINE K == {k \in DOMAIN R : d \in ToSet(R[k])}
<1>7. K = {CountTo(b, F)}
  <2>1. \A k \in 1 .. m : d \in ToSet(R[k]) <=> PickAt(k, F) = b
    BY <1>3, <1>4
  <2>2. \A k \in 1 .. m : d \in ToSet(R[k]) <=> k = CountTo(b, F)
    BY <1>3, <1>6, <2>1
  <2> QED
    BY <1>3, <1>6, <2>2
<1> HIDE DEF K
<1>8. Cardinality(K) = 1
    BY <1>7, FS_Singleton
<1> QED
    BY <1>8 DEF K, R

(* A sum of n numbers of 0..c is at most c times n. *)
LEMMA SumBounds ==
    ASSUME NEW n \in Nat, NEW c \in Nat, NEW s, DOMAIN s = 1 .. n,
           \A i \in 1 .. n : s[i] \in 0 .. c
    PROVE  Terms(s, n) /\ Sum(s) \in Int /\ 0 <= Sum(s) /\ Sum(s) <= c * n
<1> DEFINE lo == At(c, {}, n)
           hi == At(c, 1 .. n, n)
<1>1. \A i \in 1 .. n : s[i] \in Int /\ 0 <= s[i] /\ s[i] <= c
    BY SMT
<1>2. Terms(s, n)
    BY <1>1 DEF Terms
<1>3. {} \in SUBSET (1 .. n) /\ 1 .. n \in SUBSET (1 .. n) /\ c \in Int
    OBVIOUS
<1>4. Terms(lo, n) /\ Sum(lo) = c * Cardinality({})
    BY <1>3, SumOfConstant
<1>5. Terms(hi, n) /\ Sum(hi) = c * Cardinality(1 .. n)
    BY <1>3, SumOfConstant
<1>6. Cardinality({}) = 0 /\ Cardinality(1 .. n) = n
    BY FS_EmptySet, FS_Interval
<1>7. \A i \in 1 .. n : lo[i] <= s[i] /\ s[i] <= hi[i]
    BY <1>1 DEF At
<1> HIDE DEF lo, hi
<1>8. Sum(lo) <= Sum(s)
    BY <1>2, <1>4, <1>7, SumGrows
<1>9. Sum(s) <= Sum(hi)
    BY <1>2, <1>5, <1>7, SumGrows
<1>10. Sum(s) \in Int
    BY <1>2, SumIsRun
<1>11. c * 0 = 0
    OBVIOUS
<1> QED
    BY <1>2, <1>4, <1>5, <1>6, <1>8, <1>9, <1>10, <1>11

(* What a bin adds to the calibration error. *)
BinGap(q, unit) ==
    LET d == Sum(ScoresOf(q)) - unit * Sum(Map(q, LAMBDA x : x.y)) IN IF d < 0 THEN -d ELSE d

(* The gap of a bin is at most what its predictions can differ by.         *)
LEMMA BinGapIs ==
    ASSUME NEW q \in Seq(Prediction)
    PROVE  BinGap(q, Unit) \in Int /\ BinGap(q, Unit) <= Unit * Len(q)
<1> DEFINE n == Len(q)
           s == ScoresOf(q)
           y == Map(q, LAMBDA x : x.y)
           S == Sum(s)
           Y == Sum(y)
<1>1. /\ n \in Nat /\ DOMAIN q = 1 .. n /\ DOMAIN s = 1 .. n
      /\ \A i \in 1 .. n : s[i] \in 0 .. Unit /\ q[i].y \in 0 .. 1
    BY ScoresAre DEF Terms
<1>2. Unit \in Nat
    BY ProtocolConstants
<1>3. DOMAIN y = 1 .. n /\ \A i \in 1 .. n : y[i] \in 0 .. 1
    BY <1>1 DEF Map
<1>4. BinGap(q, Unit) = IF S - Unit * Y < 0 THEN -(S - Unit * Y) ELSE S - Unit * Y
    BY DEF BinGap
<1> HIDE DEF n, s, y
<1>5. S \in Int /\ 0 <= S /\ S <= Unit * n
    BY <1>1, <1>2, SumBounds
<1>6. Y \in Int /\ 0 <= Y /\ Y <= 1 * n
  <2>1. 1 \in Nat
    OBVIOUS
  <2> QED
    BY <1>1, <1>3, <2>1, SumBounds
<1> HIDE DEF S, Y
<1>7. Unit * Y <= Unit * n
    BY <1>1, <1>2, <1>6, Products
<1>8. Unit * 0 <= Unit * Y
    BY <1>1, <1>2, <1>6, Products
<1>9. Unit * 0 = 0 /\ Unit * Y \in Int /\ Unit * n \in Int
    BY <1>1, <1>2, <1>6
<1> DEFINE a == Unit * Y
           b == Unit * n
<1>10. /\ BinGap(q, Unit) = IF S - a < 0 THEN -(S - a) ELSE S - a
       /\ a \in Int /\ b \in Int /\ a <= b /\ 0 <= a /\ S <= b /\ 0 <= S /\ S \in Int
    BY <1>4, <1>5, <1>7, <1>8, <1>9
<1> HIDE DEF a, b
<1>11. BinGap(q, Unit) \in Int /\ BinGap(q, Unit) <= b
    BY <1>10
<1> QED
    BY <1>11 DEF b, n

(* The calibration error, a mean of gaps, is at most 1.                    *)
LEMMA CalibrationIs ==
    ASSUME NEW ps \in Seq(Prediction)
    PROVE  CalibrationError(ps, Unit) <= Unit * Len(ps)
<1> DEFINE R == ReliabilityBins(ps)
           F == Filled(ps)
           m == Cardinality(F)
           g == Map(R, LAMBDA q : BinGap(q, Unit))
           l == Map(R, Len)
           u == [k \in 1 .. m |-> Unit * l[k]]
<1>1. CalibrationError(ps, Unit) = Sum(g)
    BY DEF CalibrationError, BinGap
<1>2. m \in Nat /\ DOMAIN R = 1 .. m /\ \A k \in 1 .. m : R[k] \in Seq(Prediction)
  <2>1. /\ m \in Nat /\ DOMAIN R = 1 .. m
        /\ \A k \in 1 .. m : R[k] = BinOf(ps, PickAt(k, F))
    BY ReliabilityIs
  <2> HIDE DEF R, F, m
  <2> QED
    BY <2>1, BinOfIs
<1>3. Sum(l) = Len(ps)
    BY BinsHoldAll
<1> HIDE DEF R, m
<1>4. /\ DOMAIN g = 1 .. m /\ DOMAIN l = 1 .. m /\ DOMAIN u = 1 .. m
      /\ \A k \in 1 .. m : g[k] = BinGap(R[k], Unit) /\ l[k] = Len(R[k]) /\ u[k] = Unit * l[k]
    BY <1>2 DEF Map
<1>5. Unit \in Nat /\ Len(ps) \in Nat
    BY ProtocolConstants, ScoresAre
<1> HIDE DEF g, l, u
<1>6. \A k \in 1 .. m : l[k] \in Nat /\ u[k] \in Int /\ g[k] \in Int /\ g[k] <= u[k]
  <2> TAKE k \in 1 .. m
  <2>1. R[k] \in Seq(Prediction)
    BY <1>2
  <2>2. l[k] \in Nat
    BY <1>4, <2>1
  <2>3. BinGap(R[k], Unit) \in Int /\ BinGap(R[k], Unit) <= Unit * Len(R[k])
    BY <2>1, BinGapIs
  <2>4. g[k] = BinGap(R[k], Unit) /\ l[k] = Len(R[k]) /\ u[k] = Unit * l[k]
    BY <1>4
  <2>5. u[k] \in Int
    BY <1>5, <2>2, <2>4
  <2>6. u[k] = Unit * Len(R[k])
    BY <2>4
  <2> QED
    BY <2>2, <2>3, <2>4, <2>5, <2>6
<1>7. Terms(g, m) /\ Terms(l, m) /\ Terms(u, m)
    BY <1>4, <1>6 DEF Terms
<1>8. Sum(u) = Unit * Sum(l)
  <2>1. Unit \in Int /\ \A k \in 1 .. m : u[k] = Unit * l[k]
    BY <1>4, <1>5
  <2> QED
    BY <1>2, <1>7, <2>1, SumScales
<1>9. Sum(g) <= Sum(u)
    BY <1>2, <1>6, <1>7, SumGrows
<1> QED
    BY <1>1, <1>3, <1>8, <1>9

-----------------------------------------------------------------------------
(* The rolling score, by differences of a running sum.                     *)

SquaredError(ps, j) == Square(ps[j].p - Unit * ps[j].y)

(* The rolling score, by differences, is the sum over its window.          *)
LEMMA RollingIs ==
    ASSUME NEW ps \in Seq(Prediction), NEW i \in Window .. Len(ps)
    PROVE  RollingBrier(ps, Window, Unit)[i] =
               SumOver({<<j, SquaredError(ps, j)>> : j \in i - Window + 1 .. i})
<1> DEFINE n == Len(ps)
           a == i - Window
           v == Map(ps, LAMBDA d : Square(d.p - Unit * d.y))
           s == [k \in 1 .. Window |-> SquaredError(ps, a + k)]
           e == [k \in 1 .. Window |-> <<a + k, SquaredError(ps, a + k)>>]
           R == {<<j, SquaredError(ps, j)>> : j \in i - Window + 1 .. i}
<1>1. /\ n \in Nat /\ DOMAIN ps = 1 .. n
      /\ \A j \in 1 .. n : ps[j].p \in 0 .. Unit /\ ps[j].y \in 0 .. 1
    BY ScoresAre
<1>2. Window \in Nat \ {0} /\ Unit \in Nat
    BY ProtocolConstants
<1>3. \A j \in 1 .. n : SquaredError(ps, j) \in Int
  <2> TAKE j \in 1 .. n
  <2>1. ps[j].p \in Int /\ ps[j].y \in Int
    BY <1>1
  <2>2. ps[j].p - Unit * ps[j].y \in Int
    BY <1>2, <2>1
  <2>3. \A x \in Int : Square(x) \in Int
    BY DEF Square
  <2> QED
    BY <2>2, <2>3 DEF SquaredError
<1>4. /\ DOMAIN v = 1 .. n /\ \A j \in 1 .. n : v[j] = SquaredError(ps, j)
    BY <1>1 DEF Map, SquaredError
<1>5. i \in 1 .. n /\ ~(i < Window) /\ a \in 0 .. n /\ a + Window = i /\ a + Window <= n
      /\ i + 1 - Window = a + 1
    BY <1>1, <1>2
<1>6. RollingBrier(ps, Window, Unit)[i] = CumSum(v)[i + 1] - CumSum(v)[i + 1 - Window]
  <2>1. RollingBrier(ps, Window, Unit) =
            [j \in DOMAIN ps |-> IF j < Window THEN NaN
                                 ELSE CumSum(v)[j + 1] - CumSum(v)[j + 1 - Window]]
    BY DEF RollingBrier
  <2> HIDE DEF v, a
  <2> QED
    BY <1>1, <1>5, <2>1
<1> HIDE DEF v, n
<1>7. Terms(v, n)
    BY <1>3, <1>4 DEF Terms
<1>8. PICK h \in [0 .. n -> Int] : CumSumOf(h, n, v)
    BY <1>1, <1>7, CumSumIs DEF Terms
<1>9. /\ DOMAIN s = 1 .. Window
      /\ \A k \in 1 .. Window : s[k] = SquaredError(ps, a + k)
      /\ \A k \in 1 .. Window : e[k] = <<a + k, SquaredError(ps, a + k)>>
    OBVIOUS
<1> HIDE DEF a, s, e, R
<1>10. RollingBrier(ps, Window, Unit)[i] = h[a + Window] - h[a]
  <2>1. i \in 0 .. n /\ a \in 0 .. n
    BY <1>5
  <2>2. CumSum(v)[i + 1] = h[i] /\ CumSum(v)[a + 1] = h[a]
    BY <1>8, <2>1 DEF CumSumOf
  <2> QED
    BY <1>5, <1>6, <2>2
<1>11. \A k \in 1 .. Window : a + k \in 1 .. n
    BY <1>1, <1>2, <1>5
<1>12. Terms(s, Window) /\ \A k \in 1 .. Window : s[k] = v[a + k]
    BY <1>3, <1>4, <1>9, <1>11 DEF Terms
<1>13. IsPart(s, Window, v, n, a, h)
    BY <1>1, <1>2, <1>5, <1>8, <1>12 DEF IsPart, CumSumOf
<1>14. SumsBetween(s, Window, a, h)
    BY <1>13, PartsSum, Zenon
<1>15. RollingBrier(ps, Window, Unit)[i] = Sum(s)
    BY <1>10, <1>14 DEF SumsBetween
<1>16. \A k, l \in 1 .. Window : e[k] = e[l] => k = l
  <2>1. \A k, l \in 1 .. Window : a + k = a + l => k = l
    BY <1>5
  <2>2. \A k \in 1 .. Window : e[k][1] = a + k
    BY <1>9
  <2> QED
    BY <2>1, <2>2
<1>17. R = {e[k] : k \in 1 .. Window}
  <2>1. \A k \in 1 .. Window : a + k \in i - Window + 1 .. i
    BY <1>1, <1>2, <1>5
  <2>2. \A j \in i - Window + 1 .. i : j - a \in 1 .. Window /\ a + (j - a) = j
    BY <1>1, <1>2, <1>5
  <2>3. ASSUME NEW k \in 1 .. Window PROVE e[k] \in R
    BY <1>9, <2>1 DEF R
  <2>4. ASSUME NEW x \in R PROVE \E k \in 1 .. Window : x = e[k]
    <3>1. PICK j \in i - Window + 1 .. i : x = <<j, SquaredError(ps, j)>>
        BY DEF R
    <3>2. PICK k \in 1 .. Window : a + k = j
        BY <2>2
    <3>3. x = e[k]
        BY <1>9, <3>1, <3>2
    <3> QED
        BY <3>3
  <2> QED
    BY <2>3, <2>4
<1>18. \A k \in 1 .. Window : e[k][2] \in Int /\ s[k] = e[k][2]
    BY <1>3, <1>9, <1>11
<1>19. Lists(e, Window, s, R)
    BY <1>2, <1>12, <1>16, <1>17, <1>18 DEF Lists
<1>20. SumOver(R) = Sum(s)
    BY <1>19, SumOverIs
<1> QED
    BY <1>15, <1>20 DEF R

-----------------------------------------------------------------------------
(* The scores of predictions, by ranks, bins and running sums, are what    *)
(* they stand for (classification.py roc_auc, bootstrap.py                 *)
(* delong_roc_auc_ci, calibration.py, metrics/__init__.py _rolling_brier). *)
THEOREM PredictionScoresInvariance == ProtocolSpec => []PredictionScores
<1>1. ASSUME ProtocolInv PROVE PredictionScores
  <2> DEFINE pos == OfClass(preds, 1)
             neg == OfClass(preds, 0)
             bins == ReliabilityBins(preds)
  <2>1. preds \in Seq(Prediction)
    BY <1>1 DEF ProtocolInv
  <2>2. TwiceU(preds) = 2 * Pairs(LAMBDA a, b : a > b) + Pairs(LAMBDA a, b : a = b)
    <3>1. Pos = Class(preds, 1) /\ Neg = Class(preds, 0)
        BY <2>1, ClassesAre DEF Pos, Neg, Class
    <3>2. /\ DOMAIN preds = 1 .. Len(preds)
          /\ \A i \in 1 .. Len(preds) : ScoresOf(preds)[i] = preds[i].p
        BY <2>1, ScoresAre
    <3>3. \A x \in Pos \X Neg : x[1] \in DOMAIN preds /\ x[2] \in DOMAIN preds
        BY DEF Pos, Neg
    <3>4. Pairs(LAMBDA a, b : a > b) = Cardinality(Ordered(ScoresOf(preds), Pos, Neg))
      <4>1. {x \in Pos \X Neg : preds[x[1]].p > preds[x[2]].p} = Ordered(ScoresOf(preds), Pos, Neg)
        BY <3>2, <3>3 DEF Ordered
      <4> QED
        BY <4>1 DEF Pairs
    <3>5. Pairs(LAMBDA a, b : a = b) = Cardinality(Tied(ScoresOf(preds), Pos, Neg))
      <4>1. {x \in Pos \X Neg : preds[x[1]].p = preds[x[2]].p} = Tied(ScoresOf(preds), Pos, Neg)
        BY <3>2, <3>3 DEF Tied
      <4> QED
        BY <4>1 DEF Pairs
    <3> QED
        BY <2>1, <3>1, <3>4, <3>5, AreaIs
  <2>3. NoTieWithin(pos) =>
            \A i \in DOMAIN pos :
                V10(preds)[i] = 2 * Cardinality({j \in DOMAIN neg : neg[j] < pos[i]})
                                + Cardinality({j \in DOMAIN neg : neg[j] = pos[i]})
    BY <2>1, V10Is DEF LowIn, LevelIn
  <2>4. NoTieWithin(neg) =>
            \A i \in DOMAIN neg :
                V01(preds)[i] = 2 * Cardinality({j \in DOMAIN pos : pos[j] > neg[i]})
                                + Cardinality({j \in DOMAIN pos : pos[j] = neg[i]})
    <3> SUFFICES ASSUME NoTieWithin(neg), NEW i \in DOMAIN neg
                 PROVE  V01(preds)[i] = 2 * Cardinality({j \in DOMAIN pos : pos[j] > neg[i]})
                                        + Cardinality({j \in DOMAIN pos : pos[j] = neg[i]})
        OBVIOUS
    <3>1. V01(preds)[i] = 2 * Cardinality(OverIn(pos, neg[i])) + Cardinality(LevelIn(pos, neg[i]))
        BY <2>1, V01Is
    <3>2. OverIn(pos, neg[i]) = {j \in DOMAIN pos : pos[j] > neg[i]}
        BY DEF OverIn
    <3>3. LevelIn(pos, neg[i]) = {j \in DOMAIN pos : pos[j] = neg[i]}
        BY DEF LevelIn
    <3> QED
        BY <3>1, <3>2, <3>3
  <2>5. Sum(Map(bins, Len)) = Len(preds)
    BY <2>1, BinsHoldAll
  <2>6. \A d \in ToSet(preds) : Cardinality({i \in DOMAIN bins : d \in ToSet(bins[i])}) = 1
    BY <2>1, OneOfTheBins
  <2>7. CalibrationError(preds, Unit) <= Unit * Len(preds)
    BY <2>1, CalibrationIs
  <2>8. \A i \in Window .. Len(preds) :
            RollingBrier(preds, Window, Unit)[i] =
                SumOver({<<j, Square(preds[j].p - Unit * preds[j].y)>> :
                            j \in i - Window + 1 .. i})
    BY <2>1, RollingIs DEF SquaredError
  <2> HIDE DEF pos, neg, bins
  <2> QED
    BY <2>2, <2>3, <2>4, <2>5, <2>6, <2>7, <2>8, Zenon DEF PredictionScores, pos, neg, bins
<1> QED
  BY <1>1, ProtocolInvariance, PTL
===============================================================================
