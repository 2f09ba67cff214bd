--------------------------- MODULE PredictorProofs ---------------------------
(***************************************************************************)
(* Proofs about Predictor and the features it reads, for every catalog,    *)
(* ranking, set of correlated pairs, number of bars, members and           *)
(* trainings.                                                              *)
(*                                                                         *)
(* FInv says of each feature which bars its buffers hold, counted from the *)
(* newest; a bar that is added is the newest and makes every other one     *)
(* older by one, so that the buffers hold what the next bar needs.  PInv   *)
(* says which members the process has read so far.                         *)
(***************************************************************************)
EXTENDS Predictor, FiniteSetTheorems, SequenceTheorems, WellFoundedInduction, TLAPS

-----------------------------------------------------------------------------
(* The catalog.                                                            *)

(* The constants have the types the code gives them. *)
LEMMA ConstantsAre ==
    /\ Built \in Seq(FeatureSpec) /\ Len(Built) \in Nat /\ DOMAIN Built = 1 .. Len(Built)
    /\ \A i \in DOMAIN Built : Built[i] \in FeatureSpec
    /\ \A name \in DOMAIN Importance : Importance[name] \in Nat
    /\ NaN \notin Nat
BY SpecsAreValid, LenProperties

(* A nonempty set of naturals has a least element. *)
LEMMA LeastExists ==
    ASSUME NEW S \in SUBSET Nat, S # {}
    PROVE  \E x \in S : \A y \in S : x <= y
<1>1. PICK x \in S : \A y \in S : ~(<<y, x>> \in OpToRel(<, Nat))
    BY NatLessThanWellFounded, WFMin
<1>2. \A y \in S : ~(y < x)
    BY <1>1, Zenon DEF OpToRel
<1>3. \A y \in S : x <= y
    BY <1>2
<1> QED
    BY <1>3

(* A score is a number. *)
LEMMA ScoreIsInt ==
    ASSUME NEW i \in DOMAIN Built
    PROVE  Score(Built[i]) \in Int
BY ConstantsAre DEF Score

(* Importance, and the place in the list among equals, order the features. *)
LEMMA BeforeIsTotal ==
    ASSUME NEW i \in DOMAIN Built, NEW j \in DOMAIN Built, NEW k \in DOMAIN Built
    PROVE  /\ ~Before(i, i)
           /\ i # j => Before(i, j) \/ Before(j, i)
           /\ Before(i, j) /\ Before(j, k) => Before(i, k)
<1>1. Score(Built[i]) \in Int /\ Score(Built[j]) \in Int /\ Score(Built[k]) \in Int
    BY ScoreIsInt
<1>2. i \in Int /\ j \in Int /\ k \in Int
    BY ConstantsAre
<1> QED
    BY <1>1, <1>2 DEF Before

(* The rank of a feature is one of the places. *)
LEMMA RankIsPlace ==
    ASSUME NEW i \in DOMAIN Built
    PROVE  /\ ImportanceRank(i) \in 1 .. Len(Built)
           /\ IsFiniteSet({j \in DOMAIN Built : Before(j, i)})
<1> DEFINE S == {j \in DOMAIN Built : Before(j, i)}
           D == 1 .. Len(Built)
<1>1. Len(Built) \in Nat /\ DOMAIN Built = D
    BY ConstantsAre
<1>2. IsFiniteSet(D) /\ Cardinality(D) = Len(Built)
    BY <1>1, FS_Interval
<1>3. S \subseteq D /\ i \notin S /\ i \in D
    BY <1>1, BeforeIsTotal
<1> HIDE DEF S, D
<1>4. IsFiniteSet(S) /\ Cardinality(S) <= Len(Built) /\ S # D
      /\ (Cardinality(S) = Len(Built) => S = D)
    BY <1>2, <1>3, FS_Subset
<1>5. Cardinality(S) \in Nat
    BY <1>4, FS_CardinalityType
<1>6. ImportanceRank(i) = 1 + Cardinality(S)
    BY DEF ImportanceRank, S
<1> QED
    BY <1>1, <1>4, <1>5, <1>6 DEF S

(* Who comes before has the lower rank. *)
LEMMA RankFollowsBefore ==
    ASSUME NEW i \in DOMAIN Built, NEW j \in DOMAIN Built, Before(i, j)
    PROVE  ImportanceRank(i) < ImportanceRank(j)
<1> DEFINE S == {k \in DOMAIN Built : Before(k, i)}
           T == {k \in DOMAIN Built : Before(k, j)}
<1>1. S \subseteq T /\ i \in T /\ i \notin S
    BY BeforeIsTotal
<1>2. IsFiniteSet(S) /\ IsFiniteSet(T)
    BY RankIsPlace
<1>3. ImportanceRank(i) = 1 + Cardinality(S) /\ ImportanceRank(j) = 1 + Cardinality(T)
    BY DEF ImportanceRank
<1> HIDE DEF S, T
<1>4. Cardinality(S) <= Cardinality(T) /\ Cardinality(S) # Cardinality(T)
    BY <1>1, <1>2, FS_Subset
<1>5. Cardinality(S) \in Nat /\ Cardinality(T) \in Nat
    BY <1>2, FS_CardinalityType
<1> QED
    BY <1>3, <1>4, <1>5

(* Every place is the rank of one feature. *)
LEMMA RanksArePlaces ==
    ASSUME NEW k \in 1 .. Len(Built)
    PROVE  \E i \in DOMAIN Built : ImportanceRank(i) = k
<1> DEFINE D == 1 .. Len(Built)
           r == [i \in D |-> ImportanceRank(i)]
<1>1. Len(Built) \in Nat /\ DOMAIN Built = D
    BY ConstantsAre
<1>2. IsFiniteSet(D)
    BY <1>1, FS_Interval
<1>3. r \in [D -> D]
    BY <1>1, RankIsPlace
<1>4. ASSUME NEW i \in D, NEW j \in D, i # j
      PROVE  r[i] # r[j]
  <2>1. Before(i, j) \/ Before(j, i)
    BY <1>1, <1>4, BeforeIsTotal
  <2>2. ImportanceRank(i) # ImportanceRank(j)
    <3>1. i \in DOMAIN Built /\ j \in DOMAIN Built
        BY <1>1
    <3>2. ImportanceRank(i) < ImportanceRank(j) \/ ImportanceRank(j) < ImportanceRank(i)
        BY <2>1, <3>1, RankFollowsBefore
    <3>3. ImportanceRank(i) \in 1 .. Len(Built) /\ ImportanceRank(j) \in 1 .. Len(Built)
        BY <3>1, RankIsPlace
    <3> QED
        BY <3>2, <3>3
  <2> QED
    BY <2>2
<1> HIDE DEF r, D
<1>5. r \in Injection(D, D)
    BY <1>3, <1>4 DEF Injection, IsInjective
<1>6. r \in Surjection(D, D)
    BY <1>2, <1>5, FS_Injection
<1>7. PICK i \in D : r[i] = k
    BY <1>6 DEF Surjection, D
<1>8. r[i] = ImportanceRank(i)
    BY DEF r
<1> QED
    BY <1>1, <1>7, <1>8

(* The sorted list has each feature once. *)
LEMMA SortedIsPermuted ==
    /\ ByImportance \in Seq(FeatureSpec) /\ Len(ByImportance) = Len(Built)
    /\ \A k \in 1 .. Len(Built) : \E i \in DOMAIN Built : ByImportance[k] = Built[i]
    /\ \A k, l \in 1 .. Len(Built) : ByImportance[k].name = ByImportance[l].name => k = l
<1> DEFINE place(k) == CHOOSE i \in DOMAIN Built : ImportanceRank(i) = k
<1>1. DOMAIN Built = 1 .. Len(Built) /\ Len(Built) \in Nat
      /\ \A i \in DOMAIN Built : Built[i] \in FeatureSpec
    BY ConstantsAre
<1>2. \A k \in 1 .. Len(Built) : place(k) \in DOMAIN Built /\ ImportanceRank(place(k)) = k
    BY RanksArePlaces
<1>3. ByImportance = [k \in 1 .. Len(Built) |-> Built[place(k)]]
    BY <1>1 DEF ByImportance
<1> HIDE DEF place
<1>4. \A k \in 1 .. Len(Built) : ByImportance[k] = Built[place(k)]
    BY <1>3
<1>5. ByImportance \in Seq(FeatureSpec) /\ Len(ByImportance) = Len(Built)
  <2>1. ByImportance \in [1 .. Len(Built) -> FeatureSpec]
    BY <1>1, <1>2, <1>3
  <2> QED
    BY <1>1, <2>1
<1>6. ASSUME NEW k \in 1 .. Len(Built), NEW l \in 1 .. Len(Built),
             ByImportance[k].name = ByImportance[l].name
      PROVE  k = l
  <2>1. Built[place(k)].name = Built[place(l)].name /\ place(k) \in DOMAIN Built /\ place(l) \in DOMAIN Built
    BY <1>2, <1>4, <1>6
  <2>2. place(k) = place(l)
    BY <2>1, SpecsAreValid
  <2> QED
    BY <1>2, <2>2
<1> QED
    BY <1>2, <1>4, <1>5, <1>6

-----------------------------------------------------------------------------
(* Dropping what correlates.  The list kept is followed from the first     *)
(* feature to the last; what holds of it is shown for the shortest prefix  *)
(* of which it would not.                                                  *)

Drops(kept, f) == \E g \in ToSet(kept) : {f.name, g.name} \in Correlated
Keep(kept, f) == IF Drops(kept, f) THEN kept ELSE Append(kept, f)

(* A function as DedupeCorrelated makes it, up to a place *)
IsKeeping(h, fs, n) ==
    h = [i \in 0 .. n |-> IF i = 0 THEN <<>> ELSE Keep(h[i - 1], fs[i])]

(* There is one for each prefix. *)
LEMMA KeepingExists ==
    ASSUME NEW fs, NEW n \in Nat
    PROVE  \E h : IsKeeping(h, fs, n)
<1> DEFINE Bad == {k \in Nat : ~\E h : IsKeeping(h, fs, k)}
<1> SUFFICES ASSUME Bad # {} PROVE FALSE
    OBVIOUS
<1>1. PICK m \in Bad : \A k \in Bad : m <= k
  <2>1. Bad \in SUBSET Nat
    OBVIOUS
  <2> HIDE DEF Bad
  <2> QED
    BY <2>1, LeastExists
<1>2. m \in Nat /\ ~\E h : IsKeeping(h, fs, m)
    OBVIOUS
<1>3. CASE m = 0
  <2> DEFINE h == [i \in 0 .. 0 |-> <<>>]
  <2>1. h = [i \in 0 .. 0 |-> IF i = 0 THEN <<>> ELSE Keep(h[i - 1], fs[i])]
    <3>1. \A i \in 0 .. 0 : i = 0
        OBVIOUS
    <3>2. h = [i \in 0 .. 0 |-> h[i]] /\ \A i \in 0 .. 0 : h[i] = <<>>
        OBVIOUS
    <3> DEFINE k == [i \in 0 .. 0 |-> IF i = 0 THEN <<>> ELSE Keep(h[i - 1], fs[i])]
    <3>3. k = [i \in 0 .. 0 |-> k[i]] /\ \A i \in 0 .. 0 : k[i] = <<>>
        BY <3>1
    <3>4. \A i \in 0 .. 0 : h[i] = k[i]
        BY <3>2, <3>3
    <3> HIDE DEF h, k
    <3>5. h = k
        BY <3>2, <3>3, <3>4, Zenon
    <3> QED
        BY <3>5 DEF k
  <2> HIDE DEF h
  <2>2. IsKeeping(h, fs, 0)
    BY <2>1 DEF IsKeeping
  <2> QED
    BY <1>2, <1>3, <2>2
<1>4. CASE m # 0
  <2>1. m - 1 \in Nat /\ m - 1 \notin Bad
    BY <1>1, <1>2, <1>4
  <2>2. PICK g : IsKeeping(g, fs, m - 1)
    BY <2>1
  <2> DEFINE D == 0 .. m
             E == 0 .. m - 1
             h == [i \in D |-> IF i = 0 THEN <<>> ELSE Keep(g[i - 1], fs[i])]
             k == [i \in D |-> IF i = 0 THEN <<>> ELSE Keep(h[i - 1], fs[i])]
  <2>3. /\ \A i \in E : i \in D
        /\ \A i \in D : i # 0 => i - 1 \in E
    BY <1>2
  <2>4. \A i \in E : g[i] = IF i = 0 THEN <<>> ELSE Keep(g[i - 1], fs[i])
    BY <2>2, Zenon DEF IsKeeping
  <2>5. \A i \in D : h[i] = IF i = 0 THEN <<>> ELSE Keep(g[i - 1], fs[i])
    OBVIOUS
  <2>6. \A i \in D : k[i] = IF i = 0 THEN <<>> ELSE Keep(h[i - 1], fs[i])
    OBVIOUS
  <2>7. h = [i \in D |-> h[i]] /\ k = [i \in D |-> k[i]]
    OBVIOUS
  <2>8. k = [i \in D |-> IF i = 0 THEN <<>> ELSE Keep(h[i - 1], fs[i])]
    OBVIOUS
  <2> HIDE DEF D, E, h, k
  <2>9. \A i \in E : g[i] = h[i]
    BY <2>3, <2>4, <2>5, Zenon
  <2>10. \A i \in D : h[i] = k[i]
    BY <2>3, <2>5, <2>6, <2>9, Zenon
  <2>11. h = k
    BY <2>7, <2>10, Zenon
  <2>12. IsKeeping(h, fs, m)
    BY <2>8, <2>11 DEF IsKeeping, D
  <2> QED
    BY <1>2, <2>12
<1> QED
    BY <1>3, <1>4

(* DedupeCorrelated keeps or drops one feature after the other. *)
LEMMA DedupeIs ==
    ASSUME NEW fs, Len(fs) \in Nat
    PROVE  \E h : /\ h[0] = <<>>
                  /\ \A i \in 1 .. Len(fs) : h[i] = Keep(h[i - 1], fs[i])
                  /\ DedupeCorrelated(fs) = h[Len(fs)]
<1> DEFINE n == Len(fs)
           h == CHOOSE g : IsKeeping(g, fs, n)
<1>1. IsKeeping(h, fs, n)
  <2>1. \E g : IsKeeping(g, fs, n)
    BY KeepingExists
  <2> HIDE DEF n
  <2> QED
    BY <2>1, Zenon
<1>2. DedupeCorrelated(fs) = h[n]
    BY DEF DedupeCorrelated, IsKeeping, Keep, Drops
<1> HIDE DEF h
<1>3. \A i \in 0 .. n : h[i] = IF i = 0 THEN <<>> ELSE Keep(h[i - 1], fs[i])
    BY <1>1, Zenon DEF IsKeeping
<1>4. h[0] = <<>> /\ \A i \in 1 .. n : h[i] = Keep(h[i - 1], fs[i])
    BY <1>3
<1> QED
    BY <1>2, <1>4

(* What has been kept when the first k features have been looked at *)
KeptOf(h, fs, k) ==
    /\ h[k] \in Seq(FeatureSpec)
    /\ \A g \in ToSet(h[k]) : \E j \in 1 .. k : g = fs[j]
    /\ \A i \in 0 .. k : ToSet(h[i]) \subseteq ToSet(h[k])
    /\ \A i \in 1 .. k : fs[i] \in ToSet(h[k]) <=> ~Drops(h[i - 1], fs[i])

(* One more feature. *)
LEMMA KeepOne ==
    ASSUME NEW fs \in Seq(FeatureSpec), NEW h, NEW k \in 1 .. Len(fs), NEW m \in Nat, k = m + 1,
           \A i, j \in 1 .. Len(fs) : fs[i].name = fs[j].name => i = j,
           h[k] = Keep(h[m], fs[k]),
           KeptOf(h, fs, m)
    PROVE  KeptOf(h, fs, k)
<1>1. h[m] \in Seq(FeatureSpec) /\ fs[k] \in FeatureSpec
    BY DEF KeptOf
<1>2. \A g \in ToSet(h[m]) : \E j \in 1 .. m : g = fs[j]
    BY DEF KeptOf
<1>3. /\ \A i \in 0 .. m : ToSet(h[i]) \subseteq ToSet(h[m])
      /\ \A i \in 1 .. m : fs[i] \in ToSet(h[m]) <=> ~Drops(h[i - 1], fs[i])
    BY DEF KeptOf
<1>4. /\ ToSet(h[k]) = IF Drops(h[m], fs[k]) THEN ToSet(h[m]) ELSE ToSet(h[m]) \cup {fs[k]}
      /\ h[k] \in Seq(FeatureSpec)
  <2>1. CASE Drops(h[m], fs[k])
    <3>1. h[k] = h[m]
        BY <2>1 DEF Keep
    <3> QED
        BY <1>1, <2>1, <3>1
  <2>2. CASE ~Drops(h[m], fs[k])
    <3> DEFINE s == h[m]
               e == fs[k]
    <3>1. h[k] = Append(s, e) /\ s \in Seq(FeatureSpec) /\ e \in FeatureSpec
        BY <1>1, <2>2 DEF Keep
    <3> HIDE DEF s, e
    <3>2. Append(s, e) \in Seq(FeatureSpec) /\ DOMAIN s = 1 .. Len(s) /\ Len(s) \in Nat
          /\ DOMAIN Append(s, e) = 1 .. Len(s) + 1
        BY <3>1
    <3>3. \A i \in 1 .. Len(s) : Append(s, e)[i] = s[i]
        BY <3>1
    <3>4. Append(s, e)[Len(s) + 1] = e
        BY <3>1
    <3>5. ToSet(Append(s, e)) = ToSet(s) \cup {e}
      <4>1. \A i \in 1 .. Len(s) : i \in 1 .. Len(s) + 1
        BY <3>2
      <4>2. \A i \in 1 .. Len(s) + 1 : i \in 1 .. Len(s) \/ i = Len(s) + 1
        BY <3>2
      <4>3. Len(s) + 1 \in 1 .. Len(s) + 1
        BY <3>2
      <4>4. ToSet(s) = {s[i] : i \in 1 .. Len(s)}
            /\ ToSet(Append(s, e)) = {Append(s, e)[i] : i \in 1 .. Len(s) + 1}
        BY <3>2 DEF ToSet
      <4> QED
        BY <3>3, <3>4, <4>1, <4>2, <4>3, <4>4
    <3> QED
        BY <2>2, <3>1, <3>2, <3>5 DEF s, e
  <2> QED
    BY <2>1, <2>2
<1>5. fs[k] \notin ToSet(h[m])
  <2>1. ASSUME NEW j \in 1 .. m, fs[k] = fs[j]
        PROVE  FALSE
    <3>1. j \in 1 .. Len(fs) /\ fs[j].name = fs[k].name
        BY <2>1
    <3>2. j = k
        BY <3>1
    <3> QED
        BY <3>2
  <2> QED
    BY <1>2, <2>1
<1>6. \A g \in ToSet(h[k]) : \E j \in 1 .. k : g = fs[j]
    BY <1>2, <1>4
<1>7. \A i \in 0 .. k : ToSet(h[i]) \subseteq ToSet(h[k])
  <2>1. \A i \in 0 .. k : i = k \/ i \in 0 .. m
    OBVIOUS
  <2>2. ToSet(h[m]) \subseteq ToSet(h[k])
    BY <1>4
  <2> QED
    BY <1>3, <2>1, <2>2
<1>8. ASSUME NEW i \in 1 .. k
      PROVE  fs[i] \in ToSet(h[k]) <=> ~Drops(h[i - 1], fs[i])
  <2>1. CASE i = k
    <3>1. i - 1 = m
        BY <2>1
    <3> QED
        BY <1>4, <1>5, <2>1, <3>1
  <2>2. CASE i # k
    <3>1. i \in 1 .. m /\ i \in 1 .. Len(fs)
        BY <2>2
    <3>2. fs[i] # fs[k]
        BY <2>2, <3>1
    <3> QED
        BY <1>3, <1>4, <3>1, <3>2
  <2> QED
    BY <2>1, <2>2
<1> QED
    BY <1>4, <1>6, <1>7, <1>8 DEF KeptOf

(* All of them. *)
LEMMA KeptAre ==
    ASSUME NEW fs \in Seq(FeatureSpec), NEW h,
           \A i, j \in 1 .. Len(fs) : fs[i].name = fs[j].name => i = j,
           h[0] = <<>>,
           \A i \in 1 .. Len(fs) : h[i] = Keep(h[i - 1], fs[i])
    PROVE  \A k \in 0 .. Len(fs) : KeptOf(h, fs, k)
<1> DEFINE Bad == {k \in 0 .. Len(fs) : ~KeptOf(h, fs, k)}
<1> SUFFICES ASSUME Bad # {} PROVE FALSE
    OBVIOUS
<1>1. PICK k \in Bad : \A l \in Bad : k <= l
  <2>1. Bad \in SUBSET Nat
    OBVIOUS
  <2> HIDE DEF Bad
  <2> QED
    BY <2>1, LeastExists
<1>2. k \in 0 .. Len(fs) /\ ~KeptOf(h, fs, k)
    OBVIOUS
<1>3. k # 0
  <2>1. ToSet(h[0]) = {} /\ h[0] \in Seq(FeatureSpec)
    BY DEF ToSet
  <2>2. \A i \in 0 .. 0 : ToSet(h[i]) \subseteq ToSet(h[0])
    OBVIOUS
  <2>3. KeptOf(h, fs, 0)
    BY <2>1, <2>2 DEF KeptOf
  <2> QED
    BY <1>2, <2>3
<1> DEFINE m == k - 1
<1>4. m \in Nat /\ k = m + 1 /\ k \in 1 .. Len(fs) /\ m \in 0 .. Len(fs) /\ m \notin Bad
    BY <1>1, <1>2, <1>3
<1>5. KeptOf(h, fs, m)
    BY <1>4
<1>6. h[k] = Keep(h[m], fs[k])
    BY <1>4
<1> HIDE DEF m, Bad
<1> QED
    BY <1>2, <1>4, <1>5, <1>6, KeepOne

(* Of the features of a list are kept those that correlate with no kept    *)
(* one before them.                                                        *)
LEMMA DedupeKeeps ==
    ASSUME NEW fs \in Seq(FeatureSpec),
           \A i, j \in 1 .. Len(fs) : fs[i].name = fs[j].name => i = j
    PROVE  /\ DedupeCorrelated(fs) \in Seq(FeatureSpec)
           /\ \A g \in ToSet(DedupeCorrelated(fs)) : \E j \in 1 .. Len(fs) : g = fs[j]
           /\ \A i \in 1 .. Len(fs) :
                 fs[i] \in ToSet(DedupeCorrelated(fs)) <=>
                     \A j \in 1 .. i - 1 :
                        fs[j] \in ToSet(DedupeCorrelated(fs))
                            => {fs[i].name, fs[j].name} \notin Correlated
<1> DEFINE n == Len(fs)
           kept == DedupeCorrelated(fs)
<1>1. n \in Nat
    OBVIOUS
<1>2. PICK h : /\ h[0] = <<>>
               /\ \A i \in 1 .. n : h[i] = Keep(h[i - 1], fs[i])
               /\ kept = h[n]
    BY <1>1, DedupeIs
<1>3. \A k \in 0 .. n : KeptOf(h, fs, k)
    BY <1>2, KeptAre
<1>4. KeptOf(h, fs, n)
    BY <1>1, <1>3
<1> HIDE DEF kept
<1>5. kept \in Seq(FeatureSpec) /\ \A g \in ToSet(kept) : \E j \in 1 .. n : g = fs[j]
    BY <1>2, <1>4 DEF KeptOf
<1>6. ASSUME NEW i \in 1 .. n
      PROVE  fs[i] \in ToSet(kept) <=>
                \A j \in 1 .. i - 1 :
                   fs[j] \in ToSet(kept) => {fs[i].name, fs[j].name} \notin Correlated
  <2> DEFINE p == i - 1
  <2>1. p \in 0 .. n /\ KeptOf(h, fs, p) /\ \A j \in 1 .. p : j \in 1 .. n
    BY <1>1, <1>3
  <2>2. fs[i] \in ToSet(kept) <=> ~Drops(h[p], fs[i])
    BY <1>2, <1>4 DEF KeptOf
  <2>3. \A j \in 1 .. p : fs[j] \in ToSet(h[p]) <=> ~Drops(h[j - 1], fs[j])
    BY <2>1 DEF KeptOf
  <2>4. \A j \in 1 .. p : fs[j] \in ToSet(kept) <=> ~Drops(h[j - 1], fs[j])
    BY <1>2, <1>4, <2>1 DEF KeptOf
  <2>5. \A j \in 1 .. p : fs[j] \in ToSet(h[p]) <=> fs[j] \in ToSet(kept)
    BY <2>3, <2>4
  <2>6. \A g \in ToSet(h[p]) : \E j \in 1 .. p : g = fs[j]
    BY <2>1 DEF KeptOf
  <2>7. Drops(h[p], fs[i]) <=>
            \E j \in 1 .. p : fs[j] \in ToSet(kept) /\ {fs[i].name, fs[j].name} \in Correlated
    <3> HIDE DEF p
    <3> QED
        BY <2>5, <2>6, Zenon DEF Drops
  <2> QED
    BY <2>2, <2>7
<1> QED
    BY <1>5, <1>6 DEF kept

-----------------------------------------------------------------------------
(* The names.                                                              *)

(* The catalog lists features that were built, each once. *)
LEMMA CatalogIsBuilt ==
    /\ Catalog \in Seq(FeatureSpec)
    /\ \A f \in ToSet(Catalog) : \E i \in DOMAIN Built : f = Built[i]
<1>1. DOMAIN Built = 1 .. Len(Built) /\ Len(Built) \in Nat /\ Built \in Seq(FeatureSpec)
    BY ConstantsAre
<1>2. \A f \in ToSet(Built) : \E i \in DOMAIN Built : f = Built[i]
    BY DEF ToSet
<1>3. ByImportance \in Seq(FeatureSpec)
      /\ \A f \in ToSet(ByImportance) : \E i \in DOMAIN Built : f = Built[i]
  <2>1. ByImportance \in Seq(FeatureSpec) /\ Len(ByImportance) = Len(Built)
    BY SortedIsPermuted
  <2>2. DOMAIN ByImportance = 1 .. Len(Built)
    BY <2>1
  <2> QED
    BY <2>1, <2>2, SortedIsPermuted DEF ToSet
<1>4. DedupeCorrelated(ByImportance) \in Seq(FeatureSpec)
      /\ \A f \in ToSet(DedupeCorrelated(ByImportance)) : \E i \in DOMAIN Built : f = Built[i]
  <2>1. Len(ByImportance) = Len(Built)
        /\ \A k, l \in 1 .. Len(Built) : ByImportance[k].name = ByImportance[l].name => k = l
    BY SortedIsPermuted
  <2>2. /\ DedupeCorrelated(ByImportance) \in Seq(FeatureSpec)
        /\ \A g \in ToSet(DedupeCorrelated(ByImportance)) :
              \E j \in 1 .. Len(ByImportance) : g = ByImportance[j]
    BY <1>3, <2>1, DedupeKeeps
  <2> QED
    BY <2>1, <2>2, SortedIsPermuted
<1> QED
    BY <1>1, <1>2, <1>3, <1>4 DEF Catalog, DefaultStreamingFeatures

(* A name stands for the one feature of the catalog that has it. *)
LEMMA SpecOfName ==
    ASSUME NEW name \in Names
    PROVE  LET f == SpecOf(name)
           IN  /\ f \in ToSet(Catalog) /\ f.name = name
               /\ f \in FeatureSpec
               /\ f.kind # "identity" => f.lag >= 1
               /\ f.kind = "lag" => f.window = 1
<1> DEFINE f == SpecOf(name)
<1>1. \E g \in ToSet(Catalog) : g.name = name
    BY DEF Names
<1>2. f \in ToSet(Catalog) /\ f.name = name
    BY <1>1 DEF SpecOf
<1> HIDE DEF f
<1>3. PICK i \in DOMAIN Built : f = Built[i]
    BY <1>2, CatalogIsBuilt
<1>4. f \in FeatureSpec
    BY <1>3, ConstantsAre
<1>5. (f.kind # "identity" => f.lag >= 1) /\ (f.kind = "lag" => f.window = 1)
    BY <1>3, SpecsAreValid
<1> QED
    BY <1>2, <1>4, <1>5 DEF f

(* The names are those of the features that the ranking leaves: the second *)
(* part of FeaturesAsDefined.                                              *)
LEMMA NamesAreRanked ==
    ASSUME NEW i \in DOMAIN ByImportance
    PROVE  ByImportance[i].name \in Names <=>
              \A j \in 1 .. i - 1 :
                 Dedupe /\ DOMAIN Importance # {} /\ ByImportance[j].name \in Names
                     => {ByImportance[i].name, ByImportance[j].name} \notin Correlated
<1> DEFINE fs == ByImportance
           n == Len(fs)
<1>1. fs \in Seq(FeatureSpec) /\ n = Len(Built) /\ n \in Nat /\ DOMAIN fs = 1 .. n
      /\ \A k, l \in 1 .. n : fs[k].name = fs[l].name => k = l
  <2>1. fs \in Seq(FeatureSpec) /\ n = Len(Built)
    BY SortedIsPermuted
  <2>2. n \in Nat /\ DOMAIN fs = 1 .. n
    BY <2>1
  <2> QED
    BY <2>1, <2>2, SortedIsPermuted
<1>2. i \in 1 .. n /\ \A j \in 1 .. i - 1 : j \in 1 .. n
    BY <1>1
<1>3. CASE Dedupe /\ DOMAIN Importance # {}
  <2> DEFINE kept == DedupeCorrelated(fs)
  <2>1. Catalog = kept
    BY <1>3 DEF Catalog, DefaultStreamingFeatures
  <2>2. /\ \A g \in ToSet(kept) : \E j \in 1 .. n : g = fs[j]
        /\ \A k \in 1 .. n :
              fs[k] \in ToSet(kept) <=>
                 \A j \in 1 .. k - 1 :
                    fs[j] \in ToSet(kept) => {fs[k].name, fs[j].name} \notin Correlated
    BY <1>1, DedupeKeeps
  <2> HIDE DEF fs, n, kept
  <2>3. \A k \in 1 .. n : fs[k].name \in Names <=> fs[k] \in ToSet(kept)
    BY <1>1, <2>1, <2>2 DEF Names
  <2>4. fs[i].name \in Names <=>
            \A j \in 1 .. i - 1 :
               fs[j].name \in Names => {fs[i].name, fs[j].name} \notin Correlated
    BY <1>2, <2>2, <2>3
  <2> QED
    BY <1>3, <2>4 DEF fs
<1>4. CASE ~(Dedupe /\ DOMAIN Importance # {})
  <2>1. fs[i].name \in Names
    <3>1. CASE DOMAIN Importance = {}
      <4>1. Catalog = Built
        BY <3>1 DEF Catalog, DefaultStreamingFeatures
      <4>2. PICK k \in DOMAIN Built : fs[i] = Built[k]
        BY <1>1, <1>2, SortedIsPermuted
      <4> QED
        BY <4>1, <4>2 DEF Names, ToSet
    <3>2. CASE DOMAIN Importance # {}
      <4>1. Catalog = fs
        BY <1>4, <3>2 DEF Catalog, DefaultStreamingFeatures
      <4> HIDE DEF fs
      <4> QED
        BY <1>1, <1>2, <4>1 DEF Names, ToSet
    <3> QED
        BY <3>1, <3>2
  <2> QED
    BY <1>4, <2>1
<1> QED
    BY <1>3, <1>4
-----------------------------------------------------------------------------
(* What is newest.  Positions are counted from the newest, which makes     *)
(* every one older by one when a bar is added.                             *)

Values == Nat \cup {NaN}
Smaller(a, b) == IF a <= b THEN a ELSE b

(* s lists the `cap` newest positions but for the `skip` newest *)
NewestOf(s, positions, skip, cap) ==
    /\ s \in Seq(Values)
    /\ Len(s) = IF Cardinality(positions) <= skip THEN 0
                ELSE Smaller(cap, Cardinality(positions) - skip)
    /\ \A k \in 1 .. Len(s) : \A n \in Nat :
          n = skip + Len(s) + 1 - k => s[k] = NthNewest(positions, n)

(* Positions, all before the one to come *)
Before1(positions, v) ==
    /\ positions \in SUBSET Nat /\ IsFiniteSet(positions) /\ v \in Nat
    /\ \A p \in positions : p < v

(* Each position of P is one older in Q *)
Shifted(P, Q) == \A n, m \in Nat : n >= 1 /\ m = n + 1 => NthNewest(Q, m) = NthNewest(P, n)

(* The position to come is the newest, and the others are one older. *)
LEMMA NthShifts ==
    ASSUME NEW P, NEW v, Before1(P, v)
    PROVE  /\ IsFiniteSet(P \cup {v}) /\ Cardinality(P \cup {v}) = Cardinality(P) + 1
           /\ Cardinality(P) \in Nat
           /\ NthNewest(P \cup {v}, 1) = v
           /\ Shifted(P, P \cup {v})
<1> DEFINE Q == P \cup {v}
           c(i) == Cardinality({j \in P : i <= j})
           d(i) == Cardinality({j \in Q : i <= j})
<1>1. IsFiniteSet(P) /\ v \notin P /\ v \in Nat /\ P \subseteq Nat /\ \A p \in P : p < v
    BY DEF Before1
<1>2. IsFiniteSet(Q) /\ Cardinality(Q) = Cardinality(P) + 1 /\ Cardinality(P) \in Nat
    BY <1>1, FS_AddElement, FS_CardinalityType
<1>3. ASSUME NEW i \in P
      PROVE  c(i) \in Nat /\ c(i) >= 1 /\ d(i) = c(i) + 1
  <2> DEFINE A == {j \in P : i <= j}
             B == {j \in Q : i <= j}
  <2>1. A \subseteq P /\ i \in A
    BY <1>1
  <2>2. B = A \cup {v} /\ v \notin A
    BY <1>1
  <2> HIDE DEF A, B
  <2>3. IsFiniteSet(A)
    BY <1>1, <2>1, FS_Subset
  <2>4. Cardinality(A) \in Nat /\ Cardinality(A) # 0
    BY <2>1, <2>3, FS_CardinalityType, FS_EmptySet
  <2>5. Cardinality(B) = Cardinality(A) + 1
    BY <2>2, <2>3, FS_AddElement
  <2> QED
    BY <2>4, <2>5 DEF A, B
<1>4. d(v) = 1
  <2>1. {j \in Q : v <= j} = {v}
    <3>1. \A j \in P : ~(v <= j)
        BY <1>1
    <3>2. v <= v
        BY <1>1
    <3> QED
        BY <3>1, <3>2
  <2> QED
    BY <2>1, FS_Singleton
<1> HIDE DEF c, d
<1>5. \A n : Ranked(Q, n) = {i \in Q : d(i) = n} /\ Ranked(P, n) = {i \in P : c(i) = n}
    BY DEF Ranked, c, d
<1>6. Ranked(Q, 1) = {v}
  <2>1. \A i \in P : d(i) # 1
    BY <1>3
  <2>2. {i \in Q : d(i) = 1} = {v}
    BY <1>4, <2>1
  <2> QED
    BY <1>5, <2>2
<1>7. ASSUME NEW n \in Nat, NEW m \in Nat, n >= 1, m = n + 1
      PROVE  Ranked(Q, m) = Ranked(P, n)
  <2>1. d(v) # m
    BY <1>4, <1>7
  <2>2. \A i \in P : d(i) = m <=> c(i) = n
    BY <1>3, <1>7
  <2>3. {i \in Q : d(i) = m} = {i \in P : c(i) = n}
    BY <2>1, <2>2
  <2> QED
    BY <1>5, <2>3
<1>8. NthNewest(Q, 1) = v
    BY <1>6 DEF NthNewest
<1>9. Shifted(P, Q)
    BY <1>7, Zenon DEF NthNewest, Shifted
<1> QED
    BY <1>2, <1>8, <1>9

(* A bounded deque keeps the end of what was put into it. *)
LEMMA BoundedIs ==
    ASSUME NEW S, NEW s \in Seq(S), NEW n \in Nat \ {0}
    PROVE  /\ Bounded(n, s) \in Seq(S)
           /\ Len(Bounded(n, s)) = Smaller(n, Len(s))
           /\ \A k \in 1 .. Len(Bounded(n, s)) : \A m \in Nat :
                 m = Len(s) - Len(Bounded(n, s)) + k => Bounded(n, s)[k] = s[m]
<1>1. Len(s) \in Nat
    OBVIOUS
<1>2. CASE Len(s) > n
  <2> DEFINE a == Len(s) - n + 1
             b == Len(s)
  <2>1. a \in Int /\ b \in Int /\ a <= b /\ b - a + 1 = n /\ a >= 1
    BY <1>1, <1>2
  <2>2. \A i \in a .. b : s[i] \in S
    BY <1>1, <2>1
  <2>3. Bounded(n, s) = SubSeq(s, a, b)
    BY <1>2 DEF Bounded, Newest
  <2> HIDE DEF a, b
  <2>4. /\ SubSeq(s, a, b) \in Seq(S) /\ Len(SubSeq(s, a, b)) = n
        /\ \A i \in 1 .. n : SubSeq(s, a, b)[i] = s[a + i - 1]
    BY <2>1, <2>2, SubSeqProperties
  <2> QED
    BY <1>1, <1>2, <2>3, <2>4 DEF Smaller, a
<1>3. CASE ~(Len(s) > n)
  <2>1. Bounded(n, s) = s
    BY <1>3 DEF Bounded
  <2> QED
    BY <1>1, <1>3, <2>1 DEF Smaller
<1> QED
    BY <1>2, <1>3

(* A bar enters the deque of the newest. *)
LEMMA PushNewest ==
    ASSUME NEW P, NEW v, Before1(P, v), NEW cap \in Nat \ {0},
           NEW s, NewestOf(s, P, 0, cap)
    PROVE  NewestOf(Bounded(cap, Append(s, v)), P \cup {v}, 0, cap)
<1> DEFINE Q == P \cup {v}
           t == Append(s, v)
           b == Bounded(cap, t)
<1>0. Cardinality(P) \in Nat /\ Cardinality(Q) = Cardinality(P) + 1
    BY NthShifts
<1>1. /\ NthNewest(Q, 1) = v
      /\ \A n, m \in Nat : n >= 1 /\ m = n + 1 => NthNewest(Q, m) = NthNewest(P, n)
  <2>1. NthNewest(Q, 1) = v /\ Shifted(P, Q)
    BY NthShifts
  <2> QED
    BY <2>1 DEF Shifted
<1>2. s \in Seq(Values) /\ v \in Values
    BY DEF NewestOf, Before1, Values
<1>3. Len(s) \in Nat /\ Len(s) = Smaller(cap, Cardinality(P))
  <2>1. Len(s) \in Nat
    BY <1>2
  <2>2. Len(s) = IF Cardinality(P) <= 0 THEN 0 ELSE Smaller(cap, Cardinality(P) - 0)
    BY DEF NewestOf
  <2> QED
    BY <1>0, <2>1, <2>2 DEF Smaller
<1>4. \A k \in 1 .. Len(s) : \A n \in Nat : n = Len(s) + 1 - k => s[k] = NthNewest(P, n)
    BY <1>3 DEF NewestOf
<1>5. t \in Seq(Values) /\ Len(t) = Len(s) + 1 /\ t[Len(s) + 1] = v
      /\ \A k \in 1 .. Len(s) : t[k] = s[k]
    BY <1>2, <1>3
<1> HIDE DEF t
<1>6. /\ b \in Seq(Values) /\ Len(b) = Smaller(cap, Len(t))
      /\ \A k \in 1 .. Len(b) : \A m \in Nat : m = Len(t) - Len(b) + k => b[k] = t[m]
    BY <1>5, BoundedIs
<1> HIDE DEF b, Q
<1>7. Len(b) = Smaller(cap, Cardinality(Q)) /\ Len(b) \in Nat /\ Len(b) <= Len(t)
  <2>1. Len(b) = Smaller(cap, Len(t)) /\ Len(t) = Len(s) + 1
    BY <1>5, <1>6
  <2> QED
    BY <1>0, <1>3, <2>1 DEF Smaller
<1>8. ASSUME NEW k \in 1 .. Len(b), NEW n \in Nat, n = 0 + Len(b) + 1 - k
      PROVE  b[k] = NthNewest(Q, n)
  <2> DEFINE m == Len(t) - Len(b) + k
  <2>1. m \in Nat /\ m >= 1 /\ m <= Len(s) + 1
    BY <1>3, <1>5, <1>7
  <2>2. b[k] = t[m]
    BY <1>6, <2>1
  <2>3. m = Len(s) + 2 - n
    BY <1>3, <1>5, <1>7, <1>8
  <2> HIDE DEF m
  <2>4. CASE n = 1
    <3>1. m = Len(s) + 1
        BY <1>3, <2>1, <2>3, <2>4
    <3> QED
        BY <1>1, <1>5, <2>2, <2>4, <3>1
  <2>5. CASE n # 1
    <3> DEFINE l == n - 1
    <3>1. n >= 1
        BY <1>7, <1>8
    <3>2. l \in Nat /\ l >= 1 /\ n = l + 1
        BY <2>5, <3>1
    <3>3. m \in 1 .. Len(s) /\ l = Len(s) + 1 - m
        BY <1>3, <2>1, <2>3, <3>2
    <3> HIDE DEF l
    <3>4. s[m] = NthNewest(P, l)
        BY <1>4, <3>2, <3>3
    <3>5. NthNewest(Q, n) = NthNewest(P, l)
        BY <1>1, <3>2
    <3> QED
        BY <1>5, <2>2, <3>3, <3>4, <3>5
  <2> QED
    BY <2>4, <2>5
<1>9. Len(b) = IF Cardinality(Q) <= 0 THEN 0 ELSE Smaller(cap, Cardinality(Q) - 0)
    BY <1>0, <1>7 DEF Smaller
<1>10. NewestOf(b, Q, 0, cap)
    BY <1>6, <1>8, <1>9 DEF NewestOf
<1> QED
    BY <1>10 DEF b, Q, t

(* The bar that leaves the lag deque enters the window behind it. *)
LEMMA PushLagged ==
    ASSUME NEW P, NEW v, Before1(P, v), NEW lag \in Nat \ {0}, NEW cap \in Nat \ {0},
           NEW buf, NewestOf(buf, P, 0, lag), NEW w, NewestOf(w, P, lag, cap)
    PROVE  NewestOf(IF Len(buf) = lag THEN Bounded(cap, Append(w, Head(buf))) ELSE w,
                    P \cup {v}, lag, cap)
<1> DEFINE Q == P \cup {v}
<1>0. Cardinality(P) \in Nat /\ Cardinality(Q) = Cardinality(P) + 1
    BY NthShifts
<1>1. \A n, m \in Nat : n >= 1 /\ m = n + 1 => NthNewest(Q, m) = NthNewest(P, n)
  <2>1. Shifted(P, Q)
    BY NthShifts
  <2> QED
    BY <2>1 DEF Shifted
<1>2. buf \in Seq(Values) /\ w \in Seq(Values) /\ Len(buf) \in Nat /\ Len(w) \in Nat
    BY DEF NewestOf
<1>3. Len(buf) = Smaller(lag, Cardinality(P))
  <2>1. Len(buf) = IF Cardinality(P) <= 0 THEN 0 ELSE Smaller(lag, Cardinality(P) - 0)
    BY DEF NewestOf
  <2> QED
    BY <1>0, <2>1 DEF Smaller
<1>4. \A k \in 1 .. Len(buf) : \A n \in Nat : n = Len(buf) + 1 - k => buf[k] = NthNewest(P, n)
    BY <1>2 DEF NewestOf
<1>5. /\ Len(w) = IF Cardinality(P) <= lag THEN 0 ELSE Smaller(cap, Cardinality(P) - lag)
      /\ \A k \in 1 .. Len(w) : \A n \in Nat :
            n = lag + Len(w) + 1 - k => w[k] = NthNewest(P, n)
    BY DEF NewestOf
<1> HIDE DEF Q
<1>6. CASE Len(buf) = lag
  <2> DEFINE h == Head(buf)
             t == Append(w, h)
             b == Bounded(cap, t)
  <2>1. lag <= Cardinality(P)
    BY <1>0, <1>3, <1>6 DEF Smaller
  <2>2. h = buf[1] /\ 1 \in 1 .. Len(buf) /\ h \in Values
    BY <1>2, <1>6
  <2>3. h = NthNewest(P, lag)
    <3>1. lag \in Nat /\ lag = Len(buf) + 1 - 1
        BY <1>6
    <3> QED
        BY <1>4, <2>2, <3>1
  <2> HIDE DEF h
  <2>4. t \in Seq(Values) /\ Len(t) = Len(w) + 1 /\ t[Len(w) + 1] = h
        /\ \A k \in 1 .. Len(w) : t[k] = w[k]
    BY <1>2, <2>2
  <2> HIDE DEF t
  <2>5. /\ b \in Seq(Values) /\ Len(b) = Smaller(cap, Len(t))
        /\ \A k \in 1 .. Len(b) : \A m \in Nat : m = Len(t) - Len(b) + k => b[k] = t[m]
    BY <2>4, BoundedIs
  <2> HIDE DEF b
  <2>6. Len(w) = Smaller(cap, Cardinality(P) - lag)
    <3>1. Len(w) = IF Cardinality(P) <= lag THEN 0 ELSE Smaller(cap, Cardinality(P) - lag)
        BY <1>5
    <3> QED
        BY <1>0, <2>1, <3>1 DEF Smaller
  <2>7. /\ Len(b) = IF Cardinality(Q) <= lag THEN 0 ELSE Smaller(cap, Cardinality(Q) - lag)
        /\ Len(b) \in Nat /\ Len(b) <= Len(t)
    <3>1. Len(b) = Smaller(cap, Len(t)) /\ Len(t) = Len(w) + 1 /\ Len(w) \in Nat
        BY <1>2, <2>4, <2>5
    <3> QED
        BY <1>0, <2>1, <2>6, <3>1 DEF Smaller
  <2>8. ASSUME NEW k \in 1 .. Len(b), NEW n \in Nat, n = lag + Len(b) + 1 - k
        PROVE  b[k] = NthNewest(Q, n)
    <3> DEFINE m == Len(t) - Len(b) + k
               l == n - 1
    <3>1. m \in Nat /\ m >= 1 /\ m <= Len(w) + 1
        BY <1>2, <2>4, <2>7
    <3>2. b[k] = t[m]
        BY <2>5, <3>1
    <3>3. m = lag + Len(w) + 2 - n
      <4>1. Len(t) = Len(w) + 1 /\ Len(w) \in Nat /\ Len(b) \in Nat
        BY <1>2, <2>4, <2>7
      <4> QED
        BY <2>8, <4>1
    <3>4. l \in Nat /\ l >= 1 /\ n = l + 1
        BY <2>7, <2>8
    <3> HIDE DEF m, l
    <3>5. NthNewest(Q, n) = NthNewest(P, l)
        BY <1>1, <3>4
    <3>6. CASE m = Len(w) + 1
      <4>1. l = lag
        BY <1>2, <3>3, <3>4, <3>6
      <4> QED
        BY <2>3, <2>4, <3>2, <3>5, <3>6, <4>1
    <3>7. CASE m # Len(w) + 1
      <4>1. m \in 1 .. Len(w) /\ l = lag + Len(w) + 1 - m
        BY <1>2, <3>1, <3>3, <3>4, <3>7
      <4>2. w[m] = NthNewest(P, l)
        BY <1>5, <3>4, <4>1
      <4> QED
        BY <2>4, <3>2, <3>5, <4>1, <4>2
    <3> QED
        BY <3>6, <3>7
  <2>9. NewestOf(b, Q, lag, cap)
    BY <2>5, <2>7, <2>8 DEF NewestOf
  <2> QED
    BY <1>6, <2>9 DEF b, t, h, Q
<1>7. CASE Len(buf) # lag
  <2>1. Cardinality(P) < lag
    BY <1>0, <1>3, <1>7 DEF Smaller
  <2>2. Len(w) = 0 /\ Cardinality(Q) <= lag
    <3>1. Len(w) = IF Cardinality(P) <= lag THEN 0 ELSE Smaller(cap, Cardinality(P) - lag)
        BY <1>5
    <3> QED
        BY <1>0, <2>1, <3>1
  <2>3. NewestOf(w, Q, lag, cap)
    BY <1>2, <2>2 DEF NewestOf
  <2> QED
    BY <1>7, <2>3 DEF Q
<1> QED
    BY <1>6, <1>7

(* Nothing is newest of nothing. *)
LEMMA NewestOfNone ==
    ASSUME NEW skip \in Nat, NEW cap \in Nat
    PROVE  NewestOf(<<>>, {}, skip, cap)
<1>1. Cardinality({}) = 0
    BY FS_EmptySet
<1>2. <<>> \in Seq(Values) /\ Len(<<>>) = 0
    OBVIOUS
<1> QED
    BY <1>1, <1>2 DEF NewestOf

(* A full window is what the definition of the feature asks for. *)
LEMMA FullIsLagged ==
    ASSUME NEW f \in FeatureSpec, NEW P, NEW w, NewestOf(w, P, f.lag, f.window),
           Cardinality(P) \in Nat
    PROVE  Lagged(f, P) = IF Cardinality(P) < f.lag + f.window THEN NaN ELSE w
<1> DEFINE lag == f.lag
           cap == f.window
<1>1. lag \in Nat /\ cap \in Nat \ {0}
    BY DEF FeatureSpec
<1>2. Lagged(f, P) = IF Cardinality(P) < lag + cap THEN NaN
                     ELSE [k \in 1 .. cap |-> NthNewest(P, lag + cap + 1 - k)]
    BY DEF Lagged
<1>3. /\ w \in Seq(Values)
      /\ Len(w) = IF Cardinality(P) <= lag THEN 0 ELSE Smaller(cap, Cardinality(P) - lag)
      /\ \A k \in 1 .. Len(w) : \A n \in Nat :
            n = lag + Len(w) + 1 - k => w[k] = NthNewest(P, n)
    BY DEF NewestOf
<1> HIDE DEF lag, cap
<1>4. CASE ~(Cardinality(P) < lag + cap)
  <2>1. Len(w) = cap
    BY <1>1, <1>3, <1>4 DEF Smaller
  <2>2. \A k \in 1 .. cap : w[k] = NthNewest(P, lag + cap + 1 - k)
    <3> SUFFICES ASSUME NEW k \in 1 .. cap PROVE w[k] = NthNewest(P, lag + cap + 1 - k)
        OBVIOUS
    <3> DEFINE n == lag + cap + 1 - k
    <3>1. n \in Nat /\ n = lag + Len(w) + 1 - k /\ k \in 1 .. Len(w)
        BY <1>1, <2>1
    <3> HIDE DEF n
    <3>2. w[k] = NthNewest(P, n)
        BY <1>3, <3>1
    <3> QED
        BY <3>2 DEF n
  <2>3. w = [k \in 1 .. cap |-> w[k]]
    BY <1>3, <2>1
  <2>4. w = [k \in 1 .. cap |-> NthNewest(P, lag + cap + 1 - k)]
    BY <2>2, <2>3
  <2> QED
    BY <1>2, <1>4, <2>4 DEF lag, cap
<1> QED
    BY <1>2, <1>4 DEF lag, cap

(* What a batch feature computes from is its window behind the lag. *)
LEMMA BatchIsLagged ==
    ASSUME NEW f \in FeatureSpec, NEW P, NEW s, NewestOf(s, P, 0, f.lag + f.window),
           Cardinality(P) \in Nat
    PROVE  LET arr == SubSeq(s, 1, Len(s) - f.lag)
           IN  Lagged(f, P) = IF Len(arr) < f.window THEN NaN ELSE Newest(f.window, arr)
<1> DEFINE lag == f.lag
           cap == f.window
           size == lag + cap
           arr == SubSeq(s, 1, Len(s) - lag)
<1>1. lag \in Nat /\ cap \in Nat \ {0} /\ size \in Nat /\ size >= 1
    BY DEF FeatureSpec
<1>2. Lagged(f, P) = IF Cardinality(P) < size THEN NaN
                     ELSE [k \in 1 .. cap |-> NthNewest(P, size + 1 - k)]
    BY DEF Lagged
<1>3. s \in Seq(Values) /\ Len(s) \in Nat
    BY DEF NewestOf
<1>4. Len(s) = Smaller(size, Cardinality(P))
  <2>1. Len(s) = IF Cardinality(P) <= 0 THEN 0 ELSE Smaller(size, Cardinality(P) - 0)
    BY DEF NewestOf
  <2> QED
    BY <1>1, <2>1 DEF Smaller
<1>5. \A k \in 1 .. Len(s) : \A n \in Nat : n = Len(s) + 1 - k => s[k] = NthNewest(P, n)
    BY <1>3 DEF NewestOf
<1>6. /\ arr \in Seq(Values)
      /\ Len(arr) = IF 1 <= Len(s) - lag THEN Len(s) - lag ELSE 0
      /\ \A i \in 1 .. Len(s) - lag : arr[i] = s[i]
  <2> DEFINE b == Len(s) - lag
  <2>1. b \in Int /\ 1 \in Int /\ b - 1 + 1 = b /\ \A i \in 1 .. b : 1 + i - 1 = i
    BY <1>1, <1>3
  <2>2. \A i \in 1 .. b : s[i] \in Values
    BY <1>1, <1>3
  <2> HIDE DEF b
  <2>3. /\ SubSeq(s, 1, b) \in Seq(Values)
        /\ Len(SubSeq(s, 1, b)) = IF 1 <= b THEN b - 1 + 1 ELSE 0
        /\ \A i \in 1 .. b - 1 + 1 : SubSeq(s, 1, b)[i] = s[1 + i - 1]
    BY <2>1, <2>2, SubSeqProperties
  <2> QED
    BY <2>1, <2>3 DEF b
<1> HIDE DEF arr, size
<1>7. Len(arr) < cap <=> Cardinality(P) < size
  <2>1. Len(arr) = IF 1 <= Len(s) - lag THEN Len(s) - lag ELSE 0
    BY <1>6
  <2> HIDE DEF lag, cap
  <2> QED
    BY <1>1, <1>4, <2>1 DEF Smaller, size
<1>8. CASE ~(Cardinality(P) < size)
  <2>1. Len(s) = size /\ Len(s) - lag = cap /\ Len(arr) = cap
    <3>1. Len(arr) = IF 1 <= Len(s) - lag THEN Len(s) - lag ELSE 0
        BY <1>6
    <3> HIDE DEF lag, cap
    <3> QED
        BY <1>1, <1>4, <1>8, <3>1 DEF Smaller, size
  <2>2. \A k \in 1 .. cap : arr[k] = NthNewest(P, size + 1 - k)
    <3> SUFFICES ASSUME NEW k \in 1 .. cap PROVE arr[k] = NthNewest(P, size + 1 - k)
        OBVIOUS
    <3> DEFINE n == size + 1 - k
    <3>1. arr[k] = s[k]
        BY <1>6, <2>1
    <3>2. n \in Nat /\ n = Len(s) + 1 - k /\ k \in 1 .. Len(s)
        BY <1>1, <2>1 DEF size
    <3> HIDE DEF n
    <3>3. s[k] = NthNewest(P, n)
        BY <1>5, <3>2
    <3> QED
        BY <3>1, <3>3 DEF n
  <2>3. Newest(cap, arr) = [k \in 1 .. cap |-> arr[k]]
    <3>1. Newest(cap, arr) = SubSeq(arr, 1, cap)
      <4>1. Len(arr) - cap + 1 = 1
        BY <1>1, <2>1
      <4>2. Newest(cap, arr) = SubSeq(arr, Len(arr) - cap + 1, Len(arr))
        BY DEF Newest
      <4> QED
        BY <2>1, <4>1, <4>2
    <3>2. SubSeq(arr, 1, cap) = arr
        BY <1>6, <2>1, SubSeqFull
    <3>3. arr = [k \in 1 .. cap |-> arr[k]]
        BY <1>6, <2>1
    <3> QED
        BY <3>1, <3>2, <3>3
  <2>4. Newest(cap, arr) = [k \in 1 .. cap |-> NthNewest(P, size + 1 - k)]
    BY <2>2, <2>3
  <2> QED
    BY <1>2, <1>7, <1>8, <2>4 DEF arr
<1> QED
    BY <1>2, <1>7, <1>8 DEF arr

-----------------------------------------------------------------------------
(* The feed.                                                               *)

BarSet == [segment : 1 .. 2, valid : BOOLEAN]

FeedOK ==
    /\ bars \in Seq(BarSet)
    /\ since \in 0 .. Len(bars)

(* The valid bars since the last reset, and those of the segment under way *)
PresentSeen == Present(Seen)
PresentHere == Present(ThisSegment)

SegmentNow == IF since < Len(bars) THEN bars[Len(bars)].segment ELSE NaN

(* A position enters the positions if its bar is valid. *)
Entered(positions, bar, v) == IF bar.valid THEN positions \cup {v} ELSE positions

(* A bar arrives. *)
LEMMA FeedGrows ==
    ASSUME FeedOK, NEW bar \in BarSet, bars' = Append(bars, bar), since' = since
    PROVE  /\ FeedOK'
           /\ Len(bars') = Len(bars) + 1 /\ Len(bars) \in Nat /\ since \in Nat
           /\ since' < Len(bars')
           /\ bars'[Len(bars) + 1] = bar
           /\ \A i \in 1 .. Len(bars) : bars'[i] = bars[i]
           /\ SegmentNow' = bar.segment
<1>1. Len(bars) \in Nat /\ since \in Nat /\ since <= Len(bars) /\ bars \in Seq(BarSet)
    BY DEF FeedOK
<1>2. bars' \in Seq(BarSet) /\ Len(bars') = Len(bars) + 1 /\ bars'[Len(bars) + 1] = bar
      /\ \A i \in 1 .. Len(bars) : bars'[i] = bars[i]
    BY <1>1
<1>3. since' \in 0 .. Len(bars') /\ since' < Len(bars')
    BY <1>1, <1>2
<1> QED
    BY <1>1, <1>2, <1>3 DEF FeedOK, SegmentNow

(* All positions are before the one to come. *)
LEMMA PresentAreBefore ==
    ASSUME FeedOK
    PROVE  /\ Before1(PresentSeen, Len(bars) + 1) /\ Before1(PresentHere, Len(bars) + 1)
           /\ Before1({}, Len(bars) + 1)
           /\ Cardinality(PresentSeen) <= Len(bars) - since
<1>1. Len(bars) \in Nat /\ since \in Nat /\ since <= Len(bars)
    BY DEF FeedOK
<1> DEFINE n == Len(bars)
           R == since + 1 .. n
<1>2. IsFiniteSet(R) /\ Cardinality(R) = n - since
  <2>1. since + 1 \in Int /\ n \in Int
    BY <1>1
  <2>2. IsFiniteSet(R) /\ Cardinality(R) = IF since + 1 > n THEN 0 ELSE n - (since + 1) + 1
    BY <2>1, FS_Interval
  <2> QED
    BY <1>1, <2>2
<1>3. PresentSeen \subseteq R /\ PresentHere \subseteq R
    BY DEF PresentSeen, PresentHere, Present, Seen, ThisSegment
<1>4. \A p \in R : p \in Nat /\ p < n + 1
    BY <1>1
<1> HIDE DEF R
<1>5. IsFiniteSet(PresentSeen) /\ IsFiniteSet(PresentHere) /\ IsFiniteSet({})
      /\ Cardinality(PresentSeen) <= n - since
    BY <1>2, <1>3, FS_Subset, FS_EmptySet
<1>6. n + 1 \in Nat
    BY <1>1
<1>7. /\ PresentSeen \in SUBSET Nat /\ PresentHere \in SUBSET Nat
      /\ \A p \in PresentSeen : p < n + 1
      /\ \A p \in PresentHere : p < n + 1
    BY <1>3, <1>4
<1> HIDE DEF n
<1>8. Before1(PresentSeen, n + 1) /\ Before1(PresentHere, n + 1) /\ Before1({}, n + 1)
    BY <1>5, <1>6, <1>7 DEF Before1
<1> QED
    BY <1>5, <1>8 DEF n

(* The positions after a bar. *)
LEMMA PresentGrow ==
    ASSUME FeedOK, NEW bar \in BarSet, bars' = Append(bars, bar), since' = since
    PROVE  /\ PresentSeen' = Entered(PresentSeen, bar, Len(bars) + 1)
           /\ SegmentNow \in {NaN, bar.segment} =>
                 PresentHere' = Entered(PresentHere, bar, Len(bars) + 1)
           /\ SegmentNow \notin {NaN, bar.segment} =>
                 PresentHere' = Entered({}, bar, Len(bars) + 1)
<1> DEFINE n == Len(bars)
           new == n + 1
           B == bars'
<1>1. /\ Len(B) = new /\ n \in Nat /\ since \in Nat /\ since <= n
      /\ B[new] = bar
      /\ \A i \in 1 .. n : B[i] = bars[i]
    BY FeedGrows DEF FeedOK
<1>2. PresentSeen = {i \in since + 1 .. n : bars[i].valid}
      /\ PresentSeen' = {i \in since + 1 .. new : B[i].valid}
    BY <1>1 DEF PresentSeen, Present, Seen
<1>3. /\ PresentHere = {i \in {k \in since + 1 .. n :
                                 \A j \in k .. n : bars[j].segment = bars[k].segment} :
                          bars[i].valid}
      /\ PresentHere' = {i \in {k \in since + 1 .. new :
                                  \A j \in k .. new : B[j].segment = B[k].segment} :
                           B[i].valid}
    BY <1>1 DEF PresentHere, Present, ThisSegment, Seen
<1> HIDE DEF B
<1>4. \A i : i \in since + 1 .. new <=> i \in since + 1 .. n \/ i = new
    BY <1>1
<1>5. \A i \in since + 1 .. n : i \in 1 .. n /\ i # new /\ i \in i .. n /\ n \in i .. n /\ new \in i .. new
    BY <1>1
<1>6. PresentSeen' = Entered(PresentSeen, bar, new)
  <2>1. \A i \in since + 1 .. n : B[i] = bars[i]
    BY <1>1, <1>5
  <2> HIDE DEF n, new
  <2>2. \A i : i \in PresentSeen' <=> i \in PresentSeen \/ (i = new /\ bar.valid)
    BY <1>1, <1>2, <1>4, <2>1
  <2> QED
    BY <2>2 DEF Entered
<1>7. ASSUME NEW k \in since + 1 .. n
      PROVE  /\ (\A j \in k .. new : B[j].segment = B[k].segment) <=>
                   /\ \A j \in k .. n : bars[j].segment = bars[k].segment
                   /\ bars[n].segment = bar.segment
             /\ B[k].valid = bars[k].valid
  <2>1. \A j : j \in k .. new <=> j \in k .. n \/ j = new
    BY <1>1
  <2>2. \A j \in k .. n : B[j] = bars[j]
    BY <1>1
  <2>3. B[k] = bars[k] /\ n \in k .. n /\ k \in k .. n
    BY <1>1
  <2> HIDE DEF n, new
  <2>4. B[new] = bar
    BY <1>1
  <2> QED
    BY <2>1, <2>2, <2>3, <2>4
<1>8. \A j \in new .. new : B[j].segment = B[new].segment
    BY <1>1
<1>9. \A i : i \in PresentHere' <=>
         \/ i \in PresentHere /\ bars[n].segment = bar.segment
         \/ i = new /\ bar.valid
  <2> HIDE DEF n, new
  <2>1. B[new] = bar /\ new \in since + 1 .. new
    BY <1>1, <1>4
  <2>2. \A i \in since + 1 .. n : i \in PresentHere' <=>
            i \in PresentHere /\ bars[n].segment = bar.segment
    BY <1>3, <1>4, <1>7
  <2>3. new \in PresentHere' <=> bar.valid
    BY <1>3, <1>8, <2>1
  <2>4. new \notin PresentHere
    BY <1>3, <1>5
  <2>5. \A i : i \in PresentHere => i \in since + 1 .. n
    BY <1>3
  <2>6. \A i : i \in PresentHere' => i \in since + 1 .. n \/ i = new
    BY <1>3, <1>4
  <2> QED
    BY <2>2, <2>3, <2>4, <2>5, <2>6
<1>10. CASE since < n
  <2>1. SegmentNow = bars[n].segment /\ bars[n].segment \in Nat
    <3>1. n \in 1 .. n /\ bars \in Seq(BarSet)
        BY <1>1, <1>10 DEF FeedOK
    <3>2. bars[n] \in BarSet
        BY <3>1
    <3> QED
        BY <1>10, <3>2 DEF SegmentNow, BarSet
  <2>2. SegmentNow # NaN
    BY <2>1, ConstantsAre
  <2> HIDE DEF n, new
  <2> QED
    BY <1>6, <1>9, <2>1, <2>2 DEF Entered, n, new
<1>11. CASE ~(since < n)
  <2>1. PresentHere = {} /\ SegmentNow = NaN
    <3>1. since + 1 .. n = {}
        BY <1>1, <1>11
    <3> QED
        BY <1>3, <1>11, <3>1 DEF SegmentNow
  <2> HIDE DEF n, new
  <2> QED
    BY <1>6, <1>9, <2>1 DEF Entered, n, new
<1> QED
    BY <1>10, <1>11

-----------------------------------------------------------------------------
(* The features, kind by kind.                                             *)

FeatureState == [buf : Seq(Values), window : Seq(Values), n : Nat, segment : {NaN} \cup 1 .. 2]

ValueAt(i) == IF bars[i].valid THEN i ELSE NaN

RollingOK(f, st) ==
    /\ st.segment = SegmentNow
    /\ st.n = Cardinality(PresentHere)
    /\ NewestOf(st.buf, PresentHere, 0, f.lag)
    /\ NewestOf(st.window, PresentHere, f.lag, f.window)

BatchOK(f, st) ==
    /\ st.n = Len(bars) - since
    /\ NewestOf(st.buf, PresentSeen, 0, f.lag + f.window)

LagOK(f, st) ==
    /\ Len(st.buf) = Smaller(f.lag, Len(bars) - since)
    /\ \A k \in 1 .. Len(st.buf) : \A i \in Nat :
          i = Len(bars) - Len(st.buf) + k => st.buf[k] = ValueAt(i)

StateOK(f, st) ==
    /\ st \in FeatureState
    /\ f.kind = "rolling" => RollingOK(f, st)
    /\ f.kind = "batch" => BatchOK(f, st)
    /\ f.kind \in {"lag", "identity"} /\ f.lag >= 1 => LagOK(f, st)

(* What the code makes of each kind: the batch and lag features, which do  *)
(* not look at the segment, over all the bars since the last reset         *)
FeedReference(f) ==
    LET now == Len(bars)
    IN  CASE f.kind = "rolling" /\ bars[now].valid -> Lagged(f, Present(ThisSegment))
          [] f.kind = "batch" /\ bars[now].valid -> Lagged(f, Present(Seen))
          [] f.kind \in {"lag", "identity"} /\ now - f.lag > since /\ bars[now - f.lag].valid ->
                 <<now - f.lag>>
          [] OTHER -> NaN

(* What each kind is meant to be at the bar that arrives. *)
LEMMA ReferenceNow ==
    ASSUME FeedOK, NEW bar \in BarSet, bars' = Append(bars, bar), since' = since,
           NEW f \in FeatureSpec, NEW i, i = Len(bars) + 1 - f.lag
    PROVE  /\ f.kind = "rolling" =>
                 FeedReference(f)' = IF bar.valid THEN Lagged(f, PresentHere') ELSE NaN
           /\ f.kind = "batch" =>
                 FeedReference(f)' = IF bar.valid THEN Lagged(f, PresentSeen') ELSE NaN
           /\ f.kind \in {"lag", "identity"} =>
                 FeedReference(f)' =
                    IF i > since /\ bars'[i].valid THEN <<i>> ELSE NaN
<1>1. Len(bars') = Len(bars) + 1 /\ bars'[Len(bars')] = bar
    BY FeedGrows
<1>2. PresentHere' = (Present(ThisSegment))' /\ PresentSeen' = (Present(Seen))'
    BY DEF PresentHere, PresentSeen
<1>3. CASE f.kind = "rolling"
    BY <1>1, <1>2, <1>3 DEF FeedReference
<1>4. CASE f.kind = "batch"
    BY <1>1, <1>2, <1>4 DEF FeedReference
<1>5. CASE f.kind \in {"lag", "identity"}
  <2>1. Len(bars') - f.lag = i
    <3>1. f.lag \in Nat /\ Len(bars) \in Nat
        BY FeedGrows DEF FeatureSpec
    <3> QED
        BY <1>1, <3>1
  <2>2. f.kind # "rolling" /\ f.kind # "batch"
    BY <1>5
  <2>3. FeedReference(f)' = IF Len(bars') - f.lag > since' /\ bars'[Len(bars') - f.lag].valid
                        THEN <<Len(bars') - f.lag>> ELSE NaN
    BY <1>5, <2>2, Zenon DEF FeedReference
  <2>4. FeedReference(f)' = IF i > since' /\ bars'[i].valid THEN <<i>> ELSE NaN
    BY <2>1, <2>3, Zenon
  <2> QED
    BY <1>5, <2>2, <2>4, Zenon
<1> QED
    BY <1>3, <1>4, <1>5

LEMMA FreshIsState ==
    Fresh \in FeatureState /\ Fresh.buf = <<>> /\ Fresh.window = <<>> /\ Fresh.n = 0
    /\ Fresh.segment = NaN
BY DEF Fresh, FeatureState

(* A bar through a rolling feature. *)
LEMMA RollingKeeps ==
    ASSUME FeedOK, NEW bar \in BarSet, bars' = Append(bars, bar), since' = since,
           NEW f \in FeatureSpec, f.kind = "rolling", f.lag >= 1,
           NEW st \in FeatureState, RollingOK(f, st),
           NEW v, v = IF bar.valid THEN Len(bars) + 1 ELSE NaN,
           NEW e, e = UpdateRolling(f, st, bar, v)
    PROVE  e.state \in FeatureState /\ RollingOK(f, e.state)' /\ e.out = FeedReference(f)'
<1> DEFINE n == Len(bars)
           old == IF SegmentChanged(st, bar) THEN Fresh ELSE st
           kept == [old EXCEPT !.segment = bar.segment]
           lag == f.lag
           cap == f.window
<1>1. lag \in Nat \ {0} /\ cap \in Nat \ {0} /\ bar.segment \in 1 .. 2 /\ bar.valid \in BOOLEAN
    BY DEF FeatureSpec, BarSet
<1>2. n \in Nat /\ n + 1 \in Nat /\ n + 1 # NaN
  <2>1. n \in Nat
    BY FeedGrows
  <2> QED
    BY <2>1, ConstantsAre
<1>3. SegmentNow' = bar.segment
    BY FeedGrows
<1>4. PICK P : P = IF SegmentChanged(st, bar) THEN {} ELSE PresentHere
    OBVIOUS
<1>5. /\ Before1(P, n + 1) /\ PresentHere' = Entered(P, bar, n + 1)
      /\ old \in FeatureState /\ old.n = Cardinality(P)
      /\ NewestOf(old.buf, P, 0, lag) /\ NewestOf(old.window, P, lag, cap)
  <2>1. CASE SegmentChanged(st, bar)
    <3>1. SegmentNow \notin {NaN, bar.segment}
        BY <2>1 DEF RollingOK, SegmentChanged
    <3>2. PresentHere' = Entered({}, bar, n + 1)
        BY <3>1, PresentGrow
    <3>3. P = {} /\ old = Fresh
        BY <1>4, <2>1
    <3>4. NewestOf(<<>>, {}, 0, lag) /\ NewestOf(<<>>, {}, lag, cap)
        BY <1>1, NewestOfNone
    <3>5. Cardinality({}) = 0
        BY FS_EmptySet
    <3>6. Before1({}, n + 1)
        BY PresentAreBefore
    <3> HIDE DEF old
    <3> QED
        BY <3>2, <3>3, <3>4, <3>5, <3>6, FreshIsState
  <2>2. CASE ~SegmentChanged(st, bar)
    <3>1. SegmentNow \in {NaN, bar.segment}
        BY <2>2 DEF RollingOK, SegmentChanged
    <3>2. PresentHere' = Entered(PresentHere, bar, n + 1)
        BY <3>1, PresentGrow
    <3>3. P = PresentHere /\ old = st
        BY <1>4, <2>2
    <3>4. Before1(PresentHere, n + 1)
        BY PresentAreBefore
    <3> HIDE DEF old
    <3> QED
        BY <3>2, <3>3, <3>4 DEF RollingOK
  <2> QED
    BY <2>1, <2>2
<1>6. Cardinality(P) \in Nat
    BY <1>5, FS_CardinalityType DEF Before1
<1>7. CASE ~bar.valid
  <2>1. v = NaN /\ PresentHere' = P
    BY <1>5, <1>7 DEF Entered
  <2>2. e = [state |-> kept, out |-> NaN]
    BY <2>1 DEF UpdateRolling, Emit
  <2>3. FeedReference(f)' = NaN
    BY <1>7, ReferenceNow
  <2> HIDE DEF old
  <2>4. /\ kept \in FeatureState /\ kept.segment = bar.segment /\ kept.n = old.n
        /\ kept.buf = old.buf /\ kept.window = old.window
    BY <1>1, <1>5 DEF FeatureState
  <2> HIDE DEF kept
  <2>5. RollingOK(f, kept)'
    BY <1>3, <1>5, <2>1, <2>4 DEF RollingOK
  <2>6. e.state = kept /\ e.out = NaN
    BY <2>2
  <2> QED
    BY <2>3, <2>4, <2>5, <2>6
<1>8. CASE bar.valid
  <2> DEFINE Q == P \cup {v}
             w == IF Len(old.buf) = lag THEN Bounded(cap, Append(old.window, Head(old.buf)))
                  ELSE old.window
             b == Bounded(lag, Append(old.buf, v))
             m == old.n + 1
             new == [kept EXCEPT !.window = w, !.buf = b, !.n = m]
  <2>1. v = n + 1 /\ v # NaN /\ PresentHere' = Q
    BY <1>2, <1>5, <1>8 DEF Entered
  <2>2. Before1(P, v)
    BY <1>5, <2>1
  <2>3. NewestOf(b, Q, 0, lag)
    <3> HIDE DEF old, lag
    <3> QED
        BY <1>1, <1>5, <2>2, PushNewest
  <2>4. NewestOf(w, Q, lag, cap)
    <3> HIDE DEF old, lag, cap
    <3> QED
        BY <1>1, <1>5, <2>2, PushLagged
  <2>5. Cardinality(Q) = Cardinality(P) + 1
    BY <2>2, NthShifts
  <2>6. e = [state |-> new, out |-> IF new.n < lag + cap THEN NaN ELSE new.window]
    <3>1. kept.window = old.window /\ kept.buf = old.buf /\ kept.n = old.n
      <4> HIDE DEF old
      <4> QED
        BY <1>5 DEF FeatureState
    <3> HIDE DEF old
    <3> QED
        BY <2>1, <3>1 DEF UpdateRolling, Emit, old
  <2>7. /\ new \in FeatureState
        /\ new.segment = bar.segment /\ new.window = w /\ new.buf = b /\ new.n = m
    <3>1. w \in Seq(Values) /\ b \in Seq(Values)
        BY <2>3, <2>4 DEF NewestOf
    <3>2. m \in Nat /\ old \in FeatureState /\ bar.segment \in {NaN} \cup 1 .. 2
        BY <1>1, <1>5, <1>6
    <3> HIDE DEF old, w, b, m
    <3>3. kept \in FeatureState /\ kept.segment = bar.segment
        BY <3>2 DEF FeatureState
    <3> HIDE DEF kept
    <3> QED
        BY <3>1, <3>2, <3>3 DEF FeatureState
  <2> HIDE DEF new, w, b, m, Q, kept
  <2>8. m = Cardinality(Q) /\ Cardinality(Q) \in Nat
    BY <1>5, <1>6, <2>5 DEF m
  <2>9. RollingOK(f, new)'
    BY <1>3, <2>1, <2>3, <2>4, <2>7, <2>8 DEF RollingOK
  <2>10. Lagged(f, Q) = IF Cardinality(Q) < lag + cap THEN NaN ELSE w
    BY <2>4, <2>8, FullIsLagged
  <2>11. FeedReference(f)' = Lagged(f, Q)
    BY <1>8, <2>1, ReferenceNow
  <2>12. e.state = new /\ e.out = IF new.n < lag + cap THEN NaN ELSE new.window
    BY <2>6
  <2>13. e.out = FeedReference(f)'
    BY <2>7, <2>8, <2>10, <2>11, <2>12
  <2> QED
    BY <2>7, <2>9, <2>12, <2>13
<1> QED
    BY <1>1, <1>7, <1>8

(* A bar through a batch feature. *)
LEMMA BatchKeeps ==
    ASSUME FeedOK, NEW bar \in BarSet, bars' = Append(bars, bar), since' = since,
           NEW f \in FeatureSpec, f.kind = "batch",
           NEW st \in FeatureState, BatchOK(f, st),
           NEW v, v = IF bar.valid THEN Len(bars) + 1 ELSE NaN,
           NEW e, e = UpdateBatch(f, st, v)
    PROVE  e.state \in FeatureState /\ BatchOK(f, e.state)' /\ e.out = FeedReference(f)'
<1> DEFINE n == Len(bars)
           lag == f.lag
           cap == f.window
           size == lag + cap
           P == PresentSeen
           b == IF v = NaN THEN st.buf ELSE Bounded(size, Append(st.buf, v))
           m == st.n + 1
           new == [st EXCEPT !.buf = b, !.n = m]
           arr == SubSeq(b, 1, Len(b) - lag)
<1>1. lag \in Nat /\ cap \in Nat \ {0} /\ size \in Nat \ {0} /\ bar.valid \in BOOLEAN
  <2>1. lag \in Nat /\ cap \in Nat \ {0} /\ bar.valid \in BOOLEAN
    BY DEF FeatureSpec, BarSet
  <2> HIDE DEF lag, cap
  <2> QED
    BY <2>1
<1>2. n \in Nat /\ n + 1 \in Nat /\ n + 1 # NaN /\ since \in Nat /\ Len(bars') = n + 1
  <2>1. n \in Nat /\ since \in Nat /\ Len(bars') = n + 1
    BY FeedGrows
  <2> QED
    BY <2>1, ConstantsAre
<1>3. Before1(P, n + 1) /\ Cardinality(P) <= n - since
    BY PresentAreBefore
<1>4. PresentSeen' = Entered(P, bar, n + 1)
    BY PresentGrow
<1>5. st.n = n - since /\ NewestOf(st.buf, P, 0, size)
    BY DEF BatchOK
<1>6. Cardinality(P) \in Nat
    BY <1>3, FS_CardinalityType DEF Before1
<1>7. NewestOf(b, PresentSeen', 0, size)
  <2>1. CASE bar.valid
    <3>1. v = n + 1 /\ v # NaN /\ PresentSeen' = P \cup {v} /\ Before1(P, v)
        BY <1>2, <1>3, <1>4, <2>1 DEF Entered
    <3> HIDE DEF P, size, n
    <3>2. NewestOf(Bounded(size, Append(st.buf, v)), P \cup {v}, 0, size)
        BY <1>1, <1>5, <3>1, PushNewest
    <3> QED
        BY <3>1, <3>2
  <2>2. CASE ~bar.valid
    BY <1>4, <1>5, <2>2 DEF Entered
  <2> QED
    BY <1>1, <2>1, <2>2
<1>8. b \in Seq(Values) /\ m \in Nat
  <2>1. st.n \in Nat
    BY DEF FeatureState
  <2> QED
    BY <1>7, <2>1 DEF NewestOf
<1>9. e = [state |-> new, out |-> IF v = NaN \/ new.n < size \/ Len(SubSeq(new.buf, 1, Len(new.buf) - lag)) < cap
                                  THEN NaN ELSE Newest(cap, SubSeq(new.buf, 1, Len(new.buf) - lag))]
    BY DEF UpdateBatch, Emit
<1>10. new \in FeatureState /\ new.buf = b /\ new.n = m
  <2> HIDE DEF b, m
  <2> QED
    BY <1>8 DEF FeatureState
<1>11. BatchOK(f, new)'
  <2>1. m = (n + 1) - since
    BY <1>2, <1>5
  <2> HIDE DEF new, b, m
  <2> QED
    BY <1>2, <1>7, <1>10, <2>1 DEF BatchOK
<1>12. e.state = new /\ e.out = IF v = NaN \/ m < size \/ Len(arr) < cap THEN NaN ELSE Newest(cap, arr)
  <2> HIDE DEF new, b, m, size, cap, lag
  <2> DEFINE x == IF v = NaN \/ new.n < size \/ Len(SubSeq(new.buf, 1, Len(new.buf) - lag)) < cap
                  THEN NaN ELSE Newest(cap, SubSeq(new.buf, 1, Len(new.buf) - lag))
  <2>1. e = [state |-> new, out |-> x]
    BY <1>9
  <2>2. x = IF v = NaN \/ m < size \/ Len(arr) < cap THEN NaN ELSE Newest(cap, arr)
    BY <1>10, Zenon
  <2> HIDE DEF x
  <2>3. e.state = new /\ e.out = x
    BY <2>1
  <2> HIDE DEF arr
  <2> QED
    BY <2>2, <2>3, Zenon
<1>13. e.out = FeedReference(f)'
  <2>1. CASE bar.valid
    <3> DEFINE Q == P \cup {v}
    <3>1. v = n + 1 /\ v # NaN /\ PresentSeen' = Q /\ Before1(P, v)
        BY <1>2, <1>3, <1>4, <2>1 DEF Entered
    <3>2. FeedReference(f)' = Lagged(f, Q)
        BY <2>1, <3>1, ReferenceNow
    <3>3. Cardinality(Q) = Cardinality(P) + 1
        BY <3>1, NthShifts
    <3>4. Cardinality(Q) \in Nat /\ Cardinality(Q) <= m
        BY <1>2, <1>3, <1>5, <1>6, <3>3
    <3> HIDE DEF P, n, m, b
    <3>5. NewestOf(b, Q, 0, f.lag + f.window)
        BY <1>7, <3>1
    <3> HIDE DEF Q
    <3>6. Lagged(f, Q) = IF Len(arr) < cap THEN NaN ELSE Newest(cap, arr)
        BY <3>4, <3>5, BatchIsLagged
    <3>7. m < size => Lagged(f, Q) = NaN
      <4>1. ASSUME m < size PROVE Cardinality(Q) < size
        <5> HIDE DEF size
        <5>1. m \in Nat
            BY <1>8
        <5> QED
            BY <1>1, <3>4, <4>1, <5>1
      <4> QED
        BY <4>1 DEF Lagged
    <3> HIDE DEF arr, size, cap, new
    <3> QED
        BY <1>12, <3>1, <3>2, <3>6, <3>7
  <2>2. CASE ~bar.valid
    <3>1. FeedReference(f)' = NaN
        BY <2>2, ReferenceNow
    <3> HIDE DEF new, b, m
    <3> QED
        BY <1>12, <2>2, <3>1
  <2> QED
    BY <1>1, <2>1, <2>2
<1> HIDE DEF new
<1> QED
    BY <1>10, <1>11, <1>12, <1>13

(* A bar through the deque of a lag feature.  With the bars of before the  *)
(* reset gone, what leaves it is the value of `lag` bars ago.              *)
LEMMA LagKeeps ==
    ASSUME FeedOK, NEW bar \in BarSet, bars' = Append(bars, bar), since' = since,
           NEW f \in FeatureSpec, f.kind \in {"lag", "identity"}, f.lag >= 1,
           NEW st \in FeatureState, LagOK(f, st),
           NEW v, v = IF bar.valid THEN Len(bars) + 1 ELSE NaN,
           NEW e, e = UpdateLag(f, st, v)
    PROVE  e.state \in FeatureState /\ LagOK(f, e.state)' /\ e.out = FeedReference(f)'
<1>0. PICK n : n = Len(bars)
    OBVIOUS
<1> DEFINE lag == f.lag
           t == Append(st.buf, v)
           b == Bounded(lag, t)
           m == st.n + 1
           new == [st EXCEPT !.buf = b, !.n = m]
           i == n + 1 - lag
           old == st.buf
<1>1. lag \in Nat \ {0} /\ bar.valid \in BOOLEAN
    BY DEF FeatureSpec, BarSet
<1>2. /\ n \in Nat /\ since \in Nat /\ Len(bars') = n + 1 /\ since <= n
      /\ bars'[n + 1] = bar /\ \A k \in 1 .. n : bars'[k] = bars[k]
    BY <1>0, FeedGrows DEF FeedOK
<1>3. /\ Len(old) = Smaller(lag, n - since)
      /\ \A k \in 1 .. Len(old) : \A p \in Nat : p = n - Len(old) + k => old[k] = ValueAt(p)
    BY <1>0 DEF LagOK
<1>4. old \in Seq(Values) /\ Len(old) \in Nat /\ Len(old) <= n /\ m \in Nat
  <2>1. st.n \in Nat /\ old \in Seq(Values)
    BY DEF FeatureState
  <2>2. Len(old) \in Nat
    BY <2>1
  <2>3. Len(old) <= n
    BY <1>1, <1>2, <1>3 DEF Smaller
  <2> QED
    BY <2>1, <2>2, <2>3
<1>5. v \in Values /\ (ValueAt(n + 1))' = v
  <2>1. n + 1 \in Nat /\ bars'[n + 1] = bar
    BY <1>2
  <2>2. v \in Values
    BY <2>1 DEF Values
  <2>3. (ValueAt(n + 1))' = IF bars'[n + 1].valid THEN n + 1 ELSE NaN
    BY DEF ValueAt
  <2> QED
    BY <1>0, <2>1, <2>2, <2>3
<1>6. /\ t \in Seq(Values) /\ Len(t) = Len(old) + 1 /\ t[Len(old) + 1] = v
      /\ \A k \in 1 .. Len(old) : t[k] = old[k]
    BY <1>4, <1>5
<1> HIDE DEF t
<1>7. /\ b \in Seq(Values) /\ Len(b) = Smaller(lag, Len(t))
      /\ \A k \in 1 .. Len(b) : \A q \in Nat : q = Len(t) - Len(b) + k => b[k] = t[q]
    BY <1>1, <1>6, BoundedIs
<1> HIDE DEF b, m, old
<1>8. Len(b) = Smaller(lag, (n + 1) - since) /\ Len(b) \in Nat /\ Len(b) <= Len(t)
  <2>1. Len(b) = Smaller(lag, Len(t)) /\ Len(t) = Len(old) + 1 /\ Len(old) = Smaller(lag, n - since)
    BY <1>3, <1>6, <1>7
  <2> HIDE DEF lag
  <2> QED
    BY <1>1, <1>2, <1>4, <2>1 DEF Smaller
<1>9. ASSUME NEW p \in 1 .. n PROVE ValueAt(p)' = ValueAt(p)
    BY <1>2 DEF ValueAt
<1>10. ASSUME NEW k \in 1 .. Len(b), NEW p \in Nat, p = (n + 1) - Len(b) + k
       PROVE  b[k] = ValueAt(p)'
  <2> DEFINE q == Len(t) - Len(b) + k
  <2>1. q \in Nat /\ q >= 1 /\ q <= Len(old) + 1 /\ p = n - Len(old) + q
    <3>1. /\ n \in Nat /\ Len(old) \in Nat /\ Len(t) = Len(old) + 1
          /\ Len(b) \in Nat /\ Len(b) <= Len(t) /\ p = (n + 1) - Len(b) + k
        BY <1>2, <1>4, <1>6, <1>8, <1>10
    <3> QED
        BY <3>1
  <2>2. b[k] = t[q]
    BY <1>7, <2>1
  <2> HIDE DEF q
  <2>3. CASE q = Len(old) + 1
    <3>1. p = n + 1
        BY <1>2, <1>4, <2>1, <2>3
    <3>2. ValueAt(p)' = v
        BY <1>5, <3>1
    <3> QED
        BY <1>6, <2>2, <2>3, <3>2
  <2>4. CASE q # Len(old) + 1
    <3>1. q \in 1 .. Len(old) /\ p \in 1 .. n
      <4>1. n \in Nat /\ Len(old) \in Nat /\ Len(old) <= n
        BY <1>2, <1>4
      <4> QED
        BY <2>1, <2>4, <4>1
    <3>2. old[q] = ValueAt(p)
        BY <1>3, <2>1, <3>1
    <3> QED
        BY <1>6, <1>9, <2>2, <3>1, <3>2
  <2> QED
    BY <2>3, <2>4
<1>11. new \in FeatureState /\ new.buf = b /\ new.n = m
    BY <1>4, <1>7 DEF FeatureState
<1>12. e = [state |-> new, out |-> IF Len(old) = lag THEN Point(Head(old)) ELSE NaN]
    BY DEF UpdateLag, Emit, b, t, m, old
<1> HIDE DEF new
<1>13. LagOK(f, new)'
    BY <1>2, <1>8, <1>10, <1>11 DEF LagOK
<1>14. /\ e.state = new
       /\ e.out = IF Len(old) = lag THEN Point(Head(old)) ELSE NaN
    BY <1>12
<1>15. Len(old) = lag <=> i > since
    BY <1>1, <1>2, <1>3 DEF Smaller
<1>16. FeedReference(f)' = IF i > since /\ bars'[i].valid THEN <<i>> ELSE NaN
  <2> HIDE DEF i
  <2>1. i = Len(bars) + 1 - f.lag
    BY <1>0 DEF i
  <2>2. f.kind # "rolling" /\ f.kind # "batch"
    OBVIOUS
  <2> QED
    BY <2>1, ReferenceNow
<1>17. ASSUME i > since
       PROVE  Point(Head(old)) = IF bars'[i].valid THEN <<i>> ELSE NaN
  <2>1. i \in 1 .. n /\ i \in Nat /\ i = n - Len(old) + 1 /\ 1 \in 1 .. Len(old)
    BY <1>1, <1>2, <1>15, <1>17
  <2> HIDE DEF i
  <2>2. old[1] = ValueAt(i)
    BY <1>3, <2>1
  <2>3. Head(old) = old[1]
    BY <1>4, <2>1
  <2>4. i # NaN /\ bars'[i] = bars[i]
    BY <1>2, <2>1, ConstantsAre
  <2> QED
    BY <2>2, <2>3, <2>4 DEF Point, ValueAt
<1> HIDE DEF i, lag
<1>18. e.out = FeedReference(f)'
    BY <1>14, <1>15, <1>16, <1>17
<1> QED
    BY <1>11, <1>13, <1>14, <1>18

(* A bar through any feature. *)
LEMMA OneKeeps ==
    ASSUME FeedOK, NEW bar \in BarSet, bars' = Append(bars, bar), since' = since,
           NEW f \in FeatureSpec, f.kind # "identity" => f.lag >= 1,
           NEW st \in FeatureState, StateOK(f, st),
           NEW v, v = IF bar.valid THEN Len(bars) + 1 ELSE NaN,
           NEW e, e = UpdateOne(f, st, bar, v)
    PROVE  StateOK(f, e.state)' /\ e.out = FeedReference(f)'
<1>1. f.kind \in {"rolling", "batch", "lag", "identity"} /\ f.lag \in Nat
    BY DEF FeatureSpec
<1>2. CASE f.kind = "rolling"
  <2>1. e = UpdateRolling(f, st, bar, v) /\ RollingOK(f, st) /\ f.lag >= 1
    BY <1>2 DEF UpdateOne, StateOK
  <2>2. e.state \in FeatureState /\ RollingOK(f, e.state)' /\ e.out = FeedReference(f)'
    BY <1>2, <2>1, RollingKeeps
  <2> QED
    BY <1>2, <2>2 DEF StateOK
<1>3. CASE f.kind = "batch"
  <2>1. e = UpdateBatch(f, st, v) /\ BatchOK(f, st)
    BY <1>3 DEF UpdateOne, StateOK
  <2>2. e.state \in FeatureState /\ BatchOK(f, e.state)' /\ e.out = FeedReference(f)'
    BY <1>3, <2>1, BatchKeeps
  <2> QED
    BY <1>3, <2>2 DEF StateOK
<1>4. CASE f.kind \in {"lag", "identity"} /\ f.lag >= 1
  <2>1. e = UpdateLag(f, st, v) /\ LagOK(f, st)
    BY <1>1, <1>4 DEF UpdateOne, StateOK
  <2>2. e.state \in FeatureState /\ LagOK(f, e.state)' /\ e.out = FeedReference(f)'
    BY <1>4, <2>1, LagKeeps
  <2> QED
    BY <1>4, <2>2 DEF StateOK
<1>5. CASE f.kind = "identity" /\ f.lag = 0
  <2>1. e = [state |-> st, out |-> Point(v)]
    BY <1>5 DEF UpdateOne, Emit
  <2>2. e.state = st /\ e.out = Point(v)
    BY <2>1
  <2>3. StateOK(f, e.state)'
    BY <1>5, <2>2 DEF StateOK
  <2>4. PICK n : n = Len(bars)
    OBVIOUS
  <2>5. n \in Nat /\ n + 1 - f.lag = n + 1 /\ n + 1 > since /\ n + 1 # NaN /\ bars'[n + 1] = bar
    <3>1. n \in Nat /\ since \in Nat /\ since <= n /\ bars'[n + 1] = bar
        BY <2>4, FeedGrows DEF FeedOK
    <3>2. n + 1 \in Nat
        BY <3>1
    <3>3. n + 1 # NaN
        BY <3>2, ConstantsAre
    <3> QED
        BY <1>5, <3>1, <3>3
  <2>6. PICK i : i = n + 1 - f.lag
    OBVIOUS
  <2>7. i = Len(bars) + 1 - f.lag /\ f.kind \in {"lag", "identity"}
    BY <1>5, <2>4, <2>6
  <2>8. FeedReference(f)' = IF i > since /\ bars'[i].valid THEN <<i>> ELSE NaN
    BY <2>7, ReferenceNow
  <2>9. Point(v) = IF bar.valid THEN <<n + 1>> ELSE NaN
    BY <2>4, <2>5 DEF Point
  <2> QED
    BY <2>2, <2>3, <2>5, <2>6, <2>8, <2>9
<1> QED
    BY <1>1, <1>2, <1>3, <1>4, <1>5

(* What a feature keeps when nothing was seen since the reset. *)
LEMMA FreshIsOK ==
    FeedOK /\ since = Len(bars) => \A f \in FeatureSpec : StateOK(f, Fresh)
<1> SUFFICES ASSUME FeedOK, since = Len(bars), NEW f \in FeatureSpec
             PROVE  StateOK(f, Fresh)
    OBVIOUS
<1>1. f.lag \in Nat /\ f.window \in Nat /\ f.lag + f.window \in Nat
  <2>1. f.lag \in Nat /\ f.window \in Nat
    BY DEF FeatureSpec
  <2> QED
    BY <2>1
<1>2. since \in Nat /\ Len(bars) - since = 0 /\ since + 1 .. Len(bars) = {} /\ ~(since < Len(bars))
  <2>1. since \in Nat
    BY DEF FeedOK
  <2> QED
    BY <2>1
<1>3. PresentSeen = {} /\ PresentHere = {} /\ SegmentNow = NaN
    BY <1>2 DEF PresentSeen, PresentHere, Present, ThisSegment, Seen, SegmentNow
<1>4. /\ NewestOf(<<>>, {}, 0, f.lag) /\ NewestOf(<<>>, {}, f.lag, f.window)
      /\ NewestOf(<<>>, {}, 0, f.lag + f.window)
    BY <1>1, NewestOfNone
<1>5. Cardinality({}) = 0
    BY FS_EmptySet
<1>6. RollingOK(f, Fresh)
    BY <1>3, <1>4, <1>5, FreshIsState DEF RollingOK
<1>7. BatchOK(f, Fresh)
    BY <1>2, <1>3, <1>4, FreshIsState DEF BatchOK
<1>8. LagOK(f, Fresh)
  <2>1. Len(Fresh.buf) = 0
    BY FreshIsState
  <2>2. Smaller(f.lag, Len(bars) - since) = 0
    BY <1>1, <1>2 DEF Smaller
  <2> QED
    BY <2>1, <2>2 DEF LagOK
<1> QED
    BY <1>6, <1>7, <1>8, FreshIsState DEF StateOK

-----------------------------------------------------------------------------
(* The FeatureBuilder.                                                     *)

FInv ==
    /\ FeedOK
    /\ DOMAIN row = Names
    /\ \A name \in Names : StateOK(SpecOf(name), state[name])
    /\ since < Len(bars) => \A name \in Names : row[name] = FeedReference(SpecOf(name))

(* The features start fresh. *)
LEMMA FeaturesStart == FeatureInit => FInv
<1> SUFFICES ASSUME FeatureInit PROVE FInv
    OBVIOUS
<1>1. bars = <<>> /\ since = 0 /\ state = [name \in Names |-> Fresh] /\ row = [name \in Names |-> NaN]
    BY DEF FeatureInit
<1>2. FeedOK /\ since = Len(bars) /\ ~(since < Len(bars))
    BY <1>1 DEF FeedOK
<1>3. \A f \in FeatureSpec : StateOK(f, Fresh)
    BY <1>2, FreshIsOK
<1>4. ASSUME NEW name \in Names PROVE StateOK(SpecOf(name), state[name])
  <2>1. state[name] = Fresh /\ SpecOf(name) \in FeatureSpec
    BY <1>1, SpecOfName
  <2> QED
    BY <1>3, <2>1
<1>5. DOMAIN row = Names
    BY <1>1
<1> QED
    BY <1>2, <1>4, <1>5 DEF FInv

(* A bar goes through every feature. *)
LEMMA TransformKeeps ==
    ASSUME FInv, NEW bar \in BarSet, Transform(bar)
    PROVE  FInv'
<1>1. /\ FeedOK /\ bars' = Append(bars, bar) /\ since' = since
      /\ FeedOK' /\ since' < Len(bars')
    BY FeedGrows DEF FInv, Transform
<1>2. PICK v : v = IF bar.valid THEN Len(bars) + 1 ELSE NaN
    OBVIOUS
<1>3. /\ state' = [name \in Names |-> UpdateOne(SpecOf(name), state[name], bar, v).state]
      /\ row' = [name \in Names |-> UpdateOne(SpecOf(name), state[name], bar, v).out]
    BY <1>2, Zenon DEF Transform
<1>4. ASSUME NEW name \in Names
      PROVE  StateOK(SpecOf(name), state[name])' /\ row'[name] = FeedReference(SpecOf(name))'
  <2>1. PICK f : f = SpecOf(name)
    OBVIOUS
  <2>2. PICK st : st = state[name]
    OBVIOUS
  <2>3. PICK e : e = UpdateOne(f, st, bar, v)
    OBVIOUS
  <2>4. state'[name] = e.state /\ row'[name] = e.out
    BY <1>3, <2>1, <2>2, <2>3
  <2>5. f \in FeatureSpec /\ (f.kind # "identity" => f.lag >= 1)
    BY <2>1, SpecOfName
  <2>6. StateOK(f, st)
    BY <2>1, <2>2 DEF FInv
  <2>7. st \in FeatureState
    BY <2>6 DEF StateOK
  <2>8. StateOK(f, e.state)' /\ e.out = FeedReference(f)'
    BY <1>1, <1>2, <2>3, <2>5, <2>6, <2>7, OneKeeps
  <2>9. PICK s : s = e.state
    OBVIOUS
  <2>10. StateOK(f, s)'
    BY <2>8, <2>9
  <2>11. StateOK(f, state[name])'
    BY <2>4, <2>9, <2>10 DEF StateOK, RollingOK, BatchOK, LagOK
  <2> QED
    BY <2>1, <2>4, <2>8, <2>11
<1>5. DOMAIN row' = Names
    BY <1>3
<1> QED
    BY <1>1, <1>4, <1>5 DEF FInv

(* A reset leaves the row of the bar before it. *)
LEMMA ResetKeeps == FInv /\ Reset => FInv'
<1> SUFFICES ASSUME FInv, Reset PROVE FInv'
    OBVIOUS
<1>1. /\ bars' = bars /\ row' = row /\ since' = Len(bars)
      /\ state' = [name \in Names |-> Fresh]
    BY DEF Reset
<1>2. FeedOK' /\ (since = Len(bars))' /\ ~(since < Len(bars))'
  <2>1. Len(bars) \in Nat /\ bars \in Seq(BarSet)
    BY DEF FInv, FeedOK
  <2> QED
    BY <1>1, <2>1 DEF FeedOK
<1>3. (\A f \in FeatureSpec : StateOK(f, Fresh))'
    BY <1>2, FreshIsOK, PTL
<1>4. ASSUME NEW name \in Names PROVE StateOK(SpecOf(name), state[name])'
  <2>1. PICK f \in FeatureSpec : f = SpecOf(name)
    BY SpecOfName
  <2>2. state'[name] = Fresh
    BY <1>1
  <2>3. StateOK(f, Fresh)'
    BY <1>3
  <2> QED
    BY <2>1, <2>2, <2>3 DEF StateOK, RollingOK, BatchOK, LagOK
<1>5. DOMAIN row' = Names
    BY <1>1 DEF FInv
<1> QED
    BY <1>2, <1>4, <1>5 DEF FInv

(* What the other steps do. *)
LEMMA FeaturesRest == FInv /\ UNCHANGED featureVars => FInv'
<1> SUFFICES ASSUME FInv, UNCHANGED featureVars PROVE FInv'
    OBVIOUS
<1>1. bars' = bars /\ since' = since /\ state' = state /\ row' = row
    BY DEF featureVars
<1>2. FeedOK'
    BY <1>1 DEF FInv, FeedOK
<1>3. PresentSeen' = PresentSeen /\ PresentHere' = PresentHere /\ SegmentNow' = SegmentNow
    BY <1>1 DEF PresentSeen, PresentHere, Present, ThisSegment, Seen, SegmentNow
<1>4. \A i : ValueAt(i)' = ValueAt(i)
    BY <1>1 DEF ValueAt
<1>5. ASSUME NEW name \in Names
      PROVE  StateOK(SpecOf(name), state[name])'
  <2>1. StateOK(SpecOf(name), state[name])
    BY DEF FInv
  <2> QED
    BY <1>1, <1>3, <1>4, <2>1 DEF StateOK, RollingOK, BatchOK, LagOK
<1>6. ASSUME NEW name \in Names, since < Len(bars)
      PROVE  (row[name] = FeedReference(SpecOf(name)))'
  <2>1. PICK f : f = SpecOf(name)
    OBVIOUS
  <2>2. row[name] = FeedReference(f)
    BY <1>6, <2>1 DEF FInv
  <2>3. FeedReference(f)' = FeedReference(f)
    BY <1>1, <1>3 DEF FeedReference, PresentSeen, PresentHere
  <2> QED
    BY <1>1, <2>1, <2>2, <2>3
<1>7. DOMAIN row' = Names
    BY <1>1 DEF FInv
<1> QED
    BY <1>1, <1>2, <1>5, <1>6, <1>7 DEF FInv

-----------------------------------------------------------------------------
(* What the code makes of a feature is the feature of the current segment, *)
(* unless a batch or lag feature reaches into an earlier one.              *)

(* H is what is newest of P *)
NewestPart(H, P) ==
    /\ H \subseteq P
    /\ \A h \in H : \A p \in P : h <= p => p \in H

(* The valid bars of the segment are the newest of the valid bars. *)
LEMMA HereIsNewest ==
    ASSUME FeedOK
    PROVE  NewestPart(PresentHere, PresentSeen)
<1>1. Len(bars) \in Nat /\ since \in Nat
    BY DEF FeedOK
<1>2. PresentHere \subseteq PresentSeen
    BY DEF PresentHere, PresentSeen, Present, ThisSegment
<1>3. ASSUME NEW h \in PresentHere, NEW p \in PresentSeen, h <= p
      PROVE  p \in PresentHere
  <2>1. h \in Nat /\ p \in Nat /\ p <= Len(bars)
    BY <1>1, <1>2, <1>3 DEF PresentSeen, Present, Seen
  <2>2. \A j \in h .. Len(bars) : bars[j].segment = bars[h].segment
    BY <1>3 DEF PresentHere, Present, ThisSegment
  <2>3. \A j \in p .. Len(bars) : j \in h .. Len(bars)
    BY <1>1, <1>3, <2>1
  <2>4. p \in p .. Len(bars)
    BY <1>1, <2>1
  <2>5. \A j \in p .. Len(bars) : bars[j].segment = bars[p].segment
    BY <2>2, <2>3, <2>4
  <2> QED
    BY <1>3, <2>5 DEF PresentHere, PresentSeen, Present, ThisSegment
<1> QED
    BY <1>2, <1>3 DEF NewestPart

(* As many positions as H has are the same in P. *)
LEMMA NewestPartAgrees ==
    ASSUME NEW P \in SUBSET Nat, IsFiniteSet(P), NEW H, NewestPart(H, P),
           NEW n \in Nat, n <= Cardinality(H)
    PROVE  NthNewest(P, n) = NthNewest(H, n)
<1>1. H \subseteq P /\ \A h \in H : \A p \in P : h <= p => p \in H
    BY DEF NewestPart
<1>2. IsFiniteSet(H) /\ Cardinality(H) \in Nat
    BY <1>1, FS_Subset, FS_CardinalityType
<1>3. ASSUME NEW i \in H
      PROVE  {j \in H : i <= j} = {j \in P : i <= j}
    BY <1>1, <1>3
<1>4. ASSUME NEW i \in Ranked(P, n)
      PROVE  i \in H
  <2> SUFFICES ASSUME i \notin H PROVE FALSE
    OBVIOUS
  <2> DEFINE S == {j \in P : i <= j}
  <2>1. i \in P /\ Cardinality(S) = n
    BY <1>4 DEF Ranked
  <2>2. \A h \in H : i <= h
    <3> SUFFICES ASSUME NEW h \in H, ~(i <= h) PROVE FALSE
        OBVIOUS
    <3>1. h \in Nat /\ i \in Nat
        BY <1>1, <2>1
    <3>2. h <= i
        BY <3>1
    <3> QED
        BY <1>1, <2>1, <3>2
  <2>3. H \subseteq S /\ i \in S /\ S \subseteq P
    <3>1. i <= i
        BY <2>1
    <3> QED
        BY <1>1, <2>1, <2>2, <3>1
  <2> HIDE DEF S
  <2>4. IsFiniteSet(S)
    BY <2>3, FS_Subset
  <2>5. Cardinality(H) <= Cardinality(S) /\ (Cardinality(H) = Cardinality(S) => H = S)
    BY <2>3, <2>4, FS_Subset
  <2>6. Cardinality(H) = Cardinality(S)
    BY <1>2, <2>1, <2>5
  <2> QED
    BY <2>3, <2>5, <2>6
<1>5. Ranked(P, n) = Ranked(H, n)
  <2>1. ASSUME NEW i \in Ranked(P, n)
        PROVE  i \in Ranked(H, n)
    BY <1>3, <1>4, <2>1 DEF Ranked
  <2>2. ASSUME NEW i \in Ranked(H, n)
        PROVE  i \in Ranked(P, n)
    BY <1>1, <1>3, <2>2 DEF Ranked
  <2> QED
    BY <2>1, <2>2
<1> QED
    BY <1>5 DEF NthNewest

(* Each of the positions is the so many newest, counted from 1. *)
LEMMA NewestIsPosition ==
    ASSUME NEW P \in SUBSET Nat, IsFiniteSet(P), NEW n \in 1 .. Cardinality(P)
    PROVE  NthNewest(P, n) \in Ranked(P, n)
<1> DEFINE c == Cardinality(P)
           D == 1 .. c
           At(i) == {j \in P : i <= j}
           r == [i \in P |-> Cardinality(At(i))]
<1>1. c \in Nat
    BY FS_CardinalityType
<1>2. IsFiniteSet(D) /\ Cardinality(D) = c
    BY <1>1, FS_Interval
<1>3. ASSUME NEW i \in P
      PROVE  /\ IsFiniteSet(At(i)) /\ Cardinality(At(i)) \in D
  <2>1. At(i) \subseteq P /\ i \in At(i)
    OBVIOUS
  <2> HIDE DEF At
  <2>2. IsFiniteSet(At(i)) /\ Cardinality(At(i)) <= c
    BY <2>1, FS_Subset
  <2>3. Cardinality(At(i)) \in Nat /\ Cardinality(At(i)) # 0
    BY <2>1, <2>2, FS_CardinalityType, FS_EmptySet
  <2> QED
    BY <1>1, <2>2, <2>3
<1>4. ASSUME NEW i \in P, NEW k \in P, i < k
      PROVE  Cardinality(At(i)) # Cardinality(At(k))
  <2>1. At(k) \subseteq At(i) /\ i \in At(i) /\ i \notin At(k)
    <3>1. i \in Nat /\ k \in Nat /\ \A j \in P : j \in Nat
        BY <1>4
    <3>2. i <= i /\ ~(k <= i) /\ \A j \in P : k <= j => i <= j
        BY <1>4, <3>1
    <3> QED
        BY <1>4, <3>2
  <2>2. IsFiniteSet(At(i))
    BY <1>3
  <2> HIDE DEF At
  <2> QED
    BY <2>1, <2>2, FS_Subset
<1>5. ASSUME NEW i \in P, NEW k \in P, i # k
      PROVE  r[i] # r[k]
  <2>1. r[i] = Cardinality(At(i)) /\ r[k] = Cardinality(At(k))
    OBVIOUS
  <2>2. i < k \/ k < i
    BY <1>5
  <2> HIDE DEF At, r
  <2> QED
    BY <1>4, <2>1, <2>2
<1>6. r \in [P -> D]
    BY <1>3
<1>7. n \in D
    OBVIOUS
<1>8. r \in Injection(P, D)
  <2> HIDE DEF r, D
  <2> QED
    BY <1>5, <1>6 DEF Injection, IsInjective
<1>9. r \in Surjection(P, D)
  <2> HIDE DEF r, D
  <2> QED
    BY <1>2, <1>8, FS_Injection
<1>10. PICK i \in P : r[i] = n
  <2> HIDE DEF r, D
  <2> QED
    BY <1>7, <1>9 DEF Surjection
<1>11. i \in Ranked(P, n)
    BY <1>10 DEF Ranked
<1> QED
    BY <1>11 DEF NthNewest

(* A batch feature over the feed is the one of the segment, or its oldest  *)
(* value is of an earlier one.                                             *)
LEMMA LaggedAgrees ==
    ASSUME FeedOK, NEW f \in FeatureSpec
    PROVE  LET of == Lagged(f, PresentSeen)
           IN  of = Lagged(f, PresentHere) \/ (of # NaN /\ ~(ToSet(of) \subseteq ThisSegment))
<1> DEFINE P == PresentSeen
           H == PresentHere
           size == f.lag + f.window
           cap == f.window
           Row(positions) == [k \in 1 .. cap |-> NthNewest(positions, size + 1 - k)]
<1>1. f.lag \in Nat /\ cap \in Nat /\ cap >= 1 /\ size \in Nat
    BY DEF FeatureSpec
<1>2. P \in SUBSET Nat /\ IsFiniteSet(P) /\ NewestPart(H, P)
    BY PresentAreBefore, HereIsNewest DEF Before1
<1>3. IsFiniteSet(H) /\ Cardinality(H) \in Nat /\ Cardinality(P) \in Nat
      /\ Cardinality(H) <= Cardinality(P)
  <2>1. H \subseteq P
    BY <1>2 DEF NewestPart
  <2> HIDE DEF H, P
  <2> QED
    BY <1>2, <2>1, FS_Subset, FS_CardinalityType
<1>4. /\ Lagged(f, P) = IF Cardinality(P) < size THEN NaN ELSE Row(P)
      /\ Lagged(f, H) = IF Cardinality(H) < size THEN NaN ELSE Row(H)
    BY DEF Lagged
<1>5. H = {i \in P : i \in ThisSegment}
    BY DEF PresentSeen, PresentHere, Present, ThisSegment
<1> HIDE DEF P, H
<1>6. CASE Cardinality(P) < size
  <2>1. Cardinality(H) < size
    BY <1>1, <1>3, <1>6
  <2> QED
    BY <1>4, <1>6, <2>1 DEF P, H
<1>7. CASE ~(Cardinality(P) < size) /\ ~(Cardinality(H) < size)
  <2>1. ASSUME NEW k \in 1 .. cap
        PROVE  NthNewest(P, size + 1 - k) = NthNewest(H, size + 1 - k)
    <3>1. size + 1 - k \in Nat /\ size + 1 - k <= Cardinality(H)
        BY <1>1, <1>3, <1>7
    <3> QED
        BY <1>2, <3>1, NewestPartAgrees
  <2>2. Row(P) = Row(H)
    BY <2>1
  <2> HIDE DEF Row
  <2> QED
    BY <1>4, <1>7, <2>2 DEF P, H
<1>8. CASE ~(Cardinality(P) < size) /\ Cardinality(H) < size
  <2>1. PICK x : x = NthNewest(P, size)
    OBVIOUS
  <2>2. x \in Ranked(P, size)
    <3>1. size \in 1 .. Cardinality(P)
        BY <1>1, <1>3, <1>8
    <3> HIDE DEF size
    <3> QED
        BY <1>2, <2>1, <3>1, NewestIsPosition
  <2>3. x \notin H
    <3> SUFFICES ASSUME x \in H PROVE FALSE
        OBVIOUS
    <3> DEFINE S == {j \in P : x <= j}
    <3>1. S \subseteq H
        BY <1>2 DEF NewestPart
    <3>2. Cardinality(S) = size
        BY <2>2 DEF Ranked
    <3> HIDE DEF S, size
    <3>3. Cardinality(S) <= Cardinality(H)
        BY <1>3, <3>1, FS_Subset
    <3> QED
        BY <1>1, <1>3, <1>8, <3>2, <3>3
  <2>4. x \notin ThisSegment
    BY <1>5, <2>2, <2>3 DEF Ranked
  <2>5. x \in ToSet(Row(P))
    <3>1. 1 \in 1 .. cap /\ size + 1 - 1 = size
        BY <1>1
    <3>2. Row(P)[1] = x /\ 1 \in DOMAIN Row(P)
        BY <2>1, <3>1
    <3> HIDE DEF Row
    <3> QED
        BY <3>2 DEF ToSet
  <2> HIDE DEF Row
  <2> QED
    BY <1>4, <1>8, <2>4, <2>5 DEF P, H
<1> QED
    BY <1>6, <1>7, <1>8

(* The same of every kind. *)
LEMMA ReferenceAgrees ==
    ASSUME FeedOK, since < Len(bars), NEW f \in FeatureSpec
    PROVE  LET of == FeedReference(f)
           IN  \/ of = Reference(f)
               \/ f.kind # "rolling" /\ of # NaN /\ ~(ToSet(of) \subseteq ThisSegment)
<1>1. Len(bars) \in Nat /\ since \in Nat /\ f.lag \in Nat
    BY DEF FeedOK, FeatureSpec
<1>2. CASE f.kind = "rolling"
    BY <1>2 DEF FeedReference, Reference
<1>3. CASE f.kind = "batch"
  <2>1. CASE bars[Len(bars)].valid
    <3>1. FeedReference(f) = Lagged(f, PresentSeen) /\ Reference(f) = Lagged(f, PresentHere)
        BY <1>3, <2>1 DEF FeedReference, Reference, PresentSeen, PresentHere
    <3> QED
        BY <1>3, <3>1, LaggedAgrees
  <2>2. CASE ~bars[Len(bars)].valid
    BY <1>3, <2>2 DEF FeedReference, Reference
  <2> QED
    BY <2>1, <2>2
<1>4. CASE f.kind \in {"lag", "identity"}
  <2> DEFINE i == Len(bars) - f.lag
  <2>1. /\ FeedReference(f) = IF i > since /\ bars[i].valid THEN <<i>> ELSE NaN
        /\ Reference(f) = IF i \in Present(ThisSegment) THEN <<i>> ELSE NaN
    BY <1>4 DEF FeedReference, Reference
  <2>2. i \in Present(ThisSegment) <=> i > since /\ bars[i].valid /\ i \in ThisSegment
    BY <1>1 DEF Present, ThisSegment, Seen
  <2>3. ToSet(<<i>>) = {i}
    BY DEF ToSet
  <2> HIDE DEF i
  <2> QED
    BY <1>4, <2>1, <2>2, <2>3
<1> QED
    BY <1>2, <1>3, <1>4 DEF FeatureSpec

(* FInv says what FeaturesAsDefined does. *)
LEMMA FInvIsEnough == FInv => FeaturesAsDefined
<1> SUFFICES ASSUME FInv PROVE FeaturesAsDefined
    OBVIOUS
<1>1. DOMAIN row = Names
    BY DEF FInv
<1>2. ASSUME since < Len(bars), NEW name \in DOMAIN row
      PROVE  \/ row[name] = Reference(SpecOf(name))
             \/ SpecOf(name).kind # "rolling" /\ ~(ReadFrom(name) \subseteq ThisSegment)
  <2>1. PICK f \in FeatureSpec : f = SpecOf(name)
    BY <1>1, <1>2, SpecOfName
  <2>2. row[name] = FeedReference(f) /\ FeedOK
    BY <1>1, <1>2, <2>1 DEF FInv
  <2>3. \/ row[name] = Reference(f)
        \/ f.kind # "rolling" /\ row[name] # NaN /\ ~(ToSet(row[name]) \subseteq ThisSegment)
    BY <1>2, <2>2, ReferenceAgrees
  <2> QED
    BY <2>1, <2>3 DEF ReadFrom
<1>3. \A i \in DOMAIN ByImportance :
         ByImportance[i].name \in DOMAIN row <=>
            \A j \in 1 .. i - 1 :
               Dedupe /\ DOMAIN Importance # {} /\ ByImportance[j].name \in DOMAIN row
                  => {ByImportance[i].name, ByImportance[j].name} \notin Correlated
    BY <1>1, NamesAreRanked
<1> QED
    BY <1>2, <1>3, Zenon DEF FeaturesAsDefined

-----------------------------------------------------------------------------
(* The ensemble.                                                           *)

MemberRead == [path : Paths, training : Nat]

(* Training and the files it has written so far *)
FilesOK ==
    /\ trainer \in [training : Nat, done : 0 .. Members + 1]
    /\ writing \in BOOLEAN
    /\ writing => trainer.done <= Members
    /\ files \in [Paths -> Nat \cup {NaN, Torn}]
    /\ \A p \in Paths : files[p] \in Nat => files[p] <= trainer.training

(* The members read are those of the first paths, each whole *)
ReadOK ==
    /\ models \in Seq(MemberRead)
    /\ \A i \in 1 .. Len(models) :
          /\ models[i].path = MemberPath(i - 1)
          /\ models[i].training <= trainer.training

(* Where the process stands *)
PhaseOK ==
    /\ phase \in {"bar", "load", "predict"}
    /\ phase = "load" => ~loaded /\ at \in 0 .. EnsembleN /\ Len(models) = at
    /\ loaded => Len(models) = EnsembleN /\ columns = SelectFeatures

PInv == FilesOK /\ ReadOK /\ PhaseOK

(* The constants of training. *)
LEMMA TrainingIs ==
    /\ Members \in Nat /\ Members >= 1 /\ EnsembleN \in Nat /\ EnsembleN >= 1
    /\ EnsembleN <= Members
    /\ NaN \notin Nat /\ Torn \notin Nat
    /\ SelectFeatures # {} /\ SelectFeatures \subseteq Names
<1>1. Members \in Nat /\ EnsembleN \in 1 .. Members
    BY EnsembleIsTrained
<1>2. NaN \notin Nat /\ Torn \notin Nat /\ SelectFeatures # {}
    BY EnsembleIsTrained
<1>3. SelectFeatures \subseteq Names
    BY DEF SelectFeatures
<1>4. Members >= 1 /\ EnsembleN \in Nat /\ EnsembleN >= 1 /\ EnsembleN <= Members
    BY <1>1
<1> QED
    BY <1>1, <1>2, <1>3, <1>4

(* The ensemble starts empty. *)
LEMMA EnsembleStarts == Init => PInv
<1> SUFFICES ASSUME Init PROVE PInv
    OBVIOUS
<1>1. /\ files \in [Paths -> {NaN, 0}] /\ writing = FALSE
      /\ trainer = [training |-> 0, done |-> Members + 1]
      /\ models = <<>> /\ loaded = FALSE /\ phase = "bar"
    BY DEF Init
<1>2. Members + 1 \in 0 .. Members + 1
    BY TrainingIs
<1>3. FilesOK
  <2>1. trainer \in [training : Nat, done : 0 .. Members + 1] /\ trainer.training = 0
    BY <1>1, <1>2
  <2>2. files \in [Paths -> Nat \cup {NaN, Torn}]
        /\ \A p \in Paths : files[p] \in Nat => files[p] <= 0
    BY <1>1, TrainingIs
  <2> QED
    BY <1>1, <2>1, <2>2 DEF FilesOK
<1>4. ReadOK
    BY <1>1 DEF ReadOK
<1>5. PhaseOK
    BY <1>1 DEF PhaseOK
<1> QED
    BY <1>3, <1>4, <1>5 DEF PInv

(* A training that begins. *)
LEMMA TrainKeeps == PInv /\ Train => PInv'
<1> SUFFICES ASSUME PInv, Train PROVE PInv'
    OBVIOUS
<1>1. /\ trainer' = [training |-> trainer.training + 1, done |-> 0]
      /\ files' = files /\ writing' = writing /\ models' = models /\ phase' = phase
      /\ at' = at /\ loaded' = loaded /\ columns' = columns /\ writing = FALSE
    BY DEF Train, modelVars, PInv, FilesOK
<1>2. trainer.training \in Nat /\ trainer.training + 1 \in Nat
    BY DEF PInv, FilesOK
<1>3. trainer' \in [training : Nat, done : 0 .. Members + 1]
      /\ trainer'.training = trainer.training + 1
    BY <1>1, <1>2, TrainingIs
<1>4. \A x \in Nat : x <= trainer.training => x <= trainer'.training
    BY <1>2, <1>3
<1>5. FilesOK'
    BY <1>1, <1>3, <1>4 DEF PInv, FilesOK
<1>6. ReadOK'
  <2>1. \A i \in 1 .. Len(models) : models[i].training \in Nat
    <3>1. \A i \in 1 .. Len(models) : models[i] \in MemberRead
        BY DEF PInv, ReadOK
    <3> QED
        BY <3>1 DEF MemberRead
  <2> QED
    BY <1>1, <1>4, <2>1 DEF PInv, ReadOK
<1>7. PhaseOK'
    BY <1>1 DEF PInv, PhaseOK
<1> QED
    BY <1>5, <1>6, <1>7 DEF PInv

(* A file that is opened, written or left. *)
LEMMA FilesKeep == PInv /\ (OpenFile \/ CloseFile \/ TrainerDies) => PInv'
<1> SUFFICES ASSUME PInv, OpenFile \/ CloseFile \/ TrainerDies PROVE PInv'
    OBVIOUS
<1>1. /\ models' = models /\ phase' = phase /\ at' = at /\ loaded' = loaded
      /\ columns' = columns
    BY DEF OpenFile, CloseFile, TrainerDies, modelVars
<1>2. /\ trainer \in [training : Nat, done : 0 .. Members + 1]
      /\ writing \in BOOLEAN /\ (writing => trainer.done <= Members)
      /\ files \in [Paths -> Nat \cup {NaN, Torn}]
      /\ \A p \in Paths : files[p] \in Nat => files[p] <= trainer.training
    BY DEF PInv, FilesOK
<1>3. FilesOK' /\ trainer'.training = trainer.training
  <2>1. CASE OpenFile
    <3>1. trainer.done <= Members /\ trainer' = trainer /\ files' = [files EXCEPT ![trainer.done] = Torn]
        BY <2>1 DEF OpenFile
    <3>2. writing' = TRUE
        BY <2>1 DEF OpenFile
    <3>3. files' \in [Paths -> Nat \cup {NaN, Torn}]
          /\ \A p \in Paths : files'[p] \in Nat => files'[p] <= trainer.training
        BY <1>2, <3>1, TrainingIs
    <3> QED
        BY <1>2, <3>1, <3>2, <3>3 DEF FilesOK
  <2>2. CASE CloseFile
    <3>1. /\ writing /\ files' = [files EXCEPT ![trainer.done] = trainer.training]
          /\ trainer' = [trainer EXCEPT !.done = @ + 1]
        BY <2>2 DEF CloseFile
    <3>2. writing' = FALSE
        BY <2>2 DEF CloseFile
    <3>3. trainer.done + 1 \in 0 .. Members + 1 /\ trainer.training \in Nat
          /\ trainer.training <= trainer.training
      <4>1. trainer.done \in 0 .. Members + 1 /\ trainer.done <= Members /\ trainer.training \in Nat
        BY <1>2, <3>1
      <4> QED
        BY <4>1, TrainingIs
    <3>4. files' \in [Paths -> Nat \cup {NaN, Torn}]
          /\ \A p \in Paths : files'[p] \in Nat => files'[p] <= trainer.training
        BY <1>2, <3>1, <3>3
    <3>5. trainer' \in [training : Nat, done : 0 .. Members + 1] /\ trainer'.training = trainer.training
        BY <1>2, <3>1, <3>3
    <3> QED
        BY <3>2, <3>4, <3>5 DEF FilesOK
  <2>3. CASE TrainerDies
    <3>1. trainer' = [trainer EXCEPT !.done = Members + 1] /\ files' = files
        BY <2>3 DEF TrainerDies
    <3>2. writing' = FALSE
        BY <2>3 DEF TrainerDies
    <3>3. Members + 1 \in 0 .. Members + 1
        BY TrainingIs
    <3>4. trainer' \in [training : Nat, done : 0 .. Members + 1] /\ trainer'.training = trainer.training
        BY <1>2, <3>1, <3>3
    <3> QED
        BY <1>2, <3>1, <3>2, <3>4 DEF FilesOK
  <2> QED
    BY <2>1, <2>2, <2>3
<1>4. ReadOK' /\ PhaseOK'
    BY <1>1, <1>3 DEF PInv, ReadOK, PhaseOK
<1> QED
    BY <1>3, <1>4 DEF PInv

(* A bar begins to load the members anew, unless all of them are. *)
LEMMA BarKeeps == PInv /\ Bar => PInv'
<1> SUFFICES ASSUME PInv, Bar PROVE PInv'
    OBVIOUS
<1>1. /\ files' = files /\ trainer' = trainer /\ writing' = writing
      /\ phase' = (IF loaded THEN "predict" ELSE "load")
      /\ models' = (IF loaded THEN models ELSE <<>>)
      /\ at' = 0 /\ loaded' = loaded /\ columns' = columns
    BY DEF Bar, trainVars
<1>2. FilesOK'
    BY <1>1 DEF PInv, FilesOK
<1>3. ReadOK'
    BY <1>1 DEF PInv, ReadOK
<1>4. PhaseOK'
  <2>1. 0 \in 0 .. EnsembleN
    BY TrainingIs
  <2> QED
    BY <1>1, <2>1 DEF PInv, PhaseOK
<1> QED
    BY <1>2, <1>3, <1>4 DEF PInv

(* The next member is read, or the attempt ends. *)
LEMMA LoadKeeps == PInv /\ LoadMember => PInv'
<1> SUFFICES ASSUME PInv, LoadMember PROVE PInv'
    OBVIOUS
<1>1. /\ files' = files /\ trainer' = trainer /\ writing' = writing /\ loaded' = loaded
      /\ columns' = columns /\ phase = "load" /\ at < EnsembleN
    BY DEF LoadMember, trainVars
<1>2. FilesOK'
    BY <1>1 DEF PInv, FilesOK
<1>3. ~loaded /\ at \in 0 .. EnsembleN /\ Len(models) = at /\ models \in Seq(MemberRead)
    BY <1>1 DEF PInv, PhaseOK, ReadOK
<1>4. CASE files[MemberPath(at)] \in {NaN, Torn}
  <2>1. phase' = "bar" /\ models' = models /\ at' = at
    BY <1>4 DEF LoadMember
  <2> QED
    BY <1>1, <1>2, <1>3, <2>1 DEF PInv, ReadOK, PhaseOK
<1>5. CASE files[MemberPath(at)] \notin {NaN, Torn}
  <2>1. PICK p : p = MemberPath(at)
    OBVIOUS
  <2>2. /\ models' = Append(models, [path |-> p, training |-> files[p]])
        /\ at' = at + 1 /\ phase' = phase
    BY <1>5, <2>1 DEF LoadMember
  <2>3. p \in Paths
    BY <1>1, <1>3, <2>1, TrainingIs DEF MemberPath, Paths, Alias
  <2>4. files[p] \in Nat /\ files[p] <= trainer.training
    BY <1>5, <2>1, <2>3 DEF PInv, FilesOK
  <2>5. PICK m \in MemberRead : m = [path |-> p, training |-> files[p]]
    BY <2>3, <2>4 DEF MemberRead
  <2>6. m.path = p /\ m.training = files[p]
    BY <2>5
  <2>7. models' = Append(models, m)
    BY <2>2, <2>5
  <2>8. /\ models' \in Seq(MemberRead) /\ Len(models') = at + 1 /\ models'[at + 1] = m
        /\ \A i \in 1 .. at : models'[i] = models[i]
    BY <1>3, <2>7
  <2>9. ASSUME NEW i \in 1 .. at + 1
        PROVE  models'[i].path = MemberPath(i - 1) /\ models'[i].training <= trainer.training
    <3>1. CASE i = at + 1
      <4>1. i - 1 = at
        BY <1>3, <3>1
      <4> QED
        BY <2>1, <2>4, <2>6, <2>8, <3>1, <4>1
    <3>2. CASE i # at + 1
      <4>1. i \in 1 .. at
        BY <1>3, <3>2
      <4> QED
        BY <1>3, <2>8, <4>1 DEF PInv, ReadOK
    <3> QED
        BY <3>1, <3>2
  <2>10. ReadOK'
    BY <1>1, <2>8, <2>9 DEF ReadOK
  <2>11. at + 1 \in 0 .. EnsembleN
    BY <1>1, <1>3, TrainingIs
  <2>12. PhaseOK'
    BY <1>1, <1>3, <2>2, <2>8, <2>11 DEF PhaseOK
  <2> QED
    BY <1>2, <2>10, <2>12 DEF PInv
<1> QED
    BY <1>4, <1>5

(* The ensemble is complete. *)
LEMMA LoadedKeeps == PInv /\ Loaded => PInv'
<1> SUFFICES ASSUME PInv, Loaded PROVE PInv'
    OBVIOUS
<1>1. /\ files' = files /\ trainer' = trainer /\ writing' = writing /\ models' = models
      /\ columns' = SelectFeatures /\ phase' = "predict" /\ phase = "load" /\ at = EnsembleN
    BY DEF Loaded, trainVars
<1>2. Len(models') = EnsembleN
    BY <1>1 DEF PInv, PhaseOK
<1> QED
    BY <1>1, <1>2 DEF PInv, FilesOK, ReadOK, PhaseOK

(* What the other steps do. *)
LEMMA EnsembleRest ==
    PInv /\ (Predict \/ ResetStages \/ UNCHANGED vars) => PInv'
<1> SUFFICES ASSUME PInv, Predict \/ ResetStages \/ UNCHANGED vars PROVE PInv'
    OBVIOUS
<1>1. /\ files' = files /\ trainer' = trainer /\ writing' = writing /\ models' = models
      /\ loaded' = loaded /\ columns' = columns
      /\ phase' = "bar" \/ (phase' = phase /\ at' = at)
    BY DEF Predict, ResetStages, vars, trainVars, modelVars
<1> QED
    BY <1>1 DEF PInv, FilesOK, ReadOK, PhaseOK

-----------------------------------------------------------------------------
(* What every step does to the features.                                   *)

LEMMA FeaturesKeep == FInv /\ [Next]_vars => FInv'
<1> SUFFICES ASSUME FInv, [Next]_vars PROVE FInv'
    OBVIOUS
<1>1. CASE Bar
  <2>1. PICK segment \in 1 .. 2, valid \in BOOLEAN :
            Transform([segment |-> segment, valid |-> valid])
    BY <1>1 DEF Bar
  <2>2. PICK bar \in BarSet : bar = [segment |-> segment, valid |-> valid]
    BY <2>1 DEF BarSet
  <2> QED
    BY <2>1, <2>2, TransformKeeps
<1>2. CASE ResetStages
    BY <1>2, ResetKeeps DEF ResetStages
<1>3. CASE ~Bar /\ ~ResetStages
  <2>1. UNCHANGED featureVars
    BY <1>3 DEF Next, Train, OpenFile, CloseFile, TrainerDies, LoadMember, Loaded, Predict, vars
  <2> QED
    BY <2>1, FeaturesRest
<1> QED
    BY <1>1, <1>2, <1>3

LEMMA EnsembleKeeps == PInv /\ [Next]_vars => PInv'
BY TrainKeeps, FilesKeep, BarKeeps, LoadKeeps, LoadedKeeps, EnsembleRest, Zenon DEF Next

(* The buffers of every feature hold what the next bar needs, and every    *)
(* attempt to load the ensemble has read the first members.                *)
THEOREM PredictorInvariance == Spec => [](FInv /\ PInv)
<1>1. Init => FInv /\ PInv
    BY FeaturesStart, EnsembleStarts DEF Init
<1>2. FInv /\ PInv /\ [Next]_vars => (FInv /\ PInv)'
    BY FeaturesKeep, EnsembleKeeps
<1> QED
    BY <1>1, <1>2, PTL DEF Spec

(* Every column of a row is the feature its spec describes, over the bars  *)
(* of its segment since the last reset, whatever gaps, missing values and  *)
(* resets came before, unless it is a lag or batch that reaches into an    *)
(* earlier segment; and the columns are those the ranking leaves           *)
(* (streaming.py, bounded_batch.py, catalog.py).                           *)
THEOREM ColumnsAreTheFeatures == Spec => []FeaturesAsDefined
BY PredictorInvariance, FInvIsEnough, PTL

(* A process that predicts does so with each member of its ensemble once,  *)
(* each read whole, and from columns the features fill, whatever attempts  *)
(* failed and whatever training runs beside it (catboost_predictor.py      *)
(* _ensure_loaded, train_offline_model.py).                                *)
THEOREM PredictsWithAll == Spec => []EnsembleWhole
<1>1. FInv /\ PInv => EnsembleWhole
  <2> SUFFICES ASSUME FInv, PInv, loaded PROVE EnsembleWhole
    BY DEF EnsembleWhole
  <2>1. Len(models) = EnsembleN /\ columns = SelectFeatures /\ DOMAIN row = Names
    BY DEF PInv, PhaseOK, FInv
  <2>2. models \in Seq(MemberRead) /\ DOMAIN models = 1 .. Len(models)
    BY DEF PInv, ReadOK
  <2>3. ASSUME NEW i \in DOMAIN models
        PROVE  models[i].path = MemberPath(i - 1) /\ models[i].training \in 0 .. trainer.training
    <3>1. models[i].path = MemberPath(i - 1) /\ models[i].training <= trainer.training
        BY <2>2, <2>3 DEF PInv, ReadOK
    <3>2. models[i].training \in Nat
      <4>1. models[i] \in MemberRead
        BY <2>2, <2>3
      <4> QED
        BY <4>1 DEF MemberRead
    <3>3. trainer.training \in Nat
        BY DEF PInv, FilesOK
    <3> QED
        BY <3>1, <3>2, <3>3
  <2> QED
    BY <2>1, <2>3, TrainingIs DEF EnsembleWhole
<1> QED
    BY <1>1, PredictorInvariance, PTL
=============================================================================
