---------------------------- MODULE EngineProofs ----------------------------
(***************************************************************************)
(* Proofs about Engine, for every chain of policies, set of policies the   *)
(* operator may swap, inventory cap, number of bars, actions and commands. *)
(*                                                                         *)
(* EInv links the snapshot of the bar to the book: while a bar acts there  *)
(* are no more orders than were open when it was taken and actions since,  *)
(* which rests on every order having been filled before.  Of the chain it  *)
(* says that the kill switch is in it while engaged, and that max_loss     *)
(* never comes to stand before max_positions if it did not at first.       *)
(***************************************************************************)
EXTENDS Engine, FiniteSetTheorems, SequenceTheorems, WellFoundedInduction, TLAPS

Places ==
    {"wait", "drain", "fills", "exits", "decide", "act", "ended", "final", "done"}

CountsOK ==
    /\ pc \in Places
    /\ barNo \in Nat /\ scaleIns \in Nat /\ emitted \in Nat
    /\ nDecisions \in Nat /\ lastAt \in Nat
    /\ snapshot.nOpen \in Nat

QueueOK ==
    /\ queue \in Seq(Commands)
    /\ issued \in Nat /\ dueAtBar \in Nat /\ dueAtBar <= issued
    /\ pc \in {"fills", "exits", "decide", "act", "ended"}
          => Len(queue) <= issued - dueAtBar

StopOK ==
    stopAt # None => /\ stopAt \in Nat
                     /\ barNo <= stopAt + 1
                     /\ pc = "wait" => barNo = stopAt

CheckpointOK ==
    ~attemptFailed =>
        /\ pc \notin {"act", "final", "done"} /\ Every > 0
              => nDecisions - lastAt < Every
        /\ pc = "done" => lastAt = nDecisions

(* name is in the chain, and before other wherever that is *)
FirstIn(name, other, chain) ==
    \E k \in DOMAIN chain :
        /\ chain[k] = name
        /\ \A j \in DOMAIN chain : chain[j] = other => k < j

ChainOK ==
    /\ policies \in Seq(PolicyNames)
    /\ engaged => \E k \in DOMAIN policies : policies[k] = "kill_switch"
    /\ AskedFirst("max_positions") => FirstIn("max_positions", "max_loss", policies)

BookOK ==
    /\ state \in [Ids -> {"unborn", "pending", "open", "closed", "withdrawn"}]
    /\ Cardinality(Live) <= Cap
    /\ pc \in {"exits", "decide"} => InState("pending") = {}
    /\ pc \notin {"act", "final", "done"} => emitted = 0
    /\ pc = "act" => Cardinality(Live) <= snapshot.nOpen + emitted
    /\ MaxOpen > 0 /\ AskedFirst("max_positions")
          => Cardinality(Live) <= MaxOpen - 1 + MaxActions

EInv == CountsOK /\ QueueOK /\ StopOK /\ CheckpointOK /\ ChainOK /\ BookOK

-----------------------------------------------------------------------------
(* The chain of policies.                                                  *)

(* A nonempty set of naturals has a least element. *)
LEMMA LeastExists ==
    ASSUME NEW S \in SUBSET Nat, S # {}
    PROVE  \E x \in S : \A y \in S : x <= y
<1>1. PICK x \in S : \A y \in S : ~(<<y, x>> \in OpToRel(<, Nat))
    BY NatLessThanWellFounded, WFMin
<1>2. \A y \in S : ~(y < x)
    BY <1>1, Zenon DEF OpToRel
<1>3. \A y \in S : x <= y
    BY <1>2
<1> QED
    BY <1>3

(* RemoveAt takes out one element and shifts the later ones down. *)
LEMMA RemoveAtIs ==
    ASSUME NEW S, NEW s \in Seq(S), NEW i \in 1..Len(s)
    PROVE  /\ RemoveAt(s, i) \in Seq(S)
           /\ Len(RemoveAt(s, i)) = Len(s) - 1
           /\ \A k \in 1..(Len(s) - 1) :
                 RemoveAt(s, i)[k] = IF k < i THEN s[k] ELSE s[k + 1]
<1> DEFINE a == SubSeq(s, 1, i - 1)
           b == SubSeq(s, i + 1, Len(s))
<1>0. Len(s) \in Nat /\ i \in Nat
    OBVIOUS
<1>1. a \in Seq(S) /\ Len(a) = i - 1 /\ \A k \in 1..(i - 1) : a[k] = s[k]
  <2>1. \A k \in 1..(i - 1) : s[k] \in S
    BY <1>0
  <2>2. /\ SubSeq(s, 1, i - 1) \in Seq(S)
        /\ Len(SubSeq(s, 1, i - 1)) = IF 1 <= i - 1 THEN (i - 1) - 1 + 1 ELSE 0
        /\ \A k \in 1..((i - 1) - 1 + 1) : SubSeq(s, 1, i - 1)[k] = s[1 + k - 1]
    BY <1>0, <2>1, SubSeqProperties
  <2> QED
    BY <1>0, <2>2
<1>2. /\ b \in Seq(S) /\ Len(b) = Len(s) - i
      /\ \A k \in 1..(Len(s) - i) : b[k] = s[i + k]
  <2>1. \A k \in (i + 1)..Len(s) : s[k] \in S
    BY <1>0
  <2>2. /\ SubSeq(s, i + 1, Len(s)) \in Seq(S)
        /\ Len(SubSeq(s, i + 1, Len(s))) =
              IF i + 1 <= Len(s) THEN Len(s) - (i + 1) + 1 ELSE 0
        /\ \A k \in 1..(Len(s) - (i + 1) + 1) :
              SubSeq(s, i + 1, Len(s))[k] = s[(i + 1) + k - 1]
    BY <1>0, <2>1, SubSeqProperties
  <2> QED
    BY <1>0, <2>2
<1>3. RemoveAt(s, i) = a \o b
    BY DEF RemoveAt
<1> HIDE DEF a, b
<1>4. /\ a \o b \in Seq(S)
      /\ Len(a \o b) = Len(a) + Len(b)
      /\ \A k \in 1..(Len(a) + Len(b)) :
            (a \o b)[k] = IF k <= Len(a) THEN a[k] ELSE b[k - Len(a)]
    BY <1>1, <1>2, ConcatProperties
<1>5. ASSUME NEW k \in 1..(Len(s) - 1)
      PROVE  (a \o b)[k] = IF k < i THEN s[k] ELSE s[k + 1]
  <2>1. CASE k < i
    BY <1>0, <1>1, <1>2, <1>4, <2>1
  <2>2. CASE ~(k < i)
    <3>1. (a \o b)[k] = b[k - (i - 1)]
        BY <1>0, <1>1, <1>2, <1>4, <2>2
    <3>2. k - (i - 1) \in 1..(Len(s) - i)
        BY <1>0, <2>2
    <3>3. b[k - (i - 1)] = s[i + (k - (i - 1))]
        BY <1>2, <3>2
    <3>4. i + (k - (i - 1)) = k + 1
        BY <1>0
    <3> QED
        BY <3>1, <3>3, <3>4, <2>2
  <2> QED
    BY <2>1, <2>2
<1> QED
    BY <1>0, <1>1, <1>2, <1>3, <1>4, <1>5

(* Taking a policy out loses no other and changes no order. *)
LEMMA RemovedKeeps ==
    ASSUME policies \in Seq(PolicyNames), NEW name
    PROVE  /\ Removed(name) \in Seq(PolicyNames)
           /\ \A p : p # name /\ (\E k \in DOMAIN policies : policies[k] = p)
                 => \E k \in DOMAIN Removed(name) : Removed(name)[k] = p
           /\ \A p, q : p # name /\ FirstIn(p, q, policies)
                 => FirstIn(p, q, Removed(name))
<1> DEFINE at == {k \in DOMAIN policies : policies[k] = name}
           i == CHOOSE k \in at : TRUE
<1>1. CASE at = {}
    BY <1>1 DEF Removed
<1>2. CASE at # {}
  <2>1. i \in 1..Len(policies) /\ policies[i] = name
    BY <1>2
  <2>2. Removed(name) = RemoveAt(policies, i)
    BY <1>2 DEF Removed
  <2> DEFINE s == RemoveAt(policies, i)
  <2> HIDE DEF i
  <2>3. /\ s \in Seq(PolicyNames) /\ Len(s) = Len(policies) - 1
        /\ \A k \in 1..(Len(policies) - 1) :
              s[k] = IF k < i THEN policies[k] ELSE policies[k + 1]
    BY <2>1, RemoveAtIs
  <2> HIDE DEF s
  <2>4. ASSUME NEW k \in DOMAIN policies, policies[k] # name
        PROVE  LET l == IF k < i THEN k ELSE k - 1
               IN  l \in DOMAIN s /\ s[l] = policies[k]
    BY <2>1, <2>3, <2>4
  <2>5. ASSUME NEW l \in DOMAIN s
        PROVE  LET k == IF l < i THEN l ELSE l + 1
               IN  k \in DOMAIN policies /\ s[l] = policies[k]
    BY <2>1, <2>3
  <2>6. ASSUME NEW p, p # name, NEW k \in DOMAIN policies, policies[k] = p
        PROVE  \E l \in DOMAIN s : s[l] = p
    BY <2>4, <2>6
  <2>7. ASSUME NEW p, NEW q, p # name, FirstIn(p, q, policies)
        PROVE  FirstIn(p, q, s)
    <3>1. PICK k \in DOMAIN policies :
             /\ policies[k] = p
             /\ \A j \in DOMAIN policies : policies[j] = q => k < j
        BY <2>7 DEF FirstIn
    <3> DEFINE l == IF k < i THEN k ELSE k - 1
    <3>2. l \in DOMAIN s /\ s[l] = p
        BY <2>4, <2>7, <3>1
    <3>3. ASSUME NEW m \in DOMAIN s, s[m] = q
          PROVE  l < m
      <4>1. k < IF m < i THEN m ELSE m + 1
        BY <2>5, <3>1, <3>3
      <4>2. k # i
        BY <2>1, <2>7, <3>1
      <4>3. k \in Int /\ m \in Int /\ i \in Int
        BY <2>1, <2>3
      <4> QED
        BY <4>1, <4>2, <4>3
    <3> QED
        BY <3>2, <3>3 DEF FirstIn
  <2> QED
    BY <2>2, <2>3, <2>6, <2>7 DEF s
<1> QED
    BY <1>1, <1>2

(* Putting one in keeps all there were, in their order, and has it there. *)
LEMMA AddedKeeps ==
    ASSUME policies \in Seq(PolicyNames), NEW name \in PolicyNames
    PROVE  /\ Added(name) \in Seq(PolicyNames)
           /\ \E k \in DOMAIN Added(name) : Added(name)[k] = name
           /\ \A p : (\E k \in DOMAIN policies : policies[k] = p)
                 => \E k \in DOMAIN Added(name) : Added(name)[k] = p
           /\ \A p, q : FirstIn(p, q, policies) => FirstIn(p, q, Added(name))
<1>1. CASE \E k \in DOMAIN policies : policies[k] = name
    BY <1>1 DEF Added
<1>2. CASE ~\E k \in DOMAIN policies : policies[k] = name
  <2> DEFINE s == Append(policies, name)
  <2>1. Added(name) = s
    BY <1>2 DEF Added
  <2>2. /\ s \in Seq(PolicyNames) /\ Len(s) = Len(policies) + 1
        /\ \A k \in 1..Len(policies) : s[k] = policies[k]
        /\ s[Len(policies) + 1] = name
    OBVIOUS
  <2> HIDE DEF s
  <2>3. DOMAIN policies = 1..Len(policies) /\ DOMAIN s = 1..(Len(policies) + 1)
        /\ Len(policies) \in Nat
    BY <2>2
  <2>4. ASSUME NEW p, NEW q, FirstIn(p, q, policies)
        PROVE  FirstIn(p, q, s)
    <3>1. PICK k \in DOMAIN policies :
             /\ policies[k] = p
             /\ \A j \in DOMAIN policies : policies[j] = q => k < j
        BY <2>4 DEF FirstIn
    <3>2. ASSUME NEW m \in DOMAIN s, s[m] = q
          PROVE  k < m
        BY <2>2, <2>3, <3>1, <3>2
    <3> QED
        BY <2>2, <2>3, <3>1, <3>2 DEF FirstIn
  <2>5. \E k \in DOMAIN s : s[k] = name
    BY <2>2, <2>3
  <2>6. \A k \in DOMAIN policies : k \in DOMAIN s /\ s[k] = policies[k]
    BY <2>2, <2>3
  <2> QED
    BY <2>1, <2>2, <2>4, <2>5, <2>6
<1> QED
    BY <1>1, <1>2

(* What was rejected and still goes out was rejected by max_loss, not later *)
(* in the chain.                                                            *)
LEMMA DispatchedThroughMaxLoss ==
    ASSUME policies \in Seq(PolicyNames), NEW kind, NEW wide,
           Dispatched(kind, wide), NEW k \in Rejecting(kind, wide)
    PROVE  \E j \in Rejecting(kind, wide) : j <= k /\ policies[j] = "max_loss"
<1>1. Rejecting(kind, wide) \in SUBSET Nat
    BY DEF Rejecting
<1>2. PICK j \in Rejecting(kind, wide) : \A i \in Rejecting(kind, wide) : j <= i
    BY <1>1, LeastExists
<1>3. policies[j] = "max_loss"
    BY <1>2 DEF Dispatched
<1> QED
    BY <1>2, <1>3

-----------------------------------------------------------------------------
(* The book.                                                               *)

(* There are finitely many orders. *)
LEMMA LiveFinite ==
    /\ IsFiniteSet(Live) /\ Cardinality(Live) \in Nat
    /\ IsFiniteSet(InState("open")) /\ Cardinality(InState("open")) \in Nat
<1>1. Live \subseteq Ids /\ InState("open") \subseteq Ids
    BY DEF Live, InState
<1>2. IsFiniteSet(Ids)
    BY EngineAssumption
<1> QED
    BY <1>1, <1>2, FS_Subset, FS_CardinalityType

LEMMA LiveFiniteAfter ==
    IsFiniteSet(Live') /\ Cardinality(Live') \in Nat
<1>1. Live' \subseteq Ids
    BY DEF Live, InState
<1>2. IsFiniteSet(Ids)
    BY EngineAssumption
<1> QED
    BY <1>1, <1>2, FS_Subset, FS_CardinalityType

(* A subset of the live orders is no larger. *)
LEMMA NoMoreLive ==
    ASSUME Live' \subseteq Live
    PROVE  Cardinality(Live') <= Cardinality(Live)
BY LiveFinite, FS_Subset

(* A submission adds one order, within the cap. *)
LEMMA SubmitLive ==
    ASSUME BookOK, NEW id \in Ids, Submit(id)
    PROVE  /\ Cardinality(Live') = Cardinality(Live) + 1
           /\ Cardinality(Live) < Cap
<1>1. Live' = Live \cup {id} /\ id \notin Live
    BY DEF BookOK, Submit, Live, InState
<1>2. Cardinality(Live \cup {id}) = Cardinality(Live) + 1
    BY <1>1, LiveFinite, FS_AddElement
<1> QED
    BY <1>1, <1>2 DEF Submit

(* Leaving or withdrawing makes no order live and none pending. *)
LEMMA LeavingShrinks ==
    ASSUME state \in [Ids -> {"unborn", "pending", "open", "closed", "withdrawn"}],
           NEW ids \in SUBSET Ids, NEW s \in {"closed", "withdrawn"},
           state' = [i \in Ids |-> IF i \in ids THEN s ELSE state[i]]
    PROVE  /\ state' \in [Ids -> {"unborn", "pending", "open", "closed", "withdrawn"}]
           /\ Live' \subseteq Live
           /\ InState("pending")' \subseteq InState("pending")
BY DEF Live, InState

(* The book says no more than that of an exit. *)
LEMMA ExitShrinks ==
    ASSUME state \in [Ids -> {"unborn", "pending", "open", "closed", "withdrawn"}],
           NEW id \in Ids, NEW s \in {"closed", "withdrawn"},
           state' = [state EXCEPT ![id] = s]
    PROVE  /\ state' \in [Ids -> {"unborn", "pending", "open", "closed", "withdrawn"}]
           /\ Live' \subseteq Live
           /\ InState("pending")' \subseteq InState("pending")
BY DEF Live, InState

-----------------------------------------------------------------------------
(* The commands.                                                           *)

(* A queued policy command names a policy that may be swapped. *)
LEMMA CommandNames ==
    ASSUME NEW cmd \in Commands, cmd[1] \in {"risk_add", "risk_remove"}
    PROVE  cmd[2] \in Swappable
BY DEF Commands

(* Executing a command keeps the chain's promises. *)
LEMMA ExecuteKeepsChain ==
    ASSUME ChainOK, NEW cmd \in Commands, Execute(cmd)
    PROVE  ChainOK'
<1>0. /\ policies \in Seq(PolicyNames)
      /\ engaged => \E k \in DOMAIN policies : policies[k] = "kill_switch"
      /\ AskedFirst("max_positions") => FirstIn("max_positions", "max_loss", policies)
    BY DEF ChainOK
<1>1. AskedFirst("max_positions")' = AskedFirst("max_positions")
    BY DEF AskedFirst, Before
<1>2. AskedFirst("max_positions") => "max_positions" \notin Swappable
    BY DEF AskedFirst
<1>3. ASSUME NEW name \in PolicyNames, policies' = Added(name)
      PROVE  /\ policies' \in Seq(PolicyNames)
             /\ \E k \in DOMAIN policies' : policies'[k] = name
             /\ \A p : (\E k \in DOMAIN policies : policies[k] = p)
                   => \E k \in DOMAIN policies' : policies'[k] = p
             /\ AskedFirst("max_positions")
                   => FirstIn("max_positions", "max_loss", policies')
    BY <1>0, <1>3, AddedKeeps
<1>4. CASE cmd[1] = "kill"
  <2>1. policies' = Added("kill_switch")
    BY <1>4 DEF Execute
  <2>2. "kill_switch" \in PolicyNames
    BY DEF PolicyNames
  <2>3. /\ policies' \in Seq(PolicyNames)
        /\ \E k \in DOMAIN policies' : policies'[k] = "kill_switch"
        /\ AskedFirst("max_positions")
              => FirstIn("max_positions", "max_loss", policies')
    BY <1>3, <2>1, <2>2
  <2> QED
    BY <1>1, <2>3 DEF ChainOK
<1>5. CASE cmd[1] \in {"unkill", "pause", "resume", "flatten"}
  <2>1. policies' = policies /\ (engaged' => engaged)
    BY <1>5 DEF Execute, risk
  <2> QED
    BY <1>0, <1>1, <2>1 DEF ChainOK
<1>6. CASE cmd[1] = "risk_add"
  <2>1. policies' = Added(cmd[2]) /\ (engaged' => engaged)
    BY <1>6 DEF Execute, Forgotten
  <2>2. cmd[2] \in PolicyNames
    BY <1>6, CommandNames, EngineAssumption
  <2>3. /\ policies' \in Seq(PolicyNames)
        /\ \A p : (\E k \in DOMAIN policies : policies[k] = p)
              => \E k \in DOMAIN policies' : policies'[k] = p
        /\ AskedFirst("max_positions")
              => FirstIn("max_positions", "max_loss", policies')
    BY <1>3, <2>1, <2>2
  <2> QED
    BY <1>0, <1>1, <2>1, <2>3 DEF ChainOK
<1>7. CASE cmd[1] = "risk_remove"
  <2>1. /\ policies' = Removed(cmd[2])
        /\ engaged' => engaged /\ cmd[2] # "kill_switch"
    BY <1>7 DEF Execute, Forgotten
  <2>2. cmd[2] \in Swappable
    BY <1>7, CommandNames
  <2>3. /\ Removed(cmd[2]) \in Seq(PolicyNames)
        /\ \A p : p # cmd[2] /\ (\E k \in DOMAIN policies : policies[k] = p)
              => \E k \in DOMAIN Removed(cmd[2]) : Removed(cmd[2])[k] = p
        /\ \A p, q : p # cmd[2] /\ FirstIn(p, q, policies)
              => FirstIn(p, q, Removed(cmd[2]))
    BY <1>0, RemovedKeeps
  <2>4. AskedFirst("max_positions") => FirstIn("max_positions", "max_loss", policies')
    BY <1>0, <1>2, <2>1, <2>2, <2>3
  <2>5. engaged' => \E k \in DOMAIN policies' : policies'[k] = "kill_switch"
    BY <1>0, <2>1, <2>3
  <2> QED
    BY <1>1, <2>1, <2>3, <2>4, <2>5 DEF ChainOK
<1> QED
    BY <1>4, <1>5, <1>6, <1>7 DEF Execute

(* Executing a command closes orders at most. *)
LEMMA ExecuteShrinks ==
    ASSUME state \in [Ids -> {"unborn", "pending", "open", "closed", "withdrawn"}],
           NEW cmd, Execute(cmd)
    PROVE  /\ state' \in [Ids -> {"unborn", "pending", "open", "closed", "withdrawn"}]
           /\ Live' \subseteq Live
<1>1. CASE cmd[1] = "flatten"
  <2> DEFINE ids == IF Len(cmd) = 1 THEN InState("open")
                    ELSE {cmd[2]} \cap InState("open")
  <2>1. ids \in SUBSET Ids
    BY DEF InState
  <2>2. CloseAll(ids)
    BY <1>1 DEF Execute
  <2> HIDE DEF ids
  <2>3. state' = [i \in Ids |-> IF i \in ids THEN "closed" ELSE state[i]]
    BY <2>2 DEF CloseAll
  <2> QED
    BY <2>1, <2>3, LeavingShrinks
<1>2. CASE cmd[1] # "flatten"
  <2>1. state' = state
    BY <1>2 DEF Execute, bookVars
  <2> QED
    BY <2>1 DEF Live, InState
<1> QED
    BY <1>1, <1>2

-----------------------------------------------------------------------------
(* What kinds of steps leave of EInv.                                      *)

(* The chain's promises depend on nothing else. *)
LEMMA ChainUntouched ==
    ASSUME ChainOK, policies' = policies, engaged' = engaged
    PROVE  ChainOK'
BY DEF ChainOK, AskedFirst, Before, FirstIn

(* The same of the requests to stop, *)
LEMMA StopUntouched ==
    ASSUME StopOK, stopAt' = stopAt, barNo' = barNo,
           pc' = "wait" => pc = "wait" \/ stopAt = None
    PROVE  StopOK'
BY DEF StopOK

(* of the queue, *)
LEMMA QueueUntouched ==
    ASSUME QueueOK, UNCHANGED <<operator, dueAtBar>>,
           pc' \in {"fills", "exits", "decide", "act", "ended"}
              => \/ pc \in {"fills", "exits", "decide", "act", "ended"}
                 \/ queue = << >>
    PROVE  QueueOK'
<1>1. queue' = queue /\ issued' = issued /\ dueAtBar' = dueAtBar
    BY DEF operator
<1>2. queue = << >> => Len(queue) <= issued - dueAtBar
    BY DEF QueueOK
<1> QED
    BY <1>1, <1>2 DEF QueueOK

(* and of the checkpoints. *)
LEMMA CheckpointUntouched ==
    ASSUME CheckpointOK, UNCHANGED <<checkpoint, nDecisions>>,
           pc' = "done" => pc = "done",
           pc \in {"act", "final", "done"} => pc' \in {"act", "final", "done"}
    PROVE  CheckpointOK'
BY DEF CheckpointOK, checkpoint

(* Orders that only leave the book keep its bounds. *)
LEMMA BookShrinks ==
    ASSUME BookOK, CountsOK,
           state' \in [Ids -> {"unborn", "pending", "open", "closed", "withdrawn"}],
           Live' \subseteq Live,
           pc \in {"exits", "decide"} => InState("pending")' \subseteq InState("pending"),
           pc' = pc, snapshot' = snapshot,
           \/ emitted' = emitted
           \/ pc = "act" /\ emitted' = emitted + 1
    PROVE  BookOK'
<1>1. Cardinality(Live') <= Cardinality(Live)
    BY NoMoreLive
<1>2. AskedFirst("max_positions")' = AskedFirst("max_positions")
    BY DEF AskedFirst, Before
<1>3. Cardinality(Live) \in Nat /\ Cardinality(Live') \in Nat
    BY LiveFinite, LiveFiniteAfter
<1>4. Cap \in Nat /\ MaxOpen \in Nat /\ MaxActions \in Nat
    BY EngineAssumption
<1>5. Cardinality(Live') <= Cap
    BY <1>1, <1>3, <1>4 DEF BookOK
<1>6. pc' \in {"exits", "decide"} => InState("pending")' = {}
    BY DEF BookOK
<1>7. pc' \notin {"act", "final", "done"} => emitted' = 0
    BY DEF BookOK
<1>8. pc' = "act" => Cardinality(Live') <= snapshot'.nOpen + emitted'
    BY <1>1, <1>3 DEF BookOK, CountsOK
<1>9. MaxOpen > 0 /\ AskedFirst("max_positions")
         => Cardinality(Live') <= MaxOpen - 1 + MaxActions
    BY <1>1, <1>3, <1>4 DEF BookOK
<1> QED
    BY <1>2, <1>5, <1>6, <1>7, <1>8, <1>9 DEF BookOK

(* A book that is not touched keeps its bounds wherever the engine goes,   *)
(* but to a decision.                                                      *)
LEMMA BookUntouched ==
    ASSUME BookOK, UNCHANGED state,
           pc' \in {"exits", "decide"} => InState("pending") = {},
           pc' \notin {"act", "final", "done"} => emitted' = 0,
           pc' = "act" => Cardinality(Live) <= snapshot'.nOpen + emitted'
    PROVE  BookOK'
<1>1. Live' = Live /\ InState("pending")' = InState("pending")
    BY DEF Live, InState
<1>2. AskedFirst("max_positions")' = AskedFirst("max_positions")
    BY DEF AskedFirst, Before
<1> QED
    BY <1>1, <1>2 DEF BookOK

(* Going to another place. *)
LEMMA GoToKeeps ==
    ASSUME EInv, NEW place \in Places \ {"act", "done"}, GoTo(place),
           place \in {"fills", "exits", "decide", "ended"}
              => \/ pc \in {"fills", "exits", "decide", "act", "ended"}
                 \/ queue = << >>,
           place = "wait" => stopAt = None,
           pc \in {"act", "final", "done"} => place = "final",
           place \in {"exits", "decide"} => InState("pending") = {}
    PROVE  EInv'
<1>1. /\ pc' = place
      /\ UNCHANGED <<bookVars, barNo, operator, dueAtBar, risk, paused, scaleIns,
                     deciding, checkpoint, stopAt>>
    BY DEF GoTo
<1>2. /\ state' = state /\ policies' = policies /\ engaged' = engaged
      /\ snapshot' = snapshot /\ emitted' = emitted /\ nDecisions' = nDecisions
      /\ lastAt' = lastAt
    BY <1>1 DEF bookVars, risk, deciding, checkpoint
<1>3. CountsOK'
    BY <1>1, <1>2 DEF EInv, CountsOK
<1>4. QueueOK'
    BY <1>1, QueueUntouched DEF EInv
<1>5. StopOK'
    BY <1>1, StopUntouched DEF EInv
<1>6. CheckpointOK'
    BY <1>1, <1>2, CheckpointUntouched DEF EInv
<1>7. ChainOK'
    BY <1>2, ChainUntouched DEF EInv
<1>8. BookOK'
  <2>1. place \notin {"act", "final", "done"} => emitted = 0
    BY DEF EInv, BookOK
  <2> QED
    BY <1>1, <1>2, <2>1, BookUntouched DEF EInv
<1> QED
    BY <1>3, <1>4, <1>5, <1>6, <1>7, <1>8 DEF EInv

-----------------------------------------------------------------------------
(* The steps of an order in the book while the engine stays where it is.   *)

Stays == UNCHANGED <<pc, barNo, operator, dueAtBar, risk, paused, scaleIns,
                     deciding, checkpoint, stopAt>>

LEMMA StaysKeeps ==
    ASSUME EInv, Stays, BookOK'
    PROVE  EInv'
<1>1. /\ pc' = pc /\ barNo' = barNo /\ scaleIns' = scaleIns /\ stopAt' = stopAt
      /\ UNCHANGED <<operator, dueAtBar>> /\ UNCHANGED checkpoint
      /\ policies' = policies /\ engaged' = engaged
      /\ snapshot' = snapshot /\ emitted' = emitted
      /\ nDecisions' = nDecisions /\ lastAt' = lastAt
    BY DEF Stays, risk, deciding, checkpoint
<1>2. CountsOK'
    BY <1>1 DEF EInv, CountsOK
<1>3. QueueOK'
    BY <1>1, QueueUntouched DEF EInv
<1>4. StopOK'
    BY <1>1, StopUntouched DEF EInv
<1>5. CheckpointOK'
    BY <1>1, CheckpointUntouched DEF EInv
<1>6. ChainOK'
    BY <1>1, ChainUntouched DEF EInv
<1> QED
    BY <1>2, <1>3, <1>4, <1>5, <1>6 DEF EInv

(* An order fills: what was pending is live still. *)
LEMMA FillNextKeeps ==
    ASSUME EInv, FillNext
    PROVE  EInv'
<1>1. PICK id \in Ids : Fill(id)
    BY DEF FillNext
<1>2. Stays /\ pc = "fills" /\ pc' = pc /\ snapshot' = snapshot /\ emitted' = emitted
    BY DEF FillNext, Stays, deciding
<1>3. /\ state' \in [Ids -> {"unborn", "pending", "open", "closed", "withdrawn"}]
      /\ Live' \subseteq Live
    BY <1>1 DEF EInv, BookOK, Fill, Live, InState
<1>4. BookOK'
    BY <1>2, <1>3, BookShrinks DEF EInv
<1> QED
    BY <1>2, <1>4, StaysKeeps

(* A barrier closes an order, or a sweep ends. *)
LEMMA BarrierExitKeeps ==
    ASSUME EInv, BarrierExit
    PROVE  EInv'
<1>1. Stays /\ pc' = pc /\ snapshot' = snapshot /\ emitted' = emitted
    BY DEF BarrierExit, Stays, deciding
<1>2. state \in [Ids -> {"unborn", "pending", "open", "closed", "withdrawn"}]
    BY DEF EInv, BookOK
<1>3. /\ state' \in [Ids -> {"unborn", "pending", "open", "closed", "withdrawn"}]
      /\ Live' \subseteq Live
      /\ InState("pending")' \subseteq InState("pending")
  <2>1. CASE EndSweep
    BY <1>2, <2>1 DEF EndSweep, Live, InState
  <2>2. CASE ~EndSweep
    <3>1. PICK id \in Ids : state' = [state EXCEPT ![id] = "closed"]
        BY <2>2 DEF BarrierExit, ExitAlone, ExitAtProfit, ExitSwept, Leave
    <3> QED
        BY <1>2, <3>1, ExitShrinks
  <2> QED
    BY <2>1, <2>2
<1>4. BookOK'
    BY <1>1, <1>3, BookShrinks DEF EInv
<1> QED
    BY <1>1, <1>4, StaysKeeps

(* A command is executed. *)
LEMMA DrainOneKeeps ==
    ASSUME EInv, DrainOne
    PROVE  EInv'
<1> DEFINE cmd == Head(queue)
<1>1. /\ pc = "drain" /\ pc' = pc /\ queue # << >> /\ queue' = Tail(queue)
      /\ Execute(cmd)
      /\ UNCHANGED <<barNo, issued, dueAtBar, scaleIns, deciding, checkpoint, stopAt>>
    BY DEF DrainOne, Rest
<1>2. cmd \in Commands /\ Tail(queue) \in Seq(Commands)
    BY <1>1, HeadTailProperties DEF EInv, QueueOK
<1> HIDE DEF cmd
<1>3. /\ snapshot' = snapshot /\ emitted' = emitted /\ nDecisions' = nDecisions
      /\ lastAt' = lastAt
    BY <1>1 DEF deciding, checkpoint
<1>4. CountsOK'
    BY <1>1, <1>3 DEF EInv, CountsOK
<1>5. QueueOK'
    BY <1>1, <1>2 DEF EInv, QueueOK
<1>6. StopOK'
    BY <1>1, StopUntouched DEF EInv
<1>7. CheckpointOK'
    BY <1>1, <1>3, CheckpointUntouched DEF EInv
<1>8. ChainOK'
    BY <1>1, <1>2, ExecuteKeepsChain DEF EInv
<1>9. BookOK'
  <2>1. /\ state' \in [Ids -> {"unborn", "pending", "open", "closed", "withdrawn"}]
        /\ Live' \subseteq Live
    BY <1>1, ExecuteShrinks DEF EInv, BookOK
  <2> QED
    BY <1>1, <1>3, <2>1, BookShrinks DEF EInv
<1> QED
    BY <1>4, <1>5, <1>6, <1>7, <1>8, <1>9 DEF EInv

(* The snapshot counts every order there is: none is pending. *)
LEMMA DecideKeeps ==
    ASSUME EInv, Decide
    PROVE  EInv'
<1>1. /\ pc = "decide" /\ pc' = "act"
      /\ snapshot'.nOpen = Cardinality(InState("open"))
      /\ UNCHANGED <<bookVars, barNo, operator, dueAtBar, risk, paused, scaleIns,
                     emitted, ordered, nDecisions, checkpoint, stopAt>>
    BY DEF Decide
<1>2. /\ state' = state /\ policies' = policies /\ engaged' = engaged
      /\ lastAt' = lastAt
    BY <1>1 DEF bookVars, risk, checkpoint
<1>3. CountsOK'
    BY <1>1, <1>2, LiveFinite DEF EInv, CountsOK, Places
<1>4. QueueOK'
    BY <1>1, QueueUntouched DEF EInv
<1>5. StopOK'
    BY <1>1, StopUntouched DEF EInv
<1>6. CheckpointOK'
    BY <1>1 DEF EInv, CheckpointOK, checkpoint
<1>7. ChainOK'
    BY <1>2, ChainUntouched DEF EInv
<1>8. BookOK'
  <2>1. InState("pending") = {} /\ emitted = 0
    BY <1>1 DEF EInv, BookOK
  <2>2. Live = InState("open")
    BY <2>1 DEF Live
  <2>3. Cardinality(Live) <= snapshot'.nOpen + emitted'
    BY <1>1, <2>1, <2>2, LiveFinite
  <2> QED
    BY <1>1, <1>2, <2>3, BookUntouched DEF EInv
<1> QED
    BY <1>3, <1>4, <1>5, <1>6, <1>7, <1>8 DEF EInv

(* max_positions turns an open down where it is asked first. *)
LEMMA DispatchedBelowMaxOpen ==
    ASSUME EInv, AskedFirst("max_positions"), NEW wide, Dispatched("open", wide)
    PROVE  snapshot.nOpen < MaxOpen
<1>1. SUFFICES ASSUME snapshot.nOpen >= MaxOpen
               PROVE  FALSE
    BY EngineAssumption DEF EInv, CountsOK
<1>2. PICK k \in DOMAIN policies :
         /\ policies[k] = "max_positions"
         /\ \A j \in DOMAIN policies : policies[j] = "max_loss" => k < j
    BY DEF EInv, ChainOK, FirstIn
<1>3. k \in Rejecting("open", wide)
    BY <1>1, <1>2 DEF Rejecting, Rejects, TooManyOpen
<1>4. policies \in Seq(PolicyNames)
    BY DEF EInv, ChainOK
<1>5. PICK j \in Rejecting("open", wide) : j <= k /\ policies[j] = "max_loss"
    BY <1>3, <1>4, DispatchedThroughMaxLoss
<1>6. j \in DOMAIN policies /\ k < j
    BY <1>2, <1>5 DEF Rejecting
<1>7. j \in Nat /\ k \in Nat
    BY <1>4, <1>6
<1> QED
    BY <1>5, <1>6, <1>7

(* An action that opens nothing: orders may leave, nothing is decided. *)
LEMMA CheckKeeps ==
    ASSUME EInv, NEW kind, NEW wide, Check(kind, wide),
           nDecisions' \in {nDecisions, nDecisions + 1},
           scaleIns' \in {scaleIns, scaleIns + 1},
           BookOK'
    PROVE  EInv'
<1>1. /\ pc = "act" /\ pc' = pc /\ emitted' = emitted + 1
      /\ UNCHANGED <<barNo, operator, dueAtBar, policies, engaged, paused,
                     snapshot, checkpoint, stopAt>>
    BY DEF Check
<1>2. CountsOK'
    BY <1>1 DEF EInv, CountsOK, checkpoint
<1>3. QueueOK'
    BY <1>1, QueueUntouched DEF EInv
<1>4. StopOK'
    BY <1>1, StopUntouched DEF EInv
<1>5. CheckpointOK'
    BY <1>1 DEF EInv, CheckpointOK, checkpoint
<1>6. ChainOK'
    BY <1>1, ChainUntouched DEF EInv
<1> QED
    BY <1>2, <1>3, <1>4, <1>5, <1>6 DEF EInv

(* An order is submitted: it is one of the bar's actions. *)
LEMMA ActOpenKeeps ==
    ASSUME EInv, NEW id \in Ids, NEW wide, ActOpen(id, wide)
    PROVE  EInv'
<1>1. /\ Check("open", wide) /\ Dispatched("open", wide) /\ Submit(id)
      /\ nDecisions' = nDecisions + 1 /\ scaleIns' = scaleIns
    BY DEF ActOpen
<1>2. /\ pc = "act" /\ pc' = pc /\ emitted < MaxActions /\ emitted' = emitted + 1
      /\ snapshot' = snapshot
    BY <1>1 DEF Check
<1>3. Cardinality(Live') = Cardinality(Live) + 1 /\ Cardinality(Live) < Cap
    BY <1>1, SubmitLive DEF EInv
<1>4. Cardinality(Live) \in Nat /\ Cap \in Nat /\ MaxOpen \in Nat /\ MaxActions \in Nat
      /\ emitted \in Nat /\ snapshot.nOpen \in Nat
    BY LiveFinite, EngineAssumption DEF EInv, CountsOK
<1>5. Cardinality(Live) <= snapshot.nOpen + emitted
    BY <1>2 DEF EInv, BookOK
<1>6. AskedFirst("max_positions") => snapshot.nOpen < MaxOpen
    BY <1>1, DispatchedBelowMaxOpen
<1>7. AskedFirst("max_positions")' = AskedFirst("max_positions")
    BY DEF AskedFirst, Before
<1>8. BookOK'
  <2>1. state' \in [Ids -> {"unborn", "pending", "open", "closed", "withdrawn"}]
    BY <1>1 DEF EInv, BookOK, Submit
  <2>2. Cardinality(Live') <= Cap
    BY <1>3, <1>4
  <2>3. Cardinality(Live') <= snapshot'.nOpen + emitted'
    BY <1>2, <1>3, <1>4, <1>5
  <2>4. MaxOpen > 0 /\ AskedFirst("max_positions")
           => Cardinality(Live') <= MaxOpen - 1 + MaxActions
    BY <1>2, <1>3, <1>4, <1>5, <1>6
  <2> QED
    BY <1>2, <1>7, <2>1, <2>2, <2>3, <2>4 DEF BookOK
<1> QED
    BY <1>1, <1>8, CheckKeeps

(* Every other action leaves the book alone or takes an order from it. *)
LEMMA ActKeeps ==
    ASSUME EInv, Act
    PROVE  EInv'
<1>0. state \in [Ids -> {"unborn", "pending", "open", "closed", "withdrawn"}]
    BY DEF EInv, BookOK
<1>1. ASSUME NEW kind, NEW wide, Check(kind, wide),
             nDecisions' = nDecisions, scaleIns' \in {scaleIns, scaleIns + 1},
             state' \in [Ids -> {"unborn", "pending", "open", "closed", "withdrawn"}],
             Live' \subseteq Live
      PROVE  EInv'
  <2>1. pc = "act" /\ pc' = pc /\ emitted' = emitted + 1 /\ snapshot' = snapshot
    BY <1>1 DEF Check
  <2>2. BookOK'
    BY <1>1, <2>1, BookShrinks DEF EInv
  <2> QED
    BY <1>1, <2>2, CheckKeeps
<1>2. ASSUME state' = state
      PROVE  /\ state' \in [Ids -> {"unborn", "pending", "open", "closed", "withdrawn"}]
             /\ Live' \subseteq Live
    BY <1>0, <1>2 DEF Live, InState
<1>3. ASSUME NEW kind, NEW wide, ActRefused(kind, wide)
      PROVE  EInv'
  <2>1. Check(kind, wide) /\ nDecisions' = nDecisions /\ scaleIns' = scaleIns
        /\ state' = state
    BY <1>3 DEF ActRefused, bookVars
  <2> QED
    BY <1>1, <1>2, <2>1
<1>4. ASSUME ActScaleIn
      PROVE  EInv'
  <2>1. Check("scale_in", FALSE) /\ nDecisions' = nDecisions /\ scaleIns' = scaleIns + 1
        /\ state' = state
    BY <1>4 DEF ActScaleIn, bookVars
  <2> QED
    BY <1>1, <1>2, <2>1
<1>5. ASSUME NEW id \in Ids, ActClose(id)
      PROVE  EInv'
  <2>1. Check("close", FALSE) /\ nDecisions' = nDecisions /\ scaleIns' = scaleIns
        /\ state' = [state EXCEPT ![id] = "closed"]
    BY <1>5 DEF ActClose, ExitAlone, Leave
  <2> QED
    BY <1>0, <1>1, <2>1, ExitShrinks
<1>6. ASSUME NEW id \in Ids, ActCancel(id)
      PROVE  EInv'
  <2>1. Check("cancel", FALSE) /\ nDecisions' = nDecisions /\ scaleIns' = scaleIns
        /\ state' = [state EXCEPT ![id] = "withdrawn"]
    BY <1>6 DEF ActCancel, Withdraw
  <2> QED
    BY <1>0, <1>1, <2>1, ExitShrinks
<1> QED
    BY <1>3, <1>4, <1>5, <1>6, ActOpenKeeps DEF Act

(* The bar's actions are over, and a checkpoint may be due. *)
LEMMA ActionsDoneKeeps ==
    ASSUME EInv, ActionsDone
    PROVE  EInv'
<1>1. /\ pc = "act" /\ pc' = "ended" /\ snapshot' = NoSnapshot /\ emitted' = 0
      /\ MaybeCheckpoint(FALSE)
      /\ UNCHANGED <<bookVars, barNo, operator, dueAtBar, risk, paused, scaleIns,
                     ordered, nDecisions, stopAt>>
    BY DEF ActionsDone
<1>2. /\ state' = state /\ policies' = policies /\ engaged' = engaged
    BY <1>1 DEF bookVars, risk
<1>3. nDecisions \in Nat /\ lastAt \in Nat /\ Every \in Nat
    BY EngineAssumption DEF EInv, CountsOK
<1>4. /\ lastAt' \in {lastAt, nDecisions}
      /\ ~attemptFailed' /\ Every > 0 => nDecisions - lastAt' < Every
  <2>1. CASE CheckpointDue(FALSE)
    <3>1. PICK ok \in BOOLEAN :
             /\ attemptFailed' = ~ok
             /\ lastAt' = IF ok THEN nDecisions ELSE lastAt
        BY <1>1, <2>1 DEF MaybeCheckpoint
    <3>2. CASE ok = TRUE
        BY <1>3, <3>1, <3>2
    <3>3. CASE ok = FALSE
        BY <1>3, <3>1, <3>3
    <3> QED
        BY <3>2, <3>3
  <2>2. CASE ~CheckpointDue(FALSE)
    BY <1>1, <1>3, <2>2 DEF MaybeCheckpoint, CheckpointDue, checkpoint
  <2> QED
    BY <2>1, <2>2
<1>5. CountsOK'
    BY <1>1, <1>3, <1>4 DEF EInv, CountsOK, NoSnapshot, Places
<1>6. QueueOK'
    BY <1>1, QueueUntouched DEF EInv
<1>7. StopOK'
    BY <1>1, StopUntouched DEF EInv
<1>8. CheckpointOK'
    BY <1>1, <1>4 DEF CheckpointOK
<1>9. ChainOK'
    BY <1>2, ChainUntouched DEF EInv
<1>10. BookOK'
    BY <1>1, <1>2, BookUntouched DEF EInv
<1> QED
    BY <1>5, <1>6, <1>7, <1>8, <1>9, <1>10 DEF EInv

(* The last checkpoint, whatever happened. *)
LEMMA FinishKeeps ==
    ASSUME EInv, Finish
    PROVE  EInv'
<1>1. /\ pc = "final" /\ pc' = "done" /\ MaybeCheckpoint(TRUE)
      /\ UNCHANGED <<bookVars, barNo, operator, dueAtBar, risk, paused, scaleIns,
                     deciding, stopAt>>
    BY DEF Finish
<1>2. /\ state' = state /\ policies' = policies /\ engaged' = engaged
      /\ snapshot' = snapshot /\ emitted' = emitted /\ nDecisions' = nDecisions
    BY <1>1 DEF bookVars, risk, deciding
<1>3. lastAt' \in {lastAt, nDecisions} /\ (~attemptFailed' => lastAt' = nDecisions)
    BY <1>1 DEF MaybeCheckpoint, CheckpointDue
<1>4. CountsOK'
    BY <1>1, <1>2, <1>3 DEF EInv, CountsOK, Places
<1>5. QueueOK'
    BY <1>1, QueueUntouched DEF EInv
<1>6. StopOK'
    BY <1>1, StopUntouched DEF EInv
<1>7. CheckpointOK'
    BY <1>1, <1>2, <1>3 DEF CheckpointOK
<1>8. ChainOK'
    BY <1>2, ChainUntouched DEF EInv
<1>9. BookOK'
    BY <1>1, <1>2, BookUntouched DEF EInv
<1> QED
    BY <1>4, <1>5, <1>6, <1>7, <1>8, <1>9 DEF EInv

(* The source yields a bar. *)
LEMMA BarArrivesKeeps ==
    ASSUME EInv, BarArrives
    PROVE  EInv'
<1>1. /\ pc = "wait" /\ pc' = "drain" /\ barNo' = barNo + 1 /\ dueAtBar' = issued
      /\ UNCHANGED <<bookVars, operator, risk, paused, scaleIns, deciding,
                     checkpoint, stopAt>>
    BY DEF BarArrives
<1>2. /\ state' = state /\ policies' = policies /\ engaged' = engaged
      /\ snapshot' = snapshot /\ emitted' = emitted /\ nDecisions' = nDecisions
      /\ lastAt' = lastAt /\ queue' = queue /\ issued' = issued
    BY <1>1 DEF bookVars, risk, deciding, checkpoint, operator
<1>3. CountsOK'
    BY <1>1, <1>2 DEF EInv, CountsOK, Places
<1>4. QueueOK'
    BY <1>1, <1>2 DEF EInv, QueueOK
<1>5. StopOK'
    BY <1>1 DEF EInv, StopOK, CountsOK
<1>6. CheckpointOK'
    BY <1>1, <1>2, CheckpointUntouched DEF EInv
<1>7. ChainOK'
    BY <1>2, ChainUntouched DEF EInv
<1>8. BookOK'
  <2>1. emitted = 0
    BY <1>1 DEF EInv, BookOK
  <2> QED
    BY <1>1, <1>2, <2>1, BookUntouched DEF EInv
<1> QED
    BY <1>3, <1>4, <1>5, <1>6, <1>7, <1>8 DEF EInv

(* The book's orders of the bar have all been filled. *)
LEMMA FilledKeeps ==
    ASSUME EInv, Filled
    PROVE  EInv'
<1>1. /\ pc = "fills" /\ pc' = "exits" /\ InState("pending") = {} /\ scaleIns' = 0
      /\ UNCHANGED <<bookVars, barNo, operator, dueAtBar, risk, paused,
                     deciding, checkpoint, stopAt>>
    BY DEF Filled
<1>2. /\ state' = state /\ policies' = policies /\ engaged' = engaged
      /\ snapshot' = snapshot /\ emitted' = emitted /\ nDecisions' = nDecisions
      /\ lastAt' = lastAt
    BY <1>1 DEF bookVars, risk, deciding, checkpoint
<1>3. CountsOK'
    BY <1>1, <1>2 DEF EInv, CountsOK, Places
<1>4. QueueOK'
    BY <1>1, QueueUntouched DEF EInv
<1>5. StopOK'
    BY <1>1, StopUntouched DEF EInv
<1>6. CheckpointOK'
    BY <1>1, <1>2, CheckpointUntouched DEF EInv
<1>7. ChainOK'
    BY <1>2, ChainUntouched DEF EInv
<1>8. BookOK'
  <2>1. emitted = 0
    BY <1>1 DEF EInv, BookOK
  <2> QED
    BY <1>1, <1>2, <2>1, BookUntouched DEF EInv
<1> QED
    BY <1>3, <1>4, <1>5, <1>6, <1>7, <1>8 DEF EInv

(* The operator asks for something. *)
LEMMA EnqueueKeeps ==
    ASSUME EInv, NEW cmd \in Commands, Enqueue(cmd)
    PROVE  EInv'
<1>1. /\ pc' = pc /\ issued' = issued + 1 /\ queue' = Append(queue, cmd)
      /\ UNCHANGED <<bookVars, barNo, dueAtBar, risk, paused, scaleIns,
                     deciding, checkpoint, stopAt>>
    BY DEF Enqueue
<1>2. /\ state' = state /\ policies' = policies /\ engaged' = engaged
      /\ snapshot' = snapshot /\ emitted' = emitted /\ nDecisions' = nDecisions
      /\ lastAt' = lastAt
    BY <1>1 DEF bookVars, risk, deciding, checkpoint
<1>3. CountsOK'
    BY <1>1, <1>2 DEF EInv, CountsOK
<1>4. QueueOK'
  <2>1. queue \in Seq(Commands)
    BY DEF EInv, QueueOK
  <2>2. Append(queue, cmd) \in Seq(Commands) /\ Len(Append(queue, cmd)) = Len(queue) + 1
    BY <2>1, AppendProperties
  <2>3. Len(queue) \in Nat
    BY <2>1, LenProperties
  <2> QED
    BY <1>1, <2>2, <2>3 DEF EInv, QueueOK
<1>5. StopOK'
    BY <1>1, StopUntouched DEF EInv
<1>6. CheckpointOK'
    BY <1>1, <1>2, CheckpointUntouched DEF EInv
<1>7. ChainOK'
    BY <1>2, ChainUntouched DEF EInv
<1>8. BookOK'
    BY <1>1, <1>2, BookUntouched DEF EInv, BookOK
<1> QED
    BY <1>3, <1>4, <1>5, <1>6, <1>7, <1>8 DEF EInv

(* Someone asks the engine to stop. *)
LEMMA RequestStopKeeps ==
    ASSUME EInv, RequestStop
    PROVE  EInv'
<1>1. /\ pc' = pc /\ stopAt' = barNo
      /\ UNCHANGED <<bookVars, barNo, operator, dueAtBar, risk, paused,
                     scaleIns, deciding, checkpoint>>
    BY DEF RequestStop
<1>2. /\ state' = state /\ policies' = policies /\ engaged' = engaged
      /\ snapshot' = snapshot /\ emitted' = emitted /\ nDecisions' = nDecisions
      /\ lastAt' = lastAt
    BY <1>1 DEF bookVars, risk, deciding, checkpoint
<1>3. CountsOK'
    BY <1>1, <1>2 DEF EInv, CountsOK
<1>4. QueueOK'
    BY <1>1, QueueUntouched DEF EInv
<1>5. StopOK'
    BY <1>1 DEF EInv, StopOK, CountsOK
<1>6. CheckpointOK'
    BY <1>1, <1>2, CheckpointUntouched DEF EInv
<1>7. ChainOK'
    BY <1>2, ChainUntouched DEF EInv
<1>8. BookOK'
    BY <1>1, <1>2, BookUntouched DEF EInv, BookOK
<1> QED
    BY <1>3, <1>4, <1>5, <1>6, <1>7, <1>8 DEF EInv

-----------------------------------------------------------------------------
(* The invariant.                                                          *)

LEMMA InitEInv ==
    ASSUME Init
    PROVE  EInv
<1>1. /\ state = [i \in Ids |-> "unborn"]
      /\ pc = "wait" /\ barNo = 0 /\ queue = << >> /\ issued = 0 /\ dueAtBar = 0
      /\ policies = InitialPolicies /\ engaged = FALSE
      /\ snapshot = NoSnapshot /\ emitted = 0 /\ scaleIns = 0
      /\ nDecisions = 0 /\ lastAt = 0 /\ stopAt = None
    BY DEF Init, BookInit
<1>2. CountsOK
    BY <1>1 DEF CountsOK, NoSnapshot, Places
<1>3. QueueOK
  <2>1. << >> \in Seq(Commands) /\ Len(<< >>) = 0
    OBVIOUS
  <2> QED
    BY <1>1, <2>1 DEF QueueOK
<1>4. StopOK
    BY <1>1 DEF StopOK
<1>5. CheckpointOK
  <2>1. Every \in Nat
    BY EngineAssumption
  <2> QED
    BY <1>1, <2>1 DEF CheckpointOK
<1>6. ChainOK
  <2>1. InitialPolicies \in Seq(PolicyNames)
    BY EngineAssumption
  <2>2. ASSUME AskedFirst("max_positions")
        PROVE  FirstIn("max_positions", "max_loss", InitialPolicies)
    <3>1. PICK k \in DOMAIN InitialPolicies : InitialPolicies[k] = "max_positions"
        BY <2>1, <2>2 DEF AskedFirst, ToSet
    <3>2. ASSUME NEW j \in DOMAIN InitialPolicies, InitialPolicies[j] = "max_loss"
          PROVE  k < j
      <4>1. ~(j < k)
        BY <2>2, <3>1, <3>2 DEF AskedFirst, Before
      <4>2. j # k
        BY <3>1, <3>2
      <4>3. j \in Nat /\ k \in Nat
        BY <2>1
      <4> QED
        BY <4>1, <4>2, <4>3
    <3> QED
        BY <3>1, <3>2 DEF FirstIn
  <2> QED
    BY <1>1, <2>1, <2>2 DEF ChainOK
<1>7. BookOK
  <2>1. Live = {} /\ InState("pending") = {}
    BY <1>1 DEF Live, InState
  <2>2. Cardinality(Live) = 0
    BY <2>1, FS_EmptySet
  <2>3. Cap \in Nat /\ MaxOpen \in Nat /\ MaxActions \in Nat
    BY EngineAssumption
  <2>4. Cardinality(Live) <= Cap /\ (MaxOpen > 0 => Cardinality(Live) <= MaxOpen - 1 + MaxActions)
    BY <2>2, <2>3
  <2> QED
    BY <1>1, <2>1, <2>4 DEF BookOK
<1> QED
    BY <1>2, <1>3, <1>4, <1>5, <1>6, <1>7 DEF EInv

LEMMA NextKeepsEInv ==
    ASSUME EInv, [Next]_vars
    PROVE  EInv'
<1>1. CASE StreamEnds
    BY <1>1, GoToKeeps DEF StreamEnds, Places
<1>2. CASE Drained
    BY <1>2, GoToKeeps DEF Drained, NothingQueued, Places
<1>3. CASE Advanced
  <2>1. pc = "exits" /\ GoTo("decide") /\ InState("pending") = {}
    BY <1>3 DEF Advanced, EInv, BookOK
  <2> QED
    BY <2>1, GoToKeeps DEF Places
<1>4. CASE NoDecision
    BY <1>4, GoToKeeps DEF NoDecision, Places
<1>5. CASE EndBar
    BY <1>5, GoToKeeps DEF EndBar, StopRequested, Places
<1>6. CASE Raise
    BY <1>6, GoToKeeps DEF Raise, Places
<1>7. CASE UNCHANGED vars
  <2>1. Stays /\ UNCHANGED bookVars
    BY <1>7 DEF vars, Stays
  <2>2. state' = state /\ pc' = pc /\ snapshot' = snapshot /\ emitted' = emitted
    BY <2>1 DEF Stays, bookVars, deciding
  <2>3. BookOK'
    BY <2>2, BookUntouched DEF EInv, BookOK
  <2> QED
    BY <2>1, <2>3, StaysKeeps
<1>8. CASE EngineStep
    BY <1>1, <1>2, <1>3, <1>4, <1>5, <1>8, BarArrivesKeeps, DrainOneKeeps,
       FillNextKeeps, FilledKeeps, BarrierExitKeeps, DecideKeeps, ActKeeps,
       ActionsDoneKeeps, FinishKeeps DEF EngineStep
<1> QED
    BY <1>6, <1>7, <1>8, EnqueueKeeps, RequestStopKeeps DEF Next

(* EInv holds in every reachable state. *)
THEOREM EngineInvariance == Spec => []EInv
<1>1. Init => EInv
    BY InitEInv
<1>2. EInv /\ [Next]_vars => EInv'
    BY NextKeepsEInv
<1> QED
    BY <1>1, <1>2, PTL DEF Spec

-----------------------------------------------------------------------------
(* What the runs check, for every value of the constants.                  *)

(* However stale the snapshot, a bar passes max_open by no more than its   *)
(* own orders (engine.py 424, risk/__init__.py 60-63).                     *)
THEOREM OvershootIsBounded == Spec => []OvershootBounded
<1>1. EInv => OvershootBounded
    BY DEF EInv, BookOK, OvershootBounded
<1> QED
    BY <1>1, EngineInvariance, PTL

(* What the operator asked for before a bar is done before the bar fills   *)
(* or decides anything, and a stop is one bar away (engine.py 219-224,     *)
(* 309-325).                                                               *)
THEOREM OperatorIsHeard == Spec => []OperatorHeard
<1>1. EInv => OperatorHeard
    BY DEF EInv, QueueOK, StopOK, OperatorHeard
<1> QED
    BY <1>1, EngineInvariance, PTL

(* The newest checkpoint is less than checkpoint_every decisions old, and  *)
(* of everything in the end, unless the last attempt failed (engine.py     *)
(* 225-232, 285-307).                                                      *)
THEOREM CheckpointsAreInTime == Spec => []CheckpointsInTime
<1>1. EInv => CheckpointsInTime
    BY DEF EInv, CheckpointOK, CheckpointsInTime
<1> QED
    BY <1>1, EngineInvariance, PTL

(* An engaged kill switch rejects every order, and only max_loss before it *)
(* can still let one out.                                                  *)
LEMMA OrderNeedsMaxLoss ==
    ASSUME EInv, engaged, NEW kind, Opening(kind), NEW wide, Dispatched(kind, wide)
    PROVE  Before("max_loss", "kill_switch", policies)
<1>1. PICK k \in DOMAIN policies : policies[k] = "kill_switch"
    BY DEF EInv, ChainOK
<1>2. k \in Rejecting(kind, wide)
    BY <1>1 DEF Rejecting, Rejects, KillBlocks
<1>3. policies \in Seq(PolicyNames)
    BY DEF EInv, ChainOK
<1>4. PICK j \in Rejecting(kind, wide) : j <= k /\ policies[j] = "max_loss"
    BY <1>2, <1>3, DispatchedThroughMaxLoss
<1>5. j \in DOMAIN policies /\ j \in Nat /\ k \in Nat /\ j # k
    BY <1>1, <1>3, <1>4 DEF Rejecting
<1>6. j < k
    BY <1>4, <1>5
<1> QED
    BY <1>1, <1>4, <1>5, <1>6 DEF Before

(* While the kill switch is engaged no order goes out but through max_loss *)
(* standing before it, whatever the operator does to the chain (engine.py  *)
(* 431-448, risk/__init__.py 207-245).                                     *)
THEOREM KillSwitchBypass == Spec => KillBypassNeedsMaxLoss
<1>1. ASSUME EInv, [Next]_vars, engaged, ordered' # ordered
      PROVE  Before("max_loss", "kill_switch", policies)
  <2>1. CASE Act
    <3>1. CASE \E id \in Ids, wide \in BOOLEAN : ActOpen(id, wide)
        BY <1>1, <3>1, OrderNeedsMaxLoss DEF ActOpen, Opening
    <3>2. CASE ActScaleIn
        BY <1>1, <3>2, OrderNeedsMaxLoss DEF ActScaleIn, Opening
    <3>3. ordered' = ordered \/ ActScaleIn \/ \E id \in Ids, wide \in BOOLEAN : ActOpen(id, wide)
        BY <2>1 DEF Act, ActRefused, ActClose, ActCancel
    <3> QED
        BY <1>1, <3>1, <3>2, <3>3
  <2>2. CASE ~Act
    <3>1. UNCHANGED vars => ordered' = ordered
        BY DEF vars, deciding
    <3>2. EngineStep => ordered' = ordered
        BY <2>2 DEF EngineStep, BarArrives, StreamEnds, DrainOne, Drained, FillNext,
           Filled, BarrierExit, Advanced, NoDecision, Decide, ActionsDone, EndBar,
           Finish, GoTo, deciding
    <3>3. Raise \/ RequestStop \/ (\E cmd \in Commands : Enqueue(cmd))
             => ordered' = ordered
        BY DEF Raise, RequestStop, Enqueue, GoTo, deciding
    <3> QED
        BY <1>1, <3>1, <3>2, <3>3 DEF Next
  <2> QED
    BY <2>1, <2>2
<1>2. EInv /\ [Next]_vars
         => [engaged /\ ordered' # ordered => Before("max_loss", "kill_switch", policies)]_vars
    BY <1>1
<1> QED
    BY <1>2, EngineInvariance, PTL DEF Spec, KillBypassNeedsMaxLoss

-----------------------------------------------------------------------------
(* The order rate.                                                         *)

(* RateOK: the orders of this bar, and of the one before where that is a   *)
(* minute ago, are the newest slots of the policy, young enough to count;  *)
(* no bar had too many; and max_loss is not asked before the *)
(* policy, so nothing goes out without a slot.                             *)
RateKept == AskedFirst("max_order_rate") /\ BarMinutes > 0

Minute(b) == ordered[b] + (IF BarMinutes = 1 /\ b > 1 THEN ordered[b - 1] ELSE 0)

Newest(n, since) ==
    /\ n \in 0..Len(recent)
    /\ \A j \in 1..Len(recent) : j > Len(recent) - n => recent[j] >= since

OrdersOK ==
    /\ barNo \in 0..MaxBars
    /\ pc = "act" => barNo > 0
    /\ ordered \in [1..MaxBars -> Nat]
    /\ \A b \in 1..MaxBars : b > barNo => ordered[b] = 0

SlotsOK ==
    /\ recent \in Seq(Int)
    /\ barNo > 0 => Newest(ordered[barNo], Now) /\ Newest(Minute(barNo), Now - 1)
    /\ \A b \in 1..MaxBars : Minute(b) <= MaxPerMinute

RateOK ==
    RateKept => /\ OrdersOK /\ SlotsOK
                /\ FirstIn("max_order_rate", "max_loss", policies)

(* Popping the old slots takes no young one.                               *)
LEMMA PopBeforeIs ==
    ASSUME NEW s \in Seq(Int), NEW cutoff \in Int
    PROVE  \E n \in 0..Len(s) :
             /\ PopBefore(cutoff, s) \in Seq(Int)
             /\ Len(PopBefore(cutoff, s)) = Len(s) - n
             /\ \A j \in 1..(Len(s) - n) : PopBefore(cutoff, s)[j] = s[j + n]
             /\ \A j \in 1..n : s[j] < cutoff
<1> DEFINE First(k) == /\ \A j \in 1..(k - 1) : s[j] < cutoff
                       /\ k <= Len(s) => s[k] >= cutoff
           Young == {k \in 1..(Len(s) + 1) : k <= Len(s) => s[k] >= cutoff}
<1>1. Len(s) \in Nat /\ \A j \in 1..Len(s) : s[j] \in Int
    OBVIOUS
<1>2. \E k \in 1..(Len(s) + 1) : First(k)
  <2>1. Len(s) + 1 \in Young /\ Young \in SUBSET Nat
    BY <1>1
  <2>2. PICK k \in Young : \A i \in Young : k <= i
    BY <2>1, LeastExists
  <2>3. ASSUME NEW j \in 1..(k - 1) PROVE s[j] < cutoff
    <3>1. j \notin Young /\ j \in 1..Len(s)
        BY <1>1, <2>2
    <3> QED
        BY <1>1, <3>1
  <2> QED
    BY <2>2, <2>3
<1> DEFINE k == CHOOSE i \in 1..(Len(s) + 1) : First(i)
<1>3. k \in 1..(Len(s) + 1) /\ First(k)
    BY <1>2
<1>4. PopBefore(cutoff, s) = SubSeq(s, k, Len(s))
    BY DEF PopBefore
<1> HIDE DEF k
<1>5. /\ SubSeq(s, k, Len(s)) \in Seq(Int)
      /\ Len(SubSeq(s, k, Len(s))) = IF k <= Len(s) THEN Len(s) - k + 1 ELSE 0
      /\ \A i \in 1..(Len(s) - k + 1) : SubSeq(s, k, Len(s))[i] = s[k + i - 1]
    BY <1>1, <1>3, SubSeqProperties
<1>6. k - 1 \in 0..Len(s) /\ \A j \in 1..(k - 1) : s[j] < cutoff
    BY <1>1, <1>3
<1>7. \A i \in 1..(Len(s) - (k - 1)) : SubSeq(s, k, Len(s))[i] = s[i + (k - 1)]
    BY <1>1, <1>3, <1>5
<1>8. Len(SubSeq(s, k, Len(s))) = Len(s) - (k - 1)
    BY <1>1, <1>3, <1>5
<1> QED
    BY <1>4, <1>5, <1>6, <1>7, <1>8

(* What is popped or pushed when the policy is asked                       *)
LEMMA SlotsAfterPop ==
    ASSUME recent \in Seq(Int), Now \in Int,
           NEW n, NEW m, Newest(n, Now), Newest(m, Now - 1)
    PROVE  LET s == InWindow(recent) IN
           /\ s \in Seq(Int)
           /\ n \in 0..Len(s) /\ \A j \in 1..Len(s) : j > Len(s) - n => s[j] >= Now
           /\ m \in 0..Len(s) /\ \A j \in 1..Len(s) : j > Len(s) - m => s[j] >= Now - 1
<1> DEFINE s == InWindow(recent)
           cutoff == Now - 1
<1>0. cutoff \in Int /\ s = PopBefore(cutoff, recent)
    BY DEF InWindow
<1> HIDE DEF cutoff
<1>9. PICK p \in 0..Len(recent) :
             /\ PopBefore(cutoff, recent) \in Seq(Int)
             /\ Len(PopBefore(cutoff, recent)) = Len(recent) - p
             /\ \A j \in 1..(Len(recent) - p) : PopBefore(cutoff, recent)[j] = recent[j + p]
             /\ \A j \in 1..p : recent[j] < cutoff
    BY <1>0, PopBeforeIs
<1> HIDE DEF s
<1>1. /\ s \in Seq(Int)
      /\ Len(s) = Len(recent) - p
      /\ \A j \in 1..(Len(recent) - p) : s[j] = recent[j + p]
      /\ \A j \in 1..p : recent[j] < Now - 1
    BY <1>0, <1>9 DEF cutoff
<1>2. Len(recent) \in Nat /\ \A j \in 1..Len(recent) : recent[j] \in Int
    OBVIOUS
<1>3. /\ n \in 0..Len(recent) /\ m \in 0..Len(recent)
      /\ \A j \in 1..Len(recent) : j > Len(recent) - n => recent[j] >= Now
      /\ \A j \in 1..Len(recent) : j > Len(recent) - m => recent[j] >= Now - 1
    BY DEF Newest
<1>4. p <= Len(recent) - m /\ p <= Len(recent) - n
  <2>1. p > 0 => recent[p] < Now - 1 /\ p \in 1..Len(recent) /\ recent[p] \in Int
    BY <1>1, <1>2
  <2>2. p > 0 => ~(p > Len(recent) - m) /\ ~(p > Len(recent) - n)
    BY <1>2, <1>3, <2>1
  <2> QED
    BY <1>2, <1>3, <2>2
<1>5. ASSUME NEW j \in 1..Len(s)
      PROVE  /\ j + p \in 1..Len(recent) /\ s[j] = recent[j + p]
             /\ j > Len(s) - n => j + p > Len(recent) - n
             /\ j > Len(s) - m => j + p > Len(recent) - m
    BY <1>1, <1>2, <1>3
<1>6. n \in 0..Len(s) /\ m \in 0..Len(s)
    BY <1>1, <1>2, <1>3, <1>4
<1>7. \A j \in 1..Len(s) : j > Len(s) - n => s[j] >= Now
    BY <1>3, <1>5
<1>8. \A j \in 1..Len(s) : j > Len(s) - m => s[j] >= Now - 1
    BY <1>3, <1>5
<1> QED
    BY <1>1, <1>6, <1>7, <1>8 DEF s

(* One slot more, at the end, is this minute's.                            *)
LEMMA Pushed ==
    ASSUME NEW s \in Seq(Int), NEW t \in Int, NEW c \in Int, c <= t, NEW n \in 0..Len(s),
           \A j \in 1..Len(s) : j > Len(s) - n => s[j] >= c
    PROVE  /\ Append(s, t) \in Seq(Int) /\ Len(Append(s, t)) = Len(s) + 1
           /\ \A j \in 1..Len(Append(s, t)) :
                 j > Len(Append(s, t)) - (n + 1) => Append(s, t)[j] >= c
<1> DEFINE a == Append(s, t)
<1>1. /\ a \in Seq(Int) /\ Len(a) = Len(s) + 1 /\ a[Len(s) + 1] = t
      /\ \A j \in 1..Len(s) : a[j] = s[j]
    OBVIOUS
<1> HIDE DEF a
<1>2. Len(s) \in Nat
    OBVIOUS
<1>3. ASSUME NEW j \in 1..Len(a), j > Len(a) - (n + 1) PROVE a[j] >= c
  <2>1. CASE j = Len(s) + 1
    BY <1>1, <2>1
  <2>2. CASE j # Len(s) + 1
    <3>1. j \in 1..Len(s) /\ j > Len(s) - n
        BY <1>1, <1>2, <1>3, <2>2
    <3>2. a[j] = s[j] /\ s[j] >= c
        BY <1>1, <3>1
    <3> QED
        BY <3>2
  <2> QED
    BY <2>1, <2>2
<1> QED
    BY <1>1, <1>3 DEF a

(* An order that goes out was let by before max_loss, and has its slot.    *)
LEMMA DispatchedHasSlot ==
    ASSUME EInv, FirstIn("max_order_rate", "max_loss", policies),
           NEW kind, Opening(kind), NEW wide, Dispatched(kind, wide),
           recent' = RecentAfter(kind, wide)
    PROVE  /\ ~(Len(InWindow(recent)) >= MaxPerMinute)
           /\ recent' = Append(InWindow(recent), Now)
<1>1. PICK k \in DOMAIN policies :
         /\ policies[k] = "max_order_rate"
         /\ \A j \in DOMAIN policies : policies[j] = "max_loss" => k < j
    BY DEF FirstIn
<1>2. policies \in Seq(PolicyNames)
    BY DEF EInv, ChainOK
<1>3. ASSUME NEW i \in Rejecting(kind, wide) PROVE k < i
  <2>1. PICK j \in Rejecting(kind, wide) : j <= i /\ policies[j] = "max_loss"
    BY <1>2, DispatchedThroughMaxLoss
  <2>2. j \in DOMAIN policies /\ i \in DOMAIN policies
    BY DEF Rejecting
  <2>3. k < j
    BY <1>1, <2>1, <2>2
  <2>4. i \in Nat /\ j \in Nat /\ k \in Nat
    BY <1>2, <2>2
  <2> QED
    BY <2>1, <2>3, <2>4
<1>4. ~Rejects("max_order_rate", kind, wide)
  <2>1. k \notin Rejecting(kind, wide)
    <3>1. k \in Nat
        BY <1>2
    <3> QED
        BY <1>3, <3>1
  <2> QED
    BY <1>1, <2>1 DEF Rejecting
<1>5. RateAsked(kind, wide)
  <2>1. \A j \in Rejecting(kind, wide) : k <= j
    <3>1. \A j \in Rejecting(kind, wide) : j \in Nat /\ k \in Nat
        BY <1>2 DEF Rejecting
    <3> QED
        BY <1>3, <3>1
  <2> QED
    BY <1>1, <2>1 DEF RateAsked
<1>6. Rejects("max_order_rate", kind, wide)
         <=> Opening(kind) /\ Len(InWindow(recent)) >= MaxPerMinute
    BY DEF Rejects
<1> QED
    BY <1>4, <1>5, <1>6 DEF RecentAfter

(* Being asked takes no young slot, whatever comes of it.                  *)
LEMMA AskingKeepsSlots ==
    ASSUME OrdersOK, SlotsOK, NEW kind, NEW wide, recent' = RecentAfter(kind, wide),
           UNCHANGED <<barNo, ordered>>
    PROVE  SlotsOK'
<1>1. BarMinutes \in Nat /\ barNo \in Nat /\ Now \in Int
  <2>1. BarMinutes \in Nat /\ barNo \in Nat
    BY EngineAssumption DEF OrdersOK
  <2> QED
    BY <2>1 DEF Now
<1>2. recent \in Seq(Int)
    BY DEF SlotsOK
<1>3. \/ recent' = recent \/ recent' = InWindow(recent)
      \/ recent' = Append(InWindow(recent), Now)
    BY DEF RecentAfter
<1>4. \A b \in 1..MaxBars : Minute(b)' = Minute(b)
    BY DEF Minute
<1>5. Minute(barNo)' = Minute(barNo) /\ Now' = Now
    BY DEF Minute, Now
<1>6. Newest(0, Now)
    BY <1>2 DEF Newest
<1>7. Newest(0, Now - 1)
    BY <1>2 DEF Newest
<1>8. recent' \in Seq(Int)
  <2> DEFINE w == InWindow(recent)
  <2>1. w \in Seq(Int)
    BY <1>1, <1>2, <1>6, <1>7, SlotsAfterPop
  <2> HIDE DEF w
  <2>2. Append(w, Now) \in Seq(Int)
    BY <1>1, <2>1
  <2> QED
    BY <1>2, <1>3, <2>1, <2>2 DEF w
<1>9. ASSUME barNo > 0
      PROVE  Newest(ordered[barNo], Now)' /\ Newest(Minute(barNo), Now - 1)'
  <2> DEFINE n == ordered[barNo]
             m == Minute(barNo)
             s == InWindow(recent)
  <2>1. Newest(n, Now) /\ Newest(m, Now - 1)
    BY <1>9 DEF SlotsOK
  <2>2. n' = n /\ m' = m
    BY <1>5
  <2> HIDE DEF n, m
  <2>3. CASE recent' = recent
    BY <1>5, <2>1, <2>2, <2>3 DEF Newest, n, m
  <2>4. /\ s \in Seq(Int)
        /\ n \in 0..Len(s) /\ \A j \in 1..Len(s) : j > Len(s) - n => s[j] >= Now
        /\ m \in 0..Len(s) /\ \A j \in 1..Len(s) : j > Len(s) - m => s[j] >= Now - 1
    BY <1>1, <1>2, <2>1, SlotsAfterPop
  <2> HIDE DEF s
  <2>5. CASE recent' = s
    BY <1>5, <2>2, <2>4, <2>5 DEF Newest, n, m
  <2>6. CASE recent' = Append(s, Now)
    <3>1. Len(s) \in Nat /\ Now <= Now /\ Now - 1 <= Now /\ Now - 1 \in Int
        BY <1>1, <2>4
    <3>2. /\ Len(Append(s, Now)) = Len(s) + 1
          /\ \A j \in 1..Len(Append(s, Now)) :
                j > Len(Append(s, Now)) - (n + 1) => Append(s, Now)[j] >= Now
        BY <1>1, <2>4, <3>1, Pushed
    <3> DEFINE c == Now - 1
    <3>3. c <= Now /\ c \in Int /\ \A j \in 1..Len(s) : j > Len(s) - m => s[j] >= c
        BY <1>1, <2>4
    <3> HIDE DEF c
    <3>4. \A j \in 1..Len(Append(s, Now)) :
                j > Len(Append(s, Now)) - (m + 1) => Append(s, Now)[j] >= c
        BY <1>1, <2>4, <3>3, Pushed
    <3>5. /\ n \in 0..Len(recent') /\ m \in 0..Len(recent')
          /\ \A j \in 1..Len(recent') : j > Len(recent') - n => recent'[j] >= Now
        BY <2>4, <2>6, <3>1, <3>2
    <3>6. \A j \in 1..Len(recent') : j > Len(recent') - m => recent'[j] >= c
      <4>1. ASSUME NEW j \in 1..Len(recent'), j > Len(recent') - m
            PROVE  j > Len(recent') - (m + 1)
        BY <2>4, <3>5, <4>1
      <4> QED
        BY <2>6, <3>4, <4>1
    <3> QED
        BY <1>5, <2>2, <3>5, <3>6 DEF Newest, n, m, c
  <2> QED
    BY <1>3, <2>3, <2>5, <2>6 DEF s, n, m
<1> QED
    BY <1>4, <1>8, <1>9 DEF SlotsOK

(* An order accepted has a slot that counts a minute long, and fits.       *)
LEMMA AcceptedFits ==
    ASSUME OrdersOK, SlotsOK, barNo > 0, UNCHANGED <<barNo, pc>>, Accepted,
           ~(Len(InWindow(recent)) >= MaxPerMinute),
           recent' = Append(InWindow(recent), Now)
    PROVE  OrdersOK' /\ SlotsOK'
<1> DEFINE n == ordered[barNo]
           m == Minute(barNo)
           s == InWindow(recent)
<1>1. BarMinutes \in Nat /\ MaxPerMinute \in Nat /\ MaxBars \in Nat
    BY EngineAssumption
<1>2. barNo \in 1..MaxBars /\ ordered \in [1..MaxBars -> Nat]
    BY <1>1 DEF OrdersOK
<1>3. Now \in Int
    BY <1>1, <1>2 DEF Now
<1>4. recent \in Seq(Int) /\ Newest(n, Now) /\ Newest(m, Now - 1)
      /\ \A b \in 1..MaxBars : Minute(b) <= MaxPerMinute
    BY DEF SlotsOK
<1>5. n \in Nat /\ m \in Nat
  <2>1. \A b \in 1..MaxBars : ordered[b] \in Nat
    BY <1>2
  <2>2. barNo > 1 => barNo - 1 \in 1..MaxBars
    BY <1>1, <1>2
  <2> QED
    BY <1>2, <2>1, <2>2 DEF Minute
<1>6. /\ ordered' \in [1..MaxBars -> Nat] /\ ordered'[barNo] = n + 1
      /\ \A b \in 1..MaxBars : b # barNo => ordered'[b] = ordered[b]
    BY <1>2, <1>5 DEF Accepted
<1> HIDE DEF n, m, s
<1>7. /\ s \in Seq(Int)
      /\ n \in 0..Len(s) /\ \A j \in 1..Len(s) : j > Len(s) - n => s[j] >= Now
      /\ m \in 0..Len(s) /\ \A j \in 1..Len(s) : j > Len(s) - m => s[j] >= Now - 1
    BY <1>3, <1>4, SlotsAfterPop DEF s
<1>8. Len(s) \in Nat /\ Len(s) < MaxPerMinute
    BY <1>1, <1>7 DEF s
<1>9. barNo > 1 => barNo - 1 \in 1..MaxBars /\ barNo - 1 # barNo
    BY <1>1, <1>2
<1>10. m' = m + 1 /\ n' = n + 1 /\ Now' = Now
  <2>1. barNo > 1 => ordered'[barNo - 1] = ordered[barNo - 1] /\ ordered[barNo - 1] \in Nat
    BY <1>2, <1>6, <1>9
  <2>2. m' = ordered'[barNo] + (IF BarMinutes = 1 /\ barNo > 1 THEN ordered'[barNo - 1] ELSE 0)
    BY DEF m, Minute
  <2>3. m = n + (IF BarMinutes = 1 /\ barNo > 1 THEN ordered[barNo - 1] ELSE 0)
    BY DEF m, n, Minute
  <2>4. m' = m + 1
    BY <1>5, <1>6, <2>1, <2>2, <2>3
  <2> QED
    BY <1>6, <2>4 DEF n, Now
<1>11. OrdersOK'
  <2>1. \A b \in 1..MaxBars : b > barNo => ordered'[b] = 0
    BY <1>2, <1>6 DEF OrdersOK
  <2> QED
    BY <1>2, <1>6, <2>1 DEF OrdersOK
<1>12. ASSUME NEW b \in 1..MaxBars PROVE Minute(b)' <= MaxPerMinute
  <2>1. CASE b = barNo
    BY <1>1, <1>5, <1>7, <1>8, <1>10, <2>1 DEF m, Minute
  <2>2. CASE b = barNo + 1
    <3>1. ordered'[b] = 0 /\ b - 1 = barNo
        BY <1>2, <1>11, <2>2 DEF OrdersOK
    <3>2. Minute(b)' \in {0, n + 1}
        BY <1>5, <1>6, <3>1 DEF Minute
    <3>3. n <= Len(s)
        BY <1>7
    <3> QED
        BY <1>1, <1>5, <1>8, <3>2, <3>3
  <2>3. CASE b # barNo /\ b # barNo + 1
    <3>1. b > 1 => b - 1 \in 1..MaxBars /\ b - 1 # barNo
        BY <1>1, <1>2, <2>3
    <3>2. Minute(b)' = Minute(b)
        BY <1>6, <2>3, <3>1 DEF Minute
    <3> QED
        BY <1>4, <3>2
  <2> QED
    BY <2>1, <2>2, <2>3
<1>13. Newest(n, Now)' /\ Newest(m, Now - 1)'
  <2>1. Now <= Now /\ \A j \in 1..Len(s) : j > Len(s) - n => s[j] >= Now
    BY <1>3, <1>7
  <2>2. /\ Append(s, Now) \in Seq(Int) /\ Len(Append(s, Now)) = Len(s) + 1
        /\ \A j \in 1..Len(Append(s, Now)) :
              j > Len(Append(s, Now)) - (n + 1) => Append(s, Now)[j] >= Now
    BY <1>3, <1>7, <2>1, Pushed
  <2> DEFINE c == Now - 1
  <2>3. c <= Now /\ c \in Int /\ \A j \in 1..Len(s) : j > Len(s) - m => s[j] >= c
    BY <1>3, <1>7
  <2> HIDE DEF c
  <2>4. \A j \in 1..Len(Append(s, Now)) :
              j > Len(Append(s, Now)) - (m + 1) => Append(s, Now)[j] >= c
    BY <1>3, <1>7, <2>3, Pushed
  <2>5. recent' = Append(s, Now)
    BY DEF s
  <2>6. n + 1 \in 0..Len(recent') /\ m + 1 \in 0..Len(recent')
    BY <1>5, <1>7, <1>8, <2>2, <2>5
  <2>7. Newest(n, Now)'
    BY <1>10, <2>2, <2>5, <2>6 DEF Newest
  <2>8. c' = c
    BY <1>10 DEF c
  <2>9. Newest(m, c)'
    BY <1>10, <2>4, <2>5, <2>6, <2>8 DEF Newest
  <2> QED
    BY <2>7, <2>9 DEF c
<1>14. recent' \in Seq(Int)
    BY <1>3, <1>7 DEF s
<1>15. SlotsOK'
    BY <1>12, <1>13, <1>14 DEF SlotsOK, n, m
<1> QED
    BY <1>11, <1>15

(* A bar is a minute or more after the last.                               *)
LEMMA NextBar ==
    ASSUME OrdersOK, SlotsOK, BarMinutes > 0, barNo < MaxBars, barNo' = barNo + 1,
           UNCHANGED <<recent, ordered>>, pc' # "act"
    PROVE  OrdersOK' /\ SlotsOK'
<1>1. BarMinutes \in Nat /\ MaxBars \in Nat /\ barNo \in Nat
    BY EngineAssumption DEF OrdersOK
<1>2. ordered \in [1..MaxBars -> Nat] /\ recent \in Seq(Int)
    BY DEF OrdersOK, SlotsOK
<1>3. barNo' \in 1..MaxBars /\ ordered[barNo'] = 0
    BY <1>1 DEF OrdersOK
<1>4. OrdersOK'
  <2>1. \A b \in 1..MaxBars : b > barNo' => ordered[b] = 0
    BY <1>1 DEF OrdersOK
  <2> QED
    BY <1>1, <1>2, <1>3, <2>1 DEF OrdersOK
<1>5. Now' = Now + BarMinutes /\ Now \in Int /\ Now' \in Int
    BY <1>1 DEF Now
<1>6. Newest(ordered[barNo], Now)'
    BY <1>2, <1>3 DEF Newest
<1>7. Newest(Minute(barNo), Now - 1)'
  <2>1. CASE BarMinutes = 1 /\ barNo > 0
    <3>1. Minute(barNo)' = ordered[barNo]
      <4>1. ordered[barNo] \in Nat
        BY <1>1, <1>2, <2>1
      <4>2. Minute(barNo)' = ordered[barNo'] + (IF barNo' > 1 THEN ordered[barNo' - 1] ELSE 0)
        BY <2>1 DEF Minute
      <4>3. barNo' > 1 /\ barNo' - 1 = barNo
        BY <1>1, <2>1
      <4> QED
        BY <1>3, <4>1, <4>2, <4>3
    <3>2. (Now - 1)' = Now
        BY <1>5, <2>1
    <3>3. Newest(ordered[barNo], Now)
        BY <2>1 DEF SlotsOK
    <3> QED
        BY <3>1, <3>2, <3>3 DEF Newest
  <2>2. CASE ~(BarMinutes = 1 /\ barNo > 0)
    <3>1. Minute(barNo)' = 0
        BY <1>1, <1>3, <2>2 DEF Minute
    <3> QED
        BY <1>2, <3>1 DEF Newest
  <2> QED
    BY <2>1, <2>2
<1>8. \A b \in 1..MaxBars : Minute(b)' = Minute(b)
    BY DEF Minute
<1> QED
    BY <1>2, <1>4, <1>6, <1>7, <1>8 DEF SlotsOK

(* What is no order leaves the rate alone: the engine goes elsewhere, *)
LEMMA RateUntouched ==
    ASSUME RateOK, UNCHANGED <<policies, recent, ordered, barNo>>,
           pc' = "act" => barNo > 0
    PROVE  RateOK'
<1>1. RateKept' = RateKept
    BY DEF RateKept, AskedFirst, Before
<1>2. Now' = Now /\ \A b \in 1..MaxBars : Minute(b)' = Minute(b)
    BY DEF Now, Minute
<1>3. Minute(barNo)' = Minute(barNo)
    BY DEF Minute
<1>4. OrdersOK => OrdersOK'
    BY DEF OrdersOK
<1>5. SlotsOK => SlotsOK'
    BY <1>2, <1>3 DEF SlotsOK, Newest
<1>6. FirstIn("max_order_rate", "max_loss", policies)'
         <=> FirstIn("max_order_rate", "max_loss", policies)
    BY DEF FirstIn
<1> QED
    BY <1>1, <1>4, <1>5, <1>6 DEF RateOK

(* or the operator changes the chain, but never this policy in it.         *)
LEMMA ExecuteKeepsRate ==
    ASSUME EInv, RateKept, FirstIn("max_order_rate", "max_loss", policies),
           NEW cmd \in Commands, Execute(cmd)
    PROVE  recent' = recent /\ FirstIn("max_order_rate", "max_loss", policies)'
<1>1. policies \in Seq(PolicyNames)
    BY DEF EInv, ChainOK
<1>2. "max_order_rate" \notin Swappable
    BY DEF RateKept, AskedFirst
<1>3. ASSUME NEW name \in PolicyNames, policies' = Added(name)
      PROVE  FirstIn("max_order_rate", "max_loss", policies')
    BY <1>1, <1>3, AddedKeeps
<1>4. CASE cmd[1] = "kill"
  <2>1. policies' = Added("kill_switch") /\ recent' = recent
    BY <1>4 DEF Execute
  <2>2. "kill_switch" \in PolicyNames
    BY DEF PolicyNames
  <2> QED
    BY <1>3, <2>1, <2>2 DEF FirstIn
<1>5. CASE cmd[1] \in {"unkill", "pause", "resume", "flatten"}
  <2>1. policies' = policies /\ recent' = recent
    BY <1>5 DEF Execute, risk
  <2> QED
    BY <2>1 DEF FirstIn
<1>6. CASE cmd[1] = "risk_add"
  <2>1. cmd[2] \in PolicyNames /\ cmd[2] # "max_order_rate"
    BY <1>2, <1>6, CommandNames, EngineAssumption
  <2>2. policies' = Added(cmd[2]) /\ recent' = recent
    BY <1>6, <2>1 DEF Execute, Forgotten
  <2> QED
    BY <1>3, <2>1, <2>2 DEF FirstIn
<1>7. CASE cmd[1] = "risk_remove"
  <2>1. cmd[2] # "max_order_rate"
    BY <1>2, <1>7, CommandNames
  <2>2. policies' = Removed(cmd[2]) /\ recent' = recent
    BY <1>7, <2>1 DEF Execute, Forgotten
  <2>3. \A p, q : p # cmd[2] /\ FirstIn(p, q, policies)
              => FirstIn(p, q, Removed(cmd[2]))
    BY <1>1, RemovedKeeps
  <2>4. FirstIn("max_order_rate", "max_loss", Removed(cmd[2]))
    BY <2>1, <2>3
  <2> QED
    BY <2>2, <2>4 DEF FirstIn
<1> QED
    BY <1>4, <1>5, <1>6, <1>7 DEF Execute

LEMMA DrainOneKeepsRate ==
    ASSUME EInv, RateOK, DrainOne
    PROVE  RateOK'
<1>1. RateKept' = RateKept
    BY DEF RateKept, AskedFirst, Before
<1>2. SUFFICES ASSUME RateKept PROVE RateOK'
    BY <1>1 DEF RateOK
<1>3. OrdersOK /\ SlotsOK /\ FirstIn("max_order_rate", "max_loss", policies)
    BY <1>2 DEF RateOK
<1>4. /\ Execute(Head(queue)) /\ pc' = pc /\ barNo' = barNo /\ ordered' = ordered
      /\ queue # << >>
    BY DEF DrainOne, deciding
<1>5. Head(queue) \in Commands
    BY <1>4 DEF EInv, QueueOK
<1>6. recent' = recent /\ FirstIn("max_order_rate", "max_loss", policies)'
    BY <1>2, <1>3, <1>4, <1>5, ExecuteKeepsRate
<1>7. OrdersOK'
    BY <1>3, <1>4 DEF OrdersOK
<1>8. Now' = Now /\ (\A b \in 1..MaxBars : Minute(b)' = Minute(b))
      /\ Minute(barNo)' = Minute(barNo)
    BY <1>4 DEF Now, Minute
<1>9. SlotsOK'
    BY <1>3, <1>4, <1>6, <1>8 DEF SlotsOK, Newest
<1> QED
    BY <1>6, <1>7, <1>9 DEF RateOK

LEMMA BarArrivesKeepsRate ==
    ASSUME RateOK, BarArrives
    PROVE  RateOK'
<1>1. RateKept' = RateKept
    BY DEF RateKept, AskedFirst, Before
<1>2. /\ barNo < MaxBars /\ barNo' = barNo + 1 /\ pc' # "act"
      /\ policies' = policies /\ recent' = recent /\ ordered' = ordered
    BY DEF BarArrives, risk, deciding
<1>3. RateKept => OrdersOK' /\ SlotsOK'
    BY <1>2, NextBar DEF RateOK, RateKept
<1>4. FirstIn("max_order_rate", "max_loss", policies)'
         <=> FirstIn("max_order_rate", "max_loss", policies)
    BY <1>2 DEF FirstIn
<1> QED
    BY <1>1, <1>3, <1>4 DEF RateOK

(* An action checked: what goes out as an order takes a slot.              *)
LEMMA ActKeepsRate ==
    ASSUME EInv, RateOK, Act
    PROVE  RateOK'
<1>1. RateKept' = RateKept
    BY DEF RateKept, AskedFirst, Before
<1>2. SUFFICES ASSUME RateKept PROVE RateOK'
    BY <1>1 DEF RateOK
<1>3. OrdersOK /\ SlotsOK /\ FirstIn("max_order_rate", "max_loss", policies)
    BY <1>2 DEF RateOK
<1>4. policies' = policies /\ pc' = pc /\ barNo' = barNo /\ pc = "act"
    BY DEF Act, ActOpen, ActScaleIn, ActRefused, ActClose, ActCancel, Check
<1>5. FirstIn("max_order_rate", "max_loss", policies)' /\ barNo > 0
    BY <1>3, <1>4 DEF FirstIn, OrdersOK
<1>6. ASSUME NEW kind, NEW wide, recent' = RecentAfter(kind, wide), ordered' = ordered
      PROVE  RateOK'
  <2>1. SlotsOK'
    BY <1>3, <1>4, <1>6, AskingKeepsSlots
  <2>2. OrdersOK'
    BY <1>3, <1>4, <1>6 DEF OrdersOK
  <2> QED
    BY <1>5, <2>1, <2>2 DEF RateOK
<1>7. ASSUME NEW kind, Opening(kind), NEW wide, Dispatched(kind, wide), Accepted,
             recent' = RecentAfter(kind, wide)
      PROVE  RateOK'
  <2>1. /\ ~(Len(InWindow(recent)) >= MaxPerMinute)
        /\ recent' = Append(InWindow(recent), Now)
    BY <1>3, <1>7, DispatchedHasSlot
  <2>2. OrdersOK' /\ SlotsOK'
    BY <1>3, <1>4, <1>5, <1>7, <2>1, AcceptedFits
  <2> QED
    BY <1>5, <2>2 DEF RateOK
<1>8. Opening("open") /\ Opening("scale_in")
    BY DEF Opening
<1>9. ASSUME NEW wide \in BOOLEAN, NEW id \in Ids, ActOpen(id, wide)
      PROVE  RateOK'
    BY <1>7, <1>8, <1>9 DEF ActOpen, Check
<1>10. CASE ActScaleIn
    BY <1>7, <1>8, <1>10 DEF ActScaleIn, Check
<1>11. ASSUME NEW wide, NEW kind, ActRefused(kind, wide)
       PROVE  RateOK'
    BY <1>6, <1>11 DEF ActRefused, Check
<1>12. ASSUME NEW id \in Ids, ActClose(id) \/ ActCancel(id)
       PROVE  RateOK'
    BY <1>6, <1>12 DEF ActClose, ActCancel, Check
<1> QED
    BY <1>9, <1>10, <1>11, <1>12 DEF Act

LEMMA InitRateOK ==
    ASSUME Init
    PROVE  RateOK
<1>1. MaxBars \in Nat /\ MaxPerMinute \in Nat
    BY EngineAssumption
<1>2. /\ barNo = 0 /\ pc = "wait" /\ recent = << >> /\ policies = InitialPolicies
      /\ ordered = [b \in 1..MaxBars |-> 0]
    BY DEF Init
<1>3. OrdersOK
    BY <1>1, <1>2 DEF OrdersOK
<1>4. \A b \in 1..MaxBars : Minute(b) = 0
  <2>1. TAKE b \in 1..MaxBars
  <2>2. b > 1 => b - 1 \in 1..MaxBars
    BY <1>1
  <2> QED
    BY <1>2, <2>2 DEF Minute
<1>5. SlotsOK
    BY <1>1, <1>2, <1>4 DEF SlotsOK
<1>6. ASSUME RateKept PROVE FirstIn("max_order_rate", "max_loss", policies)
  <2>1. policies \in Seq(PolicyNames) /\ DOMAIN policies = 1..Len(policies)
        /\ Len(policies) \in Nat
    BY <1>2, EngineAssumption
  <2>2. PICK k \in DOMAIN policies : policies[k] = "max_order_rate"
    BY <1>2, <1>6 DEF RateKept, AskedFirst, ToSet
  <2>3. ~Before("max_loss", "max_order_rate", policies)
    BY <1>2, <1>6 DEF RateKept, AskedFirst
  <2>4. ASSUME NEW j \in DOMAIN policies, policies[j] = "max_loss" PROVE k < j
    <3>1. ~(j < k)
        BY <2>2, <2>3, <2>4 DEF Before
    <3>2. j # k
        BY <2>2, <2>4
    <3> QED
        BY <2>1, <3>1, <3>2
  <2> QED
    BY <2>2, <2>4 DEF FirstIn
<1> QED
    BY <1>3, <1>5, <1>6 DEF RateOK

LEMMA NextKeepsRate ==
    ASSUME EInv, RateOK, [Next]_vars
    PROVE  RateOK'
<1>1. CASE UNCHANGED vars
  <2>1. UNCHANGED <<policies, recent, ordered, barNo>> /\ pc' = pc
    BY <1>1 DEF vars, risk, deciding
  <2>2. CASE RateKept
    <3>1. pc' = "act" => barNo > 0
        BY <2>1, <2>2 DEF RateOK, OrdersOK
    <3> QED
        BY <2>1, <3>1, RateUntouched
  <2>3. CASE ~RateKept
    BY <2>3 DEF RateOK, RateKept, AskedFirst, Before
  <2> QED
    BY <2>2, <2>3
<1>2. CASE \/ StreamEnds \/ Drained \/ FillNext \/ Filled \/ BarrierExit \/ Advanced
           \/ NoDecision \/ ActionsDone \/ EndBar \/ Finish \/ Raise
  <2>1. UNCHANGED <<policies, recent, ordered, barNo>> /\ pc' # "act"
    BY <1>2 DEF StreamEnds, Drained, FillNext, Filled, BarrierExit, Advanced,
                NoDecision, ActionsDone, EndBar, Finish, Raise, GoTo, risk, deciding
  <2> QED
    BY <2>1, RateUntouched
<1>3. CASE (\E cmd \in Commands : Enqueue(cmd)) \/ RequestStop
  <2>1. UNCHANGED <<policies, recent, ordered, barNo>> /\ pc' = pc
    BY <1>3 DEF Enqueue, RequestStop, risk, deciding
  <2>2. CASE RateKept
    <3>1. pc' = "act" => barNo > 0
        BY <2>1, <2>2 DEF RateOK, OrdersOK
    <3> QED
        BY <2>1, <3>1, RateUntouched
  <2>3. CASE ~RateKept
    BY <2>3 DEF RateOK, RateKept, AskedFirst, Before
  <2> QED
    BY <2>2, <2>3
<1>4. CASE Decide
  <2>1. UNCHANGED <<policies, recent, ordered, barNo>> /\ barNo > Warmup
    BY <1>4 DEF Decide, MayDecide, risk
  <2>2. barNo > 0
    BY <2>1, EngineAssumption DEF EInv, CountsOK
  <2> QED
    BY <2>1, <2>2, RateUntouched
<1>5. CASE BarArrives
    BY <1>5, BarArrivesKeepsRate
<1>6. CASE DrainOne
    BY <1>6, DrainOneKeepsRate
<1>7. CASE Act
    BY <1>7, ActKeepsRate
<1> QED
    BY <1>1, <1>2, <1>3, <1>4, <1>5, <1>6, <1>7 DEF Next, EngineStep

(* The sum of RateBound has one bar or two: it is the Minute of the bar.   *)
Pick(s) == CHOOSE x \in s : TRUE

IsSum(g, f, D) ==
    g = [s \in D |-> IF s = {} THEN 0 ELSE f[Pick(s)] + g[s \ {Pick(s)}]]

LEMMA SumOfTwo ==
    ASSUME NEW a, NEW b, NEW f, f[a] \in Nat, f[b] \in Nat
    PROVE  MapThenSumSet(LAMBDA c : f[c], {a, b})
              = f[b] + (IF a = b THEN 0 ELSE f[a])
<1> DEFINE S == {a, b}
           D == SUBSET S
           m == IF a = b THEN 0 ELSE f[a]
           v == [s \in D |-> (IF a \in s THEN m ELSE 0) + (IF b \in s THEN f[b] ELSE 0)]
<1>0. D = {{}, {a}, {b}, S} /\ m \in Nat
    OBVIOUS
<1>1. Pick({a}) = a /\ Pick({b}) = b /\ Pick(S) \in S
    BY DEF Pick
<1>2. \A s \in D : v[s] = IF s = {} THEN 0 ELSE f[Pick(s)] + v[s \ {Pick(s)}]
  <2>1. v[{}] = 0 /\ v[{b}] = f[b] /\ v[S] = m + f[b]
    OBVIOUS
  <2>2. a # b => v[{a}] = f[a]
    OBVIOUS
  <2>3. a = b => S = {b} /\ {a} = {b}
    OBVIOUS
  <2>4. a # b => S \ {a} = {b} /\ S \ {b} = {a}
    OBVIOUS
  <2>5. {a} \ {Pick({a})} = {} /\ {b} \ {Pick({b})} = {}
    BY <1>1, Zenon
  <2> HIDE DEF v
  <2>6. v[{b}] = f[Pick({b})] + v[{b} \ {Pick({b})}]
    <3>1. f[Pick({b})] = f[b] /\ v[{b} \ {Pick({b})}] = v[{}]
        BY <1>1, <2>5, Zenon
    <3> QED
        BY <2>1, <3>1
  <2>7. a # b => v[{a}] = f[Pick({a})] + v[{a} \ {Pick({a})}]
    <3>1. f[Pick({a})] = f[a] /\ v[{a} \ {Pick({a})}] = v[{}]
        BY <1>1, <2>5, Zenon
    <3> QED
        BY <2>1, <2>2, <3>1
  <2>8. a # b => v[S] = f[Pick(S)] + v[S \ {Pick(S)}]
    <3>1. SUFFICES ASSUME a # b PROVE v[S] = f[Pick(S)] + v[S \ {Pick(S)}]
        OBVIOUS
    <3>2. Pick(S) = a \/ Pick(S) = b
        BY <1>1
    <3> HIDE DEF S
    <3>3. CASE Pick(S) = a
      <4>1. f[Pick(S)] = f[a] /\ v[S \ {Pick(S)}] = v[{b}]
        BY <2>4, <3>1, <3>3, Zenon
      <4> QED
        BY <2>1, <3>1, <4>1
    <3>4. CASE Pick(S) = b
      <4>1. f[Pick(S)] = f[b] /\ v[S \ {Pick(S)}] = v[{a}]
        BY <2>4, <3>1, <3>4, Zenon
      <4> QED
        BY <2>1, <2>2, <3>1, <4>1
    <3> QED
        BY <3>2, <3>3, <3>4
  <2> HIDE DEF D, S
  <2> QED
    BY <1>0, <2>1, <2>3, <2>6, <2>7, <2>8
<1>3. IsSum(v, f, D)
  <2> DEFINE w == [s \in D |-> IF s = {} THEN 0 ELSE f[Pick(s)] + v[s \ {Pick(s)}]]
  <2>1. \A s \in D : w[s] = v[s]
    <3> HIDE DEF D, v
    <3> QED
        BY <1>2, Zenon
  <2>2. v = w
    <3> HIDE DEF D
    <3> QED
        BY <2>1, Zenon
  <2> QED
    BY <2>2 DEF IsSum
<1>4. \E g : IsSum(g, f, D)
    BY <1>3
<1> DEFINE it == CHOOSE g : IsSum(g, f, D)
<1>5. IsSum(it, f, D)
    BY <1>4, Zenon
<1>6. MapThenSumSet(LAMBDA c : f[c], S) = it[S]
    BY DEF MapThenSumSet, MapThenFoldSet, IsSum, Pick
<1> HIDE DEF it, v
<1>7. \A s \in D : it[s] = IF s = {} THEN 0 ELSE f[Pick(s)] + it[s \ {Pick(s)}]
  <2> HIDE DEF D
  <2> QED
    BY <1>5, Zenon DEF IsSum
<1>8. it[{}] = 0
    BY <1>7
<1>9. it[{b}] = f[b] /\ it[{a}] = f[a]
  <2>1. {b} \ {b} = {} /\ {a} \ {a} = {} /\ {b} \in D /\ {a} \in D
    OBVIOUS
  <2> HIDE DEF D
  <2> QED
    BY <1>1, <1>7, <1>8, <2>1
<1>10. it[S] = f[b] + m
  <2>1. CASE a = b
    BY <1>9, <2>1
  <2>2. CASE a # b
    <3>1. S \ {a} = {b} /\ S \ {b} = {a} /\ S \in D /\ S # {}
        BY <2>2
    <3>2. it[S] = f[Pick(S)] + it[S \ {Pick(S)}]
      <4> HIDE DEF D, S
      <4> QED
        BY <1>7, <3>1
    <3>3. Pick(S) = a \/ Pick(S) = b
        BY <1>1
    <3> HIDE DEF S
    <3>4. CASE Pick(S) = a
      <4>1. f[Pick(S)] = f[a] /\ it[S \ {Pick(S)}] = it[{b}]
        BY <3>1, <3>4, Zenon
      <4> QED
        BY <1>9, <2>2, <3>2, <4>1
    <3>5. CASE Pick(S) = b
      <4>1. f[Pick(S)] = f[b] /\ it[S \ {Pick(S)}] = it[{a}]
        BY <3>1, <3>5, Zenon
      <4> QED
        BY <1>9, <2>2, <3>2, <4>1
    <3> QED
        BY <3>3, <3>4, <3>5
  <2> QED
    BY <2>1, <2>2
<1> QED
    BY <1>6, <1>10

LEMMA MinuteIsTheSum ==
    ASSUME OrdersOK, BarMinutes > 0, NEW b \in 1..MaxBars
    PROVE  MapThenSumSet(LAMBDA c : ordered[c],
                         {c \in 1..b : (b - c) * BarMinutes <= 1}) = Minute(b)
<1> DEFINE a == IF BarMinutes = 1 /\ b > 1 THEN b - 1 ELSE b
           S == {c \in 1..b : (b - c) * BarMinutes <= 1}
<1>1. BarMinutes \in Nat /\ MaxBars \in Nat /\ b \in Nat /\ b >= 1
    BY EngineAssumption
<1>2. a \in 1..MaxBars
    BY <1>1
<1>3. ordered[a] \in Nat /\ ordered[b] \in Nat
    BY <1>2 DEF OrdersOK
<1>4. S = {a, b}
  <2>1. ASSUME NEW c \in 1..b PROVE c \in S <=> c \in {a, b}
    <3>1. PICK d \in Nat : d = b - c
        BY <1>1
    <3>2. c \in S <=> d * BarMinutes <= 1
        BY <3>1
    <3>3. d * BarMinutes <= 1 <=> d = 0 \/ (d = 1 /\ BarMinutes = 1)
      <4>1. CASE d = 0
        BY <1>1, <4>1
      <4>2. CASE d = 1
        BY <1>1, <4>2
      <4>3. CASE d >= 2
        <5>1. d * BarMinutes >= d
            BY <1>1
        <5> QED
            BY <1>1, <4>3, <5>1
      <4> QED
        BY <4>1, <4>2, <4>3
    <3> QED
        BY <1>1, <3>1, <3>2, <3>3
  <2>2. a \in 1..b /\ b \in 1..b
    BY <1>1
  <2> HIDE DEF a
  <2> QED
    BY <2>1, <2>2
<1> HIDE DEF a, S
<1>5. MapThenSumSet(LAMBDA c : ordered[c], {a, b})
         = ordered[b] + (IF a = b THEN 0 ELSE ordered[a])
    BY <1>3, SumOfTwo
<1>6. ordered[b] + (IF a = b THEN 0 ELSE ordered[a]) = Minute(b)
    BY <1>1, <1>3 DEF a, Minute
<1> QED
    BY <1>4, <1>5, <1>6 DEF S

(* While the order rate is asked first and stays in the chain, no minute   *)
(* sees more orders than it allows, whatever the policies after it say, at *)
(* whatever distance the bars come (RateBound).                            *)
THEOREM OrderRateIsBounded == Spec => []RateBound
<1>1. Init => RateOK
    BY InitRateOK
<1>2. EInv /\ RateOK /\ [Next]_vars => RateOK'
    BY NextKeepsRate
<1>3. RateOK => RateBound
  <2>1. SUFFICES ASSUME RateOK, RateKept, NEW b \in 1..MaxBars
                 PROVE  MapThenSumSet(LAMBDA c : ordered[c],
                           {c \in 1..b : (b - c) * BarMinutes <= 1}) <= MaxPerMinute
    BY DEF RateBound, RateKept
  <2>2. OrdersOK /\ BarMinutes > 0 /\ Minute(b) <= MaxPerMinute
    BY <2>1 DEF RateOK, RateKept, SlotsOK
  <2> QED
    BY <2>2, MinuteIsTheSum
<1> QED
    BY <1>1, <1>2, <1>3, EngineInvariance, PTL DEF Spec
=============================================================================
