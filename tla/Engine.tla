------------------------------- MODULE Engine -------------------------------
(***************************************************************************)
(* The decision loop: Engine.run and _process_one (wagie/engine.py), the   *)
(* RiskEngine it asks before every dispatch (wagie/risk/__init__.py), and  *)
(* the operator's TradingConsole (wagie/console.py), which runs in another *)
(* thread and reaches the engine only through command_queue.  The broker   *)
(* is InventoryBook, the promises SimBroker keeps.                         *)
(*                                                                         *)
(* `pc' is where the engine's thread is.  A strategy is any source of      *)
(* actions; a stop-loss matters only by being wider than max_loss or not,  *)
(* the drawdown only by breaching max_dd or not; a scale-out is silent or  *)
(* a close, a stop change is silent.  The learning half of a bar is module *)
(* Prequential.                                                            *)
(***************************************************************************)
EXTENDS InventoryBook, Sequences, SequencesExt

CONSTANTS
    InitialPolicies,  \* the RiskEngine's policies, in order
    Swappable,        \* those the operator adds and removes while running
    MaxOpen,          \* MaxPositionsPolicy.max_open
    MaxPerMinute,     \* MaxOrderRatePolicy.max_per_minute
    BarMinutes,       \* minutes between two bars' close times
    Warmup,           \* warmup_samples
    Every,            \* checkpoint_every
    MaxBars,          \* bound: bars in the stream
    MaxActions,       \* bound: actions a strategy emits in a bar
    MaxCommands       \* bound: operator commands in a run

PolicyNames ==
    {"max_positions", "max_drawdown", "max_loss", "max_order_rate", "kill_switch"}

ASSUME EngineAssumption ==
    /\ Cap \in Nat /\ IsFiniteSet(Ids) /\ Ids = 1..Cardinality(Ids)
    /\ InitialPolicies \in Seq(PolicyNames) /\ IsInjective(InitialPolicies)
    /\ Swappable \subseteq PolicyNames
    /\ {MaxOpen, MaxPerMinute, BarMinutes, Warmup, Every} \subseteq Nat
    /\ {MaxBars, MaxActions, MaxCommands} \subseteq Nat

VARIABLES
    pc,          \* where the engine's thread is
    barNo,       \* bars taken from the source, _n_seen
    queue,       \* command_queue
    issued,      \* commands the operator issued so far
    dueAtBar,    \* commands issued when the bar arrived
    policies,    \* risk_engine.policies, by name
    engaged,     \* KillSwitchPolicy.engaged
    recent,      \* MaxOrderRatePolicy._recent, in minutes
    paused,      \* Engine.paused
    snapshot,    \* the portfolio the bar's actions are checked against
    emitted,     \* actions of the strategy looked at in this bar
    scaleIns,    \* scale-ins that wait for the broker's next bar
    ordered,     \* bar -> orders (opens and scale-ins) it got accepted
    nDecisions,  \* _n_decisions
    lastAt,      \* _last_checkpoint_at: _n_decisions in the newest checkpoint
    attemptFailed, \* the last checkpoint callback raised
    stopAt       \* the bar a stop was requested in, or None

operator == <<queue, issued>>
risk == <<policies, engaged, recent>>
deciding == <<snapshot, emitted, ordered, nDecisions>>
checkpoint == <<lastAt, attemptFailed>>
vars == <<bookVars, pc, barNo, operator, dueAtBar, risk, paused, scaleIns,
          deciding, checkpoint, stopAt>>

Now == barNo * BarMinutes
OpenOrderCount == Cardinality(Live) + scaleIns

-----------------------------------------------------------------------------
(* RiskEngine                                                              *)

(* Each policy's check, for an action of a kind with a stop too wide or not *)
Opening(kind) == kind \in {"open", "scale_in"}

Bug_MaxOpenOffByOne(kind) == kind = "open" /\ snapshot.nOpen > MaxOpen
TooManyOpen(kind) == kind = "open" /\ snapshot.nOpen >= MaxOpen

(* popleft, as long as the oldest is before the cutoff                     *)
PopBefore(cutoff, seq) ==
    LET first == CHOOSE k \in 1..(Len(seq) + 1) :
                    /\ \A j \in 1..(k - 1) : seq[j] < cutoff
                    /\ k <= Len(seq) => seq[k] >= cutoff
    IN  SubSeq(seq, first, Len(seq))
Bug_CutoffInclusive(seq) == PopBefore(Now, seq)
InWindow(seq) == PopBefore(Now - 1, seq)

Bug_KillOpensOnly(kind) == kind = "scale_in"
KillBlocks(kind) == Opening(kind)

Rejects(name, kind, wide) ==
    CASE name = "max_positions"  -> TooManyOpen(kind)
      [] name = "max_drawdown"   -> Opening(kind) /\ snapshot.drawdown
      [] name = "max_loss"       -> kind = "open" /\ wide
      [] name = "max_order_rate" -> Opening(kind) /\ Len(InWindow(recent)) >= MaxPerMinute
      [] name = "kill_switch"    -> engaged /\ KillBlocks(kind)

(* RiskEngine.check: the first rejection wins, and later ones are not asked *)
Rejecting(kind, wide) ==
    {k \in DOMAIN policies : Rejects(policies[k], kind, wide)}

(* the order-rate policy spends a slot when it is asked and approves,      *)
(* whatever the policies after it say; being asked already drops old slots *)
RateAsked(kind, wide) ==
    /\ Opening(kind)
    /\ \E k \in DOMAIN policies :
          /\ policies[k] = "max_order_rate"
          /\ \A j \in Rejecting(kind, wide) : k <= j
RecentAfter(kind, wide) ==
    IF ~RateAsked(kind, wide) THEN recent
    ELSE IF Rejects("max_order_rate", kind, wide) THEN InWindow(recent)
    ELSE Append(InWindow(recent), Now)

(* only max_loss suggests an action instead; nobody checks the suggestion  *)
Dispatched(kind, wide) ==
    \A k \in Rejecting(kind, wide) :
        (\A j \in Rejecting(kind, wide) : k <= j) => policies[k] = "max_loss"

(* add: replaces a policy of the same name in place; a new policy is fresh *)
Added(name) ==
    IF \E k \in DOMAIN policies : policies[k] = name THEN policies
    ELSE Append(policies, name)
(* remove: as add replaces, a name is at most once in the chain            *)
Removed(name) ==
    LET at == {k \in DOMAIN policies : policies[k] = name}
    IN  IF at = {} THEN policies ELSE RemoveAt(policies, CHOOSE k \in at : TRUE)

-----------------------------------------------------------------------------
(* The operator: every console method is a closure put on command_queue    *)
Commands ==
    {<<"kill">>, <<"unkill">>, <<"pause">>, <<"resume">>, <<"flatten">>}
        \cup {<<"flatten", id>> : id \in Ids}
        \cup {<<"risk_add", p>> : p \in Swappable}
        \cup {<<"risk_remove", p>> : p \in Swappable}

Enqueue(cmd) ==
    /\ pc # "done"
    /\ issued < MaxCommands
    /\ issued' = issued + 1
    /\ queue' = Append(queue, cmd)
    /\ UNCHANGED <<bookVars, pc, barNo, dueAtBar, risk, paused, scaleIns,
                   deciding, checkpoint, stopAt>>

(* from a signal handler or another thread *)
RequestStop ==
    /\ pc # "done"
    /\ stopAt = None
    /\ stopAt' = barNo
    /\ UNCHANGED <<bookVars, pc, barNo, operator, dueAtBar, risk, paused,
                   scaleIns, deciding, checkpoint>>

(* a policy put in or taken out takes its state with it *)
Forgotten(names, name) ==
    /\ policies' = names
    /\ engaged' = (name # "kill_switch" /\ engaged)
    /\ recent' = IF name = "max_order_rate" THEN << >> ELSE recent

CloseAll(ids) ==
    /\ state' = [i \in Ids |-> IF i \in ids THEN "closed" ELSE state[i]]
    /\ exits' = [i \in Ids |-> IF i \in ids THEN "manual" ELSE exits[i]]
    /\ UNCHANGED sweeping

Execute(cmd) ==
    \/ /\ cmd[1] = "kill"
       /\ policies' = Added("kill_switch") /\ engaged' = TRUE
       /\ UNCHANGED <<bookVars, recent, paused>>
    \/ /\ cmd[1] = "unkill"
       /\ engaged' = FALSE
       /\ UNCHANGED <<bookVars, policies, recent, paused>>
    \/ /\ cmd[1] \in {"pause", "resume"}
       /\ paused' = (cmd[1] = "pause")
       /\ UNCHANGED <<bookVars, risk>>
    \/ /\ cmd[1] = "flatten"
       /\ CloseAll(IF Len(cmd) = 1 THEN InState("open")
                   ELSE {cmd[2]} \cap InState("open"))
       /\ UNCHANGED <<risk, paused>>
    \/ /\ cmd[1] = "risk_add"
       /\ Forgotten(Added(cmd[2]), cmd[2])
       /\ UNCHANGED <<bookVars, paused>>
    \/ /\ cmd[1] = "risk_remove"
       /\ Forgotten(Removed(cmd[2]), cmd[2])
       /\ UNCHANGED <<bookVars, paused>>

-----------------------------------------------------------------------------
NoSnapshot == [nOpen |-> 0, drawdown |-> FALSE]

Init ==
    /\ BookInit
    /\ pc = "wait" /\ barNo = 0
    /\ queue = << >> /\ issued = 0 /\ dueAtBar = 0
    /\ policies = InitialPolicies /\ engaged = FALSE /\ recent = << >>
    /\ paused = FALSE
    /\ snapshot = NoSnapshot /\ emitted = 0
    /\ scaleIns = 0 /\ ordered = [b \in 1..MaxBars |-> 0]
    /\ nDecisions = 0 /\ lastAt = 0 /\ attemptFailed = FALSE
    /\ stopAt = None

(* the source yields a bar, has no more, or raises *)
BarArrives ==
    /\ pc = "wait" /\ barNo < MaxBars
    /\ pc' = "drain"
    /\ barNo' = barNo + 1
    /\ dueAtBar' = issued
    /\ UNCHANGED <<bookVars, operator, risk, paused, scaleIns, deciding,
                   checkpoint, stopAt>>

GoTo(place) ==
    /\ pc' = place
    /\ UNCHANGED <<bookVars, barNo, operator, dueAtBar, risk, paused, scaleIns,
                   deciding, checkpoint, stopAt>>

StreamEnds == pc = "wait" /\ GoTo("final")

(* what is no StageError ends the run, at the end of whatever it broke *)
Raise == pc \in {"drain", "fills", "exits", "decide", "act"} /\ GoTo("final")

Bug_PeekOnly == queue
Rest == Tail(queue)

(* _drain_console_commands *)
DrainOne ==
    /\ pc = "drain" /\ queue # << >>
    /\ Execute(Head(queue))
    /\ queue' = Rest
    /\ UNCHANGED <<pc, barNo, issued, dueAtBar, scaleIns, deciding,
                   checkpoint, stopAt>>

Bug_LeaveOneQueued == Len(queue) <= 1
NothingQueued == queue = << >>

Drained == pc = "drain" /\ NothingQueued /\ GoTo("fills")

(* broker.advance_to: every order fills, then the barriers *)
FillNext ==
    /\ pc = "fills"
    /\ \E id \in Ids : Fill(id)
    /\ UNCHANGED <<pc, barNo, operator, dueAtBar, risk, paused, scaleIns,
                   deciding, checkpoint, stopAt>>

Filled ==
    /\ pc = "fills" /\ InState("pending") = {}
    /\ pc' = "exits"
    /\ scaleIns' = 0
    /\ UNCHANGED <<bookVars, barNo, operator, dueAtBar, risk, paused,
                   deciding, checkpoint, stopAt>>

BarrierExit ==
    /\ pc = "exits"
    /\ \/ \E id \in Ids : \/ ExitAlone(id, "sl") \/ ExitAlone(id, "safety_cap")
                          \/ ExitAtProfit(id) \/ ExitSwept(id)
       \/ EndSweep
    /\ UNCHANGED <<pc, barNo, operator, dueAtBar, risk, paused, scaleIns,
                   deciding, checkpoint, stopAt>>

Advanced == pc = "exits" /\ ~sweeping /\ GoTo("decide")

MayDecide == barNo > Warmup /\ ~paused

(* warm-up and pause end the bar before the actions, and so does a         *)
(* StageError of the pipeline; then there is no checkpoint either          *)
NoDecision ==
    /\ pc = "decide"
    /\ GoTo("ended")

Decide ==
    /\ pc = "decide" /\ MayDecide
    /\ pc' = "act"
    /\ \E breached \in BOOLEAN :
          snapshot' = [nOpen |-> Cardinality(InState("open")),
                       drawdown |-> breached]
    /\ UNCHANGED <<bookVars, barNo, operator, dueAtBar, risk, paused, scaleIns,
                   emitted, ordered, nDecisions, checkpoint, stopAt>>

-----------------------------------------------------------------------------
(* An action of the strategy is checked, and dispatched if that let it by  *)
Check(kind, wide) ==
    /\ pc = "act" /\ emitted < MaxActions
    /\ emitted' = emitted + 1
    /\ recent' = RecentAfter(kind, wide)
    /\ UNCHANGED <<pc, barNo, operator, dueAtBar, policies, engaged, paused,
                   snapshot, checkpoint, stopAt>>

Accepted == ordered' = [ordered EXCEPT ![barNo] = @ + 1]

ActOpen(id, wide) ==
    /\ Check("open", wide)
    /\ Dispatched("open", wide) /\ OpenOrderCount < Cap
    /\ Submit(id)
    /\ Accepted
    /\ nDecisions' = nDecisions + 1
    /\ UNCHANGED scaleIns

ActScaleIn ==
    /\ Check("scale_in", FALSE)
    /\ Dispatched("scale_in", FALSE)
    /\ InState("open") \cup InState("closed") # {}
    /\ scaleIns' = scaleIns + 1
    /\ Accepted
    /\ UNCHANGED <<bookVars, nDecisions>>

(* turned down by a policy, or by the broker *)
ActRefused(kind, wide) ==
    /\ Check(kind, wide)
    /\ \/ ~Dispatched(kind, wide)
       \/ kind = "open" /\ OpenOrderCount >= Cap
       \/ kind = "scale_in" /\ InState("open") \cup InState("closed") = {}
    /\ UNCHANGED <<bookVars, scaleIns, ordered, nDecisions>>

(* closing and cancelling pass every policy *)
ActClose(id) ==
    /\ Check("close", FALSE)
    /\ ExitAlone(id, "manual")
    /\ UNCHANGED <<scaleIns, ordered, nDecisions>>

ActCancel(id) ==
    /\ Check("cancel", FALSE)
    /\ Withdraw(id)
    /\ UNCHANGED <<scaleIns, ordered, nDecisions>>

Act ==
    \/ \E wide \in BOOLEAN :
          \/ \E id \in Ids : ActOpen(id, wide)
          \/ ActRefused("open", wide)
    \/ ActScaleIn
    \/ ActRefused("scale_in", FALSE)
    \/ \E id \in Ids : ActClose(id) \/ ActCancel(id)

-----------------------------------------------------------------------------
Bug_FinalOnlyWhenDue(final) == Every > 0 /\ nDecisions - lastAt >= Every
CheckpointDue(final) ==
    final \/ (Every > 0 /\ nDecisions - lastAt >= Every)

(* _maybe_checkpoint: a callback that raises is logged and forgotten *)
MaybeCheckpoint(final) ==
    IF CheckpointDue(final)
    THEN \E ok \in BOOLEAN :
            /\ attemptFailed' = ~ok
            /\ lastAt' = IF ok THEN nDecisions ELSE lastAt
    ELSE UNCHANGED checkpoint

ActionsDone ==
    /\ pc = "act"
    /\ pc' = "ended"
    /\ snapshot' = NoSnapshot /\ emitted' = 0
    /\ MaybeCheckpoint(FALSE)
    /\ UNCHANGED <<bookVars, barNo, operator, dueAtBar, risk, paused, scaleIns,
                   ordered, nDecisions, stopAt>>

StopRequested == stopAt # None

EndBar ==
    /\ pc = "ended"
    /\ IF StopRequested THEN GoTo("final") ELSE GoTo("wait")

(* the finally of run: whatever happened, one more checkpoint *)
Finish ==
    /\ pc = "final"
    /\ pc' = "done"
    /\ MaybeCheckpoint(TRUE)
    /\ UNCHANGED <<bookVars, barNo, operator, dueAtBar, risk, paused, scaleIns,
                   deciding, stopAt>>

EngineStep ==
    \/ BarArrives \/ StreamEnds
    \/ DrainOne \/ Drained
    \/ FillNext \/ Filled \/ BarrierExit \/ Advanced
    \/ NoDecision \/ Decide \/ Act \/ ActionsDone
    \/ EndBar \/ Finish

Next ==
    \/ EngineStep
    \/ Raise
    \/ \E cmd \in Commands : Enqueue(cmd)
    \/ RequestStop

(* the source is a file, so the engine's thread never waits for long; an  *)
(* exception is never owed                                                *)
Spec == Init /\ [][Next]_vars /\ WF_vars(EngineStep)

-----------------------------------------------------------------------------
Before(a, b, chain) ==
    \E j, k \in DOMAIN chain : j < k /\ chain[j] = a /\ chain[k] = b

(* a policy the operator does not take away, and no rewritten action passes *)
AskedFirst(name) ==
    /\ name \in ToSet(InitialPolicies) \ Swappable
    /\ ~Before("max_loss", name, InitialPolicies)

(* While the kill switch is engaged an order goes out only where max_loss  *)
(* stands before it in the chain: its rewritten action is dispatched       *)
(* without a second check (engine.py 431-448), and that is the only way.   *)
KillBypassNeedsMaxLoss ==
    [][engaged /\ ordered' # ordered => Before("max_loss", "kill_switch", policies)]_vars

(* The operator is heard in time: what was asked for before a bar arrived  *)
(* has been done before anything is filled or decided in that bar, however *)
(* many commands come in meanwhile; and after a stop request the bar in    *)
(* hand is finished, or, between bars, one more is taken (engine.py 176-   *)
(* 181, 219-224, 309-325).                                                 *)
OperatorHeard ==
    /\ pc \in {"fills", "exits", "decide", "act", "ended"}
           => Len(queue) <= issued - dueAtBar
    /\ stopAt # None => barNo <= stopAt + 1

(* The snapshot is taken once a bar and does not see what the bar submits, *)
(* so max_open can be passed, but by no more than one bar's orders, and    *)
(* never beyond the broker's own cap (engine.py 424, risk 60-63).          *)
OvershootBounded ==
    /\ Cardinality(Live) <= Cap
    /\ MaxOpen > 0 /\ AskedFirst("max_positions")
          => Cardinality(Live) <= MaxOpen - 1 + MaxActions

(* No 60 seconds, both ends included, see more than max_per_minute orders, *)
(* though the policy spends slots on orders that others turn down          *)
(* (risk/__init__.py 127-140).                                             *)
RateBound ==
    AskedFirst("max_order_rate") /\ BarMinutes > 0 =>
        \A b \in 1..MaxBars :
            MapThenSumSet(LAMBDA c : ordered[c],
                {c \in 1..b : (b - c) * BarMinutes <= 1}) <= MaxPerMinute

(* Unless the last attempt failed, the newest checkpoint is, between two   *)
(* bars, less than checkpoint_every decisions old, though many bars return *)
(* early, and in the end of all that was decided, even after a stop or an  *)
(* exception (engine.py 225-232, 285-307, 383, 388, 400).                  *)
CheckpointsInTime ==
    ~attemptFailed =>
        /\ pc \in {"wait", "ended"} /\ Every > 0 => nDecisions - lastAt < Every
        /\ pc = "done" => lastAt = nDecisions

(* The run ends: commands are drained in finite time, a bar's work is      *)
(* finite, and every error ends the run or the bar (engine.py 213-283).    *)
Terminates == <>(pc = "done")

-----------------------------------------------------------------------------
(* What the repository says and the code does not do.                      *)

(* risk/__init__.py 148-150: "When engaged, only CLOSE/CANCEL/MODIFY_STOP/ *)
(* HOLD are allowed."                                                      *)
KillBlocksOrders == [][engaged => ordered' = ordered]_vars
=============================================================================
