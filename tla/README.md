# A TLA+ model of wagie

wagie (`src/src/wagie`) replays one-minute market data, groups it into decision
bars, predicts from each bar whether a price target will be touched in the next
one, opens positions behind two price barriers, and keeps learning from what
happened. This directory holds TLA+ modules of the parts where order, timing and
bookkeeping matter, TLC configurations that check them on small instances, and
proofs, checked by TLAPS, that the broker implements its abstract specification
and that the invariants of the broker, the decision loop, the learning loop, the
strategies, the checkpoints, the reports, the features, the predictor, the
adaptive experiment, the protocol and its scores hold for every value of the
constants. Every safety property a passing run checks is a theorem.

Paths below are relative to `src/wagie/` of the repository unless they start
with `src/`.

## 1. The system

One thread, the engine's, runs `Engine.run`: for each bar of the source it
drains the operator's commands, learns from the label the bar gives to the bar
before, lets the broker fill and close, runs the pipeline, asks the risk engine
about each action of the strategy and dispatches what passes. A second thread,
the operator's, calls `TradingConsole`; what changes state goes through a
`queue.Queue` of closures the engine executes between bars. Signal handlers and
other threads may ask the engine to stop at any moment.

    ParquetReplaySource --bar--> Engine --bar--> SimBroker --events, fills--> ledger
                                  |  ^               ^  |
       LabelBuffer --(obs,label)--+  |               |  portfolio() (snapshot)
             ^                    v  |               |  v
             +-- Pipeline: features, predictor, OnlineARF, label buffer, strategy
                                  |                  |
                                  +--actions--> RiskEngine --> dispatch
       TradingConsole --closures--> command_queue --> Engine (between bars)
       checkpoint_callback <-- Engine (every n decisions, and at the end)
              |
       archives on disk --load--> the next process

Around one such run stand the batch programs, each a single thread: the training
script, which rewrites the model files that a running process may be loading;
the adaptive experiment, which replays the start of a window to calibrate and
then the whole of it; the protocol, which runs a backtest or a cross-validation
and gates its scores; and the report, a directory of files that is rendered,
archived and patched in place.

| Component | State it keeps | Operations | What is hard | What makes it correct |
|---|---|---|---|---|
| Simulated broker, `io/brokers.py` | pending opens and scale-ins, portfolio, closed fills, next id | `dispatch` (seven kinds of action), `advance_to`, `finalize`, `cancel` | Orders wait a bar and the world changes under them; a take-profit closes other positions while the walk over a copy of the positions goes on; latency and minute boundaries | The inventory cap; one life per order; ledger, portfolio and PnL agree; barriers are scanned in exactly the right minutes |
| Positions and portfolio, `core/position.py`, `core/portfolio.py` | immutable values, replaced | open, mark, scale, close; equity, high-water mark, drawdown | Partial closes, marks of closed positions, running sums | Sums equal the sums of their parts; closed stays closed |
| Decision loop, `engine.py` | counters, pause and stop flags, histories, command queue | `run`, `_process_one`, draining, `_maybe_checkpoint`, `stop` | Two threads; early returns; exceptions; a portfolio read once and used for several dispatches | Commands take effect before the next decision; bounds survive stale reads; the run ends with its work saved |
| Risk engine, `risk/__init__.py` | ordered policies, kill switch, recent order times | `check`, `add`, `remove` | First rejection wins; one policy rewrites the action; the rate policy has memory | What is refused does not go out; rates and counts keep their limits |
| Operator console, `console.py` | none of its own | kill, unkill, pause, resume, flatten, set_stop, risk_add/remove, save, queries | Runs in another thread | Nothing touches the engine outside the queue |
| Replay source, `io/sources.py` | rows of the unfinished bar | `stream`, `close` | Gaps and segment changes at any row | A bar is m consecutive minutes of one segment |
| Label buffer, `pipeline/label_buffer.py` | records waiting for a label | `transform`, `maybe_emit` | Bars that never reach it (pause, failures); segment boundaries; its bound | A label is the next bar's, once |
| Sealed pipeline, `pipeline/sealed.py` | its stages | `transform_one`, `learn_one`, `state_hash` | A stage fails halfway through a bar | Stages stay in step with each other |
| Online corrector, `pipeline/online_arf.py` | the forest, its cold start | `transform`, `update` | Learns one bar late | No prediction has seen its own label |
| Composite adaptive strategy, `strategy/__init__.py` | pending label, last entry, hold ages | `decide`, `update` | Entry and label of a bar arrive by different calls, a bar apart | The controller is told of one bar at a time |
| Adaptive threshold, `strategy/adaptive_threshold.py` | tau, two averages, pause flag | `observe`, `should_enter` | Hysteresis, clipping, freezing | tau stays in its range and moves in bounded steps; a pause can end |
| Streaming features, `features/` | a buffer, a window and a segment per feature | `transform`, `update_one`, `reset`; the catalog's ranking and thinning | Missing values, segment changes and resets reach each kind of feature differently | Each column is the statistic its spec describes |
| Offline predictor, `pipeline/catboost_predictor.py` | the members loaded so far | `_ensure_loaded`, `transform` | The files are rewritten one by one by another process; a failed load is tried again | Who predicts has its ensemble whole |
| Persistence, `persistence.py` | archives on disk | `save`, `load`, `prune_checkpoints`, callback | Crash while writing; restart | What loads is of one moment; a good checkpoint is always left; a resumed controller keeps its place |
| Report, `reporting/`, `__main__.py` | a tree of figures, manifest and bundle; zips of earlier ones | `render`, `rebuild`, archive, wipe | Every file is written in place; emitters, unlinks and the process may fail at any step | No report mixes runs or lists what is not there; the last one survives |
| Adaptive experiment, `experiments/`, `scripts/` | the pairs, the errors, the stability trace | two passes, the calibration loop | The warm-up is counted in minutes in one pass and in bars in the other | No decision before what its parameters depend on |
| Protocol and cross-validation, `experiments/protocol.py`, `cv.py`, `cscv.py` | rows per fold, reasons to block | folds, gates | Inclusive bounds, failing folds, padding | A fold replays what it tests; the overfitting score means what it says |
| Metrics, `metrics/` | none | scores of predictions, trades, pauses | Ties, empty classes, boundaries of bins and windows | The scores agree with their definitions |
| Training and offline labels, `training/`, `offline/` | none | aggregate, label, select columns | The two aggregations of minutes into bars differ | Labels mean the same as online |
| Assembly, configuration, values, registry, clocks, events, observability, checks | little or none | wiring, validation, arithmetic | Numeric edge cases | Local to each function |

`PROJECT.json` lists every component with its status and, under `hazards`, each
place where a mistake would hardly show in a test, with the properties that
watch it.

## 2. The modules

### InventoryBook — what the broker promises

Orders without prices, sizes or time. An order is unborn, pending, open, closed
or withdrawn; at most `Cap` are pending or open; fills are first come, first
served; a position has one exit for one reason, and only a take-profit takes
other positions with it. It is the abstract specification `SimBroker`
implements, and the broker `Engine` is built on, so that what is checked of the
engine rests on what is checked of the broker.

### SimBroker — the triple-barrier broker

`dispatch` is one action per kind of `Action`. `advance_to` is a loop over
pending opens, pending scale-ins and positions; each iteration is an action, and
the variables `phase`, `todo`, `left` and `sweep` stand for the position of its
loops. That grain is the code's own: every iteration replaces `self._portfolio`,
which another thread can read between two of them.

| Code | Module |
|---|---|
| `_next_position_id`, `_pending_opens`, `_pending_scale_ins` | `nextId`, `pendingOpens`, `pendingScaleIns` |
| `_portfolio.positions`, `realized_pnl_log`, `high_water_mark_log` | `positions`, `realized`, `hwm` |
| `_closed_history`, the list `advance_to` returns | `history`, `newFills` |
| `_dispatch_open/_scale_in/_scale_out/_close/_modify_stop/_cancel` | `DispatchOpen`, ..., `DispatchCancel` |
| Step A, Step A2 of `advance_to` | `ActivateOpen`, `ActivateScaleIn` and the ends of their loops |
| Step B: barriers, tie-break, safety net, mark | `TouchBarrier`, `CapHoldAge`, `MarkPosition` |
| `_sweep_winners`, `_barrier_close` | `SweepWinner`, `SweepDone`, `BarrierClose` |
| Step C | `MarkPortfolio` |

Prices are log-prices on an integer grid and sizes integer units, so PnL is
exact. Time is in half minutes, because the code compares close times with open
times and a minute may close when the next one opens (`CloseLag = 2`) or before
it (`CloseLag = 1`). The probabilistic tie-break draws from a hash of the minute
alone: the model draws it with the bar. The mean entry of a scale-in lies
somewhere between the two prices. MAE and MFE, `BrokerLedger`'s formatting and
the event list are left out.

### Engine — the decision loop, the risk engine and the console

`pc` says where the engine's thread is: waiting for a bar, draining commands,
filling, closing, deciding, acting, at the end of the bar, in the `finally` of
`run`, done. The operator's `Enqueue` and `RequestStop` are enabled in all of
these but the last. The chain of policies is a sequence of names; a policy's
check is a predicate of the action, the snapshot of the portfolio and the
policy's state. A strategy is any source of actions; the pipeline may fail or
not. `EngineStep` is what the thread does of itself; `Raise` is an exception no
handler below `run` catches.

| Code | Module |
|---|---|
| `_n_seen`, `_n_decisions`, `_last_checkpoint_at`, `_stop_requested` | `barNo`, `nDecisions`, `lastAt`, `stopAt` |
| `command_queue` | `queue`; `issued` and `dueAtBar` count what was put on it |
| `RiskEngine.policies`, `KillSwitchPolicy.engaged`, `MaxOrderRatePolicy._recent` | `policies`, `engaged`, `recent` |
| the local `portfolio` of `_process_one` | `snapshot` |
| `_drain_console_commands` | `DrainOne`, `Drained` |
| `broker.advance_to` | `FillNext`, `Filled`, `BarrierExit`, `Advanced` |
| warm-up, pause and `StageError` returns | `NoDecision` |
| `MaxOrderRatePolicy`: `popleft` of what is older than the window | `PopBefore` |
| the loop over `obs.actions` | `ActOpen`, `ActScaleIn`, `ActRefused`, `ActClose`, `ActCancel` |
| `_maybe_checkpoint` | `MaybeCheckpoint`, in `ActionsDone` and `Finish` |

The stop of an open matters only by being wider than `max_loss` or not, the
drawdown only by breaching its limit or not. A policy added again is a new
object, as a console user would pass.

### Prequential — predict, then learn

Rows of the file become bars; a bar is named by its place in the stream, a
label by the bar that gave it, and what the forest knew when it predicted by the
length of what it had learned. `pc` is the order of `_process_one`: learn, then
transform. `Failures` says what may raise: a feature stage, an update of a stage
before the forest, the forest itself (which swallows its failures). A pause
skips the pipeline, as in the code.

| Code | Module |
|---|---|
| `ParquetReplaySource.stream` | `ReadRow`, `Breaks`, `Complete` |
| `LabelBuffer.maybe_emit` and `Pipeline.learn_one` | `NothingMatures`, `LearnOne` |
| `Pipeline.transform_one` with its stages | `TransformOne`, `FeatureFails` |
| the `paused` return | `SkipBar` |
| `CompositeAdaptiveStrategy._pending_label`, `_last_entered` | `pendingLabel`, `lastDecided`, `observed` |

### AdaptiveStrategy — the shipped strategies and the controller of tau

`ThresholdGate`, `EvCalibratedSize` (each possibly inside a
`RegimeGatedStrategy`) and `CompositeAdaptiveStrategy` with its
`AdaptiveThresholdController`, in the loop that drives them. The broker is
`InventoryBook`, with the bar each position was opened in; a risk policy may
turn down any open, the operator may close anything between bars, and any bar
may end before the strategy is asked. `Decide` is one whole call of `decide`:
`observe` with the entry of the bar before and the label that came since, then
the hold-age exits, then the entry.

| Code | Module |
|---|---|
| `tau`, `r_hat_ewma`, `r_star_ewma`, `paused` | `tau`, `rHat`, `rStar`, `ctlPaused` |
| `_last_entered`, `_pending_label` | `lastEntered`, `pendingLabel` |
| `observe` | `NewRHat`, `NewRStar`, `NewPaused`, `NewTau` |
| `should_enter` | `ShouldEnter` |
| the three `decide` | `DecideGate`, `DecideComposite` |
| `update`, called by `learn_one` | `Learn` |
| the loop over the actions | `Close`, `Open`, `EndBar` |

Probabilities and rates are integers with `One` for 1.0, and `lambda_decay` and
`gamma` are one over an integer; with `One` a multiple of a high enough power of
`LambdaInv` no division of the averages rounds. `low` and `high` are no state of
the code: they are what `r_star_ewma` would be had it started at 0 or at 1, and
say how much the labels have decided by themselves. Bars follow each other
without gaps, so an age is a number of bars; a gap only makes a position older.

### Checkpoints — what a crash leaves and a resume gives back

`save` opens the archive in place and adds three members; the engine's callback
names it by `_n_decisions` and prunes by name; the operator saves to a file of
his own. The process may die between any two of these steps, `save` may raise,
and the next process starts afresh or loads any archive that is whole. An
archive is, member by member, the moment it was serialised at; a memory is, part
by part, the set of bars it comes from, which says what a resume forgets:
`state_dict` of the features, the forest and the label buffer hold counts only.

| Code | Module |
|---|---|
| `_n_decisions`, `_last_checkpoint_at`, `_n_checkpoints` | `n`, `lastAt`, `nChecks` |
| `state_dict` and `load_state_dict` of the stages | `BaseBarState`, ..., `ControllerState`, `Restored` |
| `save`, member by member | `Serialise`, `OpenArchive`, `AddMember`, `SaveRaises` |
| `prune_checkpoints` | `Surplus`, `Prune`, in `EndCheckpoint` |
| `load` with its version check | `Resume`, `Accepted` |

### Reports — the one report directory

`render` archives the directory, wipes it and writes it anew; `rebuild` patches
sections from the pickled bundle; `--no-plotly` rewrites the bundle. A file is
absent, torn or whole. A run is the series its result and metrics hold, a chart
the PNG it may become, a section the charts it asks for and what it reads; so a
section's page is determined by the data it is given, and a rebuild can be
compared with the render it came after: hold ages apart, which the inventory is
meant to take from elsewhere in a rebuild (Section 6).

Any file may resist the wipe, the manifest too. `leftover` is a history variable
that remembers such a manifest until a render tears it to write its own. Until
then a render that breaks off behind its bundle leaves the bundle of one run
beside the manifest of another, and a rebuild puts both in one report. The code
has no guard against it and its text claims none, so `OneRunPerReport` leaves
this case out; the other three properties hold in it.

| Code | Module |
|---|---|
| the chart functions and the section emitters | `Chart`, `Section`, `Emitter`, `Page` |
| `archive_current`, `prune_archive` | `OpenZip`, `WriteZip`, `PruneArchive` |
| the wipe, and what it cannot delete | `WipePart`, `EndWipe` |
| the loop over the sections, the manifest, the bundle, the orphans | `Emit`, `OpenManifest`, `OpenBundle`, `PruneOrphans` |
| `rebuild`, the command of `__main__.py` | `StartRebuild`, `Replay`, `OpenPatch`, `RebuildAgain` |

### Features and Predictor

`Features` is the catalog and the `FeatureBuilder`: a value is named by the bar
it was read from, so a feature's output is the sequence of bars its statistic is
taken over. `Reference` says, from the feed alone, which bars these should be:
it counts positions from the newest, never leaves the segment, and knows no
buffer. The lag and batch features do leave it, which the run
`segment_contamination` shows; `FeaturesAsDefined` says nothing of such a column.
`Predictor` runs it beside a training that rewrites the model files one after
the other and may die on the way, while the predictor reads the members one
after the other at its first bar, and again at the next if one cannot be read.

| Code | Module |
|---|---|
| `RiverRollingFeature`, `BoundedBatchFeature`, `LagFeature`, `IdentityFeature` | `UpdateRolling`, `UpdateBatch`, `UpdateLag`, `UpdateOne` |
| ranking by importance, stable for equals | `Score`, `Before`, `ImportanceRank`, `ByImportance` |
| dropping of correlated features | `DedupeCorrelated` |
| `FeatureBuilder.transform`, `reset` | `Transform`, `Reset` |
| `train_offline_model.py` | `Train`, `OpenFile`, `CloseFile`, `TrainerDies`, `SelectFeatures` |
| `_ensure_loaded`, `transform` | `Bar`, `LoadMember`, `Loaded`, `Predict` |

### Experiment

The two drivers of the adaptive experiment over a feed with missing minutes. The
online one replays the start of the window and counts the bars it got; the
offline one reads labelled bars up to a time and turns the time into a number of
bars. Both then replay the window from its first bar with that many warm-up
bars. `calibrate_from_warmup` is modelled with its loop, an observation a step,
and may be called by itself.

| Code | Module |
|---|---|
| the filter and the grouping of the source | `Fed`, `Replay`, `Stream` |
| the aggregation of the labels | `ClockBar`, `DecisionBars`, `Segment`, `Labelled` |
| `warmup_samples` of each pass | `WarmupSamples` |
| the calibration pass, the labelled bars | `PreBar`, `PreDone`, `ReadOffline` |
| the loop of `calibrate_from_warmup` and its checks | `Observe`, `Stable`, `Stopped`, `Reduce` |
| the evaluation pass | `MainBar`, `MainDone` |

### Scores and Protocol

`Scores` holds the metrics as operators on integers: a mean is given by its sum,
a rank is doubled, so nothing is rounded. `Protocol` is the experiment protocol
around them: a backtest that collects predictions, pauses or trades, or a
cross-validation fold by fold of which any may fail, the matrix of returns, the
gates and the report. `Picked`, what a sequence has at some positions, stands for
numpy's selection by a mask. A trade opens within the run and closes no earlier
than it opens: for another one `trade_concurrency` raises or has no place
(`bootstrap.py:479-483`).

| Code | Module |
|---|---|
| `roc_auc`, `delong_roc_auc_ci` | `TwiceMidRank`, `TwiceU`, `V10`, `V01` |
| `reliability_bins`, `expected_calibration_error` | `Edge`, `InBin`, `ReliabilityBins`, `CalibrationError` |
| rolling Brier score, pauses, drawdown, `average_uniqueness` | `RollingBrier`, `PauseSpans`, `MaxDrawdown`, `Concurrency`, `Uniqueness` |
| `cscv_pbo` | `Sharpe`, `Rank`, `ArgMax`, `Splits`, `Overfit` |
| `m_minutes`, where the protocol is | `BarMinutes`, `stage` |
| folds and their rows, what a fold leaves | `TestGroups`, `Replayed`, `Fold`, `Padded`, `Matrix` |
| `_check_accept_gates` | `Gate`, `HasCi`, `HasBand` |

### The proof modules and the MC modules

Each of `SimBrokerProofs`, `EngineProofs`, `PrequentialProofs`,
`AdaptiveStrategyProofs`, `CheckpointsProofs`, `ReportsProofs`,
`ExperimentProofs` and `PredictorProofs` extends the module it is about and holds
its theorems; `ExperimentProofs` holds those of `Protocol` and `Scores` as well.
To be extended beside `Experiment`, `Protocol` has `ProtocolInit`,
`ProtocolNext` and `ProtocolSpec`. The `MC` modules hold the values of the
constants for TLC.

A definition called `Bug...` is a plausible mistake in the definition after it.
Nothing in the specifications uses them; they are there to see that a property
notices the mistake.

## 3. What is checked

| Run | Instance | What it shows |
|---|---|---|
| `broker` | 3 bars of 2 minutes, with actions before the first two, 3 orders for 2 slots, latency 1, 1 pending scale-in, safety cap of 1 bar, minutes that touch both barriers, either winner of a tie, `CloseLag` 2 | The type invariant; the inventory cap; ledger, portfolio and PnL agree; a batched exit follows a take-profit and earns money where there is no slippage; between bars no position lifts the account over the high-water mark; what survives the walk was touched in no minute it lived through; an own barrier closes a position later than it was filled, or with no latency not before; closed is final; `SimBroker` implements `InventoryBook` |
| `engine` | 3 one-minute bars, the first a warm-up, 2 actions a bar, 2 commands, a stop request and an exception at any moment | Commands are done before decisions and a stop within a bar; the overshoot of `max_open`; the order rate; the age of the newest checkpoint; the only way past the kill switch; termination |
| `prequential` | up to 9 minutes in bars of 2, gaps and segment changes anywhere, pauses, all failures | Bars are contiguous, a label is the next bar's, predict then learn, the controller's pairs |
| `adaptive` | 5 bars, the first a warm-up, three strategies, 3 orders, averages with decay 1/2 | The range and step of `tau`, what the pause follows, one order at a time, ages |
| `checkpoints` | 3 bars over 2 processes, a checkpoint after each decision, 1 kept, 1 save by the operator in each process | What loads is of one moment; the last counted checkpoint can be loaded; a resumed controller keeps its place |
| `reports` | an empty directory or an old report, 2 jobs, 2 runs, the overview and the inventory, a wipe that may leave any part, 1 archive kept | The last report survives; no report mixes runs, but beside a manifest that a wipe left; what is listed is there; a rebuild reproduces, hold ages apart |
| `features` | 6 features of every kind, 4 bars with missing values, segment changes and resets; an ensemble of 2, a training that may die | Each column is what its spec describes, unless a lag or batch reaches into an earlier segment; the ensemble is whole |
| `experiment` | 18 minutes in bars of 3, any 2 missing, both drivers and every end of the warm-up; up to 14 pairs alone | No decision before the calibrated rows; the loop stops at the first stable check, whatever the very first does |
| `protocol` | backtests of up to 4 predictions, 6 pauses or 3 trades; 6 bars in 3 folds, 2 tested at a time, any of which may fail | Scores of predictions, of trades, of overfitting; a fold replays what it tests |
| `kill_blocks_orders` | as `engine`, smaller | An order goes out with the kill switch engaged |
| `exit_after_entry` | as `broker`, 2 bars and no safety cap | A sweep closes a position at or before the minute it was filled in |
| `segment_contamination` | as `features`, 3 bars and no ensemble to train | A lag carries a value of one segment into the next |

The last three end in a violation. Each states what a comment or docstring of the
repository says and the code does not do; `findings` in `PROJECT.json` quotes
it. Section 6 lists disagreements that were met while modelling and have no run
of their own.

### Why the bounds are enough

`broker`. Everything the broker does between two bars meets everything it does
in the next `advance_to` already with two bars: an order is submitted before the
first, filled in it, and swept, stopped, scaled, closed by hand or touched by
the second. The third bar brings the age cap, which needs positions older than a
bar; no action is dispatched before it (`ActionBars` 2), as the first two have
shown what actions do. Three orders for two slots make the cap bite, and let one order wait
while two are swept or closed. Two minutes a bar with latency 1 put the fill in
the first minute and leave one to scan. The grid has a minute that touches
nothing, one that reaches a target, and one that reaches both barriers, where
either may come first; orders are long with their own barriers and short with
the defaults.
The latency is below `m_minutes`. When the two are equal and minutes close
exactly when the next opens, the fill's time is the next bar's start and the
code takes it for a fill of that bar: the walk then skips minutes the position
lived through. `SurvivorsUntouched` leaves this one case out (Section 6).

`engine`. A bar a minute makes the 60-second window, both ends included, hold
two bars; three orders a window and two actions a bar make it bite. `MaxOpen` 1
with two actions a bar lets the stale snapshot be passed. The operator takes out
and puts back the kill switch and the loss cap, so that both orders of the two
in the chain occur. Two commands are enough for every ordered pair of commands,
across bars or within one drain. Three slots keep the broker's cap out of the
way of the policies. What `OvershootBounded` allows beyond `max_open` needs a
strategy that emits two opens in a bar; the shipped ones never do (`SingleShot`).

`prequential`. Nine minutes give up to four bars of two rows, enough for a bar
before a pause or failure, the bars it lasts, and the bar after it. The buffer's
bound of 4 is never what empties it: it never holds more than one record, as the
invariant of the proof says.

`adaptive`. With a decay of 1/2 two labels carry the average of the labels across
both thresholds of the pause and back, so five bars hold a pause, a resumption
and what happens around them; the real decay only makes it slower. Three seeds
of `tau` lie in its range, near its ceiling and above it; the four probabilities
lie below, between and above. `t_max` is one bar and the cap of the broker two,
so that a skipped bar lets a position pass the one and meet the other. Five bars
with one order at a time use up three orders.

`checkpoints`. With a checkpoint after every decision and one kept, every
callback prunes; three bars give a checkpoint, the one that replaces it and the
final one of the same name. Two processes are one resume, from a checkpoint or
from the operator's file, after a crash at any step. `SnapshotKept` is claimed
of the first process on an empty directory only (Section 6).

`reports`. Two jobs are a render after a render, a rebuild after a render and a
rebuild after a rebuild, with any breaking off, over an empty directory or one
that holds a report. One run has orders and an inventory and the other has none
of it, so a page of one is never that of the other. The overview reads what the
bundle must keep of the engine's result, the inventory what it keeps of the
metrics. `Retired` is empty: that a section of an earlier version may be rebuilt
as well is left to the proofs, for the sake of the number of states. One archive
kept makes the second render drop the first one's zip.
Renders are in different seconds (`SameSecond = FALSE`, Section 6).

`features`. Windows and lags of 1 and 2 are full after 2 or 3 bars, so four bars
fill them, break them by a missing value or a boundary, and start to fill them
again. The importances rank some names and leave some out, and two pairs
correlate, one of them through a feature that is itself dropped.

`experiment`. Five bars and a few minutes with any two missing shift the bars of
one aggregation against the other in every way a single gap or two can. The
stability window of 4 checks every 2 observations, so fourteen pairs see the
first check, several later ones and the cap.

`protocol`. Four predictions on a grid of four values have every pattern of
ties within and across classes; the bins are three, so that an edge falls on a
prediction and between two. Trades overlap, touch, take no minute and outlast
the run. The returns of a fold are none, steady, mixed or of odd length, so that
rows are padded and the last return is left out of the chunks.

### Fairness

Only `Engine` assumes any, for `Terminates`: weak fairness of `EngineStep`. The
engine's thread blocks on nothing — the source is a file, `get_nowait` returns, each
bar's loops are over finite collections that the bar itself does not extend.
Nothing is assumed of the operator, of a stop request or of an exception, which
is why `Raise` is outside `EngineStep`. `MaxCommands` bounds the operator: one
who enqueues faster than the engine drains would keep it in the drain for ever,
which is true of the code as well. The other modules make no liveness claim:
that a pause of the controller ends is stated as a matter of safety
(`PauseFollowsLabels`: enough labels that fire have ended it), as no label need
ever fire.

`CHECK_DEADLOCK FALSE` stands in every configuration because every run ends: the
bars of the stream are used up, the bounded number of processes or jobs has been
spent, or the program is done.

## 4. What is proved

Every theorem is about `Spec` of the module named (`ProtocolSpec` in the case of
`Protocol`) and holds for every value of
the constants that the module's `ASSUME` admits; `PROJECT.json` lists them with a
sentence each. The assumptions ask for what the constructors check, or for the
type a value has; TLC evaluates them in every run.

### The broker (`SimBrokerProofs`)

For every cap, latency, bar length, price grid, cost, tie-break, set of orders
and number of bars allowed by `ConstantsAssumption` (counts are naturals, a bar
has a minute, a fraction is between 0 and 1, `NoStop` and `Unset` are no
integers):

| Theorem | Statement |
|---|---|
| `TypeCorrect` | `Spec => []TypeOK` |
| `InventoryNeverExceeded` | `Spec => []InventoryBound` |
| `OrderInOnePlace` | `Spec => []PendingNotYetOpened` |
| `NoOpenDeferred` | `Spec => []ActivationNeverDeferred` |
| `ClosedPositionsFinal` | `Spec => ClosedIsFinal` |
| `LedgerAgrees` | `Spec => []LedgerAgreesWithPortfolio` |
| `PnLConserved` | `Spec => []RealizedConserved` |
| `SweepsFollowTakeProfits` | `Spec => []SweepFollowsTakeProfit` |
| `SurvivorsWereUntouched` | `Spec => []SurvivorsUntouched` |
| `OwnBarriersAfterEntry` | `Spec => []OwnBarrierAfterEntry` |
| `HighWaterIsRespected` | `Spec => []HighWaterHolds` |
| `BrokerImplementsBook` | `Spec => ImplementsBook` |

The cap is not inductive as it stands. Activation moves an order from pending to
open, which keeps the sum; but only if the order was pending and not yet in the
portfolio. And the branches that would leave an order pending are dead only
because the loop visits every pending order. So the inductive invariant `BInv`
joins

* `TypeOK`,
* `PendingNotYetOpened`: pending and known ids are disjoint,
* `OpensStillToVisit`: in the first loop, what is pending is what is to visit,
* `SweepStarted`: a sweep has a minute, and left a fill once it has counted one,
* `InventoryBound` and `ActivationNeverDeferred` themselves.

With these, `open + pending <= cap` at the start of Step A means that there is
room for every order it visits, so each is activated. Every other action leaves
the sum alone (marks, scaling) or lowers it (closes, cancels), and
`DispatchOpen` tests it. The proof has a lemma per action (`...Keeps`), on
lemmas about how one position's replacement changes the set of open ids
(`OnePositionReplaced`, `BarrierCloseKeeps`, `BoundKept`) and about the shape of
each new position (`...Type`). `ClosedIsFinal` follows action by action: each
guards its target with `~closed`, or takes it from `OpenIds`, or is `Marked`,
which returns a closed position unchanged.

`LInv` adds what the ledger says. Every step does one of four things to the
portfolio: a position is closed by hand (`ByHand`), filled (`Filled`), amended
without a fill (`Amended`) or closed by a barrier (`BarrierExit`), or the
positions stay as they are. The parts of `LInv` are shown for these four and not
for twenty actions:

* `LedgerAgreesWithPortfolio` and `RealizedConserved`. The sum over the positions
  is a fold, which has no facts to cite; that replacing one position changes it
  by the difference (`SumOfReplaced`, on `SumIs` and `SumTakesOut`) is shown for the smallest
  set of which it would not hold.
* `EntryTimes`: what is open was opened at the fill minute of some bar. It puts
  the entry before the minutes of every later bar, hence `OwnBarrierAfterEntry`.
* `WalkedUntouched`: what the walk has left behind was touched in no minute it
  scanned; `SurvivorsUntouched` says this of the end of the walk, in terms of
  the minutes a position lived through and not of those the code scanned.
* `SweepRun`: during a sweep the last fills of the list are a take-profit and the
  exits it has batched, all of one minute.

`HighWater` stands beside `LInv` and is inductive with `BInv`. It adds to
`HighWaterHolds` that an open position has units at any time, and no more than it
ever had (`Sized`): `with_mark` only moves what has units, and the fold that
`equity_log` computes after it is then the sum of what the positions are worth.
Between bars a step replaces one position by one that, with what it realized, is
worth no more (`Loses`): a scale-out or a close turns worth into PnL at the same
mark and pays two sides of cost; a change of stops moves neither. While a bar is
walked through nothing is claimed but `Sized`, as exits at a barrier do change
the account; `with_mark` then raises the mark to whatever came out.

The refinement maps an order's place (pending, open, closed, withdrawn) and the
exit of its fill. Each of the four kinds of step is one action of
`InventoryBook`; a step that leaves these alone stutters. It uses `LInv`: that an
order activated was pending, that a batched exit follows its take-profit, that
nothing closed moves.

### The strategies (`AdaptiveStrategyProofs`)

For every strategy set, seed, decay, gain, threshold, cap, hold age and number of
bars allowed by `StrategyAssumption`:

| Theorem | Statement |
|---|---|
| `StrategyTypeCorrect` | `Spec => []StrategyTypeOK` |
| `PauseForgets` | `Spec => []PauseFollowsLabels` |
| `OneOrderAtATime` | `Spec => []SingleShot` |
| `HoldAgeHolds` | `Spec => []HoldAgeBounded` |
| `TauBounded` | `Spec => TauMovesInRange` |
| `PausedOrdersNothing` | `Spec => SilentWhilePaused` |

That an average of rates is a rate, and that averaging keeps the order of two
averages, are lemmas about integer division (`EwmaIsRate`, `EwmaKeepsOrder`).
The second gives `AverageBetween`, that `rStar` lies between `low` and `high`,
without which `PauseFollowsLabels` is not inductive. The inductive invariant
`SInv` joins these with

* `BarInStream`: a bar in hand is one of the stream's,
* `OpeningAlone`: nothing is pending when `decide` is called, and an open is on
  its way only with nothing live and a controller that is not paused; it is what
  `SingleShot` and `SilentWhilePaused` rest on,
* `OverdueClosing`: after `advance_to` nobody is older than the cap, and what is
  overdue at the dispatch is among what is to be closed.

`StrategyAssumption` asks for what the constructors check (`r_resume > r_min`,
`tau_floor <= tau_ceil <= 1`, `dtau_max >= 0`, `t_max > 0`) and for a decay and a
gain of one over an integer. It does not ask that `tau` starts within its range,
which nothing in the code checks.

### The decision loop (`EngineProofs`)

For every chain of policies, set of policies the operator may swap, cap and
number of bars, actions and commands allowed by `EngineAssumption`:

| Theorem | Statement |
|---|---|
| `EngineInvariance` | `Spec => []EInv` |
| `OvershootIsBounded` | `Spec => []OvershootBounded` |
| `OrderRateIsBounded` | `Spec => []RateBound` |
| `OperatorIsHeard` | `Spec => []OperatorHeard` |
| `CheckpointsAreInTime` | `Spec => []CheckpointsInTime` |
| `KillSwitchBypass` | `Spec => KillBypassNeedsMaxLoss` |

The bound on the overshoot needs a link between three things that change at
different times: while a bar acts, the live orders are no more than what the
snapshot counted plus the actions looked at since. That the snapshot counts
every live order when it is taken rests on nothing being pending after the
fills. An open is dispatched past `max_positions` only if a rejection by
`max_loss` comes first, and the chain part of `EInv` says that no command ever
puts `max_loss` before it: removing keeps the order of the others, adding
appends or replaces in place (`RemovedKeeps`, `AddedKeeps`). The same part says
that the kill switch is in the chain while it is engaged, from which
`KillSwitchBypass` follows action by action. The queue part counts: what is
still queued after the drain is at most what was issued since the bar arrived.
The proof is organised by what a step leaves alone: six parts of `EInv`, a lemma
each for a step that does not touch them, and a lemma per action.

The rate of orders is a statement about what went out, the policy's memory one
about the slots it gave away, and old slots are popped as orders come. `RateOK`
joins the two: the orders of this bar, and of the bar before where that is a
minute ago, are no more than the newest slots in `recent`, and these are young
enough to survive `PopBefore` (`PopBeforeIs`: popping takes a prefix, and no
young slot). A slot is asked for before every open, since `max_loss`, which ends
the chain early, never comes to stand before the rate policy; so when the window
is full of slots no order goes out.

### Predict, then learn (`PrequentialProofs`)

For every bar length, bound of the buffer, number of rows and set of failures:

| Theorem | Statement |
|---|---|
| `Invariance` | `Spec => []IInv` |
| `ContiguousBars` | `Spec => []BarsAreContiguous` |
| `LabelsAreNext` | `Spec => []LabelIsNextBar` |
| `PredictsThenLearns` | `Spec => []PredictThenLearn` |
| `ControllerStaysInStep` | `Spec => []ControllerInStep` |

All rests on the label buffer never holding more than one record: the record of
a bar is popped when the next bar learns, with its label or without, so the only
label that can arrive is the one of the bar before, which is the last one
decided. `IInv` says this for each place in the loop, together with what the
rows in hand, the bars, the labels learned and the observations are by then.

### Checkpoints (`CheckpointsProofs`)

For every number of bars, decisions, processes and kept checkpoints:

| Theorem | Statement |
|---|---|
| `Invariance` | `Spec => []IInv` |
| `LoadsOneMoment` | `Spec => []LoadIsOneMoment` |
| `LastSnapshotKept` | `Spec => []SnapshotKept` |
| `ControllerResumes` | `Spec => []ControllerKeepsItsPlace` |

`IInv` adds which members of the archive being written are in and that they are
of the moment serialised; that every moment ever serialised fits the bars there
were then; and, in the first life of a directory, that no file is named past `n`
and that only the final callback writes to the name counted last.

### Reports (`ReportsProofs`)

For every set of runs, sections, stuck parts and number of jobs:

| Theorem | Statement |
|---|---|
| `Invariance` | `Spec => []IInv` |
| `OneRun` | `Spec => []OneRunPerReport` |
| `ListedAreThere` | `Spec => []ListedFilesExist` |
| `RebuildIsTheRender` | `Spec => []RebuildReproduces` |
| `LastReportIsKept` | `Spec => []LastReportSurvives`, if `SameSecond = FALSE` and `FilesAreWhole` |

The properties speak of a directory between jobs, but a job tears and rewrites
one file at a time. So `IInv` speaks of the job in hand: a render has no
manifest on disk until the bundle beside it is its own, a rebuild is of the run
of the bundle it read, and the figures of a settled section carry its name and
are nobody's target. What it says of runs it says while no manifest is
`leftover`; what it says of figures holds in any case.

`Faithful` follows the data of a run from the render through the bundle to a
rebuild: what a job draws from gives, for every registered section, the page
that the whole run gives. The bundle drops series of the engine; the lemma
`SamePage` says that no section gets to use one of those. The theorem compares
with all of the run that a section reads, less the hold ages: these are the one
series that the bundle drops and a section asks for.

`Safe` says where the last complete report is until the next one is complete: in
the directory until the wipe begins (and no wipe has left a manifest), and from
the end of the zip in an archive
that fewer newer ones follow than renders have begun since. Pruning goes by
name, so the proof needs a new archive to sort behind the old ones; it does when
renders are in different seconds, which is the first hypothesis (Section 6). The
second says that what was written to its end is not the model value `Torn` or
`None`, which TLC knows and a proof has to be told.

### Features and the predictor (`PredictorProofs`)

For every catalog, ranking, set of correlated pairs, feed, ensemble and number of
trainings allowed by `SpecsAreValid` and `EnsembleIsTrained`:

| Theorem | Statement |
|---|---|
| `PredictorInvariance` | `Spec => [](FInv /\ PInv)` |
| `ColumnsAreTheFeatures` | `Spec => []FeaturesAsDefined` |
| `PredictsWithAll` | `Spec => []EnsembleWhole` |

`FInv` says of each feature what its buffers hold, in the terms of `Reference`: a
buffer lists the newest of the present bars, oldest first, and each is known by
its place counted from the newest (`NewestOf`; the bars of the segment for a
rolling feature, with its window behind the lag, those since the reset for a
batch one). One lemma carries all kinds: a
bar that is added is the newest, and makes every other one older by one
(`NthShifts`). From it follow that a bounded deque keeps the newest
(`PushNewest`), that the value leaving the lag deque enters the window in the
right place (`PushLagged`), and that a full window is what `Lagged` asks for
(`FullIsLagged`, `BatchIsLagged`). A batch feature counts missing values in its
warm-up and does not keep them; that there are then at least as many bars as
values is why its own test of the length decides.

`Reference` stays within the segment, and the buffers of lag and batch features
do not. So `FInv` speaks of them by `FeedReference`, the same over all bars since
the reset, and `ReferenceAgrees` shows the two to be one where the column reads
this segment only: then the newest of all present bars, as many as the column
takes, are the newest of the segment (`NewestPartAgrees`).

That the catalog is the ranking less what correlates is shown for the ranking as
counted places (`RanksArePlaces`: each place is taken once) and for the thinning
as the shortest prefix of which it would not hold (`KeptAre`).

`PInv` says that an attempt to load has read exactly the members before `at`,
each from a file that was whole then. `EnsembleIsTrained` asks that the columns
of the training are not all unknown to the features, as CatBoost refuses to
train on none.

### The adaptive experiment (`ExperimentProofs`)

For every length of bar and feed, set of missing minutes, window and parameters
of the calibration allowed by `ExperimentAssumption`:

| Theorem | Statement |
|---|---|
| `ExperimentInvariance` | `Spec => []XInv` |
| `CalibrationComesFirst` | `Spec => []CalibrationPrecedesTrading` |
| `LoopStopsAtFirstStable` | `Spec => []StopsAtFirstStable` |

The main pass reads on where the calibrating one ended, so it makes the same bars
first (`StreamsAgree`): `Replay` is a recursive function of the minute, and that
it only appends is shown for the first minute at which it would not. The warm-up,
rounded to a number of bars, is at most one bar shorter than what the online
driver calibrated on (`WarmupIsLongEnough`), and the first decision is the bar
behind it. The offline driver's warm-up ends on a bar of the clock, and a label
comes from the next such bar at the latest (`LabelIsNear`: behind an empty one
the segment is another), so that what it reads ends where the first decided bar
does, if not before. `LoopOK` places the next check of the loop: it
is ahead of the errors taken, a whole number of half windows after the first
that is allowed, one for each entry of the trace; hence no check is skipped and
none is made twice. Of the very first check the theorem does not say whether it
may end the loop (Section 6).

### The protocol and its scores (`ExperimentProofs`)

For every number of rows, folds, bins, bars and minutes, every window, scale and
length of bar, and all predictions, pauses, trades and returns allowed by
`ProtocolAssumption` and `ScoresAssumption`:

| Theorem | Statement |
|---|---|
| `ProtocolInvariance` | `ProtocolSpec => []ProtocolInv` |
| `RowsReplayedInvariance` | `ProtocolSpec => []TestRowsReplayed` |
| `OverfitInvariance` | `ProtocolSpec => []OverfitScore` |
| `TradeScoresInvariance` | `ProtocolSpec => []TradeScores` |
| `PredictionScoresInvariance` | `ProtocolSpec => []PredictionScores` |

The invariant is short: what has been collected has its type, and `pbo`, once
there is one, is the score of the matrix of all folds, which is large enough for
it. The last is not obvious, as folds are added to `perFold` until then: `pbo`
has no value while the protocol runs. What is long is that a score, computed by
a loop, is what it is said to be. The scores are written with folds, and a fold
has no facts to cite. `Upwards` gives what is needed of induction over positions
(a set of naturals that is not empty has a least one), and from it `SumRuns`,
`CumSumIs`, `PeaksAre` and `CutsOneMore` describe a loop place by place.

* `TestRowsReplayed`. The bars a fold tests are bars of the file (`FoldsTest`), so
  there is a first and a last (`IntExtremes`); the rest is arithmetic on the
  products.
* `OverfitScore`. What beats all others on a half is what `ArgMax` picks
  (`BestIsArgMax`), and has the highest or the lowest rank on the other half, as
  the hypothesis says (`WorstIsLast`). Of `Below` the proof uses that it never
  holds both ways.
* `TradeScores`. A peak is an equity up to its trade that none exceeds, so the
  largest gap to a peak is the largest fall. The spans of pauses are shown to be
  apart and to cover exactly the paused bars so far (`Cuts`), a bar at a time. The
  openings less the closings up to a minute count the trades that are open in it
  (`ConcurrencyIs`); the shares of a trade are a part of all shares, whose sum is
  a difference of two running sums (`SumOfPart`); and a sum over a set of pairs is
  the sum of any list of them (`SumOverIs`, for the smallest set of which it would
  not hold).
* `PredictionScores`. A value's first and last place among the sorted are given by
  how many are lower and how many equal (`MidRankIs`, on `AscendingIs`: each place
  is taken once). Over the positives, twice the rank then counts pairs with all
  predictions; the pairs of positives among themselves, counted by rows and by
  columns, are what `n (n + 1)` takes away (`RowsCount`, `SwapCounts`,
  `TwoClasses`). The quantile edges never fall (`EdgesGrow`, which compares two
  points of a broken line), hence each prediction is in one bin, whatever ties
  (`OneBin`), and the bins hold all of them.

### What is only model-checked

`Terminates` is liveness under fairness, which is out of the prover's reach. The
two runs that end in a violation are TLC's as well.

## 5. What is not modelled

* The numbers of the features, the forest, CatBoost, the bootstraps, the
  quantiles of the metrics and the charts: floating-point arithmetic on single
  values.
* Reading parquet, logging, templates, the command line's wording: I/O.
* Configuration, stage registry, value types, clocks, `checks.py`: checks at
  construction and lookups. The models use values that pass them.
* The window selector: a search over a table of days, without state.
* A regime gate around the composite strategy. The gate forwards neither labels
  nor state to what it wraps; the configurations of the repository do not do it.
* The console's reads. They see immutable snapshots, but `portfolio()` may be
  read in the middle of `advance_to`; no property is stated of them yet.

## 6. What the code does otherwise than its text

Met while modelling, beside the three findings that have a run. The models do
what the code does, and the properties of the passing runs say nothing of a case
in which the text wants otherwise.

Decision loop and strategies:

* While paused, a bar does not reach the stages (`engine.py:385`), so the first
  return afterwards spans the pause; the comment there and `console.py:176`
  speak of the strategy only.
* Closes by hand are in no list of fills (`brokers.py:281`), so the reasons
  MANUAL and OPERATOR that `reporting/sections/inventory.py:3-6` sets apart
  never occur there.
* The composite strategy reports an entry it wanted as one that was made
  (`strategy/__init__.py:322`): in a warm-up bar or after a refusal nothing was
  ordered, against `adaptive_threshold.py:5` and `:11`.
* `stop_loss_log = None` reaches `max_loss` as an infinite stop and comes back
  as a 5% one.
* `drawdown_log` is "Negative or zero" (`core/portfolio.py:66`), but a partial close
  of a winning position makes it positive until the next mark: what it realized
  is still in `unrealized_pnl_log` (`core/position.py:188`). `HighWaterHolds` says
  what does hold. The risk engine reads the portfolio after a mark; the console
  may print the positive value.
* The walk of `advance_to` skips minutes when the latency equals `m_minutes` and
  minutes close exactly when the next opens.
* `_sweep_winners` takes what is "currently profitable net of round-trip cost"
  (`brokers.py:591`). It asks for the cost of the size that is left, and
  `_barrier_close` charges that of the size ever opened: with slippage a position
  that was scaled out before may be swept at a loss.
* With a latency of 0 a position is filled at the close of a minute that the walk
  scans all the same, although `brokers.py:445` says that the scan begins "after
  the entry minute": it can close at the time of its entry.

Persistence:

* `SimBroker` has no `state_dict` (`persistence.py:179`): a resumed run has no
  open positions.
* Checkpoints are named by a count that starts again (`persistence.py:242`), so
  in a directory used before, pruning takes the newest first. `SnapshotKept` is
  therefore claimed of a first life only.

Reports:

* Two renders in one second: the name of the second archive may sort before the
  first (`archive.py:31`), and pruning goes by name.
* A section that no longer exists is kept in the manifest (`renderer.py:374`,
  "leaving stale"), but its figures are wiped.
* `sections/inventory.py:3-8` and `test_section_inventory.py:125-151` take hold
  ages from the fills of a render, and from `hold_age_max_traj` in a rebuild. The
  section calls `int()` on a fill's `Timestamp`, which raises and is caught
  (`sections/inventory.py:166-169`), so both take the latter; the test passes
  integers. `RebuildReproduces` leaves hold ages out.
* A manifest that a wipe cannot delete (`archive.py:151-154`) may end beside the
  bundle of another run, and a rebuild mixes the two. `OneRunPerReport` leaves
  this out.

Features, training, experiments:

* A process that loads while a training runs may mix two trainings in one
  ensemble; `EnsembleWhole` says only that each member is whole.
* The offline driver calibrates on the bar under way when the end of the warm-up
  is no bar's end, hence the inclusive bound in `CalibrationPrecedesTrading`.
* The online driver's first pass has no strategy state, so every dispersion it
  calibrates on is 0 and its `sigma_max` is always infinite.
* `warmup_calibration.py:152-154` says that the first check only seeds the
  comparison and does not flip `converged`. The first check has two windows to
  compare and may end the loop. `StopsAtFirstStable` allows the first check both.

Protocol and metrics:

* "Folds < 2 → no CI" (`protocol.py:372`): the bootstrap takes no fewer than
  eight values (`bootstrap.py:83`), raises, and the interval is none; failing
  folds thus remove a gate.
* Identical folds count as overfit, since the first of equals is chosen and
  ranks lowest.
* The test rows of a fold with two test groups are the hull of both, and take in
  the bars between them (`cv.py:95`).
* The DeLong placements count ties inside a class in their order; `pr_auc`
  differs from sklearn's with ties; `_autocovariance` says "divide by n" and
  takes a mean over `n - k` (`bootstrap.py:42-54`); `avg_bars_per_trade` is in
  minutes (`trading.py:97`).

## 7. Plan

Done: every module of Section 2 with its runs, the eight proof modules, and a
theorem for every safety property of a passing run. What is left:

1. **Console.** What the operator's reads can see of a broker in the middle of
   `advance_to`, as a property of `SimBroker` between two of its steps.
2. **Gates.** What a fold that raises does to the gates (Section 6), as a property
   of `Protocol`, once it is settled which of code and comment is meant.
3. **Window selector.** A search without state; a reference definition over small
   tables would do.

## 8. Running it

In this directory:

    tlc -workers 2 -config broker.cfg MCSimBroker.tla
    tlapm SimBrokerProofs.tla

and likewise for the other configurations and proof modules. `PROJECT.json`
names the module of each configuration.
