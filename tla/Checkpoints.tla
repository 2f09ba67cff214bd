----------------------------- MODULE Checkpoints -----------------------------
(***************************************************************************)
(* Snapshots of a run (wagie/persistence.py): the archive save() writes in *)
(* place, member after member, the checkpoints the engine's callback names *)
(* by _n_decisions and prunes, a crash between any two of those steps, and *)
(* what load() and Pipeline.load_state_dict give back to the next process. *)
(*                                                                         *)
(* The memory of a run is, part by part, the set of bars it comes from:    *)
(* that is enough to say what a snapshot holds and what a resume forgets.  *)
(* An archive is, member by member, the moment it was serialised at.       *)
(***************************************************************************)
EXTENDS Integers, FiniteSets

CONSTANTS
    None,
    Every,        \* checkpoint_every
    KeepLast,     \* keep_last; 0 keeps every checkpoint
    MaxBars,      \* bound: bars of the market
    MaxPerBar,    \* bound: decisions in one bar
    MaxManual,    \* bound: times the operator saves in a process
    MaxLives      \* bound: processes that use the directory, one after another

ASSUME CheckpointsAssumption ==
    /\ {Every, KeepLast, MaxBars, MaxPerBar, MaxManual} \subseteq Nat
    /\ MaxLives \in Nat \ {0}

VARIABLES
    phase,     \* "running", a step of save() or of the callback, "over", "down"
    target,    \* the file being saved
    final,     \* the callback is the last one of the run
    shot,      \* the moment save() serialised before it opened the file
    bar,       \* bars of the market so far
    n,         \* Engine._n_decisions
    lastAt,    \* Engine._last_checkpoint_at
    nManual,   \* saves the operator asked this process for
    nChecks,   \* Engine._n_checkpoints
    memory,    \* part of the run -> bars it remembers
    disk,      \* file -> archive: member -> the moment it holds
    deps,      \* the versions of the pinned packages
    life       \* which process this is

run == <<bar, n, memory, deps, life, nManual>>
counters == <<lastAt, nChecks>>
writing == <<target, final, shot>>
NoSave == /\ target' = None /\ final' = FALSE /\ shot' = None
vars == <<phase, writing, run, counters, disk>>

Members == {"manifest.json", "pipeline.pkl", "broker.pkl"}

(* What each stage's state_dict holds and its load_state_dict takes back:  *)
(* of the features, the forest and the label buffer a count, never the     *)
(* windows, the trees or the record that waits for its label               *)
BaseBarState == {"prev_close"}
FeatureState == {}
ForestState == {}
LabelBufferState == {}
Bug_StateWithoutPending == {"controller"}
ControllerState == {"controller", "pending"}
Saved == UNION {BaseBarState, FeatureState, ForestState, LabelBufferState,
                ControllerState}

(* `learned' is what windows, trees and record together come from          *)
Parts == {"prev_close", "learned", "controller", "pending", "open"}
Blank == [p \in Parts |-> {}]

(* the file of the operator's save(path); checkpoints are named by number  *)
OperatorFile == -1

Loadable(f) == f \in DOMAIN disk /\ DOMAIN disk[f] = Members
Checkpoints == {f \in DOMAIN disk : f # OperatorFile}

-----------------------------------------------------------------------------
Init ==
    /\ phase = "running" /\ target = None /\ final = FALSE /\ shot = None
    /\ bar = 0 /\ n = 0 /\ lastAt = 0 /\ nChecks = 0
    /\ memory = Blank
    /\ disk = [f \in {} |-> None]
    /\ deps = 1
    /\ life = 1 /\ nManual = 0

(* the broker may close what is open; an accepted order is as good as open *)
Exited(m) == {m, [m EXCEPT !.open = {}]}
Ordered(m, b, decisions) ==
    IF decisions = 0 THEN m ELSE [m EXCEPT !.open = @ \cup {b}]

(* the features see the bar; the stages after them see it too, unless one  *)
(* raises, and then the controller observes the bar before                 *)
Featured(m, b) == [m EXCEPT !.prev_close = {b}, !.learned = @ \cup {b}]
Digested(m, b) ==
    [Featured(m, b) EXCEPT !.controller = @ \cup m.pending, !.pending = {b}]

(* Due: checkpoint_every > 0 and so many decisions since the last one      *)
Due(k) == Every > 0 /\ k - lastAt >= Every

(* persistence.save up to the opening of the file: everything it will      *)
(* write is serialised first                                               *)
Serialise(file, isFinal, m, b, k) ==
    /\ shot' = [n |-> k, bar |-> b, life |-> life, deps |-> deps, memory |-> m]
    /\ target' = file
    /\ final' = isFinal
    /\ phase' = "opening"

(* what every bar begins with, whatever becomes of it                      *)
TakeBar ==
    /\ phase = "running"
    /\ bar < MaxBars
    /\ bar' = bar + 1

(* a bar that is decided, with so many opens accepted, and the hook        *)
Bar(decisions, m) ==
    /\ TakeBar
    /\ memory' = Ordered(Digested(m, bar'), bar', decisions)
    /\ n' = n + decisions
    /\ IF Due(n') THEN Serialise(n', FALSE, memory', bar', n')
       ELSE UNCHANGED <<phase, writing>>
    /\ UNCHANGED <<counters, disk, deps, life, nManual>>

(* warm-up, pause, a stage that raises: no decision counts and no hook     *)
SkipBar(m) ==
    /\ TakeBar
    /\ memory' \in {Digested(m, bar'), m, Featured(m, bar')}
    /\ UNCHANGED <<phase, writing, n, counters, disk, deps, life, nManual>>

(* the stream ends, or a stop was requested: always a final checkpoint     *)
Finish ==
    /\ phase = "running"
    /\ Serialise(n, TRUE, memory, bar, n)
    /\ UNCHANGED <<run, counters, disk>>

(* TradingConsole.save, executed between two bars                          *)
OperatorSaves ==
    /\ phase = "running"
    /\ nManual < MaxManual
    /\ nManual' = nManual + 1
    /\ Serialise(OperatorFile, FALSE, memory, bar, n)
    /\ UNCHANGED <<bar, n, memory, deps, life, counters, disk>>

-----------------------------------------------------------------------------
Put(f, archive) ==
    [g \in DOMAIN disk \cup {f} |-> IF g = f THEN archive ELSE disk[g]]

(* tarfile.open(out, "w:gz") empties a file of the same name               *)
Empty == [member \in {} |-> None]
Bug_OpenAppends == IF target \in DOMAIN disk THEN disk[target] ELSE Empty
Opened == Empty

OpenArchive ==
    /\ phase = "opening"
    /\ disk' = Put(target, Opened)
    /\ phase' = "manifest.json"
    /\ UNCHANGED <<writing, run, counters>>

After(member) ==
    CASE member = "manifest.json" -> "pipeline.pkl"
      [] member = "pipeline.pkl"  -> "broker.pkl"
      [] member = "broker.pkl"    -> "saved"

(* tf.addfile; the archive counts as readable once its last member is in   *)
AddMember ==
    /\ phase \in Members
    /\ disk' = Put(target, [member \in DOMAIN disk[target] \cup {phase} |->
                              IF member = phase THEN shot ELSE disk[target][member]])
    /\ phase' = After(phase)
    /\ UNCHANGED <<writing, run, counters>>

AfterSave == IF final THEN "over" ELSE "running"

(* serialising or writing raises (disk full, a stage's state_dict): the    *)
(* engine and the console log it and go on, the file stays as it is        *)
SaveRaises ==
    /\ phase \in {"opening"} \cup Members
    /\ phase' = AfterSave
    /\ NoSave
    /\ UNCHANGED <<run, counters, disk>>

(* snaps[:-keep_last], by name; every file of the pattern counts, readable *)
(* or not                                                                  *)
Bug_PrunesNewest ==
    {f \in Checkpoints : Cardinality({g \in Checkpoints : g < f}) >= KeepLast}
Surplus ==
    {f \in Checkpoints : Cardinality({g \in Checkpoints : g > f}) >= KeepLast}

(* an unlink that fails is logged, and the loop goes on                    *)
Prune ==
    IF KeepLast = 0 THEN UNCHANGED disk
    ELSE \E gone \in SUBSET Surplus :
            disk' = [f \in DOMAIN disk \ gone |-> disk[f]]

(* the callback returns, and the engine counts the checkpoint              *)
EndCheckpoint ==
    /\ phase = "saved"
    /\ target # OperatorFile
    /\ Prune
    /\ nChecks' = nChecks + 1
    /\ lastAt' = n
    /\ phase' = AfterSave
    /\ NoSave
    /\ UNCHANGED run

EndOperatorSave ==
    /\ phase = "saved"
    /\ target = OperatorFile
    /\ phase' = "running"
    /\ NoSave
    /\ UNCHANGED <<run, counters, disk>>

(* the process dies between any two steps; what is on disk stays there     *)
Crash ==
    /\ phase \notin {"over", "down"}
    /\ phase' = "down"
    /\ NoSave
    /\ UNCHANGED <<run, counters, disk>>

-----------------------------------------------------------------------------
(* a new process on the same directory: every count starts again           *)
NewProcess(upgrade) ==
    /\ phase \in {"over", "down"}
    /\ life < MaxLives
    /\ life' = life + 1
    /\ deps' = IF upgrade THEN 3 - deps ELSE deps
    /\ n' = 0 /\ lastAt' = 0 /\ nChecks' = 0 /\ nManual' = 0
    /\ phase' = "running"
    /\ UNCHANGED <<writing, bar, disk>>

StartAfresh(upgrade) ==
    /\ NewProcess(upgrade)
    /\ memory' = Blank

(* load: the pinned packages must be those of the manifest, unless forced  *)
Accepted(f, force) == force \/ disk[f]["manifest.json"].deps = deps'

(* load_state_dict of the stages; SimBroker has none                       *)
Restored(m) == [p \in Parts |-> IF p \in Saved THEN m[p] ELSE {}]

Resume(f, force, upgrade) ==
    /\ NewProcess(upgrade)
    /\ Loadable(f)
    /\ Accepted(f, force)
    /\ memory' = Restored(disk[f]["pipeline.pkl"].memory)

Next ==
    \/ \E m \in Exited(memory) :
          \/ \E decisions \in 0..MaxPerBar : Bar(decisions, m)
          \/ SkipBar(m)
    \/ Finish
    \/ OperatorSaves
    \/ OpenArchive
    \/ AddMember
    \/ SaveRaises
    \/ EndCheckpoint
    \/ EndOperatorSave
    \/ Crash
    \/ \E upgrade \in BOOLEAN :
          \/ StartAfresh(upgrade)
          \/ \E f \in DOMAIN disk, force \in BOOLEAN : Resume(f, force, upgrade)

Spec == Init /\ [][Next]_vars

-----------------------------------------------------------------------------
(* An archive that load() accepts holds one moment of one run: its         *)
(* manifest, its pipeline and its broker were serialised together, however *)
(* many crashes and saves at the same number of decisions went before.     *)
LoadIsOneMoment ==
    \A f \in DOMAIN disk : Loadable(f) =>
        \A a, b \in Members : disk[f][a] = disk[f][b]

(* In a directory that was empty, the checkpoint the engine counted last   *)
(* can be loaded at any moment, after a crash too: no save that broke off  *)
(* and no pruning touches it.  Only the final one, at the same number of   *)
(* decisions, is written over it.                                          *)
SnapshotKept ==
    life = 1 /\ nChecks > 0 /\ (phase = "running" \/ n > lastAt) =>
        /\ Loadable(lastAt)
        /\ disk[lastAt]["manifest.json"].n = lastAt

(* A resume leaves the controller where the snapshot had it: it never      *)
(* observes a bar twice, nor one before those it has observed, and once it *)
(* has observed a bar there is always the next one for it to observe.      *)
ControllerKeepsItsPlace ==
    /\ \A b \in memory.controller, c \in memory.pending : b < c
    /\ memory.controller # {} => memory.pending # {}
=============================================================================
