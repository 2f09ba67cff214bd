----------------------------- MODULE Predictor -----------------------------
(***************************************************************************)
(* The offline predictor: scripts/train_offline_model.py, which writes the *)
(* members of an ensemble into their files one after the other and may die *)
(* on the way, and the FrozenCatBoostPredictor of a process that runs      *)
(* beside it, which reads the members one after the other at its first     *)
(* bar, and at the next if a file cannot be read.  The row it predicts     *)
(* from is the one the FeatureBuilder has just filled.                     *)
(***************************************************************************)
EXTENDS Features

CONSTANTS
    Torn,          \* a file whose writing broke off
    EnsembleN,     \* the members the process asks for; 1 is the alias
    Members,       \* the members that a training makes
    ParquetColumns,\* the columns of the training data
    NonFeature,    \* NON_FEATURE_COLS
    MaxTrainings   \* bound

VARIABLES
    files,    \* path -> the training it holds a whole member of, NaN, Torn
    trainer,  \* [training, done]: the files this training has written
    writing,  \* the file in hand is open
    models,   \* _models: [path, training]
    at,       \* the members this attempt to load them has read
    loaded,   \* _loaded
    columns,  \* feature_columns
    phase,    \* of the process: "bar", "load", "predict"
    pOffline  \* the members whose mean the last bar was given, or none

modelVars == <<models, at, loaded, columns, phase, pOffline>>
trainVars == <<files, trainer, writing>>
vars == <<featureVars, trainVars, modelVars>>

-----------------------------------------------------------------------------
(* Training *)

(* select_features: what the pipeline will not produce is dropped *)
SelectFeatures == {c \in ParquetColumns \ NonFeature : c \in Names}

(* CatBoost refuses to train on no column *)
ASSUME EnsembleIsTrained ==
    /\ Members \in Nat /\ EnsembleN \in 1 .. Members /\ MaxTrainings \in Nat
    /\ SelectFeatures # {}
    /\ {NaN, Torn} \cap Nat = {}

Alias == Members
(* model_seed{i}.cbm in order, then model.cbm *)
Paths == 0 .. Members

Train ==
    /\ trainer.done = Members + 1
    /\ ~writing
    /\ trainer.training < MaxTrainings
    /\ trainer' = [training |-> trainer.training + 1, done |-> 0]
    /\ UNCHANGED <<featureVars, modelVars, files, writing>>

(* save_model, in place: it opens the file, and later has written it *)
OpenFile ==
    /\ trainer.done <= Members
    /\ ~writing
    /\ writing' = TRUE
    /\ files' = [files EXCEPT ![trainer.done] = Torn]
    /\ UNCHANGED <<featureVars, modelVars, trainer>>

CloseFile ==
    /\ writing
    /\ writing' = FALSE
    /\ files' = [files EXCEPT ![trainer.done] = trainer.training]
    /\ trainer' = [trainer EXCEPT !.done = @ + 1]
    /\ UNCHANGED <<featureVars, modelVars>>

TrainerDies ==
    /\ trainer.done <= Members
    /\ trainer' = [trainer EXCEPT !.done = Members + 1]
    /\ writing' = FALSE
    /\ UNCHANGED <<featureVars, modelVars, files>>

-----------------------------------------------------------------------------
(* The process that runs the pipeline *)

(* An attempt to load goes on from the members of the one that failed *)
BugBarKeepsMembers ==
    /\ phase = "bar"
    /\ \E segment \in 1 .. 2, valid \in BOOLEAN :
           Transform([segment |-> segment, valid |-> valid])
    /\ phase' = IF loaded THEN "predict" ELSE "load"
    /\ at' = 0
    /\ pOffline' = {}
    /\ UNCHANGED <<trainVars, models, loaded, columns>>

(* A bar goes through the FeatureBuilder and reaches the predictor, whose  *)
(* _ensure_loaded begins anew unless everything is loaded                  *)
Bar ==
    /\ phase = "bar"
    /\ \E segment \in 1 .. 2, valid \in BOOLEAN :
           Transform([segment |-> segment, valid |-> valid])
    /\ phase' = IF loaded THEN "predict" ELSE "load"
    /\ models' = IF loaded THEN models ELSE <<>>
    /\ at' = 0
    /\ pOffline' = {}
    /\ UNCHANGED <<trainVars, loaded, columns>>

MemberPath(i) == IF EnsembleN = 1 THEN Alias ELSE i

(* load_model of the next member; a file that cannot be read raises, and   *)
(* the bar goes on without the stage                                       *)
LoadMember ==
    LET path == MemberPath(at)
    IN  /\ phase = "load"
        /\ at < EnsembleN
        /\ IF files[path] \in {NaN, Torn}
           THEN phase' = "bar" /\ UNCHANGED <<models, at>>
           ELSE /\ models' = Append(models, [path |-> path, training |-> files[path]])
                /\ at' = at + 1
                /\ UNCHANGED phase
        /\ UNCHANGED <<featureVars, trainVars, loaded, columns, pOffline>>

(* The last lines of _ensure_loaded: every training selects the same columns *)
Loaded ==
    /\ phase = "load"
    /\ at = EnsembleN
    /\ loaded' = TRUE
    /\ columns' = SelectFeatures
    /\ phase' = "predict"
    /\ UNCHANGED <<featureVars, trainVars, models, at, pOffline>>

(* The members that neither raise nor answer NaN *)
Predict ==
    /\ phase = "predict"
    /\ pOffline' \in SUBSET DOMAIN models
    /\ phase' = "bar"
    /\ UNCHANGED <<featureVars, trainVars, models, at, loaded, columns>>

(* On a drift every stage is reset; the predictor stays loaded *)
ResetStages ==
    /\ phase = "bar"
    /\ Reset
    /\ UNCHANGED <<trainVars, modelVars>>

-----------------------------------------------------------------------------
Init ==
    /\ FeatureInit
    /\ files \in [Paths -> {NaN, 0}]
    /\ \A p, q \in Paths : files[p] = files[q]
    /\ trainer = [training |-> 0, done |-> Members + 1]
    /\ writing = FALSE
    /\ models = <<>>
    /\ at = 0
    /\ loaded = FALSE
    /\ columns = {}
    /\ phase = "bar"
    /\ pOffline = {}

Next ==
    \/ Train \/ OpenFile \/ CloseFile \/ TrainerDies
    \/ Bar \/ LoadMember \/ Loaded \/ Predict \/ ResetStages

Spec == Init /\ [][Next]_vars

-----------------------------------------------------------------------------
(* A process that predicts does so with each member of its ensemble once,  *)
(* each read whole, and from columns that the features fill: whatever      *)
(* failed attempts to load it went before, beside whatever training        *)
(* (catboost_predictor.py _ensure_loaded, train_offline_model.py).         *)
EnsembleWhole ==
    loaded =>
        /\ Len(models) = EnsembleN
        /\ \A i \in DOMAIN models :
               /\ models[i].path = MemberPath(i - 1)
               /\ models[i].training \in 0 .. trainer.training
        /\ columns \subseteq DOMAIN row
        /\ columns # {}

=============================================================================
