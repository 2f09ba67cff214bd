------------------------------ MODULE Reports ------------------------------
(***************************************************************************)
(* The unified report (wagie/reporting): the one directory that render()   *)
(* archives, wipes and writes again, that rebuild() patches section by     *)
(* section from the pickled bundle, and the zips of earlier reports beside *)
(* it.  Every file is written in place, so the process may die, or raise,  *)
(* between any two steps and leave the file in hand torn.                  *)
(*                                                                         *)
(* A run is the series its result and metrics hold; a chart is the PNG it  *)
(* may become; a section is the charts it asks for and the series it reads.*)
(***************************************************************************)
EXTENDS Integers, FiniteSets, SequencesExt

CONSTANTS
    None,         \* no such file
    Torn,         \* a file whose writing broke off
    Runs,         \* [hash, metrics, engine]: the runs that get reported
    Registered,   \* the sections this version of the package has
    Retired,      \* sections of an earlier version, which it has no more
    Keep,         \* archive_keep
    Stuck,        \* the parts of the tree that a wipe may fail to delete
    SameSecond,   \* two renders may begin in one second
    MaxJobs       \* bound: renders and rebuilds

-----------------------------------------------------------------------------
(* The charts: the PNG, the series of which one is needed, and whether the *)
(* matplotlib version draws an empty figure when there is none             *)
Chart(png, needs, blank) == [png |-> png, needs |-> needs, blank |-> blank]

EquityCurve == Chart("equity_curve", {"fills"}, TRUE)
Drawdown == Chart("drawdown", {"fills"}, TRUE)
PnlDistribution == Chart("pnl_distribution", {"fills"}, TRUE)
ReliabilityDiagram == Chart("reliability", {"predictions"}, TRUE)
ProbabilityHistogram == Chart("probability_histogram", {"predictions"}, TRUE)
RegimeBrier == Chart("regime_brier", {"regimes"}, TRUE)
TauTrajectory == Chart("tau_trajectory", {"tau"}, FALSE)
EntryRateOverlay == Chart("entry_rate_overlay", {"r_hat", "r_star"}, FALSE)
SigmaDistribution == Chart("sigma_ve_distribution", {"sigma_ve"}, FALSE)
InventorySize == Chart("inventory_size", {"sizes"}, FALSE)
HoldAgeDistribution == Chart("hold_age_distribution", {"fill_times", "ages"}, FALSE)
BrierOffline == Chart("rolling_brier_offline", {"offline"}, FALSE)
BrierOnline == Chart("rolling_brier_online", {"online"}, FALSE)

(* int() of a fill's Timestamp raises, so no hold age is taken from a fill *)
FillsRead(data) == data \ {"fill_times"}

(* The sections, in the order of the page: what they read of the run and   *)
(* the charts they ask for, given what there is.  Some stay empty unless   *)
(* their block of the metrics is there.                                    *)
Section(reads, charts) == [reads |-> reads, charts |-> charts]
Block(data, reads, charts) ==
    Section(reads, IF data \cap reads = {} THEN {} ELSE charts)

Overview == Section({"fills", "predictions"}, {EquityCurve, ReliabilityDiagram})
Calibration(data) ==
    Section({"predictions", "regimes"},
            {ReliabilityDiagram, ProbabilityHistogram}
                \cup {c \in {RegimeBrier} : "regimes" \in data})
Controller(data) ==
    Block(data, {"tau", "r_hat", "r_star", "sigma_ve"},
          {TauTrajectory, EntryRateOverlay, SigmaDistribution})
Trading == Section({"fills"}, {EquityCurve, Drawdown, PnlDistribution})
Inventory(data) ==
    IF data \cap {"sizes", "ages"} = {} THEN Section({"sizes", "ages"}, {})
    ELSE Section({"sizes", "ages", "fill_times"}, {InventorySize, HoldAgeDistribution})
Operational == Section({}, {})
Drift(data) == Block(data, {"offline", "online"}, {BrierOffline, BrierOnline})
Coverage == Section({"conformal", "offline", "online"}, {})
SpecSheet == Section({}, {})

Emitters == <<"overview", "calibration", "controller", "trading", "inventory",
              "operational", "drift", "coverage", "spec">>

Emitter(name, data) ==
    CASE name = "overview"    -> Overview
      [] name = "calibration" -> Calibration(data)
      [] name = "controller"  -> Controller(data)
      [] name = "trading"     -> Trading
      [] name = "inventory"   -> Inventory(data)
      [] name = "operational" -> Operational
      [] name = "drift"       -> Drift(data)
      [] name = "coverage"    -> Coverage
      [] name = "spec"        -> SpecSheet

(* what the page of a section is made from                                 *)
Page(name, data) == Emitter(name, data).reads \cap FillsRead(data)

(* The charts that may leave a PNG: where Plotly is on, those it was given *)
(* data for and raised on; where it is off, those with data or a blank     *)
Drawable(name, data, plotly) ==
    {c \in Emitter(name, data).charts :
        c.needs \cap FillsRead(data) # {} \/ (~plotly /\ c.blank)}

-----------------------------------------------------------------------------
ASSUME ReportsAssumption ==
    /\ \A r \in Runs :
          r.hash \in Nat /\ r.engine \subseteq {"predictions", "fills", "fill_times"}
    /\ Registered \subseteq ToSet(Emitters)
    /\ Retired \cap Registered = {}
    /\ Keep \in Nat
    /\ Stuck \subseteq {"figs", "manifest", "bundle"}
    /\ SameSecond \in BOOLEAN
    /\ MaxJobs \in Nat

VARIABLES
    clock,      \* the second of the last archive's name
    live,       \* the report directory: figs, manifest, bundle
    archives,   \* _archive: name -> the tree it holds
    pc,         \* the step of the render or rebuild in hand
    job,        \* its arguments and the manifest it is building
    settled,    \* sections no render or rebuild has touched but one that returned
    last,       \* the run of the last render that returned
    since,      \* renders begun after that one
    leftover,   \* the last wipe could not delete a manifest, nothing has since
    jobs

vars == <<clock, live, archives, pc, job, settled, last, since, leftover, jobs>>
past == <<last, since, leftover, jobs>>

EmptyTree == [figs |-> {}, manifest |-> None, bundle |-> None]
NoJob == [kind |-> None]

(* The bundle: all of the metrics, of the engine's result the histories    *)
(* and the PnL of each fill; what stands in for the result on a rebuild    *)
Bug_BundleWithoutPnl == {"predictions"}
BundleFields == {"predictions", "fills"}
Bundled(run, plotly) ==
    [run |-> run, plotly |-> plotly, metrics |-> run.metrics,
     engine |-> run.engine \cap BundleFields]
Replayed(bundle) == bundle.metrics \cup bundle.engine
Given(run) == run.metrics \cup run.engine

Record(run, page, files) == [run |-> run, page |-> page, files |-> files]
Upsert(records, name, record) ==
    [n \in DOMAIN records \cup {name} |-> IF n = name THEN record ELSE records[n]]
Listed(manifest) ==
    UNION {manifest.records[n].files : n \in DOMAIN manifest.records}

Readable(file) == file \notin {None, Torn}

(* a report an earlier version rendered, with Plotly but for one chart     *)
OldReport(run) ==
    [figs |-> {<<n, "old_chart">> : n \in Retired},
     manifest |->
        [run |-> run,
         records |-> [n \in Registered \cup Retired |->
            IF n \in Retired THEN Record(run, {}, {<<n, "old_chart">>})
            ELSE Record(run, Page(n, Given(run)), {})]],
     bundle |-> Bundled(run, TRUE)]

Init ==
    /\ clock = 0
    /\ \/ live = EmptyTree /\ last = None
       \/ \E run \in Runs : live = OldReport(run) /\ last = run
    /\ archives = [n \in {} |-> EmptyTree]
    /\ pc = "idle" /\ job = NoJob
    /\ settled = IF last = None THEN {} ELSE Registered \cup Retired
    /\ since = 0 /\ leftover = FALSE /\ jobs = 0

-----------------------------------------------------------------------------
(* _stable_archive_name: the second and the hash of the run about to be    *)
(* rendered, then a suffix that is free; names sort as strings do          *)
ArchiveName(second, hash) ==
    <<second, hash,
      CHOOSE k \in 0..Cardinality(DOMAIN archives) :
         /\ <<second, hash, k>> \notin DOMAIN archives
         /\ \A j \in 0..(k - 1) : <<second, hash, j>> \in DOMAIN archives>>
SortsBefore(a, b) ==
    \/ a[1] < b[1]
    \/ a[1] = b[1] /\ a[2] < b[2]
    \/ a[1] = b[1] /\ a[2] = b[2] /\ a[3] < b[3]

(* render(): everything is archived unless there is no file or archiving   *)
(* is off                                                                  *)
StartRender(run, plotly, archive) ==
    /\ pc = "idle" /\ jobs < MaxJobs
    /\ jobs' = jobs + 1
    /\ clock' \in (IF SameSecond THEN {clock} ELSE {}) \cup {clock + 1}
    /\ job' = [kind |-> "render", run |-> run, plotly |-> plotly,
               data |-> Given(run), todo |-> Registered,
               targets |-> Registered,
               name |-> ArchiveName(clock', run.hash),
               manifest |-> [run |-> run, records |-> [n \in {} |-> None]]]
    /\ pc' = IF archive /\ live # EmptyTree THEN "zip" ELSE "wipe"
    /\ settled' = {}
    /\ since' = IF archive THEN since + 1 ELSE Keep + 1
    /\ UNCHANGED <<live, archives, last, leftover>>

OpenZip ==
    /\ pc = "zip"
    /\ archives' = Upsert(archives, job.name, Torn)
    /\ pc' = "zipping"
    /\ UNCHANGED <<clock, live, job, settled, past>>

WriteZip ==
    /\ pc = "zipping"
    /\ archives' = [archives EXCEPT ![job.name] = live]
    /\ pc' = "prune"
    /\ UNCHANGED <<clock, live, job, settled, past>>

(* prune_archive: the oldest by name, those that tore included             *)
Bug_DropNewest ==
    {a \in DOMAIN archives :
        Cardinality({b \in DOMAIN archives : SortsBefore(b, a)}) >= Keep}
ToDrop ==
    {a \in DOMAIN archives :
        Cardinality({b \in DOMAIN archives : SortsBefore(a, b)}) >= Keep}

(* an unlink that fails is logged, and the loop goes on                    *)
PruneArchive ==
    /\ pc = "prune"
    /\ \E gone \in SUBSET ToDrop :
          archives' = [a \in DOMAIN archives \ gone |-> archives[a]]
    /\ pc' = "wipe"
    /\ UNCHANGED <<clock, live, job, settled, past>>

(* wipe_payload goes through the tree in any order, and on when a file     *)
(* cannot be deleted                                                       *)
Left(parts) == [p \in DOMAIN live |-> IF p \in parts THEN live[p] ELSE EmptyTree[p]]

WipePart(part) ==
    /\ pc = "wipe"
    /\ live[part] # EmptyTree[part]
    /\ live' = Left(DOMAIN live \ {part})
    /\ UNCHANGED <<clock, archives, pc, job, settled, past>>

EndWipe ==
    /\ pc = "wipe"
    /\ \A part \in DOMAIN live : live[part] # EmptyTree[part] => part \in Stuck
    /\ leftover' = (live.manifest # None)
    /\ pc' = "emit"
    /\ UNCHANGED <<clock, live, archives, job, settled, last, since, jobs>>

-----------------------------------------------------------------------------
(* One emitter: some charts become PNGs, of which those that matplotlib    *)
(* broke off are not listed.  One that raises gets a record with no files, *)
(* whatever it has drawn by then.                                          *)
Emit(name) ==
    /\ pc = "emit"
    /\ name \in job.todo \cap Registered
    /\ \E drawn \in SUBSET Drawable(name, job.data, job.plotly) :
       \E listed \in SUBSET drawn, fails \in BOOLEAN :
          LET files(charts) == {<<name, c.png>> : c \in charts}
              record == IF fails THEN Record(job.run, {"failed"}, {})
                        ELSE Record(job.run, Page(name, job.data), files(listed))
          IN /\ live' = [live EXCEPT !.figs = @ \cup files(drawn)]
             /\ job' = [job EXCEPT !.todo = @ \ {name},
                           !.manifest.records = Upsert(@, name, record)]
    /\ UNCHANGED <<clock, archives, pc, settled, past>>

(* render goes by the order of the page, rebuild by that of a Python set   *)
Turn(name) ==
    job.kind = "render" =>
        \A n \in job.todo : SelectInSeq(Emitters, LAMBDA e : e = name)
                               <= SelectInSeq(Emitters, LAMBDA e : e = n)

(* a target no emitter is registered for is passed over                    *)
EndEmit ==
    /\ pc = "emit"
    /\ job.todo \cap Registered = {}
    /\ pc' = IF job.kind = "render" THEN "aux" ELSE "manifest"
    /\ UNCHANGED <<clock, live, archives, job, settled, past>>

(* _persist_aux: spec.yaml, metrics.json, the hash, then the bundle        *)
Bug_BundleWrittenAside ==
    /\ pc = "aux"
    /\ pc' = "dump"
    /\ UNCHANGED <<clock, live, archives, job, settled, past>>
OpenBundle ==
    /\ pc = "aux"
    /\ live' = [live EXCEPT !.bundle = Torn]
    /\ pc' = "dump"
    /\ UNCHANGED <<clock, archives, job, settled, past>>

(* a pickling error is logged, and the file stays as far as it got         *)
DumpBundle ==
    /\ pc = "dump"
    /\ \/ live' = [live EXCEPT !.bundle = Bundled(job.run, job.plotly)]
       \/ UNCHANGED live
    /\ pc' = "manifest"
    /\ UNCHANGED <<clock, archives, job, settled, past>>

OpenManifest ==
    /\ pc = "manifest"
    /\ live' = [live EXCEPT !.manifest = Torn]
    /\ leftover' = (leftover /\ job.kind = "rebuild")
    /\ pc' = "write"
    /\ UNCHANGED <<clock, archives, job, settled, last, since, jobs>>

(* the manifest, then the page made from it, which no code reads back      *)
WriteManifest ==
    /\ pc = "write"
    /\ live' = [live EXCEPT !.manifest = job.manifest]
    /\ pc' = IF job.kind = "render" THEN "orphans"
             ELSE IF job.again THEN "patch" ELSE "done"
    /\ UNCHANGED <<clock, archives, job, settled, past>>

(* what is under figs/ and not listed goes, unless it resists              *)
Unorphaned == live.figs \cap Listed(job.manifest)
PruneOrphans ==
    /\ pc = "orphans"
    /\ \/ live' = [live EXCEPT !.figs = Unorphaned]
       \/ "figs" \in Stuck /\ UNCHANGED live
    /\ pc' = "done"
    /\ UNCHANGED <<clock, archives, job, settled, past>>

Done ==
    /\ pc = "done"
    /\ pc' = "idle" /\ job' = NoJob
    /\ settled' = settled \cup job.targets
    /\ IF job.kind = "render" THEN last' = job.run /\ since' = 0
       ELSE UNCHANGED <<last, since>>
    /\ UNCHANGED <<clock, live, archives, leftover, jobs>>

(* the process dies, or an error passes through render() or rebuild()      *)
Stops ==
    /\ pc # "idle"
    /\ pc' = "idle" /\ job' = NoJob
    /\ UNCHANGED <<clock, live, archives, settled, past>>

-----------------------------------------------------------------------------
(* the figures of every target are wiped, then each is emitted again; the  *)
(* manifest read keeps its header and the other sections                   *)
Bug_WipeAll(targets) == {}
FigsWithout(targets) == {f \in live.figs : f[1] \notin targets}

Replay(targets, bundle, again) ==
    /\ \/ live' = [live EXCEPT !.figs = FigsWithout(targets)]
       \/ "figs" \in Stuck /\ UNCHANGED live
    /\ job' = [kind |-> "rebuild", run |-> bundle.run, plotly |-> bundle.plotly,
               data |-> Replayed(bundle), todo |-> targets, targets |-> targets,
               manifest |-> live.manifest, again |-> again]
    /\ pc' = "emit"

(* rebuild(): refused without a readable manifest and a whole bundle, and  *)
(* for a section that neither the package nor the manifest knows           *)
StartRebuild(targets, noPlotly) ==
    /\ pc = "idle" /\ jobs < MaxJobs
    /\ Readable(live.manifest) /\ Readable(live.bundle)
    /\ targets \subseteq Registered \cup DOMAIN live.manifest.records
    /\ Replay(targets, live.bundle, noPlotly)
    /\ jobs' = jobs + 1
    /\ settled' = settled \ targets
    /\ UNCHANGED <<clock, archives, last, since, leftover>>

(* --no-plotly: the bundle is written again in place, and all is rebuilt   *)
OpenPatch ==
    /\ pc = "patch"
    /\ live' = [live EXCEPT !.bundle = Torn]
    /\ pc' = "patching"
    /\ UNCHANGED <<clock, archives, job, settled, past>>

(* a write error is only a warning, and the file stays as far as it got    *)
Patch ==
    /\ pc = "patching"
    /\ \/ /\ live' = [live EXCEPT !.bundle = Bundled(job.run, FALSE)]
          /\ pc' = "again"
       \/ UNCHANGED live /\ pc' = "done"
    /\ UNCHANGED <<clock, archives, job, settled, past>>

RebuildAgain ==
    /\ pc = "again"
    /\ Replay(job.targets, live.bundle, FALSE)
    /\ UNCHANGED <<clock, archives, settled, past>>

Next ==
    \/ \E run \in Runs, plotly, archive \in BOOLEAN : StartRender(run, plotly, archive)
    \/ OpenZip \/ WriteZip \/ PruneArchive
    \/ \E part \in DOMAIN live : WipePart(part)
    \/ EndWipe
    \/ \E name \in Registered : Turn(name) /\ Emit(name)
    \/ EndEmit
    \/ OpenBundle \/ DumpBundle
    \/ OpenManifest \/ WriteManifest
    \/ PruneOrphans \/ Done \/ Stops
    \/ \E targets \in SUBSET (Registered \cup Retired), noPlotly \in BOOLEAN :
          targets # {} /\ StartRebuild(targets, noPlotly)
    \/ OpenPatch \/ Patch \/ RebuildAgain

Spec == Init /\ [][Next]_vars

-----------------------------------------------------------------------------
(* What the report of a run says is in a tree twice: in the fragments of   *)
(* the manifest, and in the bundle it can be rebuilt from                  *)
Holds(tree, run) ==
    \E file \in {tree.manifest, tree.bundle} : Readable(file) /\ file.run = run

(* Whatever breaks off, the numbers of the last report a render finished   *)
(* are in the directory or in an archive, as long as the renders begun     *)
(* since then archive and are no more than the archives kept: a rebuild    *)
(* tears only one of the two files, and none begins while one is torn      *)
(* (renderer.py 239-252, 328-341, archive.py 92, __main__.py 260-276).     *)
LastReportSurvives ==
    last # None /\ since <= Keep =>
        \/ Holds(live, last)
        \/ \E a \in DOMAIN archives :
              archives[a] # Torn /\ Holds(archives[a], last)

(* No rebuild puts the sections of one run into the report of another,     *)
(* though bundle and manifest are files of their own, a crash may leave    *)
(* any of them behind and a wipe may fail (renderer.py 328-392,            *)
(* archive.py 151-154): as long as it is not the manifest that a wipe has  *)
(* left and no render has begun to write since, beside which a new bundle  *)
(* may stand.                                                              *)
OneRunPerReport ==
    Readable(live.manifest) /\ ~leftover =>
        /\ \A n \in DOMAIN live.manifest.records :
              live.manifest.records[n].run = live.manifest.run
        /\ Readable(live.bundle) => live.bundle.run = live.manifest.run

(* What the manifest lists of a section is there, from the moment the      *)
(* render or rebuild that made it returns until the next one that is asked *)
(* for it: not even one of other sections that breaks off takes a file     *)
(* away, whichever emitters fail (manifest.py 29-32, renderer.py 351-389). *)
ListedFilesExist ==
    Readable(live.manifest) =>
        \A n \in settled \cap Registered :
            /\ n \in DOMAIN live.manifest.records
            /\ live.manifest.records[n].files \subseteq live.figs

(* A section rebuilt from the bundle is made from the same series as the   *)
(* one render() made from the engine's result, each of them all that the   *)
(* section reads of what the run has (renderer.py 68-100, 530-592).  Of    *)
(* the hold ages it says nothing: a render is to take them from the fills  *)
(* and a rebuild from the metrics (sections/inventory.py 3-8), so the two  *)
(* are not meant to agree.                                                 *)
HoldAges == {"fill_times", "ages"}
RebuildReproduces ==
    Readable(live.manifest) =>
        \A n \in DOMAIN live.manifest.records \cap Registered :
            LET record == live.manifest.records[n]
                data == Given(record.run)
            IN record.page \ HoldAges
                   \in {{"failed"}, (Emitter(n, data).reads \cap data) \ HoldAges}
=============================================================================
