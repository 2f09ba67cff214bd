---------------------------- MODULE ReportsProofs ----------------------------
(***************************************************************************)
(* What holds of a report directory after any number of renders and        *)
(* rebuilds, each of which may break off anywhere.                         *)
(*                                                                         *)
(* A report is read only when none is being made, but its files are torn   *)
(* and rewritten one by one, so the invariant speaks of the job in hand:   *)
(* a render has no manifest on disk until the bundle beside it is its own, *)
(* unless a wipe left one; a rebuild has the run of the bundle it began    *)
(* from; and the figures of a section that is settled belong to it by name *)
(* and are nobody's target.                                                *)
(***************************************************************************)
EXTENDS Reports, FiniteSetTheorems, TLAPS

RenderSteps == {"zip", "zipping", "prune", "wipe", "aux", "dump", "orphans"}
PatchSteps == {"patch", "patching", "again"}
BothSteps == {"emit", "manifest", "write", "done"}

(* a manifest whose figures go by the name of their section                *)
Named(manifest) ==
    /\ manifest = [run |-> manifest.run, records |-> manifest.records]
    /\ \A n \in DOMAIN manifest.records :
          \A f \in manifest.records[n].files : f[1] = n

(* a manifest of one run                                                   *)
Of(manifest, run) ==
    /\ manifest.run = run
    /\ \A n \in DOMAIN manifest.records : manifest.records[n].run = run

Tree ==
    /\ live = [figs |-> live.figs, manifest |-> live.manifest, bundle |-> live.bundle]
    /\ Readable(live.manifest) => Named(live.manifest)
    /\ Readable(live.manifest) /\ ~leftover =>
          /\ Of(live.manifest, live.manifest.run)
          /\ Readable(live.bundle) => live.bundle.run = live.manifest.run

Job ==
    /\ pc \in {"idle"} \cup RenderSteps \cup PatchSteps \cup BothSteps
    /\ pc # "idle" =>
          /\ {"kind", "run", "todo", "targets", "manifest"} \subseteq DOMAIN job
          /\ job.kind \in {"render", "rebuild"}
          /\ Named(job.manifest)
          /\ job.kind = "render" \/ ~leftover => Of(job.manifest, job.run)
    /\ pc \in RenderSteps => job.kind = "render"
    /\ pc \in PatchSteps => job.kind = "rebuild"

(* a render: no manifest before the bundle is its own, but one that the    *)
(* wipe has left                                                           *)
Rendering ==
    pc # "idle" /\ job.kind = "render" =>
        /\ pc \in {"emit", "aux", "dump", "manifest"} => leftover \/ live.manifest = None
        /\ pc \in {"write", "orphans", "done"} => ~leftover
        /\ pc = "dump" => live.bundle = Torn
        /\ pc \in {"manifest", "write", "orphans", "done"} =>
              (Readable(live.bundle) => live.bundle.run = job.run)

(* a rebuild: bundle and manifest are of the run it reads                  *)
Rebuilding ==
    pc # "idle" /\ job.kind = "rebuild" =>
        /\ Readable(live.manifest) /\ ~leftover => live.manifest.run = job.run
        /\ Readable(live.bundle) => live.bundle.run = job.run
        /\ pc \in PatchSteps => live.manifest = job.manifest
        /\ pc = "again" => live.bundle.run = job.run

(* the figures that a manifest lists of these sections                     *)
Holding(manifest, sections) ==
    \A n \in sections \cap Registered :
        /\ n \in DOMAIN manifest.records
        /\ manifest.records[n].files \subseteq live.figs

Settled ==
    /\ Readable(live.manifest) => Holding(live.manifest, settled)
    /\ pc # "idle" =>
          /\ settled \cap job.targets = {}
          /\ job.kind = "render" => settled = {}
          /\ Holding(job.manifest, settled \cup (job.targets \ job.todo))
          /\ pc \in PatchSteps \cup {"aux", "dump", "orphans", "manifest", "write", "done"} =>
                job.todo \cap Registered = {}
          /\ pc \in {"zip", "zipping", "prune", "wipe"} => job.todo = job.targets
    /\ pc \in {"orphans", "done"} => live.manifest = job.manifest

IInv == Tree /\ Job /\ Rendering /\ Rebuilding /\ Settled

-----------------------------------------------------------------------------
(* The files of the tree are written one at a time.                        *)
LEMMA Write ==
    ASSUME Tree, NEW x
    PROVE  /\ [live EXCEPT !.figs = x]
                 = [figs |-> x, manifest |-> live.manifest, bundle |-> live.bundle]
           /\ [live EXCEPT !.manifest = x]
                 = [figs |-> live.figs, manifest |-> x, bundle |-> live.bundle]
           /\ [live EXCEPT !.bundle = x]
                 = [figs |-> live.figs, manifest |-> live.manifest, bundle |-> x]
<1> DEFINE f == live.figs
           m == live.manifest
           b == live.bundle
<1>1. live = [figs |-> f, manifest |-> m, bundle |-> b]
  BY DEF Tree
<1> HIDE DEF f, m, b
<1>2. /\ [live EXCEPT !.figs = x] = [figs |-> x, manifest |-> m, bundle |-> b]
      /\ [live EXCEPT !.manifest = x] = [figs |-> f, manifest |-> x, bundle |-> b]
      /\ [live EXCEPT !.bundle = x] = [figs |-> f, manifest |-> m, bundle |-> x]
  BY <1>1
<1> QED
  BY <1>2 DEF f, m, b

LEMMA SameTree == Tree /\ UNCHANGED <<live, leftover>> => Tree'
BY DEF Tree

-----------------------------------------------------------------------------
(* Steps that move on and leave the report, the job and what is settled    *)
LEMMA MovesKeep ==
    ASSUME IInv, UNCHANGED <<live, job, settled, leftover>>, Job',
           pc \in {"zip", "zipping", "prune"}, pc' \in {"zipping", "prune", "wipe"}
    PROVE  IInv'
<1>1. Tree'
  BY SameTree DEF IInv
<1>2. Rendering' /\ Rebuilding'
  BY DEF IInv, Rendering, Rebuilding, PatchSteps, Job
<1>3. Settled'
  BY DEF IInv, Settled, Holding, BothSteps, PatchSteps
<1> QED
  BY <1>1, <1>2, <1>3 DEF IInv

LEMMA StartRenderKeeps ==
    ASSUME IInv, NEW run \in Runs, NEW plotly \in BOOLEAN, NEW archive \in BOOLEAN,
           StartRender(run, plotly, archive)
    PROVE  IInv'
<1>1. /\ job'.kind = "render" /\ job'.run = run
      /\ job'.targets = Registered /\ job'.todo = Registered
      /\ job'.manifest = [run |-> run, records |-> [n \in {} |-> None]]
      /\ {"kind", "run", "todo", "targets", "manifest"} \subseteq DOMAIN job'
      /\ live' = live /\ settled' = {} /\ leftover' = leftover
  BY DEF StartRender
<1>2. pc' \in {"zip", "wipe"}
  BY DEF StartRender
<1>3. Named(job'.manifest) /\ Of(job'.manifest, job'.run)
  BY <1>1 DEF Of, Named
<1>4. Job'
  BY <1>1, <1>2, <1>3 DEF Job, RenderSteps, PatchSteps, Of, Named
<1>5. Tree'
  BY <1>1, SameTree DEF IInv
<1>6. Rendering' /\ Rebuilding'
  BY <1>1, <1>2 DEF Rendering, Rebuilding, PatchSteps
<1>7. Settled'
  BY <1>1, <1>2 DEF Settled, Holding, BothSteps, PatchSteps
<1> QED
  BY <1>4, <1>5, <1>6, <1>7 DEF IInv

LEMMA ArchiveKeeps ==
    ASSUME IInv, OpenZip \/ WriteZip \/ PruneArchive
    PROVE  IInv'
<1>1. /\ UNCHANGED <<live, job, settled, leftover>>
      /\ pc \in {"zip", "zipping", "prune"} /\ pc' \in {"zipping", "prune", "wipe"}
  BY DEF OpenZip, WriteZip, PruneArchive, RenderSteps, past
<1>2. Job'
  BY <1>1 DEF IInv, Job, RenderSteps, PatchSteps, Of, Named
<1> QED
  BY <1>1, <1>2, MovesKeep

LEMMA WipeKeeps ==
    ASSUME IInv, NEW part \in DOMAIN live, WipePart(part)
    PROVE  IInv'
<1>1. pc = "wipe" /\ pc' = "wipe" /\ UNCHANGED <<job, settled, leftover>>
  BY DEF WipePart, past
<1>2. DOMAIN live = {"figs", "manifest", "bundle"}
  BY DEF IInv, Tree
<1>3. live' = [figs |-> live'.figs, manifest |-> live'.manifest, bundle |-> live'.bundle]
  BY <1>2 DEF WipePart, Left
<1>4. /\ live'.figs \in {live.figs, {}}
      /\ live'.manifest \in {live.manifest, None}
      /\ live'.bundle \in {live.bundle, None}
  BY <1>2 DEF WipePart, Left, EmptyTree
<1>5. Tree'
  BY <1>1, <1>3, <1>4 DEF IInv, Tree, Readable, Of, Named
<1>6. Job'
  BY <1>1 DEF IInv, Job, Of, Named
<1>7. job.kind = "render" /\ settled = {} /\ job.todo = job.targets
  BY <1>1 DEF IInv, Job, Settled, RenderSteps
<1>8. Rendering' /\ Rebuilding'
  BY <1>1, <1>7 DEF Rendering, Rebuilding
<1>9. Settled'
  BY <1>1, <1>7 DEF IInv, Settled, Holding, BothSteps, PatchSteps
<1> QED
  BY <1>5, <1>6, <1>8, <1>9 DEF IInv

LEMMA EndWipeKeeps == IInv /\ EndWipe => IInv'
<1> SUFFICES ASSUME IInv, EndWipe PROVE IInv'
  OBVIOUS
<1>1. /\ pc = "wipe" /\ pc' = "emit" /\ UNCHANGED <<live, job, settled>>
      /\ leftover' = (live.manifest # None)
  BY DEF EndWipe
<1>2. job.kind = "render"
  BY <1>1 DEF IInv, Job, RenderSteps
<1>3. Tree'
  BY <1>1 DEF IInv, Tree, Readable, Of, Named
<1>4. Job'
  BY <1>1, <1>2 DEF IInv, Job, Named, RenderSteps, PatchSteps, BothSteps, Of, Named
<1>5. Rendering' /\ Rebuilding'
  BY <1>1, <1>2 DEF Rendering, Rebuilding
<1>6. Settled'
  BY <1>1, <1>2 DEF IInv, Settled, Holding, BothSteps, PatchSteps
<1> QED
  BY <1>3, <1>4, <1>5, <1>6 DEF IInv

(* The record and the manifest of the job after one emitter                *)
LEMMA JobAfter ==
    ASSUME NEW name, NEW record, Named(job.manifest),
           {"kind", "run", "todo", "targets", "manifest"} \subseteq DOMAIN job,
           job' = [job EXCEPT !.todo = @ \ {name},
                      !.manifest.records = Upsert(@, name, record)]
    PROVE  /\ DOMAIN job' = DOMAIN job
           /\ job'.kind = job.kind /\ job'.run = job.run
           /\ job'.targets = job.targets /\ job'.todo = job.todo \ {name}
           /\ job'.manifest = [run |-> job.manifest.run,
                                records |-> Upsert(job.manifest.records, name, record)]
<1> DEFINE m == job.manifest
           u == Upsert(m.records, name, record)
           t == job.todo \ {name}
           h == m.run
<1>1. m = [run |-> h, records |-> m.records]
  BY DEF Named
<1>2. job' = [job EXCEPT !.todo = t, !.manifest = [m EXCEPT !.records = u]]
  OBVIOUS
<1>3. [m EXCEPT !.records = u] = [run |-> h, records |-> u]
  <2> DEFINE r == m.records
  <2>1. m = [run |-> h, records |-> r]
    BY <1>1
  <2> HIDE DEF m, u, r, h
  <2> QED
    BY <2>1
<1> DEFINE e == [m EXCEPT !.records = u]
<1> HIDE DEF e, m, t, u, h
<1>4. job' = [job EXCEPT !.todo = t, !.manifest = e]
  BY <1>2 DEF e
<1>5. /\ DOMAIN job' = DOMAIN job
      /\ job'.kind = job.kind /\ job'.run = job.run
      /\ job'.targets = job.targets /\ job'.todo = t /\ job'.manifest = e
  BY <1>4
<1> QED
  BY <1>3, <1>5 DEF e, t, u, m, h

LEMMA EmitKeeps ==
    ASSUME IInv, NEW name \in Registered, Emit(name)
    PROVE  IInv'
<1>1. /\ pc = "emit" /\ pc' = "emit" /\ settled' = settled /\ leftover' = leftover
      /\ name \in job.todo
  BY DEF Emit, past
<1> DEFINE files(charts) == {<<name, c.png>> : c \in charts}
<1>2. PICK drawn \in SUBSET Drawable(name, job.data, job.plotly) :
        \E listed \in SUBSET drawn, fails \in BOOLEAN :
          LET record == IF fails THEN Record(job.run, {"failed"}, {})
                        ELSE Record(job.run, Page(name, job.data), files(listed))
          IN /\ live' = [live EXCEPT !.figs = @ \cup files(drawn)]
             /\ job' = [job EXCEPT !.todo = @ \ {name},
                           !.manifest.records = Upsert(@, name, record)]
  BY DEF Emit
<1>3. PICK listed \in SUBSET drawn, fails \in BOOLEAN :
          LET record == IF fails THEN Record(job.run, {"failed"}, {})
                        ELSE Record(job.run, Page(name, job.data), files(listed))
          IN /\ live' = [live EXCEPT !.figs = @ \cup files(drawn)]
             /\ job' = [job EXCEPT !.todo = @ \ {name},
                           !.manifest.records = Upsert(@, name, record)]
  BY <1>2
<1> DEFINE record == IF fails THEN Record(job.run, {"failed"}, {})
                     ELSE Record(job.run, Page(name, job.data), files(listed))
           old == job.manifest.records
           new == Upsert(old, name, record)
<1>4. /\ record.run = job.run
      /\ record.files \subseteq files(drawn)
      /\ \A f \in record.files : f[1] = name
  <2>1. files(listed) \subseteq files(drawn) /\ \A f \in files(listed) : f[1] = name
    OBVIOUS
  <2> HIDE DEF files
  <2> QED
    BY <2>1 DEF Record
<1>5. /\ Named(job.manifest) /\ job.kind \in {"render", "rebuild"}
      /\ {"kind", "run", "todo", "targets", "manifest"} \subseteq DOMAIN job
  BY <1>1 DEF IInv, Job
<1> HIDE DEF files, record
<1>6. live' = [live EXCEPT !.figs = live.figs \cup files(drawn)]
  BY <1>3 DEF record
<1>7. job' = [job EXCEPT !.todo = @ \ {name},
                  !.manifest.records = Upsert(@, name, record)]
  BY <1>3 DEF record
<1>8. /\ DOMAIN job' = DOMAIN job /\ job'.kind = job.kind /\ job'.run = job.run
      /\ job'.targets = job.targets /\ job'.todo = job.todo \ {name}
      /\ job'.manifest = [run |-> job.manifest.run, records |-> new]
  BY <1>5, <1>7, JobAfter
<1>9. live' = [figs |-> live.figs \cup files(drawn), manifest |-> live.manifest,
               bundle |-> live.bundle]
  BY <1>6, Write DEF IInv
<1>10. /\ DOMAIN new = DOMAIN old \cup {name}
      /\ new[name] = record
      /\ \A n \in DOMAIN old : n # name => new[n] = old[n]
  BY DEF Upsert
<1>11. /\ job'.manifest.records = new /\ job'.manifest.run = job.manifest.run
       /\ live'.figs = live.figs \cup files(drawn)
       /\ live'.manifest = live.manifest /\ live'.bundle = live.bundle
  BY <1>8, <1>9
<1> HIDE DEF new, old
<1>12. /\ Named(job'.manifest)
       /\ job.kind = "render" \/ ~leftover => Of(job'.manifest, job'.run)
  <2>1. \A n \in DOMAIN old : \A f \in old[n].files : f[1] = n
    BY <1>5 DEF Named, old
  <2>2. \A n \in DOMAIN new : \A f \in new[n].files : f[1] = n
    BY <1>4, <1>10, <2>1
  <2>3. Named(job'.manifest)
    BY <1>8, <1>11, <2>2 DEF Named
  <2>4. ASSUME job.kind = "render" \/ ~leftover
        PROVE  Of(job'.manifest, job'.run)
    <3>1. job.manifest.run = job.run /\ \A n \in DOMAIN old : old[n].run = job.run
      BY <1>1, <2>4 DEF IInv, Job, Of, old
    <3>2. \A n \in DOMAIN new : new[n].run = job.run
      BY <1>4, <1>10, <3>1
    <3> QED
      BY <1>8, <1>11, <3>1, <3>2 DEF Of
  <2> QED
    BY <2>3, <2>4
<1>13. Job'
  BY <1>1, <1>5, <1>8, <1>12 DEF Job, RenderSteps, PatchSteps, BothSteps, Of, Named
<1>14. Tree'
  BY <1>1, <1>9, <1>11 DEF IInv, Tree, Of, Named
<1>15. Rendering' /\ Rebuilding'
  BY <1>1, <1>8, <1>11 DEF IInv, Rendering, Rebuilding, PatchSteps
<1>16. Settled'
  <2>1. Readable(live.manifest) => Holding(live.manifest, settled)
    BY DEF IInv, Settled
  <2>2. Holding(job.manifest, settled \cup (job.targets \ job.todo))
    BY <1>1 DEF IInv, Settled
  <2>3. Readable(live.manifest)' => Holding(live.manifest, settled)'
    BY <1>1, <1>11, <2>1 DEF Holding
  <2>4. Holding(job.manifest, settled \cup (job.targets \ job.todo))'
    <3>1. ASSUME NEW n \in (settled \cup (job.targets \ (job.todo \ {name}))) \cap Registered
          PROVE  n \in DOMAIN new /\ new[n].files \subseteq live'.figs
      <4>1. CASE n = name
        BY <1>4, <1>10, <1>11, <4>1
      <4>2. CASE n # name
        BY <1>10, <1>11, <2>2, <4>2 DEF Holding, old
      <4> QED
        BY <4>1, <4>2
    <3> QED
      BY <1>1, <1>8, <1>11, <3>1 DEF Holding
  <2> QED
    BY <1>1, <1>8, <2>3, <2>4 DEF IInv, Settled, PatchSteps
<1> QED
  BY <1>13, <1>14, <1>15, <1>16 DEF IInv

LEMMA EndEmitKeeps == IInv /\ EndEmit => IInv'
<1> SUFFICES ASSUME IInv, EndEmit PROVE IInv'
  OBVIOUS
<1>1. /\ pc = "emit" /\ UNCHANGED <<live, job, settled, leftover>>
      /\ job.todo \cap Registered = {}
      /\ pc' = IF job.kind = "render" THEN "aux" ELSE "manifest"
  BY DEF EndEmit, past
<1>2. Tree'
  BY <1>1, SameTree DEF IInv
<1>3. Job'
  BY <1>1 DEF IInv, Job, RenderSteps, PatchSteps, BothSteps, Of, Named
<1>4. Rendering' /\ Rebuilding'
  BY <1>1 DEF IInv, Rendering, Rebuilding, PatchSteps
<1>5. Settled'
  BY <1>1 DEF IInv, Settled, Holding
<1> QED
  BY <1>2, <1>3, <1>4, <1>5 DEF IInv

-----------------------------------------------------------------------------
(* The bundle, then the manifest                                           *)
LEMMA OpenBundleKeeps == IInv /\ OpenBundle => IInv'
<1> SUFFICES ASSUME IInv, OpenBundle PROVE IInv'
  OBVIOUS
<1>1. pc = "aux" /\ pc' = "dump" /\ UNCHANGED <<job, settled, leftover>>
  BY DEF OpenBundle, past
<1>2. live' = [figs |-> live.figs, manifest |-> live.manifest, bundle |-> Torn]
  BY Write DEF IInv, OpenBundle
<1>3. job.kind = "render" /\ (leftover \/ live.manifest = None)
  BY <1>1 DEF IInv, Job, RenderSteps, Rendering
<1>4. Tree'
  BY <1>1, <1>2, <1>3 DEF IInv, Tree, Readable, Named
<1>5. Job'
  BY <1>1 DEF IInv, Job, RenderSteps, PatchSteps, Of, Named
<1>6. Rendering' /\ Rebuilding'
  BY <1>1, <1>2, <1>3 DEF Rendering, Rebuilding
<1>7. Settled'
  BY <1>1, <1>2, <1>3 DEF IInv, Settled, Holding, Readable
<1> QED
  BY <1>4, <1>5, <1>6, <1>7 DEF IInv

LEMMA DumpBundleKeeps == IInv /\ DumpBundle => IInv'
<1> SUFFICES ASSUME IInv, DumpBundle PROVE IInv'
  OBVIOUS
<1>1. pc = "dump" /\ pc' = "manifest" /\ UNCHANGED <<job, settled, leftover>>
  BY DEF DumpBundle, past
<1>2. job.kind = "render" /\ (leftover \/ live.manifest = None)
  BY <1>1 DEF IInv, Job, RenderSteps, Rendering
<1>3. /\ live' = [figs |-> live.figs, manifest |-> live.manifest, bundle |-> live'.bundle]
      /\ live'.bundle = Bundled(job.run, job.plotly) \/ live'.bundle = live.bundle
  <2>1. CASE live' = [live EXCEPT !.bundle = Bundled(job.run, job.plotly)]
    BY <2>1, Write DEF IInv
  <2>2. CASE UNCHANGED live
    BY <2>2 DEF IInv, Tree
  <2> QED
    BY <2>1, <2>2 DEF DumpBundle
<1>4. Readable(live'.bundle) => live'.bundle.run = job.run
  BY <1>1, <1>2, <1>3 DEF IInv, Rendering, Readable, Bundled
<1>5. live'.figs = live.figs /\ live'.manifest = live.manifest
  BY <1>2, <1>3
<1>6. Tree'
  BY <1>1, <1>2, <1>3, <1>5 DEF IInv, Tree, Readable, Named
<1>7. Job'
  BY <1>1 DEF IInv, Job, RenderSteps, PatchSteps, BothSteps, Of, Named
<1>8. Rendering' /\ Rebuilding'
  BY <1>1, <1>2, <1>4, <1>5 DEF Rendering, Rebuilding
<1>9. Settled'
  BY <1>1, <1>2, <1>5 DEF IInv, Settled, Holding, Readable
<1> QED
  BY <1>6, <1>7, <1>8, <1>9 DEF IInv

LEMMA OpenManifestKeeps == IInv /\ OpenManifest => IInv'
<1> SUFFICES ASSUME IInv, OpenManifest PROVE IInv'
  OBVIOUS
<1>1. /\ pc = "manifest" /\ pc' = "write" /\ UNCHANGED <<job, settled>>
      /\ leftover' = (leftover /\ job.kind = "rebuild")
  BY DEF OpenManifest
<1>2. live' = [figs |-> live.figs, manifest |-> Torn, bundle |-> live.bundle]
  BY Write DEF IInv, OpenManifest
<1>3. Tree'
  BY <1>2 DEF Tree, Readable
<1>4. Job'
  BY <1>1 DEF IInv, Job, RenderSteps, PatchSteps, BothSteps, Of, Named
<1>5. Rendering' /\ Rebuilding'
  BY <1>1, <1>2 DEF IInv, Rendering, Rebuilding, PatchSteps, Readable
<1>6. Settled'
  BY <1>1, <1>2 DEF IInv, Settled, Holding, Readable
<1> QED
  BY <1>3, <1>4, <1>5, <1>6 DEF IInv

LEMMA WriteManifestKeeps == IInv /\ WriteManifest => IInv'
<1> SUFFICES ASSUME IInv, WriteManifest PROVE IInv'
  OBVIOUS
<1>1. /\ pc = "write" /\ UNCHANGED <<job, settled, leftover>>
      /\ pc' = IF job.kind = "render" THEN "orphans"
               ELSE IF job.again THEN "patch" ELSE "done"
  BY DEF WriteManifest, past
<1>2. live' = [figs |-> live.figs, manifest |-> job.manifest, bundle |-> live.bundle]
  BY Write DEF IInv, WriteManifest
<1>3. /\ live'.figs = live.figs /\ live'.manifest = job.manifest
      /\ live'.bundle = live.bundle
  BY <1>2
<1>4. /\ Named(job.manifest) /\ job.kind \in {"render", "rebuild"}
      /\ ~leftover => Of(job.manifest, job.run) /\ job.manifest.run = job.run
      /\ job.kind = "render" => Of(job.manifest, job.run) /\ ~leftover
  BY <1>1 DEF IInv, Job, Rendering, Of, Named
<1>5. Readable(live.bundle) => live.bundle.run = job.run
  BY <1>1, <1>4 DEF IInv, Rendering, Rebuilding
<1>6. Tree'
  BY <1>1, <1>2, <1>3, <1>4, <1>5 DEF Tree, Of, Named
<1>7. Job'
  BY <1>1, <1>4 DEF IInv, Job, RenderSteps, PatchSteps, BothSteps, Of, Named
<1>8. Rendering' /\ Rebuilding'
  BY <1>1, <1>3, <1>4, <1>5 DEF Rendering, Rebuilding
<1>9. Settled'
  <2>1. Holding(job.manifest, settled \cup (job.targets \ job.todo))
    BY <1>1 DEF IInv, Settled
  <2>2. Holding(job.manifest, settled \cup (job.targets \ job.todo))'
    BY <1>1, <1>3, <2>1 DEF Holding
  <2>3. Holding(live.manifest, settled)'
    BY <1>1, <1>3, <2>2 DEF Holding
  <2> QED
    BY <1>1, <1>3, <2>2, <2>3 DEF IInv, Settled
<1> QED
  BY <1>6, <1>7, <1>8, <1>9 DEF IInv

LEMMA PruneOrphansKeeps == IInv /\ PruneOrphans => IInv'
<1> SUFFICES ASSUME IInv, PruneOrphans PROVE IInv'
  OBVIOUS
<1>1. pc = "orphans" /\ pc' = "done" /\ UNCHANGED <<job, settled, leftover>>
  BY DEF PruneOrphans, past
<1>2. /\ live' = [figs |-> live'.figs, manifest |-> live.manifest, bundle |-> live.bundle]
      /\ live'.figs = Unorphaned \/ live'.figs = live.figs
  <2>1. CASE live' = [live EXCEPT !.figs = Unorphaned]
    BY <2>1, Write DEF IInv
  <2>2. CASE UNCHANGED live
    BY <2>2 DEF IInv, Tree
  <2> QED
    BY <2>1, <2>2 DEF PruneOrphans
<1>3. live'.manifest = live.manifest /\ live'.bundle = live.bundle
  BY <1>2
<1>4. job.kind = "render" /\ settled = {} /\ live.manifest = job.manifest
  BY <1>1 DEF IInv, Job, RenderSteps, Settled
<1>5. Tree'
  BY <1>1, <1>2, <1>3 DEF IInv, Tree, Of, Named
<1>6. Job'
  BY <1>1 DEF IInv, Job, RenderSteps, PatchSteps, BothSteps, Of, Named
<1>7. Rendering' /\ Rebuilding'
  BY <1>1, <1>3, <1>4 DEF IInv, Rendering, Rebuilding
<1>8. Settled'
  <2> DEFINE secs == settled \cup (job.targets \ job.todo)
  <2>1. Holding(job.manifest, secs)
    BY <1>1 DEF IInv, Settled
  <2>2. \A n \in DOMAIN job.manifest.records : job.manifest.records[n].files \subseteq Listed(job.manifest)
    BY DEF Listed
  <2>3. Holding(job.manifest, secs)'
    BY <1>1, <1>2, <2>1, <2>2 DEF Holding, Unorphaned
  <2>4. Holding(live.manifest, settled)'
    BY <1>1, <1>4 DEF Holding
  <2> QED
    BY <1>1, <1>3, <1>4, <2>3, <2>4 DEF IInv, Settled
<1> QED
  BY <1>5, <1>6, <1>7, <1>8 DEF IInv

LEMMA DoneKeeps == IInv /\ Done => IInv'
<1> SUFFICES ASSUME IInv, Done PROVE IInv'
  OBVIOUS
<1>1. /\ pc = "done" /\ pc' = "idle" /\ live' = live
      /\ settled' = settled \cup job.targets /\ leftover' = leftover
  BY DEF Done
<1>2. /\ live.manifest = job.manifest /\ job.todo \cap Registered = {}
      /\ Holding(job.manifest, settled \cup (job.targets \ job.todo))
  BY <1>1 DEF IInv, Settled
<1>3. Holding(live.manifest, settled)'
  BY <1>1, <1>2 DEF Holding
<1>4. Tree'
  BY <1>1, SameTree DEF IInv
<1>5. Job' /\ Rendering' /\ Rebuilding'
  BY <1>1 DEF Job, RenderSteps, PatchSteps, Rendering, Rebuilding
<1>6. Settled'
  BY <1>1, <1>3 DEF Settled
<1> QED
  BY <1>4, <1>5, <1>6 DEF IInv

LEMMA StopsKeeps == IInv /\ Stops => IInv'
<1> SUFFICES ASSUME IInv, Stops PROVE IInv'
  OBVIOUS
<1>1. pc' = "idle" /\ live' = live /\ settled' = settled /\ leftover' = leftover
  BY DEF Stops, past
<1>2. Tree'
  BY <1>1, SameTree DEF IInv
<1>3. Job' /\ Rendering' /\ Rebuilding'
  BY <1>1 DEF Job, RenderSteps, PatchSteps, Rendering, Rebuilding
<1>4. Settled'
  BY <1>1 DEF IInv, Settled, Holding
<1> QED
  BY <1>2, <1>3, <1>4 DEF IInv

-----------------------------------------------------------------------------
(* Rebuilds                                                                *)

(* What a rebuild begins from: a manifest and a bundle of one run          *)
LEMMA ReplayKeeps ==
    ASSUME IInv, NEW targets, NEW bundle, NEW again, Replay(targets, bundle, again),
           bundle = live.bundle, leftover' = leftover, Named(live.manifest),
           ~leftover => /\ bundle.run = live.manifest.run
                        /\ Of(live.manifest, live.manifest.run),
           Holding(live.manifest, settled'),
           settled' \subseteq settled, settled' \cap targets = {}
    PROVE  IInv'
<1>1. /\ pc' = "emit" /\ job'.kind = "rebuild" /\ job'.run = bundle.run
      /\ job'.todo = targets /\ job'.targets = targets
      /\ job'.manifest = live.manifest
      /\ {"kind", "run", "todo", "targets", "manifest"} \subseteq DOMAIN job'
  BY DEF Replay
<1>2. /\ live' = [figs |-> live'.figs, manifest |-> live.manifest, bundle |-> live.bundle]
      /\ live'.figs = FigsWithout(targets) \/ live'.figs = live.figs
  <2>1. CASE live' = [live EXCEPT !.figs = FigsWithout(targets)]
    BY <2>1, Write DEF IInv
  <2>2. CASE UNCHANGED live
    BY <2>2 DEF IInv, Tree
  <2> QED
    BY <2>1, <2>2 DEF Replay
<1>3. live'.manifest = live.manifest /\ live'.bundle = live.bundle
  BY <1>2
<1>4. Tree'
  BY <1>2, <1>3 DEF IInv, Tree, Of, Named
<1>5. Job'
  BY <1>1 DEF Job, RenderSteps, PatchSteps, BothSteps, Of, Named
<1>6. Rendering' /\ Rebuilding'
  BY <1>1, <1>3 DEF Rendering, Rebuilding, PatchSteps
<1>7. Settled'
  <2>1. Holding(live.manifest, settled)'
    BY <1>2, <1>3 DEF Holding, FigsWithout, Named
  <2>2. Holding(job.manifest, settled \cup (job.targets \ job.todo))'
    BY <1>1, <1>3, <2>1 DEF Holding
  <2> QED
    BY <1>1, <2>1, <2>2 DEF Settled, PatchSteps
<1> QED
  BY <1>4, <1>5, <1>6, <1>7 DEF IInv

LEMMA StartRebuildKeeps ==
    ASSUME IInv, NEW targets, NEW noPlotly, StartRebuild(targets, noPlotly)
    PROVE  IInv'
<1>1. /\ Readable(live.manifest) /\ Readable(live.bundle)
      /\ Replay(targets, live.bundle, noPlotly)
      /\ settled' = settled \ targets /\ leftover' = leftover
  BY DEF StartRebuild
<1>2. /\ Named(live.manifest)
      /\ ~leftover => /\ live.bundle.run = live.manifest.run
                      /\ Of(live.manifest, live.manifest.run)
  BY <1>1 DEF IInv, Tree
<1>3. Holding(live.manifest, settled')
  BY <1>1 DEF IInv, Settled, Holding
<1> QED
  BY <1>1, <1>2, <1>3, ReplayKeeps

LEMMA RebuildAgainKeeps == IInv /\ RebuildAgain => IInv'
<1> SUFFICES ASSUME IInv, RebuildAgain PROVE IInv'
  OBVIOUS
<1>1. /\ pc = "again" /\ UNCHANGED <<settled, leftover>>
      /\ Replay(job.targets, live.bundle, FALSE)
  BY DEF RebuildAgain, past
<1>2. /\ live.manifest = job.manifest /\ live.bundle.run = job.run
      /\ Named(job.manifest)
      /\ ~leftover => Of(job.manifest, job.run) /\ job.manifest.run = job.run
      /\ settled \cap job.targets = {}
  BY <1>1 DEF IInv, Job, Rebuilding, Settled, PatchSteps, Of, Named
<1>3. Holding(job.manifest, settled \cup (job.targets \ job.todo))
  BY <1>1 DEF IInv, Settled
<1>4. Holding(live.manifest, settled')
  BY <1>1, <1>2, <1>3 DEF Holding
<1> QED
  BY <1>1, <1>2, <1>4, ReplayKeeps

LEMMA OpenPatchKeeps == IInv /\ OpenPatch => IInv'
<1> SUFFICES ASSUME IInv, OpenPatch PROVE IInv'
  OBVIOUS
<1>1. pc = "patch" /\ pc' = "patching" /\ UNCHANGED <<job, settled, leftover>>
  BY DEF OpenPatch, past
<1>2. live' = [figs |-> live.figs, manifest |-> live.manifest, bundle |-> Torn]
  BY Write DEF IInv, OpenPatch
<1>3. live'.figs = live.figs /\ live'.manifest = live.manifest /\ live'.bundle = Torn
  BY <1>2
<1>4. Tree'
  BY <1>1, <1>2, <1>3 DEF IInv, Tree, Readable, Of, Named
<1>5. Job'
  BY <1>1 DEF IInv, Job, RenderSteps, PatchSteps, Of, Named
<1>6. Rendering' /\ Rebuilding'
  BY <1>1, <1>3 DEF IInv, Job, Rendering, Rebuilding, PatchSteps, Readable
<1>7. Settled'
  BY <1>1, <1>3 DEF IInv, Settled, Holding, PatchSteps
<1> QED
  BY <1>4, <1>5, <1>6, <1>7 DEF IInv

LEMMA PatchKeeps == IInv /\ Patch => IInv'
<1> SUFFICES ASSUME IInv, Patch PROVE IInv'
  OBVIOUS
<1>1. pc = "patching" /\ UNCHANGED <<job, settled, leftover>> /\ pc' \in {"again", "done"}
  BY DEF Patch, past
<1>2. /\ live' = [figs |-> live.figs, manifest |-> live.manifest, bundle |-> live'.bundle]
      /\ \/ live'.bundle = Bundled(job.run, FALSE)
         \/ live'.bundle = live.bundle /\ pc' = "done"
  <2>1. CASE live' = [live EXCEPT !.bundle = Bundled(job.run, FALSE)]
    BY <2>1, Write DEF IInv
  <2>2. CASE UNCHANGED live /\ pc' = "done"
    BY <2>2 DEF IInv, Tree
  <2> QED
    BY <2>1, <2>2 DEF Patch
<1>3. live'.figs = live.figs /\ live'.manifest = live.manifest
  BY <1>2
<1>4. /\ job.kind = "rebuild" /\ live.manifest = job.manifest
      /\ ~leftover => job.manifest.run = job.run
      /\ Readable(live.bundle) => live.bundle.run = job.run
  BY <1>1 DEF IInv, Job, Rebuilding, PatchSteps, Of, Named
<1>5. /\ Readable(live'.bundle) => live'.bundle.run = job.run
      /\ pc' = "again" => live'.bundle.run = job.run
  <2>1. Bundled(job.run, FALSE).run = job.run
    BY DEF Bundled
  <2> QED
    BY <1>1, <1>2, <1>4, <2>1
<1>6. Tree'
  BY <1>1, <1>2, <1>3, <1>4, <1>5 DEF IInv, Tree, Of, Named
<1>7. Job'
  BY <1>1, <1>4 DEF IInv, Job, RenderSteps, PatchSteps, BothSteps, Of, Named
<1>8. Rendering' /\ Rebuilding'
  BY <1>1, <1>3, <1>4, <1>5 DEF Rendering, Rebuilding, PatchSteps
<1>9. Settled'
  BY <1>1, <1>3, <1>4 DEF IInv, Settled, Holding, PatchSteps
<1> QED
  BY <1>6, <1>7, <1>8, <1>9 DEF IInv

-----------------------------------------------------------------------------
LEMMA InitHolds == Init => IInv
<1> SUFFICES ASSUME Init PROVE IInv
  OBVIOUS
<1>1. pc = "idle" /\ leftover = FALSE /\ settled \in {{}, Registered \cup Retired}
  BY DEF Init
<1>2. Job /\ Rendering /\ Rebuilding
  BY <1>1 DEF Job, RenderSteps, PatchSteps, Rendering, Rebuilding
<1>3. CASE live = EmptyTree
  <2>1. live.manifest = None
    BY <1>3 DEF EmptyTree
  <2> QED
    BY <1>1, <1>2, <1>3, <2>1 DEF IInv, Tree, Settled, EmptyTree, Readable
<1>4. ASSUME NEW run \in Runs, live = OldReport(run) PROVE IInv
  <2> DEFINE records == [n \in Registered \cup Retired |->
            IF n \in Retired THEN Record(run, {}, {<<n, "old_chart">>})
            ELSE Record(run, Page(n, Given(run)), {})]
             m == [run |-> run, records |-> records]
             figs == {<<n, "old_chart">> : n \in Retired}
             b == Bundled(run, TRUE)
  <2>1. live = [figs |-> figs, manifest |-> m, bundle |-> b]
    BY <1>4 DEF OldReport
  <2>2. b.run = run /\ m.run = run /\ m.records = records
    BY DEF Bundled
  <2>3. \A n \in DOMAIN records :
           /\ records[n].run = run
           /\ \A f \in records[n].files : f[1] = n
           /\ records[n].files \subseteq figs
    BY DEF Record
  <2>4. DOMAIN records = Registered \cup Retired
    OBVIOUS
  <2>5. m = [run |-> run, records |-> m.records]
    OBVIOUS
  <2> HIDE DEF records, figs, m, b
  <2>6. Named(m) /\ Of(m, run)
    BY <2>2, <2>3, <2>5 DEF Of, Named
  <2>7. live.figs = figs /\ live.manifest = m /\ live.bundle = b
    BY <2>1
  <2>8. Tree
    BY <2>1, <2>2, <2>6, <2>7 DEF Tree
  <2>9. Settled
    BY <1>1, <2>2, <2>3, <2>4, <2>7 DEF Settled, Holding
  <2> QED
    BY <1>2, <2>8, <2>9 DEF IInv
<1> QED
  BY <1>3, <1>4 DEF Init

LEMMA StepKeeps == IInv /\ [Next]_vars => IInv'
<1> SUFFICES ASSUME IInv, [Next]_vars PROVE IInv'
  OBVIOUS
<1>1. CASE UNCHANGED vars
  <2>1. UNCHANGED <<live, job, settled, pc, leftover>>
    BY <1>1 DEF vars
  <2>2. Tree' /\ Job' /\ Rendering' /\ Rebuilding' /\ Settled'
    BY <2>1 DEF IInv, Tree, Job, Rendering, Rebuilding, Settled, Holding, Of, Named
  <2> QED
    BY <2>2 DEF IInv
<1> QED
  BY <1>1, StartRenderKeeps, ArchiveKeeps, WipeKeeps, EndWipeKeeps, EmitKeeps,
     EndEmitKeeps, OpenBundleKeeps, DumpBundleKeeps, OpenManifestKeeps,
     WriteManifestKeeps, PruneOrphansKeeps, DoneKeeps, StopsKeeps, StartRebuildKeeps,
     OpenPatchKeeps, PatchKeeps, RebuildAgainKeeps
     DEF Next

(* The inductive invariant, for every sequence of renders and rebuilds.    *)
THEOREM Invariance == Spec => []IInv
BY InitHolds, StepKeeps, PTL DEF Spec

(* ReportRenderer.render and rebuild: no report mixes two runs, whatever   *)
(* else than the manifest a wipe has left.                                 *)
THEOREM OneRun == Spec => []OneRunPerReport
<1>1. IInv => OneRunPerReport
  BY DEF IInv, Tree, Of, OneRunPerReport
<1> QED
  BY <1>1, Invariance, PTL

(* ReportManifest and ReportRenderer.rebuild: what a settled section lists *)
(* is under figs/.                                                         *)
THEOREM ListedAreThere == Spec => []ListedFilesExist
<1>1. IInv => ListedFilesExist
  BY DEF IInv, Settled, Holding, ListedFilesExist
<1> QED
  BY <1>1, Invariance, PTL

-----------------------------------------------------------------------------
(* What a page is made from: the invariant that what a rebuild reads gives *)
(* the page that the run gave                                              *)
Rendered(manifest) ==
    \A n \in DOMAIN manifest.records \cap Registered :
        manifest.records[n].page
            \in {{"failed"}, Page(n, Given(manifest.records[n].run))}

Whole(bundle) ==
    /\ bundle.run \in Runs
    /\ Replayed(bundle) = bundle.run.metrics \cup (bundle.run.engine \cap BundleFields)

Faithful ==
    /\ Readable(live.manifest) => Rendered(live.manifest)
    /\ Readable(live.bundle) \/ pc = "again" => Whole(live.bundle)
    /\ pc # "idle" =>
          /\ job.run \in Runs /\ "data" \in DOMAIN job
          /\ Rendered(job.manifest)
          /\ \A n \in Registered : Page(n, job.data) = Page(n, Given(job.run))

(* The series a section reads are among those that the data have of it,    *)
(* but for the two that the inventory looks at first.                      *)
LEMMA SamePage ==
    ASSUME NEW name \in Registered, NEW data, NEW other,
           FillsRead(data) = FillsRead(other)
    PROVE  Page(name, data) = Page(name, other)
<1>1. name \in ToSet(Emitters)
  BY ReportsAssumption
<1>2. name \in {"overview", "calibration", "controller", "trading", "inventory",
                "operational", "drift", "coverage", "spec"}
  <2>1. Emitters \in Seq(ToSet(Emitters)) /\ Len(Emitters) = 9
    BY DEF Emitters, ToSet
  <2> QED
    BY <1>1 DEF Emitters, ToSet
<1>3. data \cap {"sizes", "ages"} = other \cap {"sizes", "ages"}
  BY DEF FillsRead
<1>4. Emitter(name, data).reads = Emitter(name, other).reads
  BY <1>2, <1>3 DEF Emitter, Section, Block, Overview, Calibration, Controller, Trading,
     Inventory, Operational, Drift, Coverage, SpecSheet
<1> QED
  BY <1>4 DEF Page

LEMMA BundleIsEnough ==
    ASSUME NEW bundle, Whole(bundle), NEW name \in Registered
    PROVE  Page(name, Replayed(bundle)) = Page(name, Given(bundle.run))
<1>1. bundle.run.engine \subseteq {"predictions", "fills", "fill_times"}
  BY ReportsAssumption DEF Whole
<1>2. FillsRead(Replayed(bundle)) = FillsRead(Given(bundle.run))
  BY <1>1 DEF Whole, FillsRead, Given, BundleFields
<1> QED
  BY <1>2, SamePage

LEMMA BundledIsWhole ==
    ASSUME NEW run \in Runs, NEW plotly
    PROVE  Whole(Bundled(run, plotly)) /\ Bundled(run, plotly).run = run
<1>1. /\ Bundled(run, plotly).run = run
      /\ Bundled(run, plotly).metrics = run.metrics
      /\ Bundled(run, plotly).engine = run.engine \cap BundleFields
  BY DEF Bundled
<1> QED
  BY <1>1 DEF Whole, Replayed

(* The manifest and the bundle change into a file that is not there, torn, *)
(* or written from the job in hand.                                        *)
LEMMA WritesKeepFaith ==
    ASSUME Faithful, pc # "idle", pc' = "idle" \/ UNCHANGED job,
           live'.manifest \in {live.manifest, None, Torn, job.manifest},
           \/ live'.bundle \in {live.bundle, None, Torn} /\ pc' # "again"
           \/ \E plotly : live'.bundle = Bundled(job.run, plotly)
    PROVE  Faithful'
<1>1. /\ job.run \in Runs /\ "data" \in DOMAIN job /\ Rendered(job.manifest)
      /\ \A n \in Registered : Page(n, job.data) = Page(n, Given(job.run))
  BY DEF Faithful
<1>2. Readable(live'.manifest) => Rendered(live'.manifest)
  BY <1>1 DEF Faithful, Readable
<1>3. Readable(live'.bundle) \/ pc' = "again" => Whole(live'.bundle)
  BY <1>1, BundledIsWhole DEF Faithful, Readable
<1>4. pc' # "idle" =>
          /\ job'.run \in Runs /\ "data" \in DOMAIN job' /\ Rendered(job'.manifest)
          /\ \A n \in Registered : Page(n, job'.data) = Page(n, Given(job'.run))
  BY <1>1
<1> QED
  BY <1>2, <1>3, <1>4 DEF Faithful, Readable, Rendered, Whole

(* Every step of a job but the emitters and the second replay              *)
LEMMA JobSteps ==
    ASSUME IInv,
           \/ OpenZip \/ WriteZip \/ PruneArchive \/ EndWipe \/ EndEmit
           \/ \E part \in DOMAIN live : WipePart(part)
           \/ OpenBundle \/ DumpBundle \/ OpenManifest \/ WriteManifest
           \/ PruneOrphans \/ Done \/ Stops \/ OpenPatch \/ Patch
    PROVE  /\ pc # "idle" /\ (pc' = "idle" \/ UNCHANGED job)
           /\ live'.manifest \in {live.manifest, None, Torn, job.manifest}
           /\ \/ live'.bundle \in {live.bundle, None, Torn} /\ pc' # "again"
              \/ \E plotly : live'.bundle = Bundled(job.run, plotly)
<1>1. CASE OpenZip \/ WriteZip \/ PruneArchive \/ EndWipe \/ EndEmit \/ Done \/ Stops
  BY <1>1 DEF OpenZip, WriteZip, PruneArchive, EndWipe, EndEmit, Done, Stops
<1>2. ASSUME NEW part \in DOMAIN live, WipePart(part)
      PROVE  /\ pc # "idle" /\ UNCHANGED job /\ pc' # "again"
             /\ live'.manifest \in {live.manifest, None}
             /\ live'.bundle \in {live.bundle, None}
  <2>1. DOMAIN live = {"figs", "manifest", "bundle"}
    BY DEF IInv, Tree
  <2> QED
    BY <1>2, <2>1 DEF WipePart, Left, EmptyTree
<1>3. Tree
  BY DEF IInv
<1>4. CASE OpenBundle \/ OpenManifest \/ WriteManifest \/ OpenPatch
  <2>1. /\ pc # "idle" /\ UNCHANGED job /\ pc' # "again"
        /\ \/ live' = [live EXCEPT !.bundle = Torn]
           \/ live' = [live EXCEPT !.manifest = Torn]
           \/ live' = [live EXCEPT !.manifest = job.manifest]
    BY <1>4 DEF OpenBundle, OpenManifest, WriteManifest, OpenPatch
  <2> QED
    BY <1>3, <2>1, Write
<1>5. CASE DumpBundle \/ Patch
  <2>1. /\ pc # "idle" /\ UNCHANGED job
        /\ \/ \E plotly : live' = [live EXCEPT !.bundle = Bundled(job.run, plotly)]
           \/ UNCHANGED live /\ pc' # "again"
    <3>1. CASE DumpBundle
      <4>1. CASE live' = [live EXCEPT !.bundle = Bundled(job.run, job.plotly)]
        BY <3>1, <4>1 DEF DumpBundle
      <4> QED
        BY <3>1, <4>1 DEF DumpBundle
    <3>2. CASE Patch
      BY <3>2 DEF Patch
    <3> QED
      BY <1>5, <3>1, <3>2
  <2> QED
    BY <1>3, <2>1, Write
<1>6. CASE PruneOrphans
  <2>1. /\ pc # "idle" /\ UNCHANGED job /\ pc' # "again"
        /\ live' = [live EXCEPT !.figs = Unorphaned] \/ UNCHANGED live
    BY <1>6 DEF PruneOrphans
  <2> QED
    BY <1>3, <2>1, Write
<1> QED
  BY <1>1, <1>2, <1>4, <1>5, <1>6

LEMMA EmitKeepsFaith ==
    ASSUME IInv, Faithful, NEW name \in Registered, Emit(name)
    PROVE  Faithful'
<1> DEFINE files(charts) == {<<name, c.png>> : c \in charts}
<1>1. PICK drawn \in SUBSET Drawable(name, job.data, job.plotly) :
        \E listed \in SUBSET drawn, fails \in BOOLEAN :
          LET record == IF fails THEN Record(job.run, {"failed"}, {})
                        ELSE Record(job.run, Page(name, job.data), files(listed))
          IN /\ live' = [live EXCEPT !.figs = @ \cup files(drawn)]
             /\ job' = [job EXCEPT !.todo = @ \ {name},
                           !.manifest.records = Upsert(@, name, record)]
  BY DEF Emit
<1>2. PICK listed \in SUBSET drawn, fails \in BOOLEAN :
          LET record == IF fails THEN Record(job.run, {"failed"}, {})
                        ELSE Record(job.run, Page(name, job.data), files(listed))
          IN /\ live' = [live EXCEPT !.figs = @ \cup files(drawn)]
             /\ job' = [job EXCEPT !.todo = @ \ {name},
                           !.manifest.records = Upsert(@, name, record)]
  BY <1>1
<1> DEFINE record == IF fails THEN Record(job.run, {"failed"}, {})
                     ELSE Record(job.run, Page(name, job.data), files(listed))
           old == job.manifest.records
           new == Upsert(old, name, record)
<1>3. record.run = job.run /\ record.page \in {{"failed"}, Page(name, job.data)}
  BY DEF Record
<1> HIDE DEF files, record
<1>4. live' = [live EXCEPT !.figs = live.figs \cup files(drawn)]
  BY <1>2 DEF record
<1>5. job' = [job EXCEPT !.todo = @ \ {name},
                  !.manifest.records = Upsert(@, name, record)]
  BY <1>2 DEF record
<1>6. pc = "emit" /\ pc' = "emit"
  BY DEF Emit
<1>7. /\ Named(job.manifest)
      /\ {"kind", "run", "todo", "targets", "manifest"} \subseteq DOMAIN job
  BY <1>6 DEF IInv, Job
<1>8. /\ DOMAIN job' = DOMAIN job /\ job'.run = job.run
      /\ job'.manifest = [run |-> job.manifest.run, records |-> new]
  BY <1>5, <1>7, JobAfter
<1>9. /\ job.run \in Runs /\ "data" \in DOMAIN job /\ Rendered(job.manifest)
      /\ \A n \in Registered : Page(n, job.data) = Page(n, Given(job.run))
  BY <1>6 DEF Faithful
<1>10. job'.data = job.data
  <2> DEFINE t == job.todo \ {name}
             m == [job.manifest EXCEPT !.records = Upsert(job.manifest.records, name, record)]
  <2>1. job' = [job EXCEPT !.todo = t, !.manifest = m]
    BY <1>5
  <2> HIDE DEF t, m
  <2> QED
    BY <1>9, <2>1
<1>11. live'.manifest = live.manifest /\ live'.bundle = live.bundle
  BY <1>4, Write DEF IInv
<1>12. Rendered(job'.manifest)
  <2>1. /\ job'.manifest.records = new
        /\ DOMAIN new = DOMAIN old \cup {name}
        /\ new[name] = record
        /\ \A n \in DOMAIN old : n # name => new[n] = old[n]
    BY <1>8 DEF Upsert
  <2>2. record.page \in {{"failed"}, Page(name, Given(record.run))}
    BY <1>3, <1>9
  <2> HIDE DEF new
  <2> QED
    BY <1>9, <2>1, <2>2 DEF Rendered
<1> QED
  BY <1>6, <1>8, <1>9, <1>10, <1>11, <1>12 DEF Faithful, Readable, Rendered, Whole

LEMMA ReplayKeepsFaith ==
    ASSUME IInv, Faithful, NEW targets, NEW bundle, NEW again,
           Replay(targets, bundle, again), bundle = live.bundle, Whole(bundle),
           Rendered(live.manifest)
    PROVE  Faithful'
<1>1. /\ pc' = "emit" /\ job'.run = bundle.run /\ job'.data = Replayed(bundle)
      /\ job'.manifest = live.manifest /\ "data" \in DOMAIN job'
  BY DEF Replay
<1>2. live'.manifest = live.manifest /\ live'.bundle = live.bundle
  <2>1. CASE live' = [live EXCEPT !.figs = FigsWithout(targets)]
    BY <2>1, Write DEF IInv
  <2> QED
    BY <2>1 DEF Replay
<1>3. \A n \in Registered : Page(n, job'.data) = Page(n, Given(job'.run))
  BY <1>1, BundleIsEnough
<1>4. job'.run \in Runs
  BY <1>1 DEF Whole
<1> QED
  BY <1>1, <1>2, <1>3, <1>4 DEF Faithful, Readable, Rendered, Whole

LEMMA InitIsFaithful == Init => Faithful
<1> SUFFICES ASSUME Init PROVE Faithful
  OBVIOUS
<1>1. pc = "idle"
  BY DEF Init
<1>2. CASE live = EmptyTree
  BY <1>1, <1>2 DEF Faithful, EmptyTree, Readable
<1>3. ASSUME NEW run \in Runs, live = OldReport(run) PROVE Faithful
  <2> DEFINE records == [n \in Registered \cup Retired |->
            IF n \in Retired THEN Record(run, {}, {<<n, "old_chart">>})
            ELSE Record(run, Page(n, Given(run)), {})]
  <2>1. live.manifest.records = records /\ live.bundle = Bundled(run, TRUE)
    BY <1>3 DEF OldReport
  <2>2. \A n \in DOMAIN records \cap Registered :
           records[n].run = run /\ records[n].page = Page(n, Given(run))
    BY ReportsAssumption DEF Record
  <2> HIDE DEF records
  <2>3. Rendered(live.manifest)
    BY <2>1, <2>2 DEF Rendered
  <2> QED
    BY <1>1, <2>1, <2>3, BundledIsWhole DEF Faithful
<1> QED
  BY <1>2, <1>3 DEF Init

LEMMA FaithKept == IInv /\ Faithful /\ [Next]_vars => Faithful'
<1> SUFFICES ASSUME IInv, Faithful, [Next]_vars PROVE Faithful'
  OBVIOUS
<1>1. ASSUME NEW run \in Runs, NEW plotly \in BOOLEAN, NEW archive \in BOOLEAN,
             StartRender(run, plotly, archive)
      PROVE  Faithful'
  <2>1. /\ live' = live /\ pc' \in {"zip", "wipe"}
        /\ job'.run = run /\ job'.data = Given(run) /\ "data" \in DOMAIN job'
        /\ job'.manifest.records = [n \in {} |-> None]
    BY <1>1 DEF StartRender
  <2>2. Rendered(job'.manifest)
    BY <2>1 DEF Rendered
  <2> QED
    BY <2>1, <2>2 DEF Faithful, Readable, Rendered, Whole
<1>2. ASSUME NEW targets, NEW noPlotly, StartRebuild(targets, noPlotly)
      PROVE  Faithful'
  <2>1. Readable(live.manifest) /\ Readable(live.bundle) /\ Replay(targets, live.bundle, noPlotly)
    BY <1>2 DEF StartRebuild
  <2>2. Whole(live.bundle) /\ Rendered(live.manifest)
    BY <2>1 DEF Faithful
  <2> QED
    BY <2>1, <2>2, ReplayKeepsFaith
<1>3. CASE RebuildAgain
  <2>1. pc = "again" /\ Replay(job.targets, live.bundle, FALSE)
    BY <1>3 DEF RebuildAgain
  <2>2. Whole(live.bundle) /\ Rendered(live.manifest)
    BY <2>1 DEF IInv, Rebuilding, Job, PatchSteps, Faithful
  <2> QED
    BY <2>1, <2>2, ReplayKeepsFaith
<1>4. CASE UNCHANGED vars
  BY <1>4 DEF vars, Faithful, Readable, Rendered, Whole
<1> QED
  BY <1>1, <1>2, <1>3, <1>4, EmitKeepsFaith, JobSteps, WritesKeepFaith DEF Next

(* ReportRenderer.rebuild and _write_run_bundle: a section that was not    *)
(* left out is made from all that its run has of the series it reads, the  *)
(* hold ages apart, rebuilt or not.                                        *)
THEOREM RebuildIsTheRender == Spec => []RebuildReproduces
<1>1. \A n, data :
          Page(n, data) \ HoldAges = (Emitter(n, data).reads \cap data) \ HoldAges
  BY DEF Page, FillsRead, HoldAges
<1>2. {"failed"} \ HoldAges = {"failed"}
  BY DEF HoldAges
<1>3. Faithful => RebuildReproduces
  BY <1>1, <1>2 DEF Faithful, Rendered, RebuildReproduces
<1> QED
  BY <1>3, InitHolds, StepKeeps, InitIsFaithful, FaithKept, PTL DEF Spec

-----------------------------------------------------------------------------
(* Where the last report a render finished is: the invariant.  Renders     *)
(* begin in different seconds, so a new archive sorts behind the others.   *)

(* a file that was written to its end is neither missing nor torn          *)
FilesAreWhole ==
    /\ \A run, records : Readable([run |-> run, records |-> records])
    /\ \A run, plotly : Readable(Bundled(run, plotly))
    /\ \A figs, manifest, bundle :
          [figs |-> figs, manifest |-> manifest, bundle |-> bundle] # Torn

Names ==
    /\ IsFiniteSet(DOMAIN archives) /\ clock \in Nat /\ since \in Nat
    /\ \A a \in DOMAIN archives : a[1] \in Nat /\ a[1] <= clock
    /\ pc \in {"zip", "zipping"} =>
          /\ since > 0
          /\ job.name[1] = clock /\ job.name[2] \in Nat /\ job.name[3] \in Nat
          /\ \A a \in DOMAIN archives \ {job.name} : a[1] < clock
    /\ pc = "zip" => job.name \notin DOMAIN archives
    /\ pc = "zipping" => job.name \in DOMAIN archives /\ archives[job.name] = Torn

(* of a rebuild at most one of the two files is torn                       *)
RebuildHolds ==
    pc # "idle" /\ job.kind = "rebuild" =>
        /\ pc # "write" => Readable(live.manifest)
        /\ pc \notin {"patching", "done"} => Readable(live.bundle)

(* the renders begun since that may have added an archive                  *)
Newer(a) == {b \in DOMAIN archives : SortsBefore(a, b)}
Added == IF pc = "zip" THEN since - 2 ELSE since - 1

InDirectory ==
    /\ Holds(live, last) /\ ~leftover
    /\ pc \in {"idle", "zip", "zipping"} \/ job.kind = "rebuild"
InArchive ==
    \E a \in DOMAIN archives :
        /\ archives[a] # Torn /\ Holds(archives[a], last)
        /\ Cardinality(Newer(a)) <= Added

Kept == last # None /\ since <= Keep => InDirectory \/ InArchive

Safe == Names /\ RebuildHolds /\ Kept

LEMMA AtMostOneMore ==
    ASSUME NEW S, IsFiniteSet(S), NEW x, NEW T \in SUBSET (S \cup {x})
    PROVE  IsFiniteSet(T) /\ Cardinality(T) <= Cardinality(S) + 1
           /\ Cardinality(T) \in Nat /\ Cardinality(S) \in Nat
<1>1. /\ IsFiniteSet(S \cup {x}) /\ Cardinality(S) \in Nat
      /\ Cardinality(S \cup {x}) <= Cardinality(S) + 1
      /\ Cardinality(S \cup {x}) \in Nat
  <2>1. /\ IsFiniteSet(S \cup {x})
        /\ Cardinality(S \cup {x})
             = IF x \in S THEN Cardinality(S) ELSE Cardinality(S) + 1
    BY FS_AddElement
  <2>2. Cardinality(S) \in Nat /\ Cardinality(S \cup {x}) \in Nat
    BY <2>1, FS_CardinalityType
  <2> QED
    BY <2>1, <2>2
<1>2. IsFiniteSet(T) /\ Cardinality(T) <= Cardinality(S \cup {x})
  BY <1>1, FS_Subset
<1>3. Cardinality(T) \in Nat
  BY <1>2, FS_CardinalityType
<1> QED
  BY <1>1, <1>2, <1>3

LEMMA NotMore ==
    ASSUME NEW S, IsFiniteSet(S), NEW T \in SUBSET S
    PROVE  /\ IsFiniteSet(T) /\ Cardinality(T) <= Cardinality(S)
           /\ Cardinality(T) \in Nat /\ Cardinality(S) \in Nat
BY FS_Subset, FS_CardinalityType

(* A render in a second of its own has the bare name, which is free.       *)
LEMMA NameIsNew ==
    ASSUME Names, NEW second \in Nat, second = clock + 1, NEW hash \in Nat
    PROVE  LET name == ArchiveName(second, hash)
           IN /\ name[1] = second /\ name[2] = hash /\ name[3] \in Nat
              /\ name \notin DOMAIN archives
<1> DEFINE Free(k) == /\ <<second, hash, k>> \notin DOMAIN archives
                      /\ \A j \in 0..(k - 1) : <<second, hash, j>> \in DOMAIN archives
<1>1. Cardinality(DOMAIN archives) \in Nat
  BY FS_CardinalityType DEF Names
<1>2. \A k \in Nat : <<second, hash, k>> \notin DOMAIN archives
  BY DEF Names
<1>3. 0 \in 0..Cardinality(DOMAIN archives) /\ Free(0)
  BY <1>1, <1>2
<1> DEFINE k == CHOOSE i \in 0..Cardinality(DOMAIN archives) : Free(i)
<1>4. k \in 0..Cardinality(DOMAIN archives) /\ Free(k)
  BY <1>3
<1>5. ArchiveName(second, hash) = <<second, hash, k>>
  BY DEF ArchiveName
<1> HIDE DEF k
<1> QED
  BY <1>1, <1>2, <1>4, <1>5


(* Steps that are not about an archive                                     *)
LEMMA NamesElsewhere ==
    ASSUME Names, UNCHANGED <<archives, clock>>, pc' \notin {"zip", "zipping"},
           since' \in {since, 0}
    PROVE  Names'
BY DEF Names

LEMMA NamesKept ==
    ASSUME SameSecond = FALSE, IInv, Names, [Next]_vars
    PROVE  Names'
<1>1. ASSUME NEW run \in Runs, NEW plotly \in BOOLEAN, NEW archive \in BOOLEAN,
             StartRender(run, plotly, archive)
      PROVE  Names'
  <2>1. /\ clock' = clock + 1 /\ archives' = archives
        /\ since' = (IF archive THEN since + 1 ELSE Keep + 1)
        /\ job'.name = ArchiveName(clock', run.hash)
        /\ pc' \in {"zip", "wipe"}
    BY <1>1 DEF StartRender
  <2>2. Keep \in Nat /\ run.hash \in Nat
    BY ReportsAssumption
  <2>3. clock' \in Nat /\ since' \in Nat /\ since' > 0
    BY <2>1, <2>2 DEF Names
  <2>4. /\ job'.name[1] = clock' /\ job'.name[2] \in Nat /\ job'.name[3] \in Nat
        /\ job'.name \notin DOMAIN archives
    BY <2>1, <2>2, <2>3, NameIsNew
  <2>5. /\ IsFiniteSet(DOMAIN archives')
        /\ \A a \in DOMAIN archives' : a[1] \in Nat /\ a[1] < clock'
    BY <2>1 DEF Names
  <2> QED
    BY <2>1, <2>3, <2>4, <2>5 DEF Names
<1>2. CASE OpenZip
  <2>1. /\ pc = "zip" /\ pc' = "zipping" /\ UNCHANGED <<clock, job, since>>
        /\ archives' = Upsert(archives, job.name, Torn)
    BY <1>2 DEF OpenZip, past
  <2>2. /\ DOMAIN archives' = DOMAIN archives \cup {job.name}
        /\ archives'[job.name] = Torn
    BY <2>1 DEF Upsert
  <2>3. IsFiniteSet(DOMAIN archives')
    BY <2>2, FS_AddElement DEF Names
  <2> QED
    BY <2>1, <2>2, <2>3 DEF Names
<1>3. CASE WriteZip
  <2>1. /\ pc = "zipping" /\ pc' = "prune" /\ UNCHANGED <<clock, job, since>>
        /\ DOMAIN archives' = DOMAIN archives
    BY <1>3 DEF WriteZip, past
  <2>2. \A a \in DOMAIN archives : a[1] \in Nat /\ a[1] <= clock
    BY DEF Names
  <2> QED
    BY <2>1, <2>2 DEF Names
<1>4. CASE PruneArchive
  <2>1. PICK gone \in SUBSET ToDrop :
           archives' = [a \in DOMAIN archives \ gone |-> archives[a]]
    BY <1>4 DEF PruneArchive
  <2>2. pc' = "wipe" /\ UNCHANGED <<clock, since>>
    BY <1>4 DEF PruneArchive, past
  <2>3. DOMAIN archives' \subseteq DOMAIN archives
    BY <2>1
  <2>4. IsFiniteSet(DOMAIN archives')
    BY <2>3, FS_Subset DEF Names
  <2> QED
    BY <2>2, <2>3, <2>4 DEF Names
<1>5. CASE UNCHANGED vars
  BY <1>5 DEF vars, Names
<1>6. ASSUME \/ EndWipe \/ EndEmit \/ \E part \in DOMAIN live : WipePart(part)
             \/ \E name \in Registered : Turn(name) /\ Emit(name)
             \/ OpenBundle \/ DumpBundle \/ OpenManifest \/ WriteManifest
             \/ PruneOrphans \/ Done \/ Stops \/ OpenPatch \/ Patch
      PROVE  Names'
  <2>1. UNCHANGED <<archives, clock>> /\ pc' \notin {"zip", "zipping"}
    BY <1>6 DEF EndWipe, EndEmit, WipePart, Emit, OpenBundle, DumpBundle, OpenManifest,
       WriteManifest, PruneOrphans, Done, Stops, OpenPatch, Patch
  <2>2. since' \in {since, 0}
    BY <1>6 DEF EndWipe, EndEmit, WipePart, Emit, OpenBundle, DumpBundle, OpenManifest,
       WriteManifest, PruneOrphans, Done, Stops, OpenPatch, Patch, past
  <2> QED
    BY <2>1, <2>2, NamesElsewhere
<1>7. ASSUME \/ \E targets \in SUBSET (Registered \cup Retired), noPlotly \in BOOLEAN :
                   StartRebuild(targets, noPlotly)
             \/ RebuildAgain
      PROVE  Names'
  <2>1. UNCHANGED <<archives, clock, since>> /\ pc' = "emit"
    BY <1>7 DEF StartRebuild, RebuildAgain, Replay, past
  <2> QED
    BY <2>1, NamesElsewhere
<1> QED
  BY <1>1, <1>2, <1>3, <1>4, <1>5, <1>6, <1>7 DEF Next

(* While a rebuild is under way it can be said of its run what is on disk. *)
LEMMA RebuildHeld ==
    ASSUME IInv, RebuildHolds, ~leftover, pc # "idle", job.kind = "rebuild"
    PROVE  /\ Holds(live, job.run)
           /\ Holds(live, last) => last = job.run
<1>1. /\ Readable(live.manifest) => live.manifest.run = job.run
      /\ Readable(live.bundle) => live.bundle.run = job.run
  BY DEF IInv, Rebuilding
<1>2. Readable(live.manifest) \/ Readable(live.bundle)
  BY DEF RebuildHolds
<1> QED
  BY <1>1, <1>2 DEF Holds

LEMMA ReplayHolds ==
    ASSUME IInv, NEW targets, NEW bundle, NEW again, Replay(targets, bundle, again),
           Readable(live.manifest), Readable(live.bundle)
    PROVE  /\ RebuildHolds'
           /\ live'.manifest = live.manifest /\ live'.bundle = live.bundle
           /\ pc' = "emit" /\ job'.kind = "rebuild"
<1>1. pc' = "emit" /\ job'.kind = "rebuild"
  BY DEF Replay
<1>2. live'.manifest = live.manifest /\ live'.bundle = live.bundle
  <2>1. CASE live' = [live EXCEPT !.figs = FigsWithout(targets)]
    BY <2>1, Write DEF IInv
  <2> QED
    BY <2>1 DEF Replay
<1> QED
  BY <1>1, <1>2 DEF RebuildHolds, Readable

(* What the emitters leave of the tree and of the job                      *)
LEMMA EmitLeaves ==
    ASSUME IInv, NEW name \in Registered, Emit(name)
    PROVE  /\ live'.manifest = live.manifest /\ live'.bundle = live.bundle
           /\ job'.kind = job.kind /\ job'.run = job.run
<1> DEFINE files(charts) == {<<name, c.png>> : c \in charts}
<1>1. PICK drawn \in SUBSET Drawable(name, job.data, job.plotly) :
        \E listed \in SUBSET drawn, fails \in BOOLEAN :
          LET record == IF fails THEN Record(job.run, {"failed"}, {})
                        ELSE Record(job.run, Page(name, job.data), files(listed))
          IN /\ live' = [live EXCEPT !.figs = @ \cup files(drawn)]
             /\ job' = [job EXCEPT !.todo = @ \ {name},
                           !.manifest.records = Upsert(@, name, record)]
  BY DEF Emit
<1>2. PICK listed \in SUBSET drawn, fails \in BOOLEAN :
          LET record == IF fails THEN Record(job.run, {"failed"}, {})
                        ELSE Record(job.run, Page(name, job.data), files(listed))
          IN /\ live' = [live EXCEPT !.figs = @ \cup files(drawn)]
             /\ job' = [job EXCEPT !.todo = @ \ {name},
                           !.manifest.records = Upsert(@, name, record)]
  BY <1>1
<1> DEFINE record == IF fails THEN Record(job.run, {"failed"}, {})
                     ELSE Record(job.run, Page(name, job.data), files(listed))
<1> HIDE DEF files, record
<1>3. /\ live' = [live EXCEPT !.figs = live.figs \cup files(drawn)]
      /\ job' = [job EXCEPT !.todo = @ \ {name},
                     !.manifest.records = Upsert(@, name, record)]
  BY <1>2 DEF record
<1>4. pc = "emit"
  BY DEF Emit
<1>5. /\ Named(job.manifest)
      /\ {"kind", "run", "todo", "targets", "manifest"} \subseteq DOMAIN job
  BY <1>4 DEF IInv, Job
<1>6. job'.kind = job.kind /\ job'.run = job.run
  BY <1>3, <1>5, JobAfter
<1>7. live'.manifest = live.manifest /\ live'.bundle = live.bundle
  BY <1>3, Write DEF IInv
<1> QED
  BY <1>6, <1>7

LEMMA RebuildHoldsKept ==
    ASSUME FilesAreWhole, IInv, RebuildHolds, [Next]_vars
    PROVE  RebuildHolds'
<1>1. ASSUME NEW targets, NEW noPlotly, StartRebuild(targets, noPlotly)
      PROVE  RebuildHolds'
  BY <1>1, ReplayHolds DEF StartRebuild
<1>2. CASE RebuildAgain
  <2>1. /\ pc = "again" /\ job.kind = "rebuild"
        /\ Replay(job.targets, live.bundle, FALSE)
    BY <1>2 DEF RebuildAgain, IInv, Job, PatchSteps
  <2>2. Readable(live.manifest) /\ Readable(live.bundle)
    BY <2>1 DEF RebuildHolds
  <2> QED
    BY <2>1, <2>2, ReplayHolds
<1>3. ASSUME NEW name \in Registered, Emit(name)
      PROVE  RebuildHolds'
  <2>1. pc = "emit" /\ pc' = "emit"
    BY <1>3 DEF Emit
  <2> QED
    BY <1>3, <2>1, EmitLeaves DEF RebuildHolds, Readable
<1>4. CASE EndEmit
  BY <1>4 DEF EndEmit, RebuildHolds, Readable
<1>5. CASE OpenManifest
  <2>1. pc = "manifest" /\ pc' = "write" /\ UNCHANGED job
    BY <1>5 DEF OpenManifest
  <2>2. live'.bundle = live.bundle
    BY <1>5, Write DEF OpenManifest, IInv
  <2> QED
    BY <2>1, <2>2 DEF RebuildHolds, Readable
<1>6. CASE WriteManifest
  <2>1. /\ pc = "write" /\ UNCHANGED job /\ pc' \in {"orphans", "patch", "done"}
        /\ live' = [live EXCEPT !.manifest = job.manifest]
    BY <1>6 DEF WriteManifest
  <2>2. live'.manifest = job.manifest /\ live'.bundle = live.bundle
    BY <2>1, Write DEF IInv
  <2>3. job.manifest = [run |-> job.manifest.run, records |-> job.manifest.records]
    BY <2>1 DEF IInv, Job, Named, Named
  <2>4. Readable(job.manifest)
    BY <2>3 DEF FilesAreWhole
  <2> QED
    BY <2>1, <2>2, <2>4 DEF RebuildHolds, Readable
<1>7. CASE OpenPatch
  <2>1. pc = "patch" /\ pc' = "patching" /\ UNCHANGED job
    BY <1>7 DEF OpenPatch
  <2>2. live'.manifest = live.manifest
    BY <1>7, Write DEF OpenPatch, IInv
  <2> QED
    BY <2>1, <2>2 DEF RebuildHolds, Readable
<1>8. CASE Patch
  <2>1. /\ pc = "patching" /\ UNCHANGED job
        /\ \/ live' = [live EXCEPT !.bundle = Bundled(job.run, FALSE)] /\ pc' = "again"
           \/ UNCHANGED live /\ pc' = "done"
    BY <1>8 DEF Patch
  <2>2. /\ live'.manifest = live.manifest
        /\ pc' = "again" => live'.bundle = Bundled(job.run, FALSE)
    BY <2>1, Write DEF IInv
  <2>3. Readable(Bundled(job.run, FALSE))
    BY DEF FilesAreWhole
  <2> QED
    BY <2>1, <2>2, <2>3 DEF RebuildHolds, Readable
<1>9. ASSUME NEW run \in Runs, NEW plotly \in BOOLEAN, NEW archive \in BOOLEAN,
             StartRender(run, plotly, archive)
      PROVE  RebuildHolds'
  BY <1>9 DEF StartRender, RebuildHolds
<1>10. ASSUME \/ OpenZip \/ WriteZip \/ PruneArchive \/ EndWipe
              \/ \E part \in DOMAIN live : WipePart(part)
              \/ OpenBundle \/ DumpBundle \/ PruneOrphans
       PROVE  RebuildHolds'
  <2>1. pc \in RenderSteps /\ UNCHANGED job
    BY <1>10 DEF OpenZip, WriteZip, PruneArchive, EndWipe, WipePart, OpenBundle, DumpBundle,
       PruneOrphans, RenderSteps
  <2> QED
    BY <2>1 DEF IInv, Job, RebuildHolds, RenderSteps
<1>11. CASE Done \/ Stops
  BY <1>11 DEF Done, Stops, RebuildHolds
<1>12. CASE UNCHANGED vars
  BY <1>12 DEF vars, RebuildHolds, Readable
<1> QED
  BY <1>1, <1>2, <1>3, <1>4, <1>5, <1>6, <1>7, <1>8, <1>9, <1>10, <1>11, <1>12 DEF Next

(* An archive that holds the report stays one among the newest.            *)
LEMMA ArchiveStays ==
    ASSUME Names, Names', InArchive, UNCHANGED <<archives, last>>,
           \/ pc # "zip" /\ pc' # "zip" /\ since' = since
           \/ pc # "zip" /\ pc' = "zip" /\ since' = since + 1
           \/ pc # "zip" /\ pc' # "zip" /\ since' = since + 1
           \/ pc = "zip" /\ pc' # "zip" /\ since' = since
           \/ pc = "zip" /\ pc' = "zip" /\ since' = since
    PROVE  InArchive'
<1>1. PICK a \in DOMAIN archives :
         /\ archives[a] # Torn /\ Holds(archives[a], last)
         /\ Cardinality(Newer(a)) <= Added
  BY DEF InArchive
<1>2. IsFiniteSet(DOMAIN archives) /\ since \in Nat
  BY DEF Names
<1>3. Cardinality(Newer(a)) \in Nat
  BY <1>2, NotMore DEF Newer
<1>4. Cardinality(Newer(a)) <= Added'
  BY <1>1, <1>2, <1>3 DEF Added
<1>5. Newer(a)' = Newer(a)
  BY DEF Newer
<1> QED
  BY <1>1, <1>4, <1>5 DEF InArchive, Holds

(* Opening a zip puts one more name behind the archive.                    *)
LEMMA OpenZipStays ==
    ASSUME Names, InArchive, OpenZip
    PROVE  InArchive'
<1>1. PICK a \in DOMAIN archives :
         /\ archives[a] # Torn /\ Holds(archives[a], last)
         /\ Cardinality(Newer(a)) <= Added
  BY DEF InArchive
<1>2. /\ pc = "zip" /\ pc' = "zipping" /\ UNCHANGED <<since, last, job>>
      /\ archives' = Upsert(archives, job.name, Torn)
  BY DEF OpenZip, past
<1>3. IsFiniteSet(DOMAIN archives) /\ since \in Nat /\ job.name \notin DOMAIN archives
  BY <1>2 DEF Names
<1>4. /\ DOMAIN archives' = DOMAIN archives \cup {job.name}
      /\ archives'[a] = archives[a]
  BY <1>2, <1>3 DEF Upsert
<1>5. /\ Newer(a)' \in SUBSET (Newer(a) \cup {job.name})
      /\ Newer(a) \in SUBSET DOMAIN archives
  BY <1>4 DEF Newer
<1>6. IsFiniteSet(Newer(a))
  BY <1>3, <1>5, NotMore
<1>7. /\ Cardinality(Newer(a)') <= Cardinality(Newer(a)) + 1
      /\ Cardinality(Newer(a)') \in Nat /\ Cardinality(Newer(a)) \in Nat
  BY <1>5, <1>6, AtMostOneMore
<1>8. Cardinality(Newer(a)') <= Added'
  BY <1>1, <1>2, <1>3, <1>7 DEF Added
<1> QED
  BY <1>1, <1>2, <1>4, <1>8 DEF InArchive, Holds

(* The zip that is complete is the newest.                                 *)
LEMMA WriteZipKeeps ==
    ASSUME FilesAreWhole, IInv, Names, InDirectory \/ InArchive, WriteZip
    PROVE  InArchive'
<1>1. /\ pc = "zipping" /\ pc' = "prune" /\ UNCHANGED <<since, last, clock>>
      /\ archives' = [archives EXCEPT ![job.name] = live]
  BY DEF WriteZip, past
<1>2. /\ IsFiniteSet(DOMAIN archives) /\ since \in Nat /\ since > 0 /\ clock \in Nat
      /\ job.name \in DOMAIN archives /\ archives[job.name] = Torn
      /\ job.name[1] = clock /\ job.name[2] \in Nat /\ job.name[3] \in Nat
      /\ \A b \in DOMAIN archives \ {job.name} : b[1] \in Nat /\ b[1] < clock
  BY <1>1 DEF Names
<1>3. /\ DOMAIN archives' = DOMAIN archives
      /\ archives'[job.name] = live
      /\ \A b \in DOMAIN archives \ {job.name} : archives'[b] = archives[b]
  BY <1>1, <1>2
<1>4. \A b : Newer(b)' = Newer(b)
  BY <1>3 DEF Newer
<1>5. CASE InDirectory
  <2>1. Holds(live, last)
    BY <1>5 DEF InDirectory
  <2>2. live # Torn
    BY DEF IInv, Tree, FilesAreWhole
  <2>3. PICK n : n = job.name
    OBVIOUS
  <2>4. Newer(n) = {}
    BY <1>2, <2>3 DEF Newer, SortsBefore
  <2>5. Cardinality(Newer(n)') = 0
    BY <1>4, <2>4, FS_EmptySet
  <2>6. 0 <= Added'
    BY <1>1, <1>2 DEF Added
  <2>7. n \in DOMAIN archives' /\ archives'[n] = live /\ Cardinality(Newer(n)') <= Added'
    BY <1>2, <1>3, <2>3, <2>5, <2>6
  <2> QED
    BY <1>1, <2>1, <2>2, <2>7 DEF InArchive, Holds
<1>6. CASE InArchive
  <2>1. PICK a \in DOMAIN archives :
           /\ archives[a] # Torn /\ Holds(archives[a], last)
           /\ Cardinality(Newer(a)) <= Added
    BY <1>6 DEF InArchive
  <2>2. a # job.name /\ archives'[a] = archives[a]
    BY <1>2, <1>3, <2>1
  <2>3. Added' = Added
    BY <1>1 DEF Added
  <2>4. Newer(a)' = Newer(a)
    BY <1>4
  <2> QED
    BY <1>1, <1>3, <2>1, <2>2, <2>3, <2>4 DEF InArchive, Holds
<1> QED
  BY <1>5, <1>6

(* The pruning keeps an archive that has fewer newer ones than are kept.   *)
LEMMA PruneStays ==
    ASSUME Names, since <= Keep, InArchive, PruneArchive
    PROVE  InArchive'
<1>1. PICK a \in DOMAIN archives :
         /\ archives[a] # Torn /\ Holds(archives[a], last)
         /\ Cardinality(Newer(a)) <= Added
  BY DEF InArchive
<1>2. PICK gone \in SUBSET ToDrop :
         archives' = [b \in DOMAIN archives \ gone |-> archives[b]]
  BY DEF PruneArchive
<1>3. pc = "prune" /\ pc' = "wipe" /\ UNCHANGED <<since, last>>
  BY DEF PruneArchive, past
<1>4. IsFiniteSet(DOMAIN archives) /\ since \in Nat /\ Keep \in Nat
  BY ReportsAssumption DEF Names
<1>5. IsFiniteSet(Newer(a)) /\ Cardinality(Newer(a)) \in Nat
  BY <1>4, NotMore DEF Newer
<1>6. a \notin ToDrop
  BY <1>1, <1>3, <1>4, <1>5 DEF ToDrop, Newer, Added
<1>7. a \in DOMAIN archives' /\ archives'[a] = archives[a]
  BY <1>2, <1>6
<1>8. Newer(a)' \in SUBSET Newer(a)
  BY <1>2 DEF Newer
<1>9. Cardinality(Newer(a)') <= Cardinality(Newer(a)) /\ Cardinality(Newer(a)') \in Nat
  BY <1>5, <1>8, NotMore
<1>10. Cardinality(Newer(a)') <= Added'
  BY <1>1, <1>3, <1>4, <1>5, <1>9 DEF Added
<1> QED
  BY <1>1, <1>3, <1>7, <1>10 DEF InArchive, Holds

LEMMA KeptKept ==
    ASSUME SameSecond = FALSE, FilesAreWhole, IInv, Safe, [Next]_vars,
           IInv', Names', RebuildHolds'
    PROVE  Kept'
<1>1. Names /\ RebuildHolds /\ Kept
  BY DEF Safe
<1>2. ASSUME NEW run \in Runs, NEW plotly \in BOOLEAN, NEW archive \in BOOLEAN,
             StartRender(run, plotly, archive)
      PROVE  Kept'
  <2>1. /\ pc = "idle" /\ UNCHANGED <<live, archives, last, leftover>>
        /\ since' = (IF archive THEN since + 1 ELSE Keep + 1)
        /\ pc' = (IF archive /\ live # EmptyTree THEN "zip" ELSE "wipe")
    BY <1>2 DEF StartRender
  <2>2. Keep \in Nat /\ since \in Nat
    BY <1>1, ReportsAssumption DEF Names
  <2>3. CASE ~archive
    BY <2>1, <2>2, <2>3 DEF Kept
  <2>4. ASSUME archive, last # None, since' <= Keep PROVE InDirectory' \/ InArchive'
    <3>1. InDirectory \/ InArchive
      BY <1>1, <2>1, <2>2, <2>4 DEF Kept
    <3>2. CASE InDirectory
      <4>1. Holds(live, last)
        BY <3>2 DEF InDirectory
      <4>2. live # EmptyTree
        BY <4>1 DEF Holds, Readable, EmptyTree
      <4> QED
        BY <2>1, <2>4, <3>2, <4>1, <4>2 DEF InDirectory, Holds
    <3>3. CASE InArchive
      BY <1>1, <2>1, <2>4, <3>3, ArchiveStays
    <3> QED
      BY <3>1, <3>2, <3>3
  <2> QED
    BY <2>1, <2>3, <2>4 DEF Kept
<1>3. CASE OpenZip
  <2>1. /\ pc = "zip" /\ pc' = "zipping" /\ UNCHANGED <<live, last, since, leftover>>
    BY <1>3 DEF OpenZip, past
  <2>2. InDirectory => InDirectory'
    BY <2>1 DEF InDirectory, Holds
  <2> QED
    BY <1>1, <1>3, <2>1, <2>2, OpenZipStays DEF Kept
<1>4. CASE WriteZip
  <2>1. UNCHANGED <<last, since>>
    BY <1>4 DEF WriteZip, past
  <2> QED
    BY <1>1, <1>4, <2>1, WriteZipKeeps DEF Kept
<1>5. CASE PruneArchive
  <2>1. pc = "prune" /\ UNCHANGED <<last, since>>
    BY <1>5 DEF PruneArchive, past
  <2>2. ~InDirectory
    BY <2>1 DEF InDirectory, IInv, Job, RenderSteps
  <2> QED
    BY <1>1, <1>5, <2>1, <2>2, PruneStays DEF Kept
<1>6. CASE Done /\ job.kind = "render"
  <2>1. /\ pc = "done" /\ pc' = "idle" /\ live' = live /\ last' = job.run
        /\ leftover' = leftover
    BY <1>6 DEF Done
  <2>2. /\ live.manifest = job.manifest /\ job.manifest.run = job.run /\ ~leftover
        /\ job.manifest = [run |-> job.manifest.run, records |-> job.manifest.records]
    BY <1>6, <2>1 DEF IInv, Settled, Job, Rendering, Of, Named
  <2>3. Readable(live.manifest) /\ live.manifest.run = job.run
    BY <2>2 DEF FilesAreWhole
  <2> QED
    BY <2>1, <2>2, <2>3 DEF Kept, InDirectory, Holds
<1>7. ASSUME \/ EndWipe \/ EndEmit \/ \E part \in DOMAIN live : WipePart(part)
             \/ \E name \in Registered : Turn(name) /\ Emit(name)
             \/ OpenBundle \/ DumpBundle \/ OpenManifest \/ WriteManifest
             \/ PruneOrphans \/ Stops \/ OpenPatch \/ Patch
             \/ (Done /\ job.kind # "render")
             \/ \E targets \in SUBSET (Registered \cup Retired), noPlotly \in BOOLEAN :
                   StartRebuild(targets, noPlotly)
             \/ RebuildAgain \/ UNCHANGED vars
      PROVE  Kept'
  <2>1. /\ UNCHANGED <<archives, last, since>>
        /\ pc' # "zip" \/ pc = "zip"
    BY <1>7 DEF EndWipe, EndEmit, WipePart, Emit, OpenBundle, DumpBundle, OpenManifest,
       WriteManifest, PruneOrphans, Done, Stops, OpenPatch, Patch, StartRebuild,
       RebuildAgain, Replay, vars, past
  <2>2. InArchive => InArchive'
    BY <1>1, <2>1, ArchiveStays
  <2>3. ASSUME InDirectory PROVE InDirectory'
    <3>1. Holds(live, last)
      BY <2>3 DEF InDirectory
    <3>2. ~leftover'
      <4>1. CASE EndWipe
        <5>1. pc = "wipe"
          BY <4>1 DEF EndWipe
        <5> QED
          BY <2>3, <5>1 DEF InDirectory, IInv, Job, RenderSteps
      <4>2. leftover' = leftover \/ leftover' = (leftover /\ job.kind = "rebuild") \/ EndWipe
        BY <1>7 DEF EndEmit, WipePart, Emit, OpenBundle, DumpBundle, OpenManifest,
           WriteManifest, PruneOrphans, Done, Stops, OpenPatch, Patch, StartRebuild,
           RebuildAgain, vars, past
      <4> QED
        BY <2>3, <4>1, <4>2 DEF InDirectory
    <3>3. CASE UNCHANGED <<live, pc, job>>
      BY <3>2, <2>1, <2>3, <3>3 DEF InDirectory, Holds
    <3>4. CASE Stops \/ Done
      BY <2>1, <3>1, <3>4, <3>2 DEF Stops, Done, InDirectory, Holds
    <3>5. ASSUME NEW targets, NEW noPlotly, StartRebuild(targets, noPlotly)
          PROVE  InDirectory'
      <4>1. /\ job'.kind = "rebuild"
            /\ live'.manifest = live.manifest /\ live'.bundle = live.bundle
        BY <3>5, ReplayHolds DEF StartRebuild
      <4> QED
        BY <2>1, <3>1, <3>2, <4>1 DEF InDirectory, Holds
    <3>6. ASSUME pc # "idle", job.kind = "rebuild",
                 pc' # "idle", job'.kind = "rebuild", job'.run = job.run
          PROVE  InDirectory'
      <4>1. last = job.run
        BY <1>1, <2>3, <3>1, <3>6, RebuildHeld DEF InDirectory
      <4>2. Holds(live, job.run)'
        <5>1. /\ Readable(live'.manifest) => live'.manifest.run = job'.run
              /\ Readable(live'.bundle) => live'.bundle.run = job'.run
          BY <3>6, <3>2 DEF IInv, Rebuilding, Readable
        <5>2. Readable(live'.manifest) \/ Readable(live'.bundle)
          BY <3>6 DEF RebuildHolds, Readable
        <5> QED
          BY <5>1, <5>2 DEF Holds, Readable
      <4> QED
        BY <2>1, <3>6, <3>2, <4>1, <4>2 DEF InDirectory
    <3>7. ASSUME \/ EndWipe \/ \E part \in DOMAIN live : WipePart(part)
                 \/ OpenBundle \/ DumpBundle \/ PruneOrphans
          PROVE  InDirectory'
      <4>1. pc \in RenderSteps \ {"zip", "zipping"}
        BY <3>7 DEF EndWipe, WipePart, OpenBundle, DumpBundle, PruneOrphans, RenderSteps
      <4> QED
        BY <2>3, <4>1 DEF InDirectory, IInv, Job, RenderSteps
    <3>8. ASSUME NEW name \in Registered, Emit(name) PROVE InDirectory'
      <4>1. pc = "emit" /\ pc' = "emit"
        BY <3>8 DEF Emit
      <4> QED
        BY <2>3, <3>6, <3>8, <4>1, EmitLeaves DEF InDirectory
    <3>9. CASE EndEmit \/ OpenManifest \/ WriteManifest \/ OpenPatch \/ Patch
      <4>1. /\ pc \notin {"idle", "zip", "zipping"} /\ pc' # "idle" /\ UNCHANGED job
        BY <3>9 DEF EndEmit, OpenManifest, WriteManifest, OpenPatch, Patch
      <4> QED
        BY <2>3, <3>6, <4>1 DEF InDirectory
    <3>10. CASE RebuildAgain
      <4>1. /\ pc = "again" /\ pc' = "emit"
            /\ job'.kind = "rebuild" /\ job'.run = live.bundle.run
        BY <3>10 DEF RebuildAgain, Replay
      <4>2. job.kind = "rebuild" /\ live.bundle.run = job.run
        BY <4>1 DEF IInv, Job, Rebuilding, PatchSteps
      <4> QED
        BY <3>6, <4>1, <4>2
    <3> QED
      BY <1>7, <3>3, <3>4, <3>5, <3>7, <3>8, <3>9, <3>10 DEF vars
  <2> QED
    BY <1>1, <2>1, <2>2, <2>3 DEF Kept
<1>8. CASE Next
  <2>1. CASE Done
    BY <1>6, <1>7, <2>1
  <2>2. CASE \E run \in Runs, plotly, archive \in BOOLEAN : StartRender(run, plotly, archive)
    BY <1>2, <2>2
  <2>3. CASE \/ EndWipe \/ EndEmit \/ \E part \in DOMAIN live : WipePart(part)
             \/ \E name \in Registered : Turn(name) /\ Emit(name)
             \/ OpenBundle \/ DumpBundle \/ OpenManifest \/ WriteManifest
             \/ PruneOrphans \/ Stops \/ OpenPatch \/ Patch \/ RebuildAgain
    BY <1>7, <2>3
  <2>4. CASE \E targets \in SUBSET (Registered \cup Retired), noPlotly \in BOOLEAN :
                targets # {} /\ StartRebuild(targets, noPlotly)
    BY <1>7, <2>4
  <2> QED
    BY <1>3, <1>4, <1>5, <1>8, <2>1, <2>2, <2>3, <2>4 DEF Next
<1> QED
  BY <1>7, <1>8

LEMMA InitIsSafe == FilesAreWhole /\ Init => Safe
<1> SUFFICES ASSUME FilesAreWhole, Init PROVE Safe
  OBVIOUS
<1>1. /\ pc = "idle" /\ clock = 0 /\ since = 0 /\ ~leftover
      /\ archives = [n \in {} |-> EmptyTree]
  BY DEF Init
<1>2. Names
  BY <1>1, FS_EmptySet DEF Names
<1>3. RebuildHolds
  BY <1>1 DEF RebuildHolds
<1>4. ASSUME last # None PROVE InDirectory
  <2>1. PICK run \in Runs : live = OldReport(run) /\ last = run
    BY <1>4 DEF Init
  <2>2. live.bundle = Bundled(run, TRUE)
    BY <2>1 DEF OldReport
  <2>3. Readable(live.bundle) /\ live.bundle.run = run
    BY <2>2, BundledIsWhole DEF FilesAreWhole
  <2> QED
    BY <1>1, <2>1, <2>3 DEF InDirectory, Holds
<1> QED
  BY <1>2, <1>3, <1>4 DEF Safe, Kept

(* archive_previous_report, prune_archive, wipe_payload, render and        *)
(* rebuild: however often they break off, the numbers of the last report   *)
(* that was finished are on disk.                                          *)
THEOREM LastReportIsKept ==
    ASSUME SameSecond = FALSE, FilesAreWhole
    PROVE  Spec => []LastReportSurvives
<1>1. Init => Safe
  BY InitIsSafe
<1>2. IInv /\ Safe /\ [Next]_vars /\ IInv' => Safe'
  <2> SUFFICES ASSUME IInv, Safe, [Next]_vars, IInv' PROVE Safe'
    OBVIOUS
  <2>1. Names' /\ RebuildHolds'
    BY NamesKept, RebuildHoldsKept DEF Safe
  <2> QED
    BY <2>1, KeptKept DEF Safe
<1>3. Safe => LastReportSurvives
  BY DEF Safe, Kept, InDirectory, InArchive, LastReportSurvives
<1> QED
  BY <1>1, <1>2, <1>3, InitHolds, StepKeeps, PTL DEF Spec
=============================================================================
