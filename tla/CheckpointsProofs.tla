-------------------------- MODULE CheckpointsProofs --------------------------
(***************************************************************************)
(* What a checkpoint promises, proved for any number of bars, decisions,   *)
(* processes and kept checkpoints.                                         *)
(*                                                                         *)
(* None of the three properties is inductive.  What makes them so: which   *)
(* members of the archive being written are in, all of the moment `shot';  *)
(* that every moment ever serialised fits the bars there were then; and,   *)
(* in the first life of a directory, that no file is named past n and that *)
(* the callback never writes to the name of the checkpoint last counted,   *)
(* but for the final one.                                                  *)
(***************************************************************************)
EXTENDS Checkpoints, FiniteSetTheorems, TLAPS

Phases == {"running", "opening", "saved", "over", "down"} \cup Members
Saving == {"opening", "saved"} \cup Members

(* the members written before this step of save()                          *)
Before(p) ==
    CASE p = "manifest.json" -> {}
      [] p = "pipeline.pkl"  -> {"manifest.json"}
      [] p = "broker.pkl"    -> {"manifest.json", "pipeline.pkl"}
      [] p = "saved"         -> Members

Counted ==
    /\ phase \in Phases
    /\ final \in BOOLEAN
    /\ bar \in Nat /\ n \in Nat /\ lastAt \in Nat /\ nChecks \in Nat
    /\ life \in Nat \ {0}

(* the archive being written holds what save() has added so far            *)
Writing ==
    phase \in Members \cup {"saved"} =>
        /\ target \in DOMAIN disk
        /\ DOMAIN disk[target] = Before(phase)
        /\ \A member \in Before(phase) : disk[target][member] = shot

(* a memory of bars up to b, its controller in step                        *)
Fits(m, b) ==
    /\ m \in [Parts -> SUBSET (1..b)]
    /\ \A c \in m.controller, p \in m.pending : c < p
    /\ m.controller # {} => m.pending # {}

Remembers ==
    /\ Fits(memory, bar)
    /\ phase \in Saving => Fits(shot.memory, bar)
    /\ \A f \in DOMAIN disk :
          \A member \in DOMAIN disk[f] : Fits(disk[f][member].memory, bar)

(* the first life: files are named by a count that has been reached, and a *)
(* checkpoint that is not the last one has a name of its own               *)
Named ==
    life = 1 =>
        /\ lastAt <= n
        /\ \A f \in Checkpoints : f \in Nat /\ f <= n
        /\ phase \in Saving =>
              /\ shot.n = n
              /\ target \in {n, OperatorFile}
              /\ target = OperatorFile => ~final
              /\ target # OperatorFile => final \/ n > lastAt

Kept ==
    (/\ life = 1
     /\ nChecks > 0
     /\ \/ phase = "running"
        \/ n > lastAt
        \/ (phase \in Saving /\ target = OperatorFile)) =>
        /\ Loadable(lastAt)
        /\ disk[lastAt]["manifest.json"].n = lastAt

IInv == Counted /\ Writing /\ LoadIsOneMoment /\ Remembers /\ Named /\ Kept
-----------------------------------------------------------------------------
(* Memories                                                                *)

(* What the broker closes leaves the controller where it was.              *)
LEMMA ExitedFits ==
    ASSUME NEW b \in Nat, NEW m, Fits(m, b), NEW m2 \in Exited(m)
    PROVE  Fits(m2, b)
BY DEF Fits, Exited, Parts

(* A memory fits the bars there are a bar later.                           *)
LEMMA LaterFits ==
    ASSUME NEW b \in Nat, NEW c \in Nat, b <= c, NEW m, Fits(m, b)
    PROVE  Fits(m, c)
<1>1. 1..b \subseteq 1..c
  OBVIOUS
<1> QED
  BY <1>1 DEF Fits

(* A bar that only the features see leaves the controller where it was.    *)
LEMMA FeaturedFits ==
    ASSUME NEW b \in Nat, NEW m, Fits(m, b)
    PROVE  Fits(Featured(m, b + 1), b + 1)
<1>1. Fits(m, b + 1) /\ b + 1 \in 1..(b + 1)
  BY LaterFits
<1> QED
  BY <1>1 DEF Fits, Featured, Parts

(* A bar that the controller sees moves its pending entry behind it.       *)
LEMMA DigestedFits ==
    ASSUME NEW b \in Nat, NEW m, Fits(m, b)
    PROVE  Fits(Digested(m, b + 1), b + 1)
<1> DEFINE f == Featured(m, b + 1)
           d == [f EXCEPT !.controller = @ \cup m.pending, !.pending = {b + 1}]
<1>0. Digested(m, b + 1) = d
  BY DEF Digested
<1>1. Fits(f, b + 1) /\ b + 1 \in 1..(b + 1)
  BY FeaturedFits
<1>2. f.controller = m.controller /\ m.controller \subseteq 1..b /\ m.pending \subseteq 1..b
  BY DEF Fits, Featured, Parts
<1>3. f \in [Parts -> SUBSET (1..(b + 1))] /\ m.pending \subseteq 1..(b + 1)
  BY <1>1, <1>2 DEF Fits
<1> HIDE DEF f
<1>4. /\ d \in [Parts -> SUBSET (1..(b + 1))]
      /\ d.controller = f.controller \cup m.pending
      /\ d.pending = {b + 1}
  BY <1>1, <1>3 DEF Parts
<1> HIDE DEF d
<1>5. \A c \in d.controller, p \in d.pending : c < p
  BY <1>2, <1>4
<1> QED
  BY <1>0, <1>4, <1>5 DEF Fits

(* An accepted order changes what is open, nothing else.                   *)
LEMMA OrderedFits ==
    ASSUME NEW b \in Nat \ {0}, NEW k, NEW m, Fits(m, b)
    PROVE  Fits(Ordered(m, b, k), b)
<1>1. b \in 1..b
  OBVIOUS
<1> QED
  BY <1>1 DEF Fits, Ordered, Parts

(* What load_state_dict takes back holds the controller and its entry.     *)
LEMMA RestoredFits ==
    ASSUME NEW b \in Nat, NEW m, Fits(m, b)
    PROVE  Fits(Restored(m), b)
<1>1. Saved = {"prev_close", "controller", "pending"}
  BY DEF Saved, BaseBarState, FeatureState, ForestState, LabelBufferState, ControllerState
<1> QED
  BY <1>1 DEF Fits, Restored, Parts

LEMMA BlankFits == ASSUME NEW b \in Nat PROVE Fits(Blank, b)
BY DEF Fits, Blank, Parts

-----------------------------------------------------------------------------
(* The counts                                                              *)
LEMMA Bounds ==
    /\ Every \in Nat /\ KeepLast \in Nat /\ MaxBars \in Nat
    /\ MaxPerBar \in Nat /\ MaxManual \in Nat
BY CheckpointsAssumption

LEMMA CountedStep == Counted /\ [Next]_vars => Counted'
<1> SUFFICES ASSUME Counted, [Next]_vars PROVE Counted'
  OBVIOUS
<1> USE DEF Counted, Phases, Members
<1>1. ASSUME NEW m, NEW k \in 0..MaxPerBar, Bar(k, m) PROVE Counted'
  <2>1. bar' \in Nat /\ n' \in Nat
    BY <1>1, Bounds DEF Bar, TakeBar
  <2>2. lastAt' = lastAt /\ nChecks' = nChecks /\ life' = life
    BY <1>1 DEF Bar, counters
  <2>3. phase' \in {"opening", phase} /\ final' \in {FALSE, final}
    BY <1>1 DEF Bar, Serialise, writing
  <2> QED
    BY <2>1, <2>2, <2>3
<1>2. ASSUME NEW m, SkipBar(m) PROVE Counted'
  BY <1>2 DEF SkipBar, TakeBar, counters, writing
<1>3. CASE Finish
  BY <1>3 DEF Finish, Serialise, run, counters
<1>4. CASE OperatorSaves
  BY <1>4 DEF OperatorSaves, Serialise, counters
<1>5. CASE OpenArchive
  BY <1>5 DEF OpenArchive, writing, run, counters
<1>6. CASE AddMember
  BY <1>6 DEF AddMember, After, writing, run, counters
<1>7. CASE SaveRaises
  BY <1>7 DEF SaveRaises, AfterSave, NoSave, run, counters
<1>8. CASE EndCheckpoint
  <2>1. bar' = bar /\ n' = n /\ life' = life /\ lastAt' = n /\ nChecks' = nChecks + 1
    BY <1>8 DEF EndCheckpoint, run
  <2>2. phase' \in {"over", "running"} /\ final' = FALSE
    BY <1>8 DEF EndCheckpoint, AfterSave, NoSave
  <2>3. bar' \in Nat /\ n' \in Nat /\ lastAt' \in Nat /\ nChecks' \in Nat /\ life' \in Nat \ {0}
    BY <2>1
  <2>4. phase' \in Phases /\ final' \in BOOLEAN
    BY <2>2
  <2> QED
    BY <2>3, <2>4
<1>9. CASE EndOperatorSave
  BY <1>9 DEF EndOperatorSave, NoSave, run, counters
<1>10. CASE Crash
  BY <1>10 DEF Crash, NoSave, run, counters
<1>11. ASSUME NEW u, NewProcess(u) PROVE Counted'
  BY <1>11 DEF NewProcess, writing
<1>12. CASE UNCHANGED vars
  BY <1>12 DEF vars, writing, run, counters
<1> QED
  BY <1>1, <1>2, <1>3, <1>4, <1>5, <1>6, <1>7, <1>8, <1>9, <1>10, <1>11, <1>12
     DEF Next, StartAfresh, Resume

-----------------------------------------------------------------------------
(* The archive being written                                               *)
LEMMA WritingStep == Counted /\ Writing /\ [Next]_vars => Writing'
<1> SUFFICES ASSUME Counted, Writing, [Next]_vars PROVE Writing'
  OBVIOUS
<1>1. ASSUME NEW m, NEW k \in 0..MaxPerBar, Bar(k, m) PROVE Writing'
  BY <1>1 DEF Bar, TakeBar, Serialise, Writing, Members, writing
<1>2. ASSUME NEW m, SkipBar(m) PROVE Writing'
  BY <1>2 DEF SkipBar, TakeBar, Writing, Members
<1>3. CASE Finish
  BY <1>3 DEF Finish, Serialise, Writing, Members
<1>4. CASE OperatorSaves
  BY <1>4 DEF OperatorSaves, Serialise, Writing, Members
<1>5. CASE OpenArchive
  <2>1. target' = target /\ target \in DOMAIN disk' /\ disk'[target] = Empty
    BY <1>5 DEF OpenArchive, Put, Opened, writing
  <2>2. DOMAIN Empty = {}
    BY DEF Empty
  <2>3. phase' = "manifest.json" /\ Before(phase') = {}
    BY <1>5 DEF OpenArchive, Before
  <2> QED
    BY <2>1, <2>2, <2>3 DEF Writing
<1>6. CASE AddMember
  <2>1. /\ target' = target /\ shot' = shot /\ phase' = After(phase)
        /\ phase \in Members
    BY <1>6 DEF AddMember, writing
  <2>2. /\ target \in DOMAIN disk /\ DOMAIN disk[target] = Before(phase)
        /\ \A member \in Before(phase) : disk[target][member] = shot
    BY <2>1 DEF Writing
  <2> DEFINE arch == [member \in DOMAIN disk[target] \cup {phase} |->
                        IF member = phase THEN shot ELSE disk[target][member]]
  <2>3. target \in DOMAIN disk' /\ disk'[target] = arch
    BY <1>6 DEF AddMember, Put
  <2>4. Before(After(phase)) = Before(phase) \cup {phase}
    BY <2>1 DEF Before, After, Members
  <2>5. DOMAIN arch = Before(phase) \cup {phase} /\ \A member \in DOMAIN arch : arch[member] = shot
    BY <2>2
  <2> HIDE DEF arch
  <2> QED
    BY <2>1, <2>3, <2>4, <2>5 DEF Writing
<1>7. CASE SaveRaises
  BY <1>7 DEF SaveRaises, AfterSave, Writing, Members
<1>8. CASE EndCheckpoint
  BY <1>8 DEF EndCheckpoint, AfterSave, Writing, Members
<1>9. CASE EndOperatorSave
  BY <1>9 DEF EndOperatorSave, Writing, Members
<1>10. CASE Crash
  BY <1>10 DEF Crash, Writing, Members
<1>11. ASSUME NEW u, NewProcess(u) PROVE Writing'
  BY <1>11 DEF NewProcess, Writing, Members
<1>12. CASE UNCHANGED vars
  BY <1>12 DEF vars, writing, Writing
<1> QED
  BY <1>1, <1>2, <1>3, <1>4, <1>5, <1>6, <1>7, <1>8, <1>9, <1>10, <1>11, <1>12
     DEF Next, StartAfresh, Resume

-----------------------------------------------------------------------------
(* Every action but two leaves the files as they are, and the callback     *)
(* only removes some.                                                      *)
LEMMA Files ==
    ASSUME [Next]_vars, ~OpenArchive, ~AddMember
    PROVE  /\ DOMAIN disk' \subseteq DOMAIN disk
           /\ \A f \in DOMAIN disk' : disk'[f] = disk[f]
<1>1. CASE EndCheckpoint
  BY <1>1 DEF EndCheckpoint, Prune
<1>2. CASE ~EndCheckpoint
  <2>1. disk' = disk
    BY <1>2 DEF Next, vars, Bar, TakeBar, SkipBar, Finish, OperatorSaves, SaveRaises,
                EndOperatorSave, Crash, NewProcess, StartAfresh, Resume
  <2> QED
    BY <2>1
<1> QED
  BY <1>1, <1>2

LEMMA LoadStep ==
    Counted /\ Writing /\ LoadIsOneMoment /\ [Next]_vars => LoadIsOneMoment'
<1> SUFFICES ASSUME Counted, Writing, LoadIsOneMoment, [Next]_vars,
                    NEW f \in DOMAIN disk', Loadable(f)',
                    NEW a \in Members, NEW b \in Members
             PROVE  disk'[f][a] = disk'[f][b]
  BY DEF LoadIsOneMoment
<1>1. CASE OpenArchive
  <2>1. f # target => f \in DOMAIN disk /\ disk'[f] = disk[f]
    BY <1>1 DEF OpenArchive, Put
  <2>2. disk'[target] = Empty
    BY <1>1 DEF OpenArchive, Put, Opened
  <2>3. f # target
    BY <2>2 DEF Loadable, Empty, Members
  <2> QED
    BY <2>1, <2>3 DEF LoadIsOneMoment, Loadable
<1>2. CASE AddMember
  <2>1. f # target => f \in DOMAIN disk /\ disk'[f] = disk[f]
    BY <1>2 DEF AddMember, Put
  <2>2. CASE f # target
    BY <2>1, <2>2 DEF LoadIsOneMoment, Loadable
  <2>3. CASE f = target
    <3>1. /\ target \in DOMAIN disk /\ DOMAIN disk[target] = Before(phase)
          /\ \A member \in Before(phase) : disk[target][member] = shot
      BY <1>2 DEF AddMember, Writing
    <3>2. disk'[f] = [member \in DOMAIN disk[target] \cup {phase} |->
                        IF member = phase THEN shot ELSE disk[target][member]]
      BY <1>2, <2>3 DEF AddMember, Put
    <3>3. DOMAIN disk'[f] = Before(phase) \cup {phase}
      BY <3>1, <3>2
    <3>4. a \in Before(phase) \cup {phase} /\ b \in Before(phase) \cup {phase}
      BY <3>3 DEF Loadable
    <3> QED
      BY <3>1, <3>2, <3>4
  <2> QED
    BY <2>2, <2>3
<1>3. CASE ~OpenArchive /\ ~AddMember
  BY <1>3, Files DEF LoadIsOneMoment, Loadable
<1> QED
  BY <1>1, <1>2, <1>3

-----------------------------------------------------------------------------
(* What a run and its snapshots remember                                   *)
LEMMA RemembersStep ==
    Counted /\ Writing /\ Remembers /\ [Next]_vars => Remembers'
<1> SUFFICES ASSUME Counted, Writing, Remembers, [Next]_vars PROVE Remembers'
  OBVIOUS
<1>0. bar \in Nat
  BY DEF Counted
<1>1. ASSUME NEW m \in Exited(memory), NEW k \in 0..MaxPerBar, Bar(k, m)
      PROVE  Remembers'
  <2>1. bar' = bar + 1 /\ bar' \in Nat \ {0} /\ disk' = disk
    BY <1>0, <1>1 DEF Bar, TakeBar
  <2>2. Fits(Digested(m, bar + 1), bar + 1)
    BY <1>0, ExitedFits, DigestedFits DEF Remembers
  <2>3. Fits(memory', bar')
    BY <1>1, <2>1, <2>2, OrderedFits DEF Bar
  <2>4. \A f \in DOMAIN disk' :
           \A member \in DOMAIN disk'[f] : Fits(disk'[f][member].memory, bar')
    BY <1>0, <2>1, LaterFits DEF Remembers
  <2>5. phase' \in Saving => shot'.memory = memory'
    BY <1>1 DEF Bar, TakeBar, Serialise, Saving, Members
  <2> QED
    BY <2>3, <2>4, <2>5 DEF Remembers
<1>2. ASSUME NEW m \in Exited(memory), SkipBar(m) PROVE Remembers'
  <2>1. bar' = bar + 1 /\ bar' \in Nat /\ disk' = disk /\ phase' \notin Saving
    BY <1>0, <1>2 DEF SkipBar, TakeBar, Saving, Members
  <2>2. Fits(m, bar)
    BY <1>0, ExitedFits DEF Remembers
  <2>3. Fits(memory', bar')
    BY <1>0, <1>2, <2>1, <2>2, LaterFits, FeaturedFits, DigestedFits DEF SkipBar
  <2>4. \A f \in DOMAIN disk' :
           \A member \in DOMAIN disk'[f] : Fits(disk'[f][member].memory, bar')
    BY <1>0, <2>1, LaterFits DEF Remembers
  <2> QED
    BY <2>1, <2>3, <2>4 DEF Remembers
<1>3. CASE Finish \/ OperatorSaves
  <2>1. /\ bar' = bar /\ memory' = memory /\ disk' = disk /\ shot'.memory = memory
    BY <1>3 DEF Finish, OperatorSaves, Serialise, run
  <2> QED
    BY <2>1 DEF Remembers
<1>4. CASE OpenArchive
  <2>1. bar' = bar /\ memory' = memory /\ shot' = shot /\ phase \in Saving
    BY <1>4 DEF OpenArchive, run, writing, Saving
  <2>2. ASSUME NEW f \in DOMAIN disk', NEW member \in DOMAIN disk'[f]
        PROVE  f \in DOMAIN disk /\ member \in DOMAIN disk[f] /\ disk'[f] = disk[f]
    <3>1. f = target => disk'[f] = Empty
      BY <1>4 DEF OpenArchive, Put, Opened
    <3> QED
      BY <1>4, <3>1 DEF OpenArchive, Put, Empty
  <2> QED
    BY <2>1, <2>2 DEF Remembers
<1>5. CASE AddMember
  <2>1. /\ bar' = bar /\ memory' = memory /\ shot' = shot
        /\ phase \in Members /\ phase \in Saving
    BY <1>5 DEF AddMember, run, writing, Saving
  <2>2. target \in DOMAIN disk
    BY <2>1 DEF Writing
  <2>3. ASSUME NEW f \in DOMAIN disk', NEW member \in DOMAIN disk'[f]
        PROVE  Fits(disk'[f][member].memory, bar')
    <3>1. f \in DOMAIN disk
      BY <1>5, <2>2 DEF AddMember, Put
    <3>2. CASE f # target
      BY <1>5, <2>1, <3>1, <3>2 DEF AddMember, Put, Remembers
    <3>3. CASE f = target
      <4>1. disk'[f] = [mb \in DOMAIN disk[target] \cup {phase} |->
                          IF mb = phase THEN shot ELSE disk[target][mb]]
        BY <1>5, <3>3 DEF AddMember, Put
      <4>2. \/ disk'[f][member] = shot
            \/ member \in DOMAIN disk[f] /\ disk'[f][member] = disk[f][member]
        BY <3>3, <4>1
      <4> QED
        BY <2>1, <3>1, <4>2 DEF Remembers
    <3> QED
      BY <3>2, <3>3
  <2> QED
    BY <2>1, <2>3 DEF Remembers
<1>6. CASE SaveRaises \/ EndCheckpoint \/ EndOperatorSave \/ Crash
  <2>1. bar' = bar /\ memory' = memory /\ phase' \notin Saving
    BY <1>6 DEF SaveRaises, EndCheckpoint, EndOperatorSave, Crash, AfterSave, run,
                Saving, Members
  <2>2. ~OpenArchive /\ ~AddMember
    BY <1>6, <2>1 DEF OpenArchive, AddMember, After, Saving, Members
  <2> QED
    BY <2>1, <2>2, Files DEF Remembers
<1>7. ASSUME NEW u \in BOOLEAN, StartAfresh(u) PROVE Remembers'
  <2>1. bar' = bar /\ disk' = disk /\ memory' = Blank /\ phase' \notin Saving
    BY <1>7 DEF StartAfresh, NewProcess, Saving, Members
  <2> QED
    BY <1>0, <2>1, BlankFits DEF Remembers
<1>8. ASSUME NEW u \in BOOLEAN, NEW f \in DOMAIN disk, NEW force \in BOOLEAN,
             Resume(f, force, u)
      PROVE  Remembers'
  <2>1. /\ bar' = bar /\ disk' = disk /\ phase' \notin Saving
        /\ memory' = Restored(disk[f]["pipeline.pkl"].memory)
        /\ "pipeline.pkl" \in DOMAIN disk[f]
    BY <1>8 DEF Resume, NewProcess, Saving, Loadable, Members
  <2> QED
    BY <1>0, <2>1, RestoredFits DEF Remembers
<1>9. CASE UNCHANGED vars
  BY <1>9 DEF vars, writing, run, Remembers
<1> QED
  BY <1>1, <1>2, <1>3, <1>4, <1>5, <1>6, <1>7, <1>8, <1>9 DEF Next

-----------------------------------------------------------------------------
(* The first life of a directory                                           *)
LEMMA NamedStep == Counted /\ Writing /\ Named /\ [Next]_vars => Named'
<1> SUFFICES ASSUME Counted, Writing, Named, [Next]_vars, life' = 1 PROVE Named'
  BY DEF Named
<1>0. /\ n \in Nat /\ lastAt \in Nat /\ life \in Nat \ {0}
      /\ Every \in Nat
  BY Bounds DEF Counted
<1>1. ASSUME NEW m, NEW k \in 0..MaxPerBar, Bar(k, m) PROVE Named'
  <2>1. life = 1 /\ lastAt' = lastAt /\ disk' = disk /\ n' = n + k /\ k \in Nat
    BY <1>1, Bounds DEF Bar, counters
  <2>2. lastAt' <= n' /\ \A f \in Checkpoints' : f \in Nat /\ f <= n'
    BY <1>0, <2>1 DEF Named, Checkpoints, OperatorFile
  <2>3. CASE Due(n')
    <3>1. n' > lastAt'
      BY <1>0, <2>1, <2>3 DEF Due
    <3>2. shot'.n = n' /\ target' = n' /\ final' = FALSE
      BY <1>1, <2>3 DEF Bar, Serialise
    <3>3. target' # OperatorFile
      BY <1>0, <2>1, <3>2 DEF OperatorFile
    <3> QED
      BY <2>2, <3>1, <3>2, <3>3 DEF Named
  <2>4. CASE ~Due(n')
    <3>1. phase' \notin Saving
      BY <1>1, <2>4 DEF Bar, TakeBar, Saving, Members
    <3> QED
      BY <2>2, <3>1 DEF Named
  <2> QED
    BY <2>3, <2>4
<1>2. ASSUME NEW m, SkipBar(m) PROVE Named'
  <2>1. /\ life = 1 /\ lastAt' = lastAt /\ disk' = disk /\ n' = n
        /\ phase' \notin Saving
    BY <1>2 DEF SkipBar, TakeBar, counters, Saving, Members
  <2> QED
    BY <2>1 DEF Named, Checkpoints, OperatorFile
<1>3. CASE Finish
  <2>1. /\ life = 1 /\ lastAt' = lastAt /\ disk' = disk /\ n' = n
        /\ shot'.n = n /\ target' = n /\ final' = TRUE
    BY <1>3 DEF Finish, Serialise, run, counters
  <2>2. target' # OperatorFile
    BY <1>0, <2>1 DEF OperatorFile
  <2> QED
    BY <2>1, <2>2 DEF Named, Checkpoints, OperatorFile
<1>4. CASE OperatorSaves
  <2>1. /\ life = 1 /\ lastAt' = lastAt /\ disk' = disk /\ n' = n
        /\ shot'.n = n /\ target' = OperatorFile /\ final' = FALSE
    BY <1>4 DEF OperatorSaves, Serialise, counters
  <2> QED
    BY <2>1 DEF Named, Checkpoints, OperatorFile
<1>5. CASE OpenArchive \/ AddMember
  <2>1. /\ life = 1 /\ lastAt' = lastAt /\ n' = n
        /\ shot' = shot /\ target' = target /\ final' = final
        /\ phase \in Saving
    BY <1>5 DEF OpenArchive, AddMember, run, counters, writing, Saving
  <2>2. DOMAIN disk' = DOMAIN disk \cup {target}
    BY <1>5 DEF OpenArchive, AddMember, Put
  <2>3. target \in {n, OperatorFile}
    BY <2>1 DEF Named
  <2>4. \A f \in Checkpoints' : f \in Nat /\ f <= n
    BY <1>0, <2>1, <2>2, <2>3 DEF Named, Checkpoints, OperatorFile
  <2> QED
    BY <2>1, <2>4 DEF Named, OperatorFile
<1>6. CASE SaveRaises \/ EndCheckpoint \/ EndOperatorSave \/ Crash
  <2>1. life = 1 /\ n' = n /\ lastAt' \in {lastAt, n} /\ phase' \notin Saving
    BY <1>6 DEF SaveRaises, EndCheckpoint, EndOperatorSave, Crash, AfterSave, run,
                counters, Saving, Members
  <2>2. ~OpenArchive /\ ~AddMember
    BY <1>6, <2>1 DEF OpenArchive, AddMember, After, Saving, Members
  <2>3. \A f \in Checkpoints' : f \in Checkpoints
    BY <2>2, Files DEF Checkpoints, OperatorFile
  <2> QED
    BY <1>0, <2>1, <2>3 DEF Named
<1>7. ASSUME NEW u, NewProcess(u) PROVE FALSE
  BY <1>0, <1>7 DEF NewProcess
<1>8. CASE UNCHANGED vars
  BY <1>8 DEF vars, writing, run, counters, Named, Checkpoints, OperatorFile
<1> QED
  BY <1>1, <1>2, <1>3, <1>4, <1>5, <1>6, <1>7, <1>8 DEF Next, StartAfresh, Resume

(* No checkpoint has a higher number than the one just written, so the     *)
(* callback does not prune it.                                             *)
LEMMA NewestNotSurplus ==
    ASSUME KeepLast \in Nat \ {0}, n \in Nat,
           \A f \in Checkpoints : f \in Nat /\ f <= n
    PROVE  n \notin Surplus
<1>1. {g \in Checkpoints : g > n} = {}
  OBVIOUS
<1>2. Cardinality({}) = 0
  BY FS_EmptySet
<1> QED
  BY <1>1, <1>2 DEF Surplus

LEMMA KeptStep ==
    Counted /\ Writing /\ Named /\ Kept /\ [Next]_vars => Kept'
<1> DEFINE Whole(f) == Loadable(f) /\ disk[f]["manifest.json"].n = f
<1> SUFFICES ASSUME Counted, Writing, Named, Kept, [Next]_vars,
                    life' = 1, nChecks' > 0,
                    \/ phase' = "running"
                    \/ n' > lastAt'
                    \/ (phase' \in Saving /\ target' = OperatorFile)
             PROVE  Whole(lastAt)'
  BY DEF Kept
<1>0. /\ n \in Nat /\ lastAt \in Nat /\ life \in Nat \ {0} /\ nChecks \in Nat
      /\ Every \in Nat
  BY Bounds DEF Counted
<1>1. ASSUME NEW u, NewProcess(u) PROVE FALSE
  BY <1>0, <1>1 DEF NewProcess
<1>2. ASSUME nChecks' = nChecks, lastAt' = lastAt, life' = life,
             DOMAIN disk' = DOMAIN disk, lastAt \in DOMAIN disk => disk'[lastAt] = disk[lastAt],
             \/ phase = "running"
             \/ n > lastAt
             \/ (phase \in Saving /\ target = OperatorFile)
      PROVE  Whole(lastAt)'
  BY <1>2 DEF Kept, Loadable
<1>3. ASSUME NEW m, NEW k \in 0..MaxPerBar, Bar(k, m) PROVE Whole(lastAt)'
  BY <1>2, <1>3 DEF Bar, TakeBar, counters
<1>4. ASSUME NEW m, SkipBar(m) PROVE Whole(lastAt)'
  BY <1>2, <1>4 DEF SkipBar, TakeBar, counters
<1>5. CASE Finish \/ OperatorSaves
  BY <1>2, <1>5 DEF Finish, OperatorSaves, run, counters
<1>6. CASE OpenArchive \/ AddMember
  <2>1. /\ life' = life /\ lastAt' = lastAt /\ nChecks' = nChecks /\ n' = n
        /\ target' = target /\ phase \in Saving /\ phase' # "running"
    BY <1>6 DEF OpenArchive, AddMember, After, run, counters, writing, Saving, Members
  <2>2. \/ n > lastAt
        \/ (phase \in Saving /\ target = OperatorFile)
    BY <2>1
  <2>3. target # lastAt
    BY <1>0, <2>1, <2>2 DEF Named, OperatorFile
  <2>4. Whole(lastAt)
    BY <2>1, <2>2 DEF Kept
  <2>5. lastAt \in DOMAIN disk' /\ disk'[lastAt] = disk[lastAt]
    BY <1>6, <2>3, <2>4 DEF OpenArchive, AddMember, Put, Loadable
  <2> QED
    BY <2>1, <2>4, <2>5 DEF Loadable
<1>7. CASE SaveRaises
  <2>1. /\ life' = life /\ lastAt' = lastAt /\ nChecks' = nChecks /\ n' = n
        /\ disk' = disk /\ phase \in Saving
        /\ phase' = IF final THEN "over" ELSE "running"
    BY <1>7 DEF SaveRaises, AfterSave, run, counters, Saving
  <2>2. phase' = "running" => ~final
    BY <2>1
  <2>3. \/ n > lastAt
        \/ (phase \in Saving /\ target = OperatorFile)
    BY <2>1, <2>2 DEF Named, Saving, Members
  <2> QED
    BY <1>2, <2>1, <2>3
<1>8. CASE EndCheckpoint
  <2>1. /\ life' = life /\ lastAt' = n /\ n' = n /\ phase = "saved"
        /\ target = n /\ shot.n = n
    BY <1>8 DEF EndCheckpoint, run, Named, Saving
  <2>2. /\ target \in DOMAIN disk /\ DOMAIN disk[target] = Members
        /\ disk[target]["manifest.json"].n = n
    BY <2>1 DEF Writing, Before, Members
  <2>3. target \in DOMAIN disk' /\ disk'[target] = disk[target]
    <3>1. CASE KeepLast = 0
      BY <1>8, <2>2, <3>1 DEF EndCheckpoint, Prune
    <3>2. CASE KeepLast # 0
      <4>1. target \notin Surplus
        BY <1>0, <2>1, <3>2, NewestNotSurplus, Bounds DEF Named
      <4> QED
        BY <1>8, <2>2, <3>2, <4>1 DEF EndCheckpoint, Prune
    <3> QED
      BY <3>1, <3>2
  <2> QED
    BY <2>1, <2>2, <2>3 DEF Loadable
<1>9. CASE EndOperatorSave
  BY <1>2, <1>9 DEF EndOperatorSave, run, counters, Saving
<1>10. CASE Crash
  <2>1. n' > lastAt'
    BY <1>10 DEF Crash, Saving, Members
  <2> QED
    BY <1>2, <1>10, <2>1 DEF Crash, run, counters
<1>11. CASE UNCHANGED vars
  BY <1>2, <1>11 DEF vars, writing, run, counters
<1> QED
  BY <1>1, <1>3, <1>4, <1>5, <1>6, <1>7, <1>8, <1>9, <1>10, <1>11
     DEF Next, StartAfresh, Resume

-----------------------------------------------------------------------------
LEMMA InitHolds == Init => IInv
<1> SUFFICES ASSUME Init PROVE IInv
  OBVIOUS
<1>1. Counted
  <2>1. phase \in Phases /\ final \in BOOLEAN
    BY DEF Init, Phases
  <2>2. bar = 0 /\ n = 0 /\ lastAt = 0 /\ nChecks = 0 /\ life = 1
    BY DEF Init
  <2>3. bar \in Nat /\ n \in Nat /\ lastAt \in Nat /\ nChecks \in Nat /\ life \in Nat \ {0}
    BY <2>2
  <2> QED
    BY <2>1, <2>3 DEF Counted
<1>2. Writing
  BY DEF Init, Writing, Members
<1>3. Kept
  <2>1. ~(nChecks > 0)
    BY DEF Init
  <2> QED
    BY <2>1 DEF Kept
<1>4. DOMAIN disk = {}
  BY DEF Init
<1>5. LoadIsOneMoment /\ Named
  BY <1>4 DEF Init, LoadIsOneMoment, Named, Checkpoints, Saving, Members
<1>6. Remembers
  BY <1>4, BlankFits DEF Init, Remembers, Saving, Members
<1> QED
  BY <1>1, <1>2, <1>3, <1>5, <1>6 DEF IInv

(* The inductive invariant, for every run.                                 *)
THEOREM Invariance == Spec => []IInv
<1>1. IInv /\ [Next]_vars => IInv'
  BY CountedStep, WritingStep, LoadStep, RemembersStep, NamedStep, KeptStep DEF IInv
<1> QED
  BY <1>1, InitHolds, PTL DEF Spec

(* persistence.save and load: whatever crashes, errors and saves of the    *)
(* same name came between, an archive that loads is of one moment.         *)
THEOREM LoadsOneMoment == Spec => []LoadIsOneMoment
<1>1. IInv => LoadIsOneMoment
  BY DEF IInv
<1> QED
  BY <1>1, Invariance, PTL

(* persistence.checkpoint_periodic and _prune_checkpoints: in the first    *)
(* life of a directory the checkpoint counted last is there to load.       *)
THEOREM LastSnapshotKept == Spec => []SnapshotKept
<1>1. IInv => SnapshotKept
  BY DEF IInv, Kept, SnapshotKept
<1> QED
  BY <1>1, Invariance, PTL

(* Pipeline.load_state_dict and CompositeAdaptiveStrategy.state_dict: a    *)
(* resumed controller observes each bar once and in order.                 *)
THEOREM ControllerResumes == Spec => []ControllerKeepsItsPlace
<1>1. IInv => ControllerKeepsItsPlace
  BY DEF IInv, Remembers, Fits, ControllerKeepsItsPlace
<1> QED
  BY <1>1, Invariance, PTL
=============================================================================
