------------------------ MODULE ProjectRemote_proof ------------------------
(***************************************************************************)
(* Proofs about ProjectRemote for every set of processes, commits,         *)
(* contents, versions and bounds: IInv is an invariant, and with it the    *)
(* type invariant and the safety invariants TLC checks on small instances; *)
(* then ProjectRemote implements AtomicProject, with what follows from it, *)
(* and an update of one group leaves the other group alone.                *)
(***************************************************************************)
EXTENDS ProjectRemote, TLAPS

USE ProjectStateAssumption, ProjectRemoteAssumption

-----------------------------------------------------------------------------
(* Facts about the pure definitions. *)

LEMMA DirsFact ==
    ASSUME NEW g \in Group
    PROVE  Dirs(g) \subseteq ManagedDir /\ Dirs(g) # {}
BY DEF Group, Dirs, ManagedDir

(* `for dir in dirs` always has a next directory while some are left. *)
LEMMA NextDirFact ==
    ASSUME NEW todo \in SUBSET ManagedDir, todo # {}
    PROVE  NextDir(todo) \in todo
<1>1. DirOrder[1] = "conf" /\ DirOrder[2] = "models"
      /\ DirOrder[3] = "topology" /\ DirOrder[4] = "connectors"
  BY DEF DirOrder
<1> DEFINE First(d) == \E i \in 1..4 :
                DirOrder[i] = d /\ \A j \in 1..4 : j < i => DirOrder[j] \notin todo
<1>2. \E d \in todo : First(d)
  <2>1. CASE "conf" \in todo
    <3>1. First("conf")
      BY <1>1
    <3>. QED BY <2>1, <3>1
  <2>2. CASE "conf" \notin todo /\ "models" \in todo
    <3>1. \A j \in 1..4 : j < 2 => DirOrder[j] \notin todo
      BY <1>1, <2>2
    <3>. QED BY <2>2, <1>1, <3>1
  <2>3. CASE "conf" \notin todo /\ "models" \notin todo /\ "topology" \in todo
    <3>1. \A j \in 1..4 : j < 3 => DirOrder[j] \notin todo
      BY <1>1, <2>3
    <3>. QED BY <2>3, <1>1, <3>1
  <2>4. CASE todo \cap {"conf", "models", "topology"} = {} /\ "connectors" \in todo
    <3>1. \A j \in 1..4 : j < 4 => DirOrder[j] \notin todo
      BY <1>1, <2>4
    <3>. QED BY <2>4, <1>1, <3>1
  <2>. QED BY <2>1, <2>2, <2>3, <2>4 DEF ManagedDir
<1>. QED BY <1>2 DEF NextDir

LEMMA EntryTree ==
    ASSUME NEW e \in Entry
    PROVE  Tree[e.revision] \in [ManagedDir -> Content \cup {Absent}]
BY DEF Entry

LEMMA RecordedType ==
    ASSUME NEW s \in StateFile, NEW g \in Group, NEW e \in Entry
    PROVE  Recorded(s, g, e) \in StateFile
BY DEF Recorded, StateFile

LEMMA ReplacedType ==
    ASSUME NEW image \in Image, NEW dirs,
           NEW tree \in [ManagedDir -> Content \cup {Absent}]
    PROVE  Replaced(image, tree, dirs) \in Image
BY DEF Replaced, Image, FileTree

(* Whatever is asked for, a resolved target is an entry. *)
LEMMA TargetsAreEntries ==
    ASSUME TypeOK, NEW p \in Proc
    PROVE  Targets(p) \subseteq Entry
<1> DEFINE g == job[p].group
<1>1. g \in Group /\ tags[g] \in [Version -> Commit \cup {NoCommit}]
      /\ HeadCommit[g] \in Commit
  BY DEF TypeOK, Job
<1>2. \A v \in Version : TagFor(tags[g], v) \subseteq Entry
  BY <1>1 DEF TagFor, Entry
<1>3. [version |-> HeadVersion, revision |-> HeadCommit[g]] \in Entry
  BY <1>1 DEF Entry
<1>4. \A iv, first : DefaultTarget(tags[g], HeadCommit[g], iv, first) \subseteq Entry
  BY <1>2, <1>3 DEF DefaultTarget, Latest, Released
<1>. QED BY <1>2, <1>4 DEF Targets

-----------------------------------------------------------------------------
(* How a step moves the process that takes it. *)

Points == Holding \cup {"idle", "opened"}

LEMMA StepFact ==
    ASSUME TypeOK, NEW p \in Proc, NEW next \in Points, NEW j \in Job,
           Step(p, next, j)
    PROVE  /\ pc' \in [Proc -> Points] /\ job' \in [Proc -> Job]
           /\ pc'[p] = next /\ job'[p] = j
           /\ \A q \in Proc \ {p} : pc'[q] = pc[q] /\ job'[q] = job[q]
BY DEF TypeOK, Points, Step, Goto

LEMMA GotoFact ==
    ASSUME TypeOK, NEW p \in Proc, NEW next \in Points, Goto(p, next)
    PROVE  /\ pc' \in [Proc -> Points] /\ pc'[p] = next
           /\ \A q \in Proc \ {p} : pc'[q] = pc[q]
BY DEF TypeOK, Points, Goto

LEMMA JobSnap ==
    ASSUME NEW j \in Job, NEW s \in StateFile
    PROVE  LET k == [j EXCEPT !.snap = s] IN
           /\ k \in Job /\ k.snap = s /\ k.group = j.group
BY DEF Job

(* What a job keeps whatever else a step does to it. *)
Kept(p) ==
    /\ job'[p].group = job[p].group /\ job'[p].snap = job[p].snap
    /\ job'[p].prev = job[p].prev /\ job'[p].target = job[p].target
    /\ job'[p].changed = job[p].changed

LEMMA FinishFact ==
    ASSUME TypeOK, NEW p \in Proc, NEW o \in {"ok", "failed", "rollbackFailed"},
           Finish(p, o)
    PROVE  /\ pc' \in [Proc -> Points] /\ job' \in [Proc -> Job]
           /\ pc'[p] = "release" /\ job'[p].outcome = o /\ Kept(p)
           /\ \A q \in Proc \ {p} : pc'[q] = pc[q]
<1> DEFINE j == [job[p] EXCEPT !.outcome = o]
<1>1. /\ j \in Job /\ j.outcome = o
      /\ j.group = job[p].group /\ j.snap = job[p].snap
      /\ j.prev = job[p].prev /\ j.target = job[p].target
      /\ j.changed = job[p].changed
  <2>1. job[p] \in Job
    BY DEF TypeOK
  <2>. QED BY <2>1 DEF Job
<1>2. Step(p, "release", j)
  BY DEF Finish
<1> HIDE DEF j
<1>3. "release" \in Points
  BY DEF Points, Holding
<1>. QED BY <1>1, <1>2, <1>3, StepFact DEF Kept

LEMMA UndoFact ==
    ASSUME TypeOK, NEW p \in Proc, NEW u \in {"apply", "validate", "reload"},
           Undo(p, u)
    PROVE  /\ pc' \in [Proc -> Points] /\ job' \in [Proc -> Job]
           /\ pc'[p] = "restore" /\ job'[p].undo = u /\ Kept(p)
           /\ \A q \in Proc \ {p} : pc'[q] = pc[q]
<1> DEFINE j == [job[p] EXCEPT !.undo = u]
<1>1. /\ j \in Job /\ j.undo = u
      /\ j.group = job[p].group /\ j.snap = job[p].snap
      /\ j.prev = job[p].prev /\ j.target = job[p].target
      /\ j.changed = job[p].changed
  <2>1. job[p] \in Job
    BY DEF TypeOK
  <2>. QED BY <2>1 DEF Job
<1>2. Step(p, "restore", j)
  BY DEF Undo
<1> HIDE DEF j
<1>3. "restore" \in Points
  BY DEF Points, Holding, Restoring
<1>. QED BY <1>1, <1>2, <1>3, StepFact DEF Kept

(* Control enters a loop, or a step that has none of its own. *)
LEMMA EnterFact ==
    ASSUME TypeOK, NEW p \in Proc, NEW next \in Points,
           NEW dirs \in SUBSET ManagedDir,
           Step(p, next, [job[p] EXCEPT !.todo = dirs])
    PROVE  /\ pc' \in [Proc -> Points] /\ job' \in [Proc -> Job]
           /\ pc'[p] = next /\ job'[p].todo = dirs /\ Kept(p)
           /\ \A q \in Proc \ {p} : pc'[q] = pc[q]
<1> DEFINE j == [job[p] EXCEPT !.todo = dirs]
<1>1. /\ j \in Job /\ j.todo = dirs
      /\ j.group = job[p].group /\ j.snap = job[p].snap
      /\ j.prev = job[p].prev /\ j.target = job[p].target
      /\ j.changed = job[p].changed
  <2>1. job[p] \in Job
    BY DEF TypeOK
  <2>. QED BY <2>1 DEF Job
<1>2. Step(p, next, j)
  OBVIOUS
<1> HIDE DEF j
<1>. QED BY <1>1, <1>2, StepFact DEF Kept

(* One turn of a loop did directory `d`. *)
Turned(p, d, next, dirs) ==
    /\ pc' \in [Proc -> Points] /\ job' \in [Proc -> Job] /\ Kept(p)
    /\ \A q \in Proc \ {p} : pc'[q] = pc[q]
    /\ \/ /\ job[p].todo \ {d} = {}
          /\ pc'[p] = next /\ job'[p].todo = dirs
       \/ /\ job[p].todo \ {d} # {}
          /\ pc'[p] = pc[p] /\ job'[p].todo = job[p].todo \ {d}

LEMMA LoopFact ==
    ASSUME TypeOK, NEW p \in Proc, job[p].todo # {}, NEW next \in Points,
           NEW dirs \in SUBSET ManagedDir,
           Loop(p, NextDir(job[p].todo), next, dirs)
    PROVE  \E d \in job[p].todo :
              d = NextDir(job[p].todo) /\ Turned(p, d, next, dirs)
<1>1. job[p].todo \in SUBSET ManagedDir /\ pc[p] \in Points
  BY DEF TypeOK, Job, Points
<1>2. PICK d \in job[p].todo : d = NextDir(job[p].todo)
  BY <1>1, NextDirFact
<1>3. CASE job[p].todo \ {d} = {}
  <2>1. Step(p, next, [job[p] EXCEPT !.todo = dirs])
    BY <1>2, <1>3 DEF Loop
  <2>. QED BY <1>2, <1>3, <2>1, EnterFact DEF Turned
<1>4. CASE job[p].todo \ {d} # {}
  <2>1. PICK rest \in SUBSET ManagedDir, at \in Points :
          rest = job[p].todo \ {d} /\ at = pc[p]
    BY <1>1
  <2>2. Step(p, at, [job[p] EXCEPT !.todo = rest])
    BY <1>2, <1>4, <2>1 DEF Loop
  <2>3. /\ pc' \in [Proc -> Points] /\ job' \in [Proc -> Job]
        /\ pc'[p] = at /\ job'[p].todo = rest /\ Kept(p)
        /\ \A q \in Proc \ {p} : pc'[q] = pc[q]
    BY <2>2, EnterFact
  <2>. QED BY <1>2, <1>4, <2>1, <2>3 DEF Turned
<1>. QED BY <1>3, <1>4

(* A step of the holder that keeps the lock: only its own part is at stake. *)
LEMMA HolderStep ==
    ASSUME IInv, NEW p \in Proc, pc[p] \in Holding, pc'[p] \in Holding,
           lock' = lock, TypeOK', \A q \in Proc \ {p} : pc'[q] = pc[q],
           ProcInv(p)'
    PROVE  IInv'
<1>1. lock = p /\ lock # NoProc
  BY DEF IInv, LockInv
<1>2. \A q \in Proc \ {p} : pc'[q] \notin Holding
  BY <1>1 DEF IInv, LockInv
<1>3. \A q \in Proc \ {p} : ProcInv(q)'
  <2>1. \A q \in Proc \ {p} : pc'[q] \in {"idle", "opened"}
    BY <1>2 DEF TypeOK
  <2>. QED BY <2>1 DEF ProcInv, LoopInv, MemoryInv, BackupInv, FilesInv,
              ReleaseInv, Holding, Preparing, Applying, Restoring
<1>4. LockInv'
  BY <1>1, <1>2 DEF LockInv
<1>. QED BY <1>3, <1>4 DEF IInv

(* A step of a process that is not past the lock, and stays so. *)
LEMMA OutsideStep ==
    ASSUME IInv, NEW p \in Proc, pc[p] \notin Holding,
           pc'[p] \in {"idle", "opened"}, UNCHANGED <<files, lock, history>>,
           TypeOK', \A q \in Proc \ {p} : pc'[q] = pc[q] /\ job'[q] = job[q]
    PROVE  IInv'
<1>1. LockInv'
  BY DEF IInv, LockInv, Untouched, files, history,
         Holding, Preparing, Applying, Restoring
<1>2. ProcInv(p)'
  BY DEF ProcInv, LoopInv, MemoryInv, BackupInv, FilesInv, ReleaseInv,
         Holding, Preparing, Applying, Restoring
<1>3. ASSUME NEW q \in Proc \ {p} PROVE ProcInv(q)'
  <2>1. ProcInv(q) /\ pc'[q] = pc[q] /\ job'[q] = job[q]
    BY DEF IInv
  <2>. QED BY <2>1 DEF ProcInv, LoopInv, MemoryInv, BackupInv, FilesInv,
              ReleaseInv, MyDirs, NewTree, BackupComplete, Untouched, Updated,
              StateOldOrNew, files, history
<1>. QED BY <1>1, <1>2, <1>3 DEF IInv

(* The holder leaves the lock, whatever state the files are in. *)
LEMMA LeavingStep ==
    ASSUME IInv, NEW p \in Proc, pc[p] \in Holding, pc'[p] = "idle",
           lock' = NoProc, preDisk' = disk', preState' = stateFile',
           TypeOK', \A q \in Proc \ {p} : pc'[q] = pc[q]
    PROVE  IInv'
<1>1. \A q \in Proc : pc'[q] \in {"idle", "opened"}
  <2>1. lock = p
    BY DEF IInv, LockInv
  <2>2. \A q \in Proc \ {p} : pc[q] \notin Holding
    BY <2>1 DEF IInv, LockInv
  <2>. QED BY <2>2 DEF TypeOK
<1>2. \A q \in Proc : ProcInv(q)'
  BY <1>1 DEF ProcInv, LoopInv, MemoryInv, BackupInv, FilesInv, ReleaseInv,
              Holding, Preparing, Applying, Restoring
<1>3. LockInv'
  BY <1>1 DEF LockInv, Untouched, Holding, Preparing, Applying, Restoring
<1>. QED BY <1>2, <1>3 DEF IInv

-----------------------------------------------------------------------------
(* One lemma per action: it keeps IInv. *)

THEOREM InitIInv == Init => IInv
<1> SUFFICES ASSUME Init PROVE IInv
  OBVIOUS
<1>1. NoState \in StateFile
  BY DEF NoState, StateFile
<1>2. NoJob \in Job
  BY <1>1 DEF NoJob, Job, Group
<1>3. [d \in ManagedDir |-> Absent] \in Image
  BY DEF Image, FileTree
<1>4. TypeOK
  BY <1>1, <1>2, <1>3 DEF Init, TypeOK
<1>5. LockInv
  BY DEF Init, LockInv, Untouched, Holding, Preparing, Applying, Restoring
<1>6. \A p \in Proc : ProcInv(p)
  BY DEF Init, ProcInv, LoopInv, MemoryInv, BackupInv, FilesInv, ReleaseInv,
         Holding, Preparing, Applying, Restoring
<1>. QED BY <1>4, <1>5, <1>6 DEF IInv

LEMMA BeginStep ==
    ASSUME IInv, NEW p \in Proc, Begin(p)
    PROVE  IInv'
<1>1. PICK j \in Job : Step(p, "opened", j)
  <2>1. PICK e \in {"update", "init"}, g \in Group,
             v \in Version \cup {NoVersion} :
          Step(p, "opened",
               [NoJob EXCEPT !.entry = e, !.group = g, !.version = v,
                  !.mode = IF e = "init" THEN "off" ELSE ModeOf[disk["conf"]]])
    BY DEF Begin
  <2>2. ModeOf[disk["conf"]] \in {"single", "dual", "off"}
    BY DEF IInv, TypeOK, Image, ManagedDir
  <2>3. NoJob \in Job
    BY DEF NoJob, Job, Group, NoState, StateFile
  <2>. QED BY <2>1, <2>2, <2>3 DEF Job
<1>2. /\ pc' \in [Proc -> Points] /\ job' \in [Proc -> Job]
      /\ pc'[p] = "opened" /\ \A q \in Proc \ {p} : pc'[q] = pc[q] /\ job'[q] = job[q]
  BY <1>1, StepFact DEF IInv, Points
<1>3. pc[p] = "idle" /\ UNCHANGED <<files, lock, tags, history>>
  BY DEF Begin
<1>4. TypeOK'
  BY <1>2, <1>3 DEF IInv, TypeOK, Begin, files, history, Points
<1>. QED BY <1>2, <1>3, <1>4, OutsideStep
              DEF Holding, Preparing, Applying, Restoring

LEMMA AcquireStep ==
    ASSUME IInv, NEW p \in Proc, Acquire(p)
    PROVE  IInv'
<1> USE DEF Holding, Preparing, Applying, Restoring
<1>1. /\ pc' \in [Proc -> Points] /\ pc'[p] = "locked"
      /\ \A q \in Proc \ {p} : pc'[q] = pc[q]
  BY GotoFact DEF Acquire, IInv, Points
<1>2. lock = NoProc /\ lock' = p /\ UNCHANGED <<files, tags, job, counters, damaged>>
      /\ preDisk' = disk /\ preState' = stateFile
  BY DEF Acquire
<1>3. TypeOK'
  BY <1>1, <1>2 DEF IInv, TypeOK, files, counters, Points
<1>4. \A q \in Proc \ {p} : pc'[q] \in {"idle", "opened"}
  BY <1>1, <1>2 DEF IInv, LockInv, TypeOK
<1>5. LockInv'
  BY <1>1, <1>2, <1>4 DEF LockInv
<1>6. ProcInv(p)'
  BY <1>1, <1>2 DEF ProcInv, LoopInv, MemoryInv, BackupInv, FilesInv,
                    ReleaseInv, Untouched, StateOldOrNew, files
<1>7. \A q \in Proc \ {p} : ProcInv(q)'
  BY <1>4 DEF ProcInv, LoopInv, MemoryInv, BackupInv, FilesInv, ReleaseInv
<1>. QED BY <1>3, <1>5, <1>6, <1>7 DEF IInv

LEMMA BusyStep ==
    ASSUME IInv, NEW p \in Proc, Busy(p)
    PROVE  IInv'
<1>1. NoJob \in Job
  BY DEF NoJob, Job, Group, NoState, StateFile
<1>2. /\ pc' \in [Proc -> Points] /\ job' \in [Proc -> Job] /\ pc'[p] = "idle"
      /\ \A q \in Proc \ {p} : pc'[q] = pc[q] /\ job'[q] = job[q]
  BY <1>1, StepFact DEF Busy, IInv, Points
<1>3. TypeOK'
  BY <1>2 DEF Busy, IInv, TypeOK, files, counters, history, Points
<1>. QED BY <1>2, <1>3, OutsideStep
              DEF Busy, Holding, Preparing, Applying, Restoring

LEMMA PublishStep ==
    ASSUME IInv, Publish
    PROVE  IInv'
<1>1. TypeOK'
  BY DEF Publish, IInv, TypeOK, files, history
<1>2. LockInv'
  BY DEF Publish, IInv, LockInv, Untouched, files, history
<1>3. ASSUME NEW q \in Proc PROVE ProcInv(q)'
  <2>1. ProcInv(q)
    BY DEF IInv
  <2>. QED BY <2>1 DEF Publish, ProcInv, LoopInv, MemoryInv, BackupInv,
              FilesInv, ReleaseInv, MyDirs, NewTree, BackupComplete,
              Untouched, Updated, StateOldOrNew, files, history
<1>. QED BY <1>1, <1>2, <1>3 DEF IInv

LEMMA SnapshotStep ==
    ASSUME IInv, NEW p \in Proc, Snapshot(p)
    PROVE  IInv'
<1> USE DEF Holding, Preparing, Applying, Restoring
<1> DEFINE j == [job[p] EXCEPT !.snap = stateFile]
<1>1. j \in Job /\ j.snap = stateFile
  BY JobSnap DEF IInv, TypeOK
<1>2. /\ pc' \in [Proc -> Points] /\ job' \in [Proc -> Job]
      /\ pc'[p] = "snapped" /\ job'[p] = j
      /\ \A q \in Proc \ {p} : pc'[q] = pc[q]
  BY <1>1, StepFact DEF Snapshot, IInv, Points
<1>3. pc[p] = "locked" /\ UNCHANGED <<files, lock, tags, counters, history>>
  BY DEF Snapshot
<1>4. TypeOK'
  BY <1>2, <1>3 DEF IInv, TypeOK, files, counters, history, Points
<1>5. Untouched
  BY <1>3 DEF IInv, ProcInv, FilesInv
<1>6. ProcInv(p)'
  BY <1>1, <1>2, <1>3, <1>5 DEF ProcInv, LoopInv, MemoryInv, BackupInv,
     FilesInv, ReleaseInv, Untouched, StateOldOrNew, files, history
<1>. QED BY <1>2, <1>3, <1>4, <1>6, HolderStep

LEMMA ResolveStep ==
    ASSUME IInv, NEW p \in Proc, Resolve(p)
    PROVE  IInv'
<1> USE DEF Holding, Preparing, Applying, Restoring
<1>1. PICK t \in Targets(p), diff \in BOOLEAN :
        /\ diff <=> Differs(Tree[t.revision], disk, MyDirs(p))
        /\ Step(p, IF diff THEN "clearBackup" ELSE "persist",
             [job[p] EXCEPT !.prev = stateFile, !.target = t, !.changed = diff])
  BY DEF Resolve, Differs
<1> DEFINE j == [job[p] EXCEPT !.prev = stateFile, !.target = t, !.changed = diff]
<1>2. t \in Entry
  BY TargetsAreEntries DEF IInv
<1>4. /\ j \in Job /\ j.prev = stateFile /\ j.target = t /\ j.changed = diff
      /\ j.group = job[p].group /\ j.snap = job[p].snap
  <2>1. job[p] \in Job /\ stateFile \in StateFile
    BY DEF IInv, TypeOK
  <2>. QED BY <1>2, <2>1 DEF Job
<1> HIDE DEF j
<1>5. /\ pc' \in [Proc -> Points] /\ job' \in [Proc -> Job] /\ job'[p] = j
      /\ pc'[p] = (IF diff THEN "clearBackup" ELSE "persist")
      /\ \A q \in Proc \ {p} : pc'[q] = pc[q]
  BY <1>1, <1>4, StepFact DEF IInv, Points, j
<1>6. pc[p] = "snapped" /\ UNCHANGED <<files, lock, tags, counters, history>>
  BY DEF Resolve
<1>7. TypeOK'
  BY <1>5, <1>6 DEF IInv, TypeOK, files, counters, history, Points
<1>8. Untouched /\ job[p].snap = preState
  BY <1>6 DEF IInv, ProcInv, FilesInv, MemoryInv
<1>9. MyDirs(p)' = MyDirs(p) /\ NewTree(p)' = Tree[t.revision]
  BY <1>4, <1>5 DEF MyDirs, NewTree
<1>10. ProcInv(p)'
  <2>1. LoopInv(p)' /\ MemoryInv(p)' /\ ReleaseInv(p)'
    BY <1>2, <1>4, <1>5, <1>6, <1>8
       DEF LoopInv, MemoryInv, ReleaseInv, Untouched, files, history
  <2>2. BackupInv(p)'
    BY <1>1, <1>4, <1>5, <1>6, <1>8, <1>9
       DEF BackupInv, Untouched, files, history
  <2>3. ~diff => disk = Replaced(preDisk, Tree[t.revision], MyDirs(p))
    BY <1>1, <1>8 DEF Differs, Replaced, Untouched, IInv, TypeOK, Image
  <2>4. FilesInv(p)'
    BY <1>4, <1>5, <1>6, <1>8, <1>9, <2>3
       DEF FilesInv, Untouched, StateOldOrNew, files, history
  <2>. QED BY <2>1, <2>2, <2>4 DEF ProcInv
<1>. QED BY <1>5, <1>6, <1>7, <1>10, HolderStep

LEMMA UnresolvedStep ==
    ASSUME IInv, NEW p \in Proc, Unresolved(p)
    PROVE  IInv'
<1> USE DEF Holding, Preparing, Applying, Restoring
<1>1. /\ pc' \in [Proc -> Points] /\ job' \in [Proc -> Job] /\ Kept(p)
      /\ pc'[p] = "release" /\ job'[p].outcome = "failed"
      /\ \A q \in Proc \ {p} : pc'[q] = pc[q]
  BY FinishFact DEF IInv, Unresolved
<1>2. pc[p] = "snapped" /\ UNCHANGED <<files, lock, tags, counters, history>>
  BY DEF Unresolved
<1>3. TypeOK'
  BY <1>1, <1>2 DEF IInv, TypeOK, files, counters, history, Points
<1>4. Untouched
  BY <1>2 DEF IInv, ProcInv, FilesInv
<1>5. ProcInv(p)'
  BY <1>1, <1>2, <1>4 DEF ProcInv, LoopInv, MemoryInv, BackupInv,
     FilesInv, ReleaseInv, Untouched, StateOldOrNew, files, history
<1>. QED BY <1>1, <1>2, <1>3, <1>5, HolderStep

LEMMA ClearBackupStep ==
    ASSUME IInv, NEW p \in Proc, ClearBackup(p)
    PROVE  IInv'
<1> USE DEF Holding, Preparing, Applying, Restoring
<1>1. MyDirs(p) \in SUBSET ManagedDir /\ MyDirs(p) # {}
  BY DirsFact DEF MyDirs, IInv, TypeOK, Job
<1>2. /\ pc' \in [Proc -> Points] /\ job' \in [Proc -> Job] /\ Kept(p)
      /\ pc'[p] = "copyBackup" /\ job'[p].todo = MyDirs(p)
      /\ \A q \in Proc \ {p} : pc'[q] = pc[q]
  BY <1>1, EnterFact DEF IInv, ClearBackup, Points
<1>3. /\ pc[p] = "clearBackup"
      /\ backup' = [d \in ManagedDir |-> Absent] /\ manifest' = NoManifest
      /\ UNCHANGED <<disk, stateFile, lock, tags, counters, history>>
  BY DEF ClearBackup
<1>4. TypeOK'
  BY <1>2, <1>3 DEF IInv, TypeOK, counters, history, Points, Image, FileTree
<1>5. ProcInv(p) /\ MyDirs(p)' = MyDirs(p)
  BY <1>2 DEF IInv, MyDirs, Kept
<1>6. LoopInv(p)' /\ MemoryInv(p)' /\ BackupInv(p)' /\ ReleaseInv(p)'
  BY <1>1, <1>2, <1>3, <1>5 DEF ProcInv, LoopInv, MemoryInv, BackupInv,
     ReleaseInv, Kept, history
<1>7. FilesInv(p)'
  BY <1>2, <1>3, <1>5 DEF ProcInv, FilesInv, Untouched, StateOldOrNew,
     Kept, history
<1>. QED BY <1>2, <1>3, <1>4, <1>6, <1>7, HolderStep DEF ProcInv

LEMMA CopyBackupStep ==
    ASSUME IInv, NEW p \in Proc, CopyBackup(p)
    PROVE  IInv'
<1> USE DEF Holding, Preparing, Applying, Restoring
<1>1. /\ pc[p] = "copyBackup"
      /\ Loop(p, NextDir(job[p].todo), "writeManifest", {})
      /\ backup' = [backup EXCEPT ![NextDir(job[p].todo)] =
                                                disk[NextDir(job[p].todo)]]
      /\ UNCHANGED <<disk, stateFile, manifest, lock, tags, counters, history>>
  BY DEF CopyBackup
<1>2. ProcInv(p) /\ MyDirs(p) \subseteq ManagedDir
      /\ job[p].todo \subseteq MyDirs(p) /\ job[p].todo # {}
  BY <1>1, DirsFact DEF IInv, MyDirs, TypeOK, Job, ProcInv, LoopInv
<1>3. "writeManifest" \in Points /\ {} \in SUBSET ManagedDir
  BY DEF Points
<1>4. PICK d \in job[p].todo :
        d = NextDir(job[p].todo) /\ Turned(p, d, "writeManifest", {})
  <2> HIDE DEF Holding, Preparing, Applying, Restoring
  <2>. QED BY <1>1, <1>2, <1>3, LoopFact DEF IInv
<1>5. disk = preDisk /\ stateFile = preState /\ disk \in Image
  BY <1>1, <1>2 DEF ProcInv, FilesInv, Untouched, IInv, TypeOK
<1>6. TypeOK'
  BY <1>1, <1>3, <1>2, <1>4, <1>5
     DEF Turned, IInv, TypeOK, counters, history, Points, Image
<1>7. MyDirs(p)' = MyDirs(p) /\ pc'[p] \in {"copyBackup", "writeManifest"}
  BY <1>1, <1>4 DEF Turned, MyDirs, Kept
<1>8. LoopInv(p)' /\ MemoryInv(p)' /\ ReleaseInv(p)'
  BY <1>1, <1>2, <1>3, <1>4, <1>7
     DEF Turned, ProcInv, LoopInv, MemoryInv, ReleaseInv, Kept, history
<1>9. backup' = [e \in ManagedDir |->
                    IF e \in MyDirs(p) \ (job[p].todo \ {d}) THEN preDisk[e]
                                                            ELSE Absent]
  BY <1>1, <1>2, <1>4, <1>5 DEF Turned, ProcInv, BackupInv
<1>10. BackupInv(p)'
  <2>1. job[p].changed /\ job'[p].changed /\ manifest' = NoManifest
    BY <1>1, <1>2, <1>4 DEF Turned, ProcInv, BackupInv, Kept
  <2>2. CASE pc'[p] = "writeManifest"
    <3>1. MyDirs(p) \ (job[p].todo \ {d}) = MyDirs(p)
      BY <1>1, <1>4, <2>2 DEF Turned
    <3>2. backup' = [e \in ManagedDir |->
                        IF e \in MyDirs(p) THEN preDisk[e] ELSE Absent]
      BY <1>9, <3>1
    <3>. QED BY <1>1, <1>7, <2>1, <2>2, <3>2 DEF BackupInv, history
  <2>3. CASE pc'[p] = "copyBackup"
    <3>1. job'[p].todo = job[p].todo \ {d}
      BY <1>4, <2>3 DEF Turned
    <3>. QED BY <1>1, <1>7, <1>9, <2>1, <2>3, <3>1 DEF BackupInv, history
  <2>. QED BY <1>7, <2>2, <2>3
<1>11. FilesInv(p)'
  BY <1>1, <1>5, <1>7 DEF FilesInv, Untouched, StateOldOrNew, history
<1>. QED BY <1>1, <1>4, <1>6, <1>7, <1>8, <1>10, <1>11, HolderStep DEF Turned, ProcInv

LEMMA WriteManifestStep ==
    ASSUME IInv, NEW p \in Proc, WriteManifest(p)
    PROVE  IInv'
<1> USE DEF Holding, Preparing, Applying, Restoring
<1>1. MyDirs(p) \in SUBSET ManagedDir /\ MyDirs(p) # {} /\ ProcInv(p)
  BY DirsFact DEF MyDirs, IInv, TypeOK, Job
<1>2. /\ pc' \in [Proc -> Points] /\ job' \in [Proc -> Job] /\ Kept(p)
      /\ pc'[p] = "replace" /\ job'[p].todo = MyDirs(p)
      /\ \A q \in Proc \ {p} : pc'[q] = pc[q]
  BY <1>1, EnterFact DEF IInv, WriteManifest, Points
<1>3. /\ pc[p] = "writeManifest"
      /\ manifest' = {d \in ManagedDir : backup[d] # Absent}
      /\ UNCHANGED <<disk, stateFile, backup, lock, tags, counters, history>>
  BY DEF WriteManifest
<1>4. TypeOK'
  BY <1>2, <1>3 DEF IInv, TypeOK, counters, history, Points
<1>5. MyDirs(p)' = MyDirs(p) /\ disk = preDisk /\ stateFile = preState
  BY <1>1, <1>2, <1>3 DEF MyDirs, Kept, ProcInv, FilesInv, Untouched
<1>6. manifest' = {d \in MyDirs(p) : preDisk[d] # Absent}
      /\ \A d \in manifest' : backup[d] = preDisk[d]
  BY <1>1, <1>3 DEF ProcInv, BackupInv
<1>7. LoopInv(p)' /\ MemoryInv(p)' /\ ReleaseInv(p)'
  BY <1>1, <1>2, <1>3, <1>5
     DEF ProcInv, LoopInv, MemoryInv, ReleaseInv, Kept, history
<1>8. BackupInv(p)'
  BY <1>1, <1>2, <1>3, <1>5, <1>6
     DEF ProcInv, BackupInv, BackupComplete, Kept, history
<1>9. FilesInv(p)'
  BY <1>2, <1>3, <1>5 DEF FilesInv, Untouched, StateOldOrNew, history
<1>. QED BY <1>2, <1>3, <1>4, <1>7, <1>8, <1>9, HolderStep DEF ProcInv

(* What is known of the backup does not depend on where the process is. *)
LEMMA BackupKept ==
    ASSUME NEW p \in Proc, MyDirs(p)' = MyDirs(p), BackupComplete(p),
           UNCHANGED <<backup, manifest, preDisk>>
    PROVE  BackupComplete(p)'
BY DEF BackupComplete

(* Two images that agree on every managed directory are the same. *)
LEMMA SameImage ==
    ASSUME NEW a \in Image, NEW b \in Image, \A d \in ManagedDir : a[d] = b[d]
    PROVE  a = b
BY DEF Image

LEMMA ReplaceStep ==
    ASSUME IInv, NEW p \in Proc, Replace(p)
    PROVE  IInv'
<1> USE DEF Holding, Preparing, Applying, Restoring
<1>1. /\ pc[p] = "replace" /\ Loop(p, NextDir(job[p].todo), "persist", {})
      /\ disk' = [disk EXCEPT ![NextDir(job[p].todo)] =
                                        NewTree(p)[NextDir(job[p].todo)]]
      /\ UNCHANGED <<stateFile, backup, manifest, lock, tags, counters, history>>
  BY DEF Replace
<1>2. ProcInv(p) /\ MyDirs(p) \subseteq ManagedDir
      /\ job[p].todo \subseteq MyDirs(p) /\ job[p].todo # {}
  BY <1>1, DirsFact DEF IInv, MyDirs, TypeOK, Job, ProcInv, LoopInv
<1>3. "persist" \in Points /\ {} \in SUBSET ManagedDir
  BY DEF Points
<1>4. PICK d \in job[p].todo :
        d = NextDir(job[p].todo) /\ Turned(p, d, "persist", {})
  <2> HIDE DEF Holding, Preparing, Applying, Restoring
  <2>. QED BY <1>1, <1>2, <1>3, LoopFact DEF IInv
<1>5. /\ job[p].changed /\ BackupComplete(p) /\ stateFile = preState
      /\ job[p].target \in Entry /\ disk \in Image /\ preDisk \in Image
  BY <1>1, <1>2 DEF ProcInv, BackupInv, FilesInv, MemoryInv, IInv, TypeOK
<1>6. NewTree(p) \in [ManagedDir -> Content \cup {Absent}]
  BY <1>5, EntryTree DEF NewTree
<1>7. disk' \in Image
  BY <1>1, <1>2, <1>4, <1>5, <1>6 DEF Image, FileTree
<1>8. TypeOK'
  BY <1>1, <1>4, <1>7 DEF Turned, IInv, TypeOK, counters, history, Points
<1>9. MyDirs(p)' = MyDirs(p) /\ NewTree(p)' = NewTree(p)
      /\ pc'[p] \in {"replace", "persist"}
  BY <1>1, <1>4 DEF Turned, MyDirs, NewTree, Kept
<1>10. LoopInv(p)' /\ MemoryInv(p)' /\ ReleaseInv(p)'
  BY <1>1, <1>2, <1>4, <1>5, <1>9
     DEF Turned, ProcInv, LoopInv, MemoryInv, ReleaseInv, Kept, history
<1>11. BackupInv(p)'
  <2>1. BackupComplete(p)'
    BY <1>1, <1>5, <1>9, BackupKept DEF history
  <2>2. job'[p].changed
    BY <1>4, <1>5 DEF Turned, Kept
  <2>. QED BY <1>9, <2>1, <2>2 DEF BackupInv
<1>12. \A e \in MyDirs(p) :
          disk'[e] = IF e \in job[p].todo \ {d} THEN preDisk[e] ELSE NewTree(p)[e]
  BY <1>1, <1>2, <1>4, <1>5 DEF ProcInv, FilesInv, Image
<1>13. \A e \in ManagedDir \ MyDirs(p) : disk'[e] = preDisk[e]
  BY <1>1, <1>2, <1>4, <1>5 DEF ProcInv, FilesInv, Image
<1>14. FilesInv(p)'
  <2>1. CASE pc'[p] = "replace"
    <3>1. job'[p].todo = job[p].todo \ {d}
      BY <1>4, <2>1 DEF Turned
    <3>. QED BY <1>1, <1>5, <1>9, <1>12, <1>13, <2>1, <3>1
             DEF FilesInv, StateOldOrNew, history
  <2>2. CASE pc'[p] = "persist"
    <3>1. job[p].todo \ {d} = {}
      BY <1>1, <1>4, <2>2 DEF Turned
    <3>2. disk' = Replaced(preDisk, NewTree(p), MyDirs(p))
      <4>1. Replaced(preDisk, NewTree(p), MyDirs(p)) \in Image
        BY <1>5, <1>6, ReplacedType
      <4>2. \A e \in ManagedDir :
              disk'[e] = Replaced(preDisk, NewTree(p), MyDirs(p))[e]
        BY <1>12, <1>13, <3>1 DEF Replaced
      <4>. QED BY <1>7, <4>1, <4>2, SameImage
    <3>. QED BY <1>1, <1>5, <1>9, <1>13, <2>2, <3>2
             DEF FilesInv, StateOldOrNew, history
  <2>. QED BY <1>9, <2>1, <2>2
<1>. QED BY <1>1, <1>4, <1>8, <1>9, <1>10, <1>11, <1>14, HolderStep
         DEF Turned, ProcInv

LEMMA PersistStep ==
    ASSUME IInv, NEW p \in Proc, Persist(p)
    PROVE  IInv'
<1> USE DEF Holding, Preparing, Applying, Restoring
<1>1. /\ pc[p] = "persist" /\ ~PersistRefused(stateFile, job[p].group)
      /\ stateFile' = Recorded(stateFile, job[p].group, job[p].target)
      /\ Goto(p, "validate")
      /\ UNCHANGED <<disk, backup, manifest, lock, tags, job, counters, history>>
  BY DEF Persist
<1>2. ProcInv(p)
  BY DEF IInv
<1>3. /\ pc' \in [Proc -> Points] /\ pc'[p] = "validate"
      /\ \A q \in Proc \ {p} : pc'[q] = pc[q]
  BY <1>1, GotoFact DEF IInv, Points
<1>4. stateFile = preState /\ job[p].target \in Entry
      /\ disk = Replaced(preDisk, NewTree(p), MyDirs(p))
  BY <1>1, <1>2 DEF ProcInv, FilesInv, MemoryInv
<1>5. stateFile' \in StateFile
  BY <1>1, <1>4, RecordedType DEF IInv, TypeOK, Job
<1>6. TypeOK'
  BY <1>1, <1>3, <1>5 DEF IInv, TypeOK, counters, history, Points
<1>7. MyDirs(p)' = MyDirs(p) /\ NewTree(p)' = NewTree(p)
  BY <1>1 DEF MyDirs, NewTree
<1>8. LoopInv(p)' /\ MemoryInv(p)' /\ ReleaseInv(p)'
  BY <1>1, <1>2, <1>3, <1>4
     DEF ProcInv, LoopInv, MemoryInv, ReleaseInv, history
<1>9. BackupInv(p)'
  BY <1>1, <1>2, <1>3, <1>7 DEF ProcInv, BackupInv, BackupComplete, history
<1>10. FilesInv(p)'
  BY <1>1, <1>2, <1>3, <1>4, <1>7
     DEF ProcInv, FilesInv, StateOldOrNew, Updated, history
<1>. QED BY <1>1, <1>3, <1>6, <1>8, <1>9, <1>10, HolderStep DEF ProcInv

(* An update that is to be undone starts its rollback. *)
LEMMA UndoStep ==
    ASSUME IInv, NEW p \in Proc, NEW u \in {"apply", "validate", "reload"},
           pc[p] \in Applying \cup {"validate", "hold"}, Undo(p, u),
           UNCHANGED <<files, lock, tags, counters, history>>
    PROVE  IInv'
<1> USE DEF Holding, Preparing, Applying, Restoring
<1>1. ProcInv(p)
  BY DEF IInv
<1>2. /\ pc' \in [Proc -> Points] /\ job' \in [Proc -> Job] /\ Kept(p)
      /\ pc'[p] = "restore" /\ \A q \in Proc \ {p} : pc'[q] = pc[q]
  <2> HIDE DEF Holding, Preparing, Applying, Restoring
  <2>. QED BY UndoFact DEF IInv
<1>3. TypeOK'
  BY <1>2 DEF IInv, TypeOK, files, counters, history, Points
<1>4. MyDirs(p)' = MyDirs(p) /\ NewTree(p)' = NewTree(p)
  BY <1>2 DEF MyDirs, NewTree, Kept
<1>5. LoopInv(p)' /\ MemoryInv(p)' /\ ReleaseInv(p)'
  BY <1>1, <1>2 DEF ProcInv, LoopInv, MemoryInv, ReleaseInv, Kept, history
<1>6. BackupInv(p)'
  BY <1>1, <1>2, <1>4
     DEF ProcInv, BackupInv, BackupComplete, Kept, files, history
<1>7. FilesInv(p)'
  BY <1>1, <1>2, <1>4
     DEF ProcInv, FilesInv, StateOldOrNew, Kept, files, history
<1>. QED BY <1>2, <1>3, <1>5, <1>6, <1>7, HolderStep DEF ProcInv

(* A step that leaves the files alone ends the update. *)
LEMMA FinishStep ==
    ASSUME IInv, NEW p \in Proc, pc[p] \in {"validate", "hold"},
           Finish(p, "ok"), Updated(p) /\ disk \in Loadable,
           UNCHANGED <<files, lock, tags, counters, history>>
    PROVE  IInv'
<1> USE DEF Holding, Preparing, Applying, Restoring
<1>1. ProcInv(p)
  BY DEF IInv
<1>2. /\ pc' \in [Proc -> Points] /\ job' \in [Proc -> Job] /\ Kept(p)
      /\ pc'[p] = "release" /\ job'[p].outcome = "ok"
      /\ \A q \in Proc \ {p} : pc'[q] = pc[q]
  <2> HIDE DEF Holding, Preparing, Applying, Restoring
  <2>. QED BY FinishFact DEF IInv
<1>3. TypeOK'
  BY <1>2 DEF IInv, TypeOK, files, counters, history, Points
<1>4. MyDirs(p)' = MyDirs(p) /\ NewTree(p)' = NewTree(p)
  BY <1>2 DEF MyDirs, NewTree, Kept
<1>5. LoopInv(p)' /\ MemoryInv(p)' /\ BackupInv(p)'
  BY <1>1, <1>2 DEF ProcInv, LoopInv, MemoryInv, BackupInv, Kept
<1>6. FilesInv(p)'
  BY <1>1, <1>2, <1>4
     DEF ProcInv, FilesInv, StateOldOrNew, Kept, files, history
<1>7. ReleaseInv(p)'
  <2>1. disk # preDisk => BackupComplete(p)
    BY <1>1 DEF ProcInv, BackupInv
  <2>2. job[p].target \in Entry
    BY <1>1 DEF ProcInv, MemoryInv
  <2>. QED BY <1>2, <1>4, <2>1, <2>2
           DEF ReleaseInv, BackupComplete, Updated, Kept, files, history
<1>. QED BY <1>2, <1>3, <1>5, <1>6, <1>7, HolderStep DEF ProcInv

LEMMA RefusePersistStep ==
    ASSUME IInv, NEW p \in Proc, RefusePersist(p)
    PROVE  IInv'
BY UndoStep DEF RefusePersist, Applying

LEMMA RejectContentStep ==
    ASSUME IInv, NEW p \in Proc, RejectContent(p)
    PROVE  IInv'
BY UndoStep DEF RejectContent, Applying

LEMMA KeepContentStep ==
    ASSUME IInv, NEW p \in Proc, KeepContent(p)
    PROVE  IInv'
<1>1. Updated(p) /\ disk \in Loadable
  BY DEF IInv, ProcInv, FilesInv, KeepContent
<1>. QED BY <1>1, FinishStep DEF KeepContent

LEMMA ValidateStep ==
    ASSUME IInv, NEW p \in Proc, Validate(p)
    PROVE  IInv'
<1>1. pc[p] = "validate" /\ Updated(p)
      /\ UNCHANGED <<files, lock, tags, counters, history>>
  BY DEF IInv, ProcInv, FilesInv, Validate
<1>2. CASE disk \notin Loadable
  <2>1. Undo(p, "validate")
    BY <1>2 DEF Validate
  <2>. QED BY <1>1, <2>1, UndoStep DEF Applying
<1>3. CASE disk \in Loadable /\ p \notin Daemon
  <2>1. Finish(p, "ok")
    BY <1>3 DEF Validate
  <2>. QED BY <1>1, <1>3, <2>1, FinishStep
<1>4. CASE disk \in Loadable /\ p \in Daemon
  <2> USE DEF Holding, Preparing, Applying, Restoring
  <2>1. Goto(p, "hold") /\ job' = job /\ ProcInv(p)
    BY <1>4 DEF Validate, IInv
  <2>2. /\ pc' \in [Proc -> Points] /\ pc'[p] = "hold"
        /\ \A q \in Proc \ {p} : pc'[q] = pc[q]
    BY <2>1, GotoFact DEF IInv, Points
  <2>3. TypeOK'
    BY <1>1, <2>1, <2>2 DEF IInv, TypeOK, files, counters, history, Points
  <2>4. ProcInv(p)'
    BY <1>1, <1>4, <2>1, <2>2
       DEF ProcInv, LoopInv, MemoryInv, BackupInv, FilesInv, ReleaseInv,
           BackupComplete, StateOldOrNew, Updated, MyDirs, NewTree,
           files, history
  <2>. QED BY <1>1, <2>2, <2>3, <2>4, HolderStep
<1>. QED BY <1>2, <1>3, <1>4

LEMMA RestoreStep ==
    ASSUME IInv, NEW p \in Proc, Restore(p)
    PROVE  IInv'
<1> USE DEF Holding, Preparing, Applying, Restoring
<1>1. pc[p] = "restore" /\ UNCHANGED <<files, lock, tags, counters, history>>
      /\ ProcInv(p)
  BY DEF Restore, IInv
<1>2. job[p].changed => /\ BackupComplete(p) /\ manifest \subseteq MyDirs(p)
                        /\ manifest # NoManifest /\ manifest # TornManifest
  <2>1. job[p].changed => BackupComplete(p)
    BY <1>1 DEF ProcInv, BackupInv
  <2>2. {d \in MyDirs(p) : preDisk[d] # Absent} \in SUBSET ManagedDir
    BY DirsFact DEF MyDirs, IInv, TypeOK, Job
  <2>. QED BY <2>1, <2>2 DEF BackupComplete
<1>3. CASE ~job[p].changed
  <2>1. Goto(p, "restoreState") /\ job' = job
    BY <1>3 DEF Restore
  <2>2. /\ pc' \in [Proc -> Points] /\ pc'[p] = "restoreState"
        /\ \A q \in Proc \ {p} : pc'[q] = pc[q]
    BY <2>1, GotoFact DEF IInv, Points
  <2>3. TypeOK'
    BY <1>1, <2>1, <2>2 DEF IInv, TypeOK, files, counters, history, Points
  <2>4. ProcInv(p)'
    BY <1>1, <1>3, <2>1, <2>2
       DEF ProcInv, LoopInv, MemoryInv, BackupInv, FilesInv, ReleaseInv,
           StateOldOrNew, MyDirs, NewTree, files, history
  <2>. QED BY <1>1, <2>2, <2>3, <2>4, HolderStep
<1>4. CASE job[p].changed
  <2>1. Step(p, "clear", [job[p] EXCEPT !.todo = MyDirs(p)])
    BY <1>2, <1>4 DEF Restore
  <2>2. MyDirs(p) \in SUBSET ManagedDir /\ MyDirs(p) # {} /\ "clear" \in Points
    BY DirsFact DEF MyDirs, IInv, TypeOK, Job, Points
  <2>3. /\ pc' \in [Proc -> Points] /\ job' \in [Proc -> Job] /\ Kept(p)
        /\ pc'[p] = "clear" /\ job'[p].todo = MyDirs(p)
        /\ \A q \in Proc \ {p} : pc'[q] = pc[q]
    <3> HIDE DEF Holding, Preparing, Applying, Restoring
    <3>. QED BY <2>1, <2>2, EnterFact DEF IInv
  <2>4. TypeOK'
    BY <1>1, <2>3 DEF IInv, TypeOK, files, counters, history, Points
  <2>5. MyDirs(p)' = MyDirs(p) /\ NewTree(p)' = NewTree(p)
    BY <2>3 DEF MyDirs, NewTree, Kept
  <2>6. LoopInv(p)' /\ MemoryInv(p)' /\ ReleaseInv(p)'
    BY <1>1, <2>2, <2>3, <2>5
       DEF ProcInv, LoopInv, MemoryInv, ReleaseInv, Kept, history
  <2>7. BackupInv(p)'
    BY <1>1, <1>4, <2>3, <2>5
       DEF ProcInv, BackupInv, BackupComplete, Kept, files, history
  <2>8. FilesInv(p)'
    BY <1>1, <2>3, <2>5
       DEF ProcInv, FilesInv, StateOldOrNew, Kept, files, history
  <2>. QED BY <1>1, <2>3, <2>4, <2>6, <2>7, <2>8, HolderStep DEF ProcInv
<1>. QED BY <1>3, <1>4

LEMMA ClearDirStep ==
    ASSUME IInv, NEW p \in Proc, ClearDir(p)
    PROVE  IInv'
<1> USE DEF Holding, Preparing, Applying, Restoring
<1> DEFINE next == IF manifest = {} THEN "restoreState" ELSE "copyBack"
<1>1. /\ pc[p] = "clear" /\ Loop(p, NextDir(job[p].todo), next, manifest)
      /\ disk' = [disk EXCEPT ![NextDir(job[p].todo)] = Absent]
      /\ UNCHANGED <<stateFile, backup, manifest, lock, tags, counters, history>>
  BY DEF ClearDir
<1>2. ProcInv(p) /\ MyDirs(p) \subseteq ManagedDir
      /\ job[p].todo \subseteq MyDirs(p) /\ job[p].todo # {}
  BY <1>1, DirsFact DEF IInv, MyDirs, TypeOK, Job, ProcInv, LoopInv
<1>3. /\ job[p].changed /\ BackupComplete(p)
      /\ disk \in Image /\ preDisk \in Image
      /\ manifest = {d \in MyDirs(p) : preDisk[d] # Absent}
  BY <1>1, <1>2 DEF ProcInv, BackupInv, BackupComplete, IInv, TypeOK
<1>4. PICK after \in Points, dirs \in SUBSET ManagedDir :
        after = next /\ dirs = manifest
  BY <1>2, <1>3 DEF Points
<1> HIDE DEF next
<1>5. PICK d \in job[p].todo :
        d = NextDir(job[p].todo) /\ Turned(p, d, after, dirs)
  <2> HIDE DEF Holding, Preparing, Applying, Restoring
  <2>. QED BY <1>1, <1>2, <1>4, LoopFact DEF IInv
<1>6. disk' \in Image
  BY <1>1, <1>2, <1>3, <1>5 DEF Image, FileTree
<1>7. TypeOK'
  BY <1>1, <1>5, <1>6 DEF Turned, IInv, TypeOK, counters, history, Points
<1>8. MyDirs(p)' = MyDirs(p) /\ NewTree(p)' = NewTree(p)
  BY <1>5 DEF Turned, MyDirs, NewTree, Kept
<1>9. pc'[p] \in {"clear", "copyBack", "restoreState"}
  BY <1>1, <1>4, <1>5 DEF Turned, next
<1>10. pc'[p] = "copyBack" => manifest # {} /\ job'[p].todo = manifest
  BY <1>1, <1>4, <1>5 DEF Turned, next
<1>11. pc'[p] = "clear" => job'[p].todo = job[p].todo \ {d}
                           /\ job'[p].todo # {}
  BY <1>1, <1>4, <1>5 DEF Turned, next
<1>12. pc'[p] # "clear" => job[p].todo \ {d} = {}
  BY <1>1, <1>5 DEF Turned
<1>13. pc'[p] = "restoreState" => manifest = {}
  BY <1>1, <1>4, <1>5 DEF Turned, next
<1>14. LoopInv(p)' /\ MemoryInv(p)' /\ ReleaseInv(p)'
  <2>1. MemoryInv(p)' /\ ReleaseInv(p)'
    BY <1>1, <1>2, <1>5, <1>9
       DEF Turned, ProcInv, MemoryInv, ReleaseInv, Kept, history
  <2>2. LoopInv(p)'
    BY <1>2, <1>3, <1>8, <1>9, <1>10, <1>11 DEF LoopInv
  <2>. QED BY <2>1, <2>2
<1>15. BackupInv(p)'
  <2>1. BackupComplete(p)' /\ job'[p].changed
    BY <1>1, <1>3, <1>5, <1>8, BackupKept DEF Turned, Kept, history
  <2>. QED BY <1>9, <2>1 DEF BackupInv
<1>16. \A e \in MyDirs(p) \ (job[p].todo \ {d}) : disk'[e] = Absent
  BY <1>1, <1>2, <1>3, <1>5 DEF ProcInv, FilesInv, Image
<1>17. \A e \in ManagedDir \ MyDirs(p) : disk'[e] = preDisk[e]
  BY <1>1, <1>2, <1>3, <1>5 DEF ProcInv, FilesInv, Image
<1>18. StateOldOrNew(p)'
  BY <1>1, <1>2, <1>5 DEF Turned, ProcInv, FilesInv, StateOldOrNew, Kept, history
<1>19. FilesInv(p)'
  <2>1. CASE pc'[p] = "clear"
    BY <1>1, <1>8, <1>11, <1>16, <1>17, <1>18, <2>1 DEF FilesInv, history
  <2>2. CASE pc'[p] = "copyBack"
    <3>1. \A e \in MyDirs(p) \ manifest : disk'[e] = preDisk[e]
      BY <1>3, <1>12, <1>16, <2>2
    <3>2. job'[p].todo = manifest /\ manifest' = manifest
      BY <1>1, <1>10, <2>2
    <3>. QED BY <1>1, <1>8, <1>17, <1>18, <2>2, <3>1, <3>2
             DEF FilesInv, history
  <2>3. CASE pc'[p] = "restoreState"
    <3>1. \A e \in ManagedDir : disk'[e] = preDisk[e]
      BY <1>3, <1>12, <1>13, <1>16, <1>17, <2>3
    <3>2. disk' = preDisk
      BY <1>3, <1>6, <3>1, SameImage
    <3>. QED BY <1>1, <1>8, <1>17, <1>18, <2>3, <3>2 DEF FilesInv, history
  <2>. QED BY <1>9, <2>1, <2>2, <2>3
<1>. QED BY <1>1, <1>5, <1>7, <1>9, <1>14, <1>15, <1>19, HolderStep
         DEF Turned, ProcInv

LEMMA CopyBackStep ==
    ASSUME IInv, NEW p \in Proc, CopyBack(p)
    PROVE  IInv'
<1> USE DEF Holding, Preparing, Applying, Restoring
<1>1. pc[p] = "copyBack"
      /\ UNCHANGED <<stateFile, backup, manifest, lock, tags, counters, history>>
  BY DEF CopyBack
<1>2. ProcInv(p) /\ MyDirs(p) \subseteq ManagedDir
      /\ job[p].todo \subseteq MyDirs(p) /\ job[p].todo # {}
  BY <1>1, DirsFact DEF IInv, MyDirs, TypeOK, Job, ProcInv, LoopInv
<1>3. /\ job[p].changed /\ BackupComplete(p) /\ job[p].todo \subseteq manifest
      /\ disk \in Image /\ preDisk \in Image
  BY <1>1, <1>2 DEF ProcInv, BackupInv, FilesInv, IInv, TypeOK
<1>4. \A d \in job[p].todo : backup[d] = preDisk[d] /\ backup[d] # Absent
  BY <1>3 DEF BackupComplete
<1>5. NextDir(job[p].todo) \in job[p].todo
  BY <1>2, NextDirFact
<1>6. /\ disk' = [disk EXCEPT ![NextDir(job[p].todo)] =
                                        backup[NextDir(job[p].todo)]]
      /\ Loop(p, NextDir(job[p].todo), "restoreState", {})
  BY <1>4, <1>5 DEF CopyBack
<1>7. "restoreState" \in Points /\ {} \in SUBSET ManagedDir
  BY DEF Points
<1>8. PICK d \in job[p].todo :
        d = NextDir(job[p].todo) /\ Turned(p, d, "restoreState", {})
  <2> HIDE DEF Holding, Preparing, Applying, Restoring
  <2>. QED BY <1>2, <1>6, <1>7, LoopFact DEF IInv
<1>9. disk' \in Image
  BY <1>2, <1>3, <1>4, <1>6, <1>8 DEF Image
<1>10. TypeOK'
  BY <1>1, <1>8, <1>9 DEF Turned, IInv, TypeOK, counters, history, Points
<1>11. MyDirs(p)' = MyDirs(p) /\ NewTree(p)' = NewTree(p)
       /\ pc'[p] \in {"copyBack", "restoreState"}
  BY <1>1, <1>8 DEF Turned, MyDirs, NewTree, Kept
<1>12. LoopInv(p)' /\ MemoryInv(p)' /\ ReleaseInv(p)'
  BY <1>1, <1>2, <1>8, <1>11
     DEF Turned, ProcInv, LoopInv, MemoryInv, ReleaseInv, Kept, history
<1>13. BackupInv(p)'
  <2>1. BackupComplete(p)' /\ job'[p].changed
    BY <1>1, <1>3, <1>8, <1>11, BackupKept DEF Turned, Kept, history
  <2>. QED BY <1>11, <2>1 DEF BackupInv
<1>14. \A e \in ManagedDir \ (job[p].todo \ {d}) : disk'[e] = preDisk[e]
  BY <1>1, <1>2, <1>3, <1>4, <1>6, <1>8 DEF ProcInv, FilesInv, Image
<1>15. StateOldOrNew(p)'
  BY <1>1, <1>2, <1>8 DEF Turned, ProcInv, FilesInv, StateOldOrNew, Kept, history
<1>16. FilesInv(p)'
  <2>1. CASE pc'[p] = "copyBack"
    <3>1. job'[p].todo = job[p].todo \ {d}
      BY <1>8, <2>1 DEF Turned
    <3>. QED BY <1>1, <1>2, <1>3, <1>11, <1>14, <1>15, <2>1, <3>1
             DEF FilesInv, history
  <2>2. CASE pc'[p] = "restoreState"
    <3>1. job[p].todo \ {d} = {}
      BY <1>1, <1>8, <2>2 DEF Turned
    <3>2. disk' = preDisk
      BY <1>3, <1>9, <1>14, <3>1, SameImage
    <3>. QED BY <1>1, <1>11, <1>15, <2>2, <3>2 DEF FilesInv, history
  <2>. QED BY <1>11, <2>1, <2>2
<1>. QED BY <1>1, <1>8, <1>10, <1>11, <1>12, <1>13, <1>16, HolderStep
         DEF Turned, ProcInv

LEMMA RestoreStateStep ==
    ASSUME IInv, NEW p \in Proc, RestoreState(p)
    PROVE  IInv'
<1> USE DEF Holding, Preparing, Applying, Restoring
<1>1. /\ pc[p] = "restoreState" /\ Finish(p, "failed") /\ ProcInv(p)
      /\ UNCHANGED <<disk, backup, manifest, lock, tags, counters, history>>
  BY DEF RestoreState, IInv
<1>2. /\ pc' \in [Proc -> Points] /\ job' \in [Proc -> Job] /\ Kept(p)
      /\ pc'[p] = "release" /\ job'[p].outcome = "failed"
      /\ \A q \in Proc \ {p} : pc'[q] = pc[q]
  <2> HIDE DEF Holding, Preparing, Applying, Restoring
  <2>. QED BY <1>1, FinishFact DEF IInv
<1>3. stateFile' = preState /\ disk = preDisk
  BY <1>1 DEF RestoreState, ProcInv, MemoryInv, FilesInv
<1>4. TypeOK'
  BY <1>1, <1>2, <1>3 DEF IInv, TypeOK, counters, history, Points
<1>5. ProcInv(p)'
  BY <1>1, <1>2, <1>3
     DEF ProcInv, LoopInv, MemoryInv, BackupInv, FilesInv, ReleaseInv,
         Untouched, StateOldOrNew, history
<1>. QED BY <1>1, <1>2, <1>4, <1>5, HolderStep

LEMMA ReleaseStep ==
    ASSUME IInv, NEW p \in Proc, Release(p)
    PROVE  IInv'
<1>1. NoJob \in Job /\ "idle" \in Points
  BY DEF NoJob, Job, Group, NoState, StateFile, Points
<1>2. /\ pc' \in [Proc -> Points] /\ job' \in [Proc -> Job] /\ pc'[p] = "idle"
      /\ \A q \in Proc \ {p} : pc'[q] = pc[q]
  BY <1>1, StepFact DEF Release, IInv
<1>3. pc[p] = "release" /\ lock' = NoProc /\ preDisk' = disk
      /\ preState' = stateFile /\ UNCHANGED <<files, tags, counters>>
  BY DEF Release
<1>4. damaged' \subseteq ManagedDir
  <2>1. MyDirs(p) \subseteq ManagedDir /\ damaged \subseteq ManagedDir
    BY DirsFact DEF MyDirs, IInv, TypeOK, Job
  <2>. QED BY <2>1 DEF Release
<1>5. TypeOK'
  BY <1>2, <1>3, <1>4 DEF IInv, TypeOK, files, counters, Points
<1>. QED BY <1>2, <1>3, <1>5, LeavingStep DEF files, Holding

(* What a step that is cut short can have done to the files. *)
LEMMA InterruptedFact ==
    ASSUME IInv, NEW p \in Proc, UNCHANGED files \/ Interrupted(p)
    PROVE  /\ disk' \in Image /\ backup' \in Image /\ stateFile' = stateFile
           /\ manifest' \in (SUBSET ManagedDir) \cup {NoManifest, TornManifest}
           /\ \A d \in ManagedDir \ MyDirs(p) : disk'[d] = disk[d]
           /\ pc[p] \notin {"replace", "clear", "copyBack"} => disk' = disk
           /\ pc[p] \notin Preparing => backup' = backup /\ manifest' = manifest
<1> USE DEF Preparing
<1>1. /\ disk \in Image /\ backup \in Image
      /\ manifest \in (SUBSET ManagedDir) \cup {NoManifest, TornManifest}
  BY DEF IInv, TypeOK
<1>2. CASE UNCHANGED files
  BY <1>1, <1>2 DEF files
<1>3. CASE Interrupted(p)
  <2>1. pc[p] \in {"copyBackup", "replace", "clear", "copyBack"} =>
          NextDir(job[p].todo) \in MyDirs(p)
    <3>1. job[p].todo \in SUBSET ManagedDir
      BY DEF IInv, TypeOK, Job
    <3>2. pc[p] \in {"copyBackup", "replace", "clear", "copyBack"} =>
            job[p].todo # {} /\ job[p].todo \subseteq MyDirs(p)
      BY DEF IInv, ProcInv, LoopInv
    <3>. QED BY <3>1, <3>2, NextDirFact
  <2>2. MyDirs(p) \subseteq ManagedDir
    BY DirsFact DEF MyDirs, IInv, TypeOK, Job
  <2>3. CASE pc[p] = "clearBackup"
    BY <1>1, <1>3, <2>3 DEF Interrupted, Image, FileTree
  <2>4. CASE pc[p] = "copyBackup"
    BY <1>1, <1>3, <2>1, <2>2, <2>4 DEF Interrupted, Image, FileTree
  <2>5. CASE pc[p] = "writeManifest"
    BY <1>1, <1>3, <2>5 DEF Interrupted
  <2>6. CASE pc[p] = "replace"
    BY <1>1, <1>3, <2>1, <2>2, <2>6 DEF Interrupted, Image, FileTree
  <2>7. CASE pc[p] \in {"clear", "copyBack"}
    BY <1>1, <1>3, <2>1, <2>2, <2>7 DEF Interrupted, Image, FileTree
  <2>. QED BY <1>3, <2>3, <2>4, <2>5, <2>6, <2>7 DEF Interrupted
<1>. QED BY <1>2, <1>3

LEMMA IOErrorStep ==
    ASSUME IInv, NEW p \in Proc, IOError(p)
    PROVE  IInv'
<1> USE DEF Holding, Preparing, Applying, Restoring
<1>1. /\ disk' \in Image /\ backup' \in Image /\ stateFile' = stateFile
      /\ manifest' \in (SUBSET ManagedDir) \cup {NoManifest, TornManifest}
      /\ \A d \in ManagedDir \ MyDirs(p) : disk'[d] = disk[d]
      /\ pc[p] \notin {"replace", "clear", "copyBack"} => disk' = disk
      /\ pc[p] \notin Preparing => backup' = backup /\ manifest' = manifest
  <2> HIDE DEF Holding, Preparing, Applying, Restoring
  <2>. QED BY InterruptedFact DEF IOError
<1>2. /\ UNCHANGED <<lock, tags, runs, crashes, publishes, history>>
      /\ faults' = faults + 1 /\ ProcInv(p)
  BY DEF IOError, IInv
<1>3. MaxFaults > 0
  <2>1. faults \in Nat /\ faults < MaxFaults
    BY DEF IOError, IInv, TypeOK
  <2>. QED BY <2>1
<1>4. ASSUME pc[p] \in Preparing \cup Restoring,
             NEW o \in {"failed", "rollbackFailed"}, Finish(p, o),
             pc[p] \in Preparing <=> o = "failed"
      PROVE  IInv'
  <2>1. /\ pc' \in [Proc -> Points] /\ job' \in [Proc -> Job] /\ Kept(p)
        /\ pc'[p] = "release" /\ job'[p].outcome = o
        /\ \A q \in Proc \ {p} : pc'[q] = pc[q]
    <3> HIDE DEF Holding, Preparing, Applying, Restoring
    <3>. QED BY <1>4, FinishFact DEF IInv
  <2>2. TypeOK'
    BY <1>1, <1>2, <2>1 DEF IInv, TypeOK, history, Points
  <2>3. MyDirs(p)' = MyDirs(p)
    BY <2>1 DEF MyDirs, Kept
  <2>4. LoopInv(p)' /\ MemoryInv(p)' /\ BackupInv(p)'
    BY <1>4, <2>1 DEF LoopInv, MemoryInv, BackupInv
  <2>5. FilesInv(p)'
    BY <1>1, <1>2, <1>4, <2>1, <2>3
       DEF ProcInv, FilesInv, StateOldOrNew, Kept, history
  <2>6. ReleaseInv(p)'
    <3>1. CASE pc[p] \in Preparing
      BY <1>1, <1>2, <1>4, <2>1, <3>1
         DEF ProcInv, FilesInv, ReleaseInv, Untouched, history
    <3>2. CASE pc[p] \in Restoring
      <4>1. disk' # preDisk => job[p].changed
        BY <1>1, <1>2, <3>2 DEF ProcInv, BackupInv
      <4>2. disk' # preDisk => BackupComplete(p)
        BY <1>2, <3>2, <4>1 DEF ProcInv, BackupInv
      <4>3. disk' # preDisk => BackupComplete(p)'
        BY <1>1, <1>2, <2>3, <3>2, <4>2 DEF BackupComplete, history
      <4>. QED BY <1>2, <1>3, <1>4, <2>1, <3>2, <4>3 DEF ReleaseInv, history
    <3>. QED BY <1>4, <3>1, <3>2
  <2>. QED BY <1>2, <1>4, <2>1, <2>2, <2>4, <2>5, <2>6, HolderStep DEF ProcInv
<1>5. ASSUME pc[p] \in Applying \cup {"validate"},
             NEW u \in {"apply", "validate"}, Undo(p, u)
      PROVE  IInv'
  <2>1. /\ pc' \in [Proc -> Points] /\ job' \in [Proc -> Job] /\ Kept(p)
        /\ pc'[p] = "restore" /\ \A q \in Proc \ {p} : pc'[q] = pc[q]
    <3> HIDE DEF Holding, Preparing, Applying, Restoring
    <3>. QED BY <1>5, UndoFact DEF IInv
  <2>2. TypeOK'
    BY <1>1, <1>2, <2>1 DEF IInv, TypeOK, history, Points
  <2>3. MyDirs(p)' = MyDirs(p) /\ NewTree(p)' = NewTree(p)
    BY <2>1 DEF MyDirs, NewTree, Kept
  <2>4. LoopInv(p)' /\ MemoryInv(p)' /\ ReleaseInv(p)'
    BY <1>2, <1>5, <2>1
       DEF ProcInv, LoopInv, MemoryInv, ReleaseInv, Kept, history
  <2>5. BackupInv(p)'
    <3>1. CASE job[p].changed
      <4>1. BackupComplete(p)
        BY <1>2, <1>5, <3>1 DEF ProcInv, BackupInv
      <4>2. BackupComplete(p)'
        BY <1>1, <1>2, <1>5, <2>3, <4>1 DEF BackupComplete, history
      <4>. QED BY <2>1, <3>1, <4>2 DEF BackupInv, Kept
    <3>2. CASE ~job[p].changed
      <4>1. disk = preDisk /\ ~Differs(NewTree(p), preDisk, MyDirs(p))
            /\ pc[p] # "replace"
        BY <1>2, <1>5, <3>2 DEF ProcInv, BackupInv
      <4>. QED BY <1>1, <1>2, <1>5, <2>1, <2>3, <3>2, <4>1
               DEF BackupInv, Kept, history
    <3>. QED BY <3>1, <3>2
  <2>6. FilesInv(p)'
    BY <1>1, <1>2, <1>5, <2>1, <2>3
       DEF ProcInv, FilesInv, StateOldOrNew, Kept, history
  <2>. QED BY <1>2, <1>5, <2>1, <2>2, <2>4, <2>5, <2>6, HolderStep DEF ProcInv
<1>6. \/ pc[p] \in Preparing /\ Finish(p, "failed")
      \/ pc[p] \in Applying /\ Undo(p, "apply")
      \/ pc[p] = "validate" /\ Undo(p, "validate")
      \/ pc[p] \in Restoring /\ Finish(p, "rollbackFailed")
  BY DEF IOError
<1>. QED BY <1>4, <1>5, <1>6

LEMMA CrashStep ==
    ASSUME IInv, NEW p \in Proc, Crash(p)
    PROVE  IInv'
<1>1. /\ disk' \in Image /\ backup' \in Image /\ stateFile' = stateFile
      /\ manifest' \in (SUBSET ManagedDir) \cup {NoManifest, TornManifest}
  BY InterruptedFact DEF Crash
<1>2. NoJob \in Job /\ "idle" \in Points
  BY DEF NoJob, Job, Group, NoState, StateFile, Points
<1>3. /\ pc' \in [Proc -> Points] /\ job' \in [Proc -> Job] /\ pc'[p] = "idle"
      /\ \A q \in Proc \ {p} : pc'[q] = pc[q] /\ job'[q] = job[q]
  BY <1>2, StepFact DEF Crash, IInv
<1>4. /\ pc[p] # "idle" /\ crashes' = crashes + 1
      /\ UNCHANGED <<tags, runs, faults, publishes>>
  BY DEF Crash
<1>5. CASE pc[p] = "opened"
  <2>1. UNCHANGED <<files, lock, history>>
    BY <1>5 DEF Crash, Interrupted
  <2>2. TypeOK'
    BY <1>3, <1>4, <2>1 DEF IInv, TypeOK, files, history, Points
  <2>. QED BY <1>3, <1>5, <2>1, <2>2, OutsideStep
           DEF Holding, Preparing, Applying, Restoring
<1>6. CASE pc[p] # "opened"
  <2>1. lock' = NoProc /\ preDisk' = disk' /\ preState' = stateFile'
    BY <1>6 DEF Crash
  <2>2. damaged' \subseteq ManagedDir
    <3>1. MyDirs(p) \subseteq ManagedDir /\ damaged \subseteq ManagedDir
      BY DirsFact DEF MyDirs, IInv, TypeOK, Job
    <3>. QED BY <1>6, <3>1 DEF Crash
  <2>3. TypeOK'
    BY <1>1, <1>3, <1>4, <2>1, <2>2 DEF IInv, TypeOK, Points
  <2>4. pc[p] \in Holding
    BY <1>4, <1>6 DEF IInv, TypeOK
  <2>. QED BY <1>3, <2>1, <2>3, <2>4, LeavingStep
<1>. QED BY <1>5, <1>6

-----------------------------------------------------------------------------
(* IInv is inductive. *)

LEMMA ProgramStep ==
    ASSUME IInv, NEW p \in Proc, Program(p)
    PROVE  IInv'
BY AcquireStep, BusyStep, SnapshotStep, ResolveStep, UnresolvedStep,
   ClearBackupStep, CopyBackupStep, WriteManifestStep, ReplaceStep,
   PersistStep, RefusePersistStep, ValidateStep, KeepContentStep,
   RejectContentStep, RestoreStep, ClearDirStep, CopyBackStep,
   RestoreStateStep, ReleaseStep DEF Program

LEMMA StutterStep ==
    ASSUME IInv, UNCHANGED vars
    PROVE  IInv'
<1>. USE DEF vars, files, counters, history
<1>1. TypeOK' /\ LockInv'
  BY DEF IInv, TypeOK, LockInv, Untouched
<1>2. ASSUME NEW p \in Proc PROVE ProcInv(p)'
  <2>1. ProcInv(p)
    BY DEF IInv
  <2>. QED BY <2>1 DEF ProcInv, LoopInv, MemoryInv, BackupInv, FilesInv,
              ReleaseInv, MyDirs, NewTree, BackupComplete, Untouched,
              Updated, StateOldOrNew
<1>. QED BY <1>1, <1>2 DEF IInv

THEOREM NextIInv == IInv /\ [Next]_vars => IInv'
<1> SUFFICES ASSUME IInv, [Next]_vars PROVE IInv'
  OBVIOUS
<1>1. ASSUME NEW p \in Proc, Begin(p) \/ Program(p) \/ IOError(p) \/ Crash(p)
      PROVE  IInv'
  BY <1>1, BeginStep, ProgramStep, IOErrorStep, CrashStep
<1>. QED BY <1>1, PublishStep, StutterStep DEF Next

(* Every reachable state satisfies the inductive invariant. *)
THEOREM IInvInvariant == Spec => []IInv
<1>1. Init => IInv
  BY InitIInv
<1>2. IInv /\ [Next]_vars => IInv'
  BY NextIInv
<1>. QED BY <1>1, <1>2, PTL DEF Spec

(* Every variable always has its type. *)
THEOREM TypeCorrect == Spec => []TypeOK
<1>1. IInv => TypeOK
  BY DEF IInv
<1>. QED BY <1>1, IInvInvariant, PTL

(* An update that fails and says nothing of its rollback has undone itself. *)
THEOREM FailureRestores == Spec => []RollbackRestores
<1>1. IInv => RollbackRestores
  BY DEF IInv, ProcInv, ReleaseInv, Untouched, RollbackRestores
<1>. QED BY <1>1, IInvInvariant, PTL

(* Whatever an update has replaced, the backup still holds. *)
THEOREM NothingIsLost == Spec => []BackupCoversLoss
<1>1. IInv => BackupCoversLoss
  <2> SUFFICES ASSUME IInv, NEW p \in Proc, pc[p] \in Holding, disk # preDisk
               PROVE  BackupComplete(p)
    BY DEF BackupCoversLoss, BackupComplete
  <2>1. ProcInv(p)
    BY DEF IInv
  <2>. QED BY <2>1 DEF ProcInv, BackupInv, FilesInv, ReleaseInv, Untouched,
              Holding, Preparing, Applying, Restoring
<1>. QED BY <1>1, IInvInvariant, PTL

(* An update that reports success did exactly what was asked of it. *)
THEOREM SuccessExact == Spec => []SuccessIsExact
<1>1. IInv => SuccessIsExact
  <2> SUFFICES ASSUME IInv, NEW p \in Proc, pc[p] \in {"hold", "release"},
                      job[p].outcome \in {"none", "ok"}
               PROVE  /\ disk = Replaced(preDisk, NewTree(p), MyDirs(p))
                      /\ disk \in Loadable
                      /\ stateFile.of[job[p].group] = job[p].target
                      /\ job[p].group # "all" /\ preState.kind = "dual" =>
                           \A h \in Group \ {job[p].group} :
                              stateFile.of[h] = preState.of[h]
    BY DEF SuccessIsExact
  <2>1. Updated(p) /\ disk \in Loadable
    BY DEF IInv, ProcInv, MemoryInv, FilesInv, ReleaseInv
  <2>2. job[p].group \in Group /\ preState \in StateFile
    BY DEF IInv, TypeOK, Job
  <2>. QED BY <2>1, <2>2 DEF Updated, Recorded, StateFile
<1>. QED BY <1>1, IInvInvariant, PTL

-----------------------------------------------------------------------------
(* ProjectRemote implements AtomicProject. *)

(* The pure definitions are the same on both sides. *)
LEMMA SameDefinitions ==
    /\ Atomic!Group = Group /\ Atomic!ManagedDir = ManagedDir
    /\ Atomic!Entry = Entry /\ Atomic!Image = Image
    /\ Atomic!NoState = NoState
    /\ \A g : Atomic!Dirs(g) = Dirs(g)
    /\ \A s, g : Atomic!PersistRefused(s, g) <=> PersistRefused(s, g)
    /\ \A i, t, d : Atomic!Replaced(i, t, d) = Replaced(i, t, d)
    /\ \A s, g, e : Atomic!Recorded(s, g, e) = Recorded(s, g, e)
BY DEF Atomic!Group, Group, Atomic!ManagedDir, ManagedDir, Atomic!Entry, Entry,
       Atomic!Image, Image, Atomic!FileTree, FileTree, Atomic!NoState, NoState,
       Atomic!Dirs, Dirs, Atomic!PersistRefused, PersistRefused,
       Atomic!Replaced, Replaced, Atomic!Recorded, Recorded

LEMMA InitAbstract == Init => Atomic!Init
BY SameDefinitions DEF Init, Atomic!Init

(* Most steps, of the holder and of others, show nothing to a reader who   *)
(* respects the lock.                                                      *)
LEMMA HiddenStep ==
    ASSUME UNCHANGED <<lock, history>>, lock = NoProc => UNCHANGED files
    PROVE  UNCHANGED Atomic!abstractVars
BY DEF Atomic!abstractVars, files, history

LEMMA HolderFact ==
    ASSUME IInv, NEW p \in Proc, pc[p] \in Holding
    PROVE  lock = p /\ lock # NoProc
BY DEF IInv, LockInv

(* Taking the lock freezes what the reader sees as it is. *)
LEMMA AcquireAbstract ==
    ASSUME NEW p \in Proc, Acquire(p)
    PROVE  UNCHANGED Atomic!abstractVars
BY DEF Acquire, Atomic!abstractVars, files

(* Until it is given back, with an I/O error or not. *)
LEMMA HolderAbstract ==
    ASSUME IInv, NEW p \in Proc, Program(p) \/ IOError(p),
           ~Acquire(p), ~Release(p)
    PROVE  UNCHANGED Atomic!abstractVars
<1>1. CASE Busy(p)
  BY <1>1, HiddenStep DEF Busy
<1>2. CASE ~Busy(p)
  <2>1. UNCHANGED <<lock, history>>
    BY <1>2 DEF Program, IOError, Snapshot, Resolve, Unresolved, ClearBackup,
       CopyBackup, WriteManifest, Replace, Persist, RefusePersist, Validate,
       KeepContent, RejectContent, Restore, ClearDir, CopyBack, RestoreState,
       history
  <2>2. pc[p] \in Holding
    BY <1>2 DEF Program, IOError, Snapshot, Resolve, Unresolved, ClearBackup,
       CopyBackup, WriteManifest, Replace, Persist, RefusePersist, Validate,
       KeepContent, RejectContent, Restore, ClearDir, CopyBack, RestoreState,
       Holding, Preparing, Applying, Restoring
  <2>. QED BY <2>1, <2>2, HolderFact, HiddenStep
<1>. QED BY <1>1, <1>2

(* Giving it back shows an update that succeeded, nothing of one that      *)
(* failed, and the damage of one that could not be undone.                 *)
LEMMA ReleaseAbstract ==
    ASSUME IInv, NEW p \in Proc, Release(p)
    PROVE  [Atomic!Next]_(Atomic!abstractVars)
<1> DEFINE g == job[p].group
<1>1. /\ pc[p] = "release" /\ lock' = NoProc /\ UNCHANGED files
      /\ preDisk' = disk /\ preState' = stateFile
  BY DEF Release
<1>2. lock = p /\ lock # NoProc
  BY <1>1, HolderFact DEF Holding
<1>3. g \in Group /\ MyDirs(p) = Dirs(g) /\ disk \in Image
      /\ job[p].outcome \in {"ok", "failed", "rollbackFailed"}
  BY <1>1 DEF IInv, TypeOK, Job, MyDirs, ProcInv, MemoryInv
<1>4. ReleaseInv(p) /\ FilesInv(p)
  BY DEF IInv, ProcInv
<1>5. CASE job[p].outcome = "ok"
  <2>1. /\ disk = Replaced(preDisk, Tree[job[p].target.revision], Dirs(g))
        /\ stateFile = Recorded(preState, g, job[p].target)
        /\ ~PersistRefused(preState, g)
        /\ disk \in Loadable /\ job[p].target \in Entry
    BY <1>1, <1>3, <1>4, <1>5 DEF ReleaseInv, Updated, NewTree
  <2>2. damaged' = damaged \ Dirs(g)
    BY <1>3, <1>5 DEF Release
  <2>3. Atomic!Update(g)
    BY <1>1, <1>2, <2>1, <2>2, SameDefinitions DEF Atomic!Update, files
  <2>. QED BY <1>3, <2>3, SameDefinitions DEF Atomic!Next
<1>6. CASE job[p].outcome = "failed"
  <2>1. disk = preDisk /\ stateFile = preState
    BY <1>1, <1>4, <1>6 DEF ReleaseInv, Untouched
  <2>2. damaged' = damaged
    BY <1>6 DEF Release
  <2>. QED BY <1>1, <1>2, <2>1, <2>2 DEF Atomic!abstractVars, files
<1>7. CASE job[p].outcome = "rollbackFailed"
  <2>1. /\ \A d \in ManagedDir \ Dirs(g) : disk[d] = preDisk[d]
        /\ stateFile = preState
             \/ \E t \in Entry : stateFile = Recorded(preState, g, t)
    BY <1>1, <1>3, <1>4 DEF FilesInv, StateOldOrNew, Holding
  <2>2. MaxFaults + MaxCrashes > 0
    BY <1>1, <1>4, <1>7 DEF ReleaseInv
  <2>3. damaged' = damaged \cup Dirs(g)
    BY <1>3, <1>7 DEF Release
  <2>4. Atomic!Damage(g)
    BY <1>1, <1>2, <1>3, <2>1, <2>2, <2>3, SameDefinitions
       DEF Atomic!Damage, files
  <2>. QED BY <1>3, <2>4, SameDefinitions DEF Atomic!Next
<1>. QED BY <1>3, <1>5, <1>6, <1>7

(* A death shows what it left, if it left anything. *)
LEMMA CrashAbstract ==
    ASSUME IInv, NEW p \in Proc, Crash(p)
    PROVE  [Atomic!Next]_(Atomic!abstractVars)
<1> DEFINE g == job[p].group
<1>1. /\ disk' \in Image /\ stateFile' = stateFile
      /\ \A d \in ManagedDir \ MyDirs(p) : disk'[d] = disk[d]
  BY InterruptedFact DEF Crash
<1>2. CASE pc[p] = "opened"
  <2>1. UNCHANGED <<lock, history, files>>
    BY <1>2 DEF Crash, Interrupted
  <2>. QED BY <2>1, HiddenStep
<1>3. CASE pc[p] # "opened"
  <2>1. lock' = NoProc /\ preDisk' = disk' /\ preState' = stateFile'
        /\ damaged' = IF disk' # preDisk \/ stateFile' # preState
                        THEN damaged \cup MyDirs(p) ELSE damaged
    BY <1>3 DEF Crash
  <2>2. pc[p] \in Holding
    BY <1>3 DEF Crash, IInv, TypeOK
  <2>3. lock = p /\ lock # NoProc /\ FilesInv(p)
    BY <2>2, HolderFact DEF IInv, ProcInv
  <2>4. CASE disk' = preDisk /\ stateFile' = preState
    BY <2>1, <2>3, <2>4 DEF Atomic!abstractVars
  <2>5. CASE ~(disk' = preDisk /\ stateFile' = preState)
    <3>1. g \in Group /\ MyDirs(p) = Dirs(g)
      BY DEF IInv, TypeOK, Job, MyDirs
    <3>2. /\ \A d \in ManagedDir \ Dirs(g) : disk'[d] = preDisk[d]
          /\ stateFile' = preState
               \/ \E t \in Entry : stateFile' = Recorded(preState, g, t)
      BY <1>1, <2>2, <2>3, <3>1 DEF FilesInv, StateOldOrNew
    <3>3. MaxFaults + MaxCrashes > 0
      BY DEF Crash, IInv, TypeOK
    <3>4. damaged' = damaged \cup Dirs(g)
      BY <2>1, <2>5, <3>1
    <3>5. Atomic!Damage(g)
      BY <1>1, <2>1, <2>3, <3>1, <3>2, <3>3, <3>4, SameDefinitions
         DEF Atomic!Damage
    <3>. QED BY <3>1, <3>5, SameDefinitions DEF Atomic!Next
  <2>. QED BY <2>4, <2>5
<1>. QED BY <1>2, <1>3

LEMMA NextAbstract ==
    ASSUME IInv, [Next]_vars
    PROVE  [Atomic!Next]_(Atomic!abstractVars)
<1>1. ASSUME NEW p \in Proc, Begin(p)
      PROVE  UNCHANGED Atomic!abstractVars
  BY <1>1, HiddenStep DEF Begin
<1>2. ASSUME NEW p \in Proc, Program(p) \/ IOError(p)
      PROVE  [Atomic!Next]_(Atomic!abstractVars)
  BY <1>2, AcquireAbstract, HolderAbstract, ReleaseAbstract
<1>3. CASE Publish
  BY <1>3, HiddenStep DEF Publish
<1>4. CASE UNCHANGED vars
  BY <1>4, HiddenStep DEF vars
<1>. QED BY <1>1, <1>2, <1>3, <1>4, CrashAbstract DEF Next

-----------------------------------------------------------------------------
(* To whoever respects the lock an update happens entirely or not at all,  *)
(* except where a process died or a rollback failed, which is marked.      *)
THEOREM UpdatesAreAtomic == Spec => AtomicUpdates
<1>1. Init => Atomic!Init
  BY InitAbstract
<1>2. IInv /\ [Next]_vars => [Atomic!Next]_(Atomic!abstractVars)
  BY NextAbstract
<1>. QED BY <1>1, <1>2, IInvInvariant, PTL DEF Spec, AtomicUpdates, Atomic!Spec

-----------------------------------------------------------------------------
(* What the reader who respects the lock sees. *)
seenDisk  == IF lock = NoProc THEN disk ELSE preDisk
seenState == IF lock = NoProc THEN stateFile ELSE preState

RecordsNameContent ==
    \A g \in Group :
        seenState.of[g] # NoEntry /\ Dirs(g) \cap damaged = {} =>
            \A d \in Dirs(g) :
                seenDisk[d] = Tree[seenState.of[g].revision][d]

RecordsLoad ==
    damaged = {} /\ seenState.kind # "missing" => seenDisk \in Loadable

(* A dual record has no entry for a single repository, whose directories   *)
(* are everybody's.                                                        *)
AInv ==
    /\ seenState \in StateFile
    /\ seenState.kind = "dual" => seenState.of["all"] = NoEntry
    /\ RecordsNameContent
    /\ RecordsLoad

LEMMA PromisesSeen == RecordsNameContent /\ RecordsLoad => RecordsAreTrue
BY SameDefinitions DEF RecordsAreTrue, RecordsNameContent, RecordsLoad,
   Atomic!StateNamesContent, Atomic!RecordedLoads, seenDisk, seenState

LEMMA UpdateSeen ==
    ASSUME NEW g \in Group, Atomic!Update(g)
    PROVE  /\ \E t \in Entry :
                /\ seenDisk' = Replaced(seenDisk, Tree[t.revision], Dirs(g))
                /\ seenState' = Recorded(seenState, g, t)
           /\ seenDisk' \in Loadable /\ damaged' = damaged \ Dirs(g)
BY SameDefinitions DEF Atomic!Update, seenDisk, seenState

LEMMA DamageSeen ==
    ASSUME NEW g \in Group, Atomic!Damage(g)
    PROVE  /\ \A d \in ManagedDir \ Dirs(g) : seenDisk'[d] = seenDisk[d]
           /\ damaged' = damaged \cup Dirs(g)
           /\ \/ seenState' = seenState
              \/ \E t \in Entry : seenState' = Recorded(seenState, g, t)
BY SameDefinitions DEF Atomic!Damage, seenDisk, seenState

(* Two groups that are recorded side by side have no directory in common. *)
LEMMA GroupsApart ==
    ASSUME NEW g \in {"models", "infra"}, NEW h \in {"models", "infra"}, g # h
    PROVE  Dirs(g) \cap Dirs(h) = {}
BY DEF Dirs

LEMMA GroupDirs ==
    ASSUME NEW g \in Group
    PROVE  /\ Dirs(g) \subseteq ManagedDir /\ Dirs(g) # {}
           /\ Dirs("all") = ManagedDir
BY DEF Dirs, Group, ManagedDir

LEMMA TruthAtFirst == Atomic!Init => AInv
<1> SUFFICES ASSUME Atomic!Init PROVE AInv
  OBVIOUS
<1>1. seenState = NoState /\ damaged = {}
  BY SameDefinitions DEF Atomic!Init, seenState
<1>2. \A g \in Group : seenState.of[g] = NoEntry
  BY <1>1 DEF NoState
<1>3. seenState \in StateFile /\ seenState.kind = "missing"
  BY <1>1 DEF NoState, StateFile
<1>. QED BY <1>2, <1>3 DEF AInv, RecordsNameContent, RecordsLoad

(* What a record says after an entry was written: the new entry, and of a  *)
(* dual record the entry of the other group.                               *)
LEMMA RecordedFact ==
    ASSUME NEW s \in StateFile, s.kind = "dual" => s.of["all"] = NoEntry,
           NEW g \in Group, NEW t \in Entry
    PROVE  LET r == Recorded(s, g, t) IN
           /\ r \in StateFile /\ r.kind # "missing" /\ r.of[g] = t
           /\ r.kind = "dual" => r.of["all"] = NoEntry
           /\ \A h \in Group \ {g} :
                r.of[h] # NoEntry =>
                    /\ r.of[h] = s.of[h]
                    /\ g \in {"models", "infra"} /\ h \in {"models", "infra"}
<1> DEFINE r == Recorded(s, g, t)
<1>1. s.of \in [Group -> Entry \cup {NoEntry}]
  BY DEF StateFile
<1>2. CASE g # "all" /\ s.kind = "dual"
  <2>1. r = [kind |-> "dual", of |-> [s.of EXCEPT ![g] = t]]
    BY <1>2 DEF Recorded
  <2>. QED BY <1>1, <1>2, <2>1 DEF StateFile, Group
<1>3. CASE ~(g # "all" /\ s.kind = "dual")
  <2>1. r = [kind |-> IF g = "all" THEN "single" ELSE "dual",
             of |-> [h \in Group |-> IF h = g THEN t ELSE NoEntry]]
    BY <1>3 DEF Recorded
  <2>. QED BY <1>1, <2>1 DEF StateFile, Group
<1>. QED BY <1>2, <1>3

LEMMA UpdateTruth ==
    ASSUME AInv, NEW g \in Group, Atomic!Update(g)
    PROVE  AInv'
<1>1. PICK t \in Entry :
         /\ seenDisk' = Replaced(seenDisk, Tree[t.revision], Dirs(g))
         /\ seenState' = Recorded(seenState, g, t)
  BY UpdateSeen
<1>2. seenDisk' \in Loadable /\ damaged' = damaged \ Dirs(g)
  BY UpdateSeen
<1>3. /\ seenState' \in StateFile /\ seenState'.of[g] = t
      /\ seenState'.kind = "dual" => seenState'.of["all"] = NoEntry
      /\ \A h \in Group \ {g} :
            seenState'.of[h] # NoEntry =>
                /\ seenState'.of[h] = seenState.of[h]
                /\ g \in {"models", "infra"} /\ h \in {"models", "infra"}
  BY <1>1, RecordedFact DEF AInv
<1>4. ASSUME NEW h \in Group, seenState'.of[h] # NoEntry,
             Dirs(h) \cap damaged' = {}, NEW d \in Dirs(h)
      PROVE  seenDisk'[d] = Tree[seenState'.of[h].revision][d]
  <2>1. d \in ManagedDir
    BY GroupDirs
  <2>2. CASE h = g
    BY <1>1, <1>3, <2>1, <2>2 DEF Replaced
  <2>3. CASE h # g
    <3>1. /\ d \notin Dirs(g) /\ Dirs(h) \cap Dirs(g) = {}
          /\ seenState'.of[h] = seenState.of[h]
      BY <1>3, <1>4, <2>3, GroupsApart
    <3>2. Dirs(h) \cap damaged = {}
      BY <1>2, <1>4, <3>1
    <3>3. seenDisk[d] = Tree[seenState.of[h].revision][d]
      BY <1>4, <3>1, <3>2 DEF AInv, RecordsNameContent
    <3>. QED BY <1>1, <2>1, <3>1, <3>3 DEF Replaced
  <2>. QED BY <2>2, <2>3
<1>5. RecordsNameContent'
  BY <1>4 DEF RecordsNameContent
<1>. QED BY <1>2, <1>3, <1>5 DEF AInv, RecordsLoad

LEMMA DamageTruth ==
    ASSUME AInv, NEW g \in Group, Atomic!Damage(g)
    PROVE  AInv'
<1>1. /\ \A d \in ManagedDir \ Dirs(g) : seenDisk'[d] = seenDisk[d]
      /\ damaged' = damaged \cup Dirs(g)
      /\ \/ seenState' = seenState
         \/ \E t \in Entry : seenState' = Recorded(seenState, g, t)
  BY DamageSeen
<1>2. Dirs(g) # {} /\ Dirs(g) \subseteq ManagedDir
  BY GroupDirs
<1>3. /\ seenState' \in StateFile
      /\ seenState'.kind = "dual" => seenState'.of["all"] = NoEntry
      /\ \A h \in Group \ {g} :
            seenState'.of[h] # NoEntry => seenState'.of[h] = seenState.of[h]
  <2>1. CASE seenState' = seenState
    BY <2>1 DEF AInv
  <2>2. ASSUME NEW t \in Entry, seenState' = Recorded(seenState, g, t)
        PROVE  /\ seenState' \in StateFile
               /\ seenState'.kind = "dual" => seenState'.of["all"] = NoEntry
               /\ \A h \in Group \ {g} :
                    seenState'.of[h] # NoEntry =>
                        seenState'.of[h] = seenState.of[h]
    BY <2>2, RecordedFact DEF AInv
  <2>. QED BY <1>1, <2>1, <2>2
<1>4. ASSUME NEW h \in Group, seenState'.of[h] # NoEntry,
             Dirs(h) \cap damaged' = {}, NEW d \in Dirs(h)
      PROVE  seenDisk'[d] = Tree[seenState'.of[h].revision][d]
  <2>1. /\ Dirs(h) \cap damaged = {} /\ Dirs(h) \cap Dirs(g) = {}
        /\ d \in ManagedDir
    BY <1>1, <1>4, GroupDirs
  <2>2. h # g /\ d \notin Dirs(g)
    BY <1>2, <2>1
  <2>3. seenState'.of[h] = seenState.of[h]
    BY <1>3, <1>4, <2>2
  <2>4. seenDisk[d] = Tree[seenState.of[h].revision][d]
    BY <1>4, <2>1, <2>3 DEF AInv, RecordsNameContent
  <2>. QED BY <1>1, <2>1, <2>2, <2>3, <2>4
<1>5. RecordsNameContent'
  BY <1>4 DEF RecordsNameContent
<1>6. RecordsLoad'
  BY <1>1, <1>2 DEF RecordsLoad
<1>. QED BY <1>3, <1>5, <1>6 DEF AInv

LEMMA TruthKept ==
    ASSUME AInv, [Atomic!Next]_(Atomic!abstractVars)
    PROVE  AInv'
<1>1. CASE UNCHANGED Atomic!abstractVars
  <2>1. UNCHANGED <<seenDisk, seenState, damaged>>
    BY <1>1 DEF Atomic!abstractVars, seenDisk, seenState
  <2>. QED BY <2>1 DEF AInv, RecordsNameContent, RecordsLoad
<1>2. CASE Atomic!Next
  BY <1>2, UpdateTruth, DamageTruth, SameDefinitions DEF Atomic!Next
<1>. QED BY <1>1, <1>2

(* What the state file records is what is installed, and it loads: nothing *)
(* an update does, in any order with others, breaks it unmarked.           *)
THEOREM RecordsTrue == Spec => []RecordsAreTrue
<1>1. Init => AInv
  BY InitAbstract, TruthAtFirst
<1>2. IInv /\ AInv /\ [Next]_vars => AInv'
  BY NextAbstract, TruthKept
<1>3. AInv => RecordsAreTrue
  BY PromisesSeen DEF AInv
<1>. QED BY <1>1, <1>2, <1>3, IInvInvariant, PTL DEF Spec

-----------------------------------------------------------------------------
(* The holder stays with its group until it lets go of the lock. *)
Held(p) == pc'[p] \in Holding /\ job'[p].group = job[p].group

LEMMA StepHeld ==
    ASSUME TypeOK, NEW p \in Proc, NEW next \in Holding
    PROVE  /\ \A x : Step(p, next, [job[p] EXCEPT !.snap = x]) => Held(p)
           /\ \A x, y, z :
                Step(p, next, [job[p] EXCEPT !.prev = x, !.target = y,
                                             !.changed = z]) => Held(p)
           /\ \A x : Step(p, next, [job[p] EXCEPT !.todo = x]) => Held(p)
           /\ \A x : Step(p, next, [job[p] EXCEPT !.undo = x]) => Held(p)
           /\ \A x : Step(p, next, [job[p] EXCEPT !.outcome = x]) => Held(p)
           /\ Goto(p, next) /\ job' = job => Held(p)
<1>1. job[p] \in Job /\ pc \in [Proc -> Points] /\ job \in [Proc -> Job]
  BY DEF TypeOK, Points
<1>2. /\ \A x : [job[p] EXCEPT !.snap = x].group = job[p].group
      /\ \A x, y, z :
           [job[p] EXCEPT !.prev = x, !.target = y, !.changed = z].group
               = job[p].group
      /\ \A x : [job[p] EXCEPT !.todo = x].group = job[p].group
      /\ \A x : [job[p] EXCEPT !.undo = x].group = job[p].group
      /\ \A x : [job[p] EXCEPT !.outcome = x].group = job[p].group
  BY <1>1 DEF Job
<1>3. \A j : Step(p, next, j) /\ j.group = job[p].group => Held(p)
  BY <1>1 DEF Step, Goto, Held
<1>4. ASSUME NEW x PROVE Step(p, next, [job[p] EXCEPT !.snap = x]) => Held(p)
  BY <1>2, <1>3
<1>5. ASSUME NEW x, NEW y, NEW z
      PROVE  Step(p, next, [job[p] EXCEPT !.prev = x, !.target = y,
                                          !.changed = z]) => Held(p)
  <2> DEFINE j == [job[p] EXCEPT !.prev = x, !.target = y, !.changed = z]
  <2>1. j.group = job[p].group
    BY <1>2
  <2> HIDE DEF j
  <2>2. Step(p, next, j) => Held(p)
    BY <1>3, <2>1
  <2>. QED BY <2>2 DEF j
<1>6. ASSUME NEW x PROVE Step(p, next, [job[p] EXCEPT !.todo = x]) => Held(p)
  BY <1>2, <1>3
<1>7. ASSUME NEW x PROVE Step(p, next, [job[p] EXCEPT !.undo = x]) => Held(p)
  BY <1>2, <1>3
<1>8. ASSUME NEW x PROVE Step(p, next, [job[p] EXCEPT !.outcome = x]) => Held(p)
  BY <1>2, <1>3
<1>9. Goto(p, next) /\ job' = job => Held(p)
  BY <1>1 DEF Goto, Held
<1>. QED BY <1>4, <1>5, <1>6, <1>7, <1>8, <1>9

LEMMA LoopHeld ==
    ASSUME TypeOK, NEW p \in Proc, pc[p] \in Holding, NEW d,
           NEW next \in Holding, NEW dirs, Loop(p, d, next, dirs)
    PROVE  Held(p)
<1>1. CASE job[p].todo \ {d} = {}
  <2>1. Step(p, next, [job[p] EXCEPT !.todo = dirs])
    BY <1>1 DEF Loop
  <2>. QED BY <2>1, StepHeld
<1>2. CASE job[p].todo \ {d} # {}
  <2>1. Step(p, pc[p], [job[p] EXCEPT !.todo = job[p].todo \ {d}])
    BY <1>2 DEF Loop
  <2>. QED BY <2>1, StepHeld
<1>. QED BY <1>1, <1>2

LEMMA HolderStays ==
    ASSUME IInv, NEW p \in Proc, pc[p] \in Holding,
           Program(p) \/ IOError(p), ~Release(p)
    PROVE  Held(p) /\ UNCHANGED history
<1> USE DEF Holding, Preparing, Applying, Restoring
<1>1. TypeOK
  BY DEF IInv
<1>2. /\ ~Acquire(p) /\ ~Busy(p)
  BY DEF Acquire, Busy
<1>3. UNCHANGED history
  BY <1>2 DEF Program, IOError, Snapshot, Resolve, Unresolved, ClearBackup,
     CopyBackup, WriteManifest, Replace, Persist, RefusePersist, Validate,
     KeepContent, RejectContent, Restore, ClearDir, CopyBack, RestoreState,
     history
<1> SUFFICES Held(p)
  BY <1>3
<1>4. CASE Snapshot(p) \/ ClearBackup(p) \/ WriteManifest(p)
  BY <1>1, <1>4, StepHeld DEF Snapshot, ClearBackup, WriteManifest
<1>5. CASE Resolve(p)
  <2>1. \E next \in Holding : \E t, diff :
           Step(p, next, [job[p] EXCEPT !.prev = stateFile, !.target = t,
                                        !.changed = diff])
    BY <1>5 DEF Resolve
  <2>. QED BY <1>1, <2>1, StepHeld
<1>6. CASE CopyBackup(p) \/ Replace(p) \/ ClearDir(p)
  BY <1>1, <1>6, LoopHeld DEF CopyBackup, Replace, ClearDir
<1>7. CASE CopyBack(p)
  BY <1>1, <1>7, LoopHeld, StepHeld DEF CopyBack, Finish
<1>8. CASE Unresolved(p) \/ KeepContent(p) \/ RestoreState(p)
             \/ RefusePersist(p) \/ RejectContent(p)
  BY <1>1, <1>8, StepHeld
     DEF Unresolved, KeepContent, RestoreState, RefusePersist, RejectContent,
         Finish, Undo
<1>9. CASE Persist(p)
  BY <1>1, <1>9, StepHeld DEF Persist
<1>10. CASE Validate(p)
  BY <1>1, <1>10, StepHeld DEF Validate, Finish, Undo
<1>11. CASE Restore(p)
  BY <1>1, <1>11, StepHeld DEF Restore, Finish
<1>12. CASE IOError(p)
  BY <1>1, <1>12, StepHeld DEF IOError, Finish, Undo
<1>. QED BY <1>2, <1>4, <1>5, <1>6, <1>7, <1>8, <1>9, <1>10, <1>11, <1>12
         DEF Program

(* Of a dual record a holder of one group can only write its own entry. *)
LEMMA OtherEntries ==
    ASSUME IInv, NEW p \in Proc, pc[p] \in Holding, job[p].group # "all",
           preState.kind = "dual", NEW h \in Group \ {job[p].group}
    PROVE  stateFile.of[h] = preState.of[h]
<1>1. StateOldOrNew(p) /\ job[p].group \in Group /\ preState \in StateFile
  BY DEF IInv, ProcInv, FilesInv, TypeOK, Job
<1>. QED BY <1>1 DEF StateOldOrNew, Recorded, StateFile

(* A process that waits for the lock, or no process, touches no file. *)
LEMMA OthersTouchNothing ==
    ASSUME IInv, NEW p \in Proc, pc[p] \in Holding, [Next]_vars,
           ~Program(p), ~IOError(p), ~Crash(p)
    PROVE  UNCHANGED files
<1>1. \A q \in Proc \ {p} : pc[q] \notin Holding
  BY DEF IInv, LockInv
<1>2. ASSUME NEW q \in Proc, Begin(q) PROVE UNCHANGED files
  BY <1>2 DEF Begin
<1>3. ASSUME NEW q \in Proc \ {p}, Program(q) PROVE UNCHANGED files
  BY <1>1, <1>3 DEF Program, Acquire, Busy, Snapshot, Resolve, Unresolved,
     ClearBackup, CopyBackup, WriteManifest, Replace, Persist, RefusePersist,
     Validate, KeepContent, RejectContent, Restore, ClearDir, CopyBack,
     RestoreState, Release, Holding, Preparing, Applying, Restoring
<1>4. ASSUME NEW q \in Proc \ {p}, IOError(q) \/ Crash(q) PROVE UNCHANGED files
  <2>1. pc[q] \in {"idle", "opened"}
    BY <1>1 DEF IInv, TypeOK
  <2>. QED BY <1>4, <2>1 DEF IOError, Crash, Interrupted, files,
              Preparing, Applying, Restoring
<1>5. CASE Publish
  BY <1>5 DEF Publish
<1>6. CASE UNCHANGED vars
  BY <1>6 DEF vars
<1>. QED BY <1>2, <1>3, <1>4, <1>5, <1>6 DEF Next

(* An update of one group of a dual-repo project never touches the other.  *)
THEOREM GroupsAreIsolated == Spec => GroupIsolation
<1> DEFINE Isolated(p) ==
      /\ \A d \in ManagedDir \ MyDirs(p) : disk'[d] = disk[d]
      /\ preState.kind = "dual" =>
           \A h \in Group \ {job[p].group} : stateFile'.of[h] = stateFile.of[h]
<1>1. ASSUME IInv, IInv', [Next]_vars, NEW p \in Proc, pc[p] \in Holding,
             job[p].group # "all"
      PROVE  Isolated(p)
  <2>1. CASE (Program(p) \/ IOError(p)) /\ ~Release(p)
    <3>1. /\ pc'[p] \in Holding /\ job'[p].group = job[p].group
          /\ preDisk' = preDisk /\ preState' = preState
      BY <1>1, <2>1, HolderStays DEF Held, history
    <3>2. \A d \in ManagedDir \ MyDirs(p) :
             disk[d] = preDisk[d] /\ disk'[d] = preDisk'[d]
      <4>1. FilesInv(p) /\ FilesInv(p)'
        BY <1>1 DEF IInv, ProcInv
      <4>2. MyDirs(p)' = MyDirs(p)
        BY <3>1 DEF MyDirs
      <4>. QED BY <1>1, <3>1, <4>1, <4>2 DEF FilesInv
    <3>3. ASSUME preState.kind = "dual", NEW h \in Group \ {job[p].group}
          PROVE  stateFile'.of[h] = stateFile.of[h]
      <4>1. stateFile.of[h] = preState.of[h]
        BY <1>1, <3>3, OtherEntries
      <4>2. /\ StateOldOrNew(p)'
            /\ job'[p].group \in Group /\ preState' \in StateFile
        BY <1>1, <3>1 DEF IInv, ProcInv, FilesInv, TypeOK, Job
      <4>3. stateFile'.of[h] = preState'.of[h]
        BY <1>1, <3>1, <3>3, <4>2 DEF StateOldOrNew, Recorded, StateFile
      <4>. QED BY <3>1, <4>1, <4>3
    <3>. QED BY <3>1, <3>2, <3>3
  <2>2. CASE Release(p)
    BY <2>2 DEF Release, files
  <2>3. CASE Crash(p)
    BY <1>1, <2>3, InterruptedFact DEF Crash
  <2>4. CASE ~Program(p) /\ ~IOError(p) /\ ~Crash(p)
    BY <1>1, <2>4, OthersTouchNothing DEF files
  <2>. QED BY <2>1, <2>2, <2>3, <2>4
<1>2. IInv /\ IInv' /\ [Next]_vars =>
        [\A p \in Proc :
            pc[p] \in Holding /\ job[p].group # "all" => Isolated(p)]_vars
  BY <1>1
<1>. QED BY <1>2, IInvInvariant, PTL DEF Spec, GroupIsolation
=============================================================================
