--------------------------- MODULE ProjectRemote ---------------------------
(***************************************************************************)
(* One work root and the processes that update it from its remote          *)
(* repositories: run_remote_update as `wfadm conf update` and `wfadm init  *)
(* --repo` run it, and run_remote_update_locked as the daemon runs it      *)
(* inside a reload, where the runtime may still refuse the new content.    *)
(*                                                                         *)
(* Every filesystem step is an action of its own.  A step may be cut short *)
(* by an I/O error, which takes the code's error path, or by the death of  *)
(* the process, which releases the flock and leaves the files as they are. *)
(***************************************************************************)
EXTENDS ProjectState

CONSTANTS
    Proc,           \* processes that update the project
    Daemon,         \* those that are a wfusion daemon
    NoProc,         \* nobody
    NoVersion,      \* no --version, no init_version
    NoManifest,     \* the backup has no manifest.json
    TornManifest,   \* manifest.json was written in part
    InitVersion,    \* init_version configured for each group
    ModeOf,         \* [project_remote] mode of each content of conf/
    InitialImage,   \* images a work root may start with
    InitialTags,    \* release tags of each group's repository at the start
    HeadCommit,     \* remote HEAD of each group's repository
    MaxRuns,        \* bound on updates started
    MaxFaults,      \* bound on I/O errors
    MaxCrashes,     \* bound on process deaths
    MaxPublish      \* bound on tags created or moved

VARIABLES
    disk,           \* the managed directories
    stateFile,      \* project_remote_state.json
    backup,         \* the directories under .run/project_remote/backup
    manifest,       \* its manifest.json: the directories it lists
    lock,           \* holder of the flock on project_remote.lock
    tags,           \* release tags of each group's repository
    pc,             \* where each process is
    job,            \* what each process remembers of its update
    runs, faults, crashes, publishes,   \* counters behind the bounds
    preDisk,        \* history: the managed directories when the lock last changed hands
    preState,       \* history: the state file when the lock last changed hands
    damaged         \* history: directories a death or a failed rollback left

files    == <<disk, stateFile, backup, manifest>>
counters == <<runs, faults, crashes, publishes>>
history  == <<preDisk, preState, damaged>>
vars     == <<files, lock, tags, pc, job, counters, history>>

-----------------------------------------------------------------------------
(* The program points of run_remote_update, in order. *)
Applying == {"replace", "persist"}
Restoring == {"restore", "clear", "copyBack", "restoreState"}
Preparing == {"locked", "snapped", "clearBackup", "copyBackup", "writeManifest"}
Holding == Preparing \cup Applying \cup Restoring
             \cup {"validate", "hold", "release"}

(* What an update remembers: its request, the state bytes of the snapshot  *)
(* and the state parsed by the sync, the resolved target, `changed`, the   *)
(* directories the current loop has still to visit, what a rollback undoes *)
(* and the outcome.                                                        *)
Job == [entry : {"update", "init"}, group : Group,
        version : Version \cup {NoVersion}, mode : {"single", "dual", "off"},
        snap : StateFile, prev : StateFile, target : Entry \cup {NoEntry},
        changed : BOOLEAN, todo : SUBSET ManagedDir,
        undo : {"none", "apply", "validate", "reload"},
        outcome : {"none", "ok", "failed", "rollbackFailed"}]

NoJob == [entry |-> "update", group |-> "all", version |-> NoVersion,
          mode |-> "off", snap |-> NoState, prev |-> NoState,
          target |-> NoEntry, changed |-> FALSE, todo |-> {},
          undo |-> "none", outcome |-> "none"]

MyDirs(p) == Dirs(job[p].group)
NewTree(p) == Tree[job[p].target.revision]

Init ==
    /\ disk \in InitialImage
    /\ stateFile = NoState
    /\ backup = [d \in ManagedDir |-> Absent]
    /\ manifest = NoManifest
    /\ lock = NoProc
    /\ tags = InitialTags
    /\ pc = [p \in Proc |-> "idle"]
    /\ job = [p \in Proc |-> NoJob]
    /\ runs = 0 /\ faults = 0 /\ crashes = 0 /\ publishes = 0
    /\ preDisk = disk /\ preState = stateFile /\ damaged = {}

Goto(p, next) == pc' = [pc EXCEPT ![p] = next]

(* Control moves to `next`, the job becomes `j`. *)
Step(p, next, j) == Goto(p, next) /\ job' = [job EXCEPT ![p] = j]

Finish(p, result) == Step(p, "release", [job[p] EXCEPT !.outcome = result])

Undo(p, what) == Step(p, "restore", [job[p] EXCEPT !.undo = what])

(* One turn of a loop over directories: `d` is done; after the last one    *)
(* control moves to `next` with the directories of its own loop.           *)
Loop(p, d, next, dirs) ==
    LET rest == job[p].todo \ {d} IN
    IF rest = {} THEN Step(p, next, [job[p] EXCEPT !.todo = dirs])
                 ELSE Step(p, pc[p], [job[p] EXCEPT !.todo = rest])

-----------------------------------------------------------------------------
(* An update starts.  `conf update` and the daemon read conf/wfusion.toml  *)
(* BEFORE the lock is asked for; `init --repo` needs no configuration.     *)
Begin(p) ==
    /\ pc[p] = "idle" /\ runs < MaxRuns
    /\ runs' = runs + 1
    /\ \E e \in {"update", "init"}, g \in Group,
          v \in Version \cup {NoVersion} :
         LET mode == IF e = "init" THEN "off" ELSE ModeOf[disk["conf"]] IN
         /\ e = "update" => disk \in Loadable
         /\ e = "init" => p \notin Daemon /\ g = "all"
         /\ p \in Daemon => mode # "off" /\ (mode = "dual" => g # "all")
         /\ Step(p, "opened", [NoJob EXCEPT !.entry = e, !.group = g,
                                            !.version = v, !.mode = mode])
    /\ UNCHANGED <<files, lock, tags, faults, crashes, publishes, history>>

(* acquire_project_remote_lock: LOCK_EX | LOCK_NB *)
Acquire(p) ==
    /\ pc[p] = "opened" /\ lock = NoProc
    /\ lock' = p
    /\ Goto(p, "locked")
    /\ preDisk' = disk /\ preState' = stateFile
    /\ UNCHANGED <<files, tags, job, counters, damaged>>

Busy(p) ==
    /\ pc[p] = "opened" /\ lock # NoProc
    /\ Step(p, "idle", NoJob)
    /\ UNCHANGED <<files, lock, tags, counters, history>>

(* capture_project_remote_snapshot_with_group *)
Snapshot(p) ==
    /\ pc[p] = "locked"
    /\ Step(p, "snapped", [job[p] EXCEPT !.snap = stateFile])
    /\ UNCHANGED <<files, lock, tags, counters, history>>

(* resolve_project_remote_mode against the group asked for *)
ModeAgrees(p) ==
    \/ job[p].entry = "init"
    \/ job[p].mode = "single" /\ job[p].group = "all"
    \/ job[p].mode = "dual" /\ job[p].group # "all"

(* The version asked for, else the default target; `init --repo` passes no *)
(* init_version.                                                           *)
Targets(p) ==
    LET g == job[p].group
        initVersion == IF job[p].entry = "init" THEN NoVersion
                                                ELSE InitVersion[g]
    IN IF ~ModeAgrees(p) THEN {}
       ELSE IF job[p].version \in Version THEN TagFor(tags[g], job[p].version)
       ELSE DefaultTarget(tags[g], HeadCommit[g], initVersion,
                          FirstInit(stateFile, g))

(* Mutant of Resolve: `changed` is decided by the recorded revision. *)
ResolveByRevision(p) ==
    /\ pc[p] = "snapped"
    /\ \E t \in Targets(p) :
         LET e == stateFile.of[job[p].group]
             diff == e = NoEntry \/ e.revision # t.revision IN
         Step(p, IF diff THEN "clearBackup" ELSE "persist",
              [job[p] EXCEPT !.prev = stateFile, !.target = t,
                             !.changed = diff])
    /\ UNCHANGED <<files, lock, tags, counters, history>>

(* sync_project_remote_with_repo_inner up to `changed`: the cache is        *)
(* fetched, the state loaded, the target resolved and checked out, and the *)
(* checkout compared with the managed directories.                         *)
Resolve(p) ==
    /\ pc[p] = "snapped"
    /\ \E t \in Targets(p) :
         LET diff == Differs(Tree[t.revision], disk, MyDirs(p)) IN
         Step(p, IF diff THEN "clearBackup" ELSE "persist",
              [job[p] EXCEPT !.prev = stateFile, !.target = t,
                             !.changed = diff])
    /\ UNCHANGED <<files, lock, tags, counters, history>>

Unresolved(p) ==
    /\ pc[p] = "snapped" /\ Targets(p) = {}
    /\ Finish(p, "failed")
    /\ UNCHANGED <<files, lock, tags, counters, history>>

-----------------------------------------------------------------------------
(* backup_managed_dirs: remove the old backup, copy every existing         *)
(* directory, then list what was copied in the manifest.                   *)
ClearBackup(p) ==
    /\ pc[p] = "clearBackup"
    /\ backup' = [d \in ManagedDir |-> Absent]
    /\ manifest' = NoManifest
    /\ Step(p, "copyBackup", [job[p] EXCEPT !.todo = MyDirs(p)])
    /\ UNCHANGED <<disk, stateFile, lock, tags, counters, history>>

CopyBackup(p) ==
    /\ pc[p] = "copyBackup"
    /\ LET d == NextDir(job[p].todo) IN
         /\ backup' = [backup EXCEPT ![d] = disk[d]]
         /\ Loop(p, d, "writeManifest", {})
    /\ UNCHANGED <<disk, stateFile, manifest, lock, tags, counters, history>>

(* Mutant of WriteManifest: it lists directories that were not there. *)
WriteManifestOfAll(p) ==
    /\ pc[p] = "writeManifest"
    /\ manifest' = MyDirs(p)
    /\ Step(p, "replace", [job[p] EXCEPT !.todo = MyDirs(p)])
    /\ UNCHANGED <<disk, stateFile, backup, lock, tags, counters, history>>

WriteManifest(p) ==
    /\ pc[p] = "writeManifest"
    /\ manifest' = {d \in ManagedDir : backup[d] # Absent}
    /\ Step(p, "replace", [job[p] EXCEPT !.todo = MyDirs(p)])
    /\ UNCHANGED <<disk, stateFile, backup, lock, tags, counters, history>>

(* Mutant of Replace: a directory the commit dropped stays. *)
ReplaceExisting(p) ==
    /\ pc[p] = "replace"
    /\ LET d == NextDir(job[p].todo) IN
         /\ disk' = IF NewTree(p)[d] = Absent THEN disk
                    ELSE [disk EXCEPT ![d] = NewTree(p)[d]]
         /\ Loop(p, d, "persist", {})
    /\ UNCHANGED <<stateFile, backup, manifest, lock, tags, counters, history>>

(* sync_managed_dirs: remove the directory, copy it if the commit has it. *)
Replace(p) ==
    /\ pc[p] = "replace"
    /\ LET d == NextDir(job[p].todo) IN
         /\ disk' = [disk EXCEPT ![d] = NewTree(p)[d]]
         /\ Loop(p, d, "persist", {})
    /\ UNCHANGED <<stateFile, backup, manifest, lock, tags, counters, history>>

(* persist_state / persist_group_state, an atomic rename *)
Persist(p) ==
    /\ pc[p] = "persist" /\ ~PersistRefused(stateFile, job[p].group)
    /\ stateFile' = Recorded(stateFile, job[p].group, job[p].target)
    /\ Goto(p, "validate")
    /\ UNCHANGED <<disk, backup, manifest, lock, tags, job, counters, history>>

RefusePersist(p) ==
    /\ pc[p] = "persist" /\ PersistRefused(stateFile, job[p].group)
    /\ Undo(p, "apply")
    /\ UNCHANGED <<files, lock, tags, counters, history>>

(* validate_config_loads; the CLI is then done, a daemon loads and applies *)
(* the new configuration with the lock still held.                         *)
Validate(p) ==
    /\ pc[p] = "validate"
    /\ IF disk \notin Loadable THEN Undo(p, "validate")
       ELSE IF p \in Daemon THEN Goto(p, "hold") /\ UNCHANGED job
       ELSE Finish(p, "ok")
    /\ UNCHANGED <<files, lock, tags, counters, history>>

(* The reload was applied, or is blocked until a restart: content is kept. *)
KeepContent(p) ==
    /\ pc[p] = "hold"
    /\ Finish(p, "ok")
    /\ UNCHANGED <<files, lock, tags, counters, history>>

(* The reload failed: rollback_updated_project *)
RejectContent(p) ==
    /\ pc[p] = "hold"
    /\ Undo(p, "reload")
    /\ UNCHANGED <<files, lock, tags, counters, history>>

-----------------------------------------------------------------------------
(* Mutant of Restore: the directories of every group are restored. *)
RestoreEveryGroup(p) ==
    /\ pc[p] = "restore"
    /\ IF ~job[p].changed \/ manifest = NoManifest THEN
            Goto(p, "restoreState") /\ UNCHANGED job
       ELSE IF manifest = TornManifest THEN Finish(p, "rollbackFailed")
       ELSE Step(p, "clear", [job[p] EXCEPT !.todo = ManagedDir])
    /\ UNCHANGED <<files, lock, tags, counters, history>>

(* restore_managed_dirs reads the manifest: none is a no-op, an unreadable *)
(* one or one with a foreign directory is an error.                        *)
Restore(p) ==
    /\ pc[p] = "restore"
    /\ IF ~job[p].changed \/ manifest = NoManifest THEN
            Goto(p, "restoreState") /\ UNCHANGED job
       ELSE IF manifest = TornManifest \/ ~(manifest \subseteq MyDirs(p)) THEN
            Finish(p, "rollbackFailed")
       ELSE Step(p, "clear", [job[p] EXCEPT !.todo = MyDirs(p)])
    /\ UNCHANGED <<files, lock, tags, counters, history>>

ClearDir(p) ==
    /\ pc[p] = "clear"
    /\ LET d == NextDir(job[p].todo) IN
         /\ disk' = [disk EXCEPT ![d] = Absent]
         /\ Loop(p, d, IF manifest = {} THEN "restoreState" ELSE "copyBack",
                 manifest)
    /\ UNCHANGED <<stateFile, backup, manifest, lock, tags, counters, history>>

CopyBack(p) ==
    /\ pc[p] = "copyBack"
    /\ LET d == NextDir(job[p].todo) IN
         IF backup[d] = Absent THEN Finish(p, "rollbackFailed") /\ UNCHANGED disk
         ELSE /\ disk' = [disk EXCEPT ![d] = backup[d]]
              /\ Loop(p, d, "restoreState", {})
    /\ UNCHANGED <<stateFile, backup, manifest, lock, tags, counters, history>>

(* Mutant of RestoreState: the state of a rejected update stays. *)
RestoreStateOfApply(p) ==
    /\ pc[p] = "restoreState"
    /\ stateFile' = IF job[p].undo = "apply" THEN job[p].prev ELSE stateFile
    /\ Finish(p, "failed")
    /\ UNCHANGED <<disk, backup, manifest, lock, tags, counters, history>>

(* rollback_partial_update writes back the state the sync parsed,          *)
(* restore_project_remote_update the bytes of the snapshot.                *)
RestoreState(p) ==
    /\ pc[p] = "restoreState"
    /\ stateFile' = IF job[p].undo = "apply" THEN job[p].prev ELSE job[p].snap
    /\ Finish(p, "failed")
    /\ UNCHANGED <<disk, backup, manifest, lock, tags, counters, history>>

(* Mutant of Release: the lock stays after a rollback that failed. *)
ReleaseUnlessBroken(p) ==
    /\ pc[p] = "release"
    /\ lock' = IF job[p].outcome = "rollbackFailed" THEN lock ELSE NoProc
    /\ Step(p, "idle", NoJob)
    /\ damaged' = damaged
    /\ preDisk' = disk /\ preState' = stateFile
    /\ UNCHANGED <<files, tags, counters>>

(* The guard is dropped when the update returns. *)
Release(p) ==
    /\ pc[p] = "release"
    /\ lock' = NoProc
    /\ Step(p, "idle", NoJob)
    /\ damaged' = CASE job[p].outcome = "ok" -> damaged \ MyDirs(p)
                    [] job[p].outcome = "rollbackFailed" -> damaged \cup MyDirs(p)
                    [] OTHER -> damaged
    /\ preDisk' = disk /\ preState' = stateFile
    /\ UNCHANGED <<files, tags, counters>>

-----------------------------------------------------------------------------
(* The files as the step at pc[p] leaves them when it is cut short, if it  *)
(* had any effect: a directory is Torn by a partial remove or copy, and    *)
(* Absent between the two; the manifest is written in place, the state     *)
(* file by rename.                                                         *)
Interrupted(p) ==
    LET d == NextDir(job[p].todo) IN
    \/ /\ pc[p] = "clearBackup"
       /\ backup' = [e \in ManagedDir |->
                        IF backup[e] = Absent THEN Absent ELSE Torn]
       /\ manifest' \in {manifest, NoManifest}
       /\ UNCHANGED <<disk, stateFile>>
    \/ /\ pc[p] = "copyBackup" /\ disk[d] # Absent
       /\ backup' = [backup EXCEPT ![d] = Torn]
       /\ UNCHANGED <<disk, stateFile, manifest>>
    \/ /\ pc[p] = "writeManifest"
       /\ manifest' = TornManifest
       /\ UNCHANGED <<disk, stateFile, backup>>
    \/ /\ pc[p] = "replace" /\ {disk[d], NewTree(p)[d]} # {Absent}
       /\ \E left \in {Absent, Torn} : disk' = [disk EXCEPT ![d] = left]
       /\ UNCHANGED <<stateFile, backup, manifest>>
    \/ /\ \/ pc[p] = "clear" /\ disk[d] # Absent
          \/ pc[p] = "copyBack"
       /\ disk' = [disk EXCEPT ![d] = Torn]
       /\ UNCHANGED <<stateFile, backup, manifest>>

(* An I/O error: `?` before anything was applied, rollback_partial_update  *)
(* while applying, a failed validation, or a failed rollback.              *)
IOError(p) ==
    /\ faults < MaxFaults /\ faults' = faults + 1
    /\ UNCHANGED files \/ Interrupted(p)
    /\ \/ pc[p] \in Preparing /\ Finish(p, "failed")
       \/ pc[p] \in Applying /\ Undo(p, "apply")
       \/ pc[p] = "validate" /\ Undo(p, "validate")
       \/ pc[p] \in Restoring /\ Finish(p, "rollbackFailed")
    /\ UNCHANGED <<lock, tags, runs, crashes, publishes, history>>

(* The process dies; the kernel drops its flock.  The directories of its   *)
(* group count as damaged when the project is not what it was.             *)
Crash(p) ==
    /\ pc[p] # "idle" /\ crashes < MaxCrashes /\ crashes' = crashes + 1
    /\ UNCHANGED files \/ Interrupted(p)
    /\ Step(p, "idle", NoJob)
    /\ IF pc[p] = "opened" THEN UNCHANGED <<lock, history>>
       ELSE /\ lock' = NoProc
            /\ preDisk' = disk' /\ preState' = stateFile'
            /\ damaged' = IF preDisk' # preDisk \/ preState' # preState
                            THEN damaged \cup MyDirs(p) ELSE damaged
    /\ UNCHANGED <<tags, runs, faults, publishes>>

(* Someone tags a release, or moves a tag to another commit. *)
Publish ==
    /\ publishes < MaxPublish /\ publishes' = publishes + 1
    /\ \E g \in Group, v \in Version, c \in Commit :
         tags[g][v] # c /\ tags' = [tags EXCEPT ![g][v] = c]
    /\ UNCHANGED <<files, lock, pc, job, runs, faults, crashes, history>>

Program(p) ==
    \/ Acquire(p) \/ Busy(p) \/ Snapshot(p) \/ Resolve(p) \/ Unresolved(p)
    \/ ClearBackup(p) \/ CopyBackup(p) \/ WriteManifest(p)
    \/ Replace(p) \/ Persist(p) \/ RefusePersist(p)
    \/ Validate(p) \/ KeepContent(p) \/ RejectContent(p)
    \/ Restore(p) \/ ClearDir(p) \/ CopyBack(p) \/ RestoreState(p)
    \/ Release(p)

Next ==
    \/ \E p \in Proc : Begin(p) \/ Program(p) \/ IOError(p) \/ Crash(p)
    \/ Publish

Spec == Init /\ [][Next]_vars

(* A process that started an update goes on executing it. *)
FairSpec == Spec /\ \A p \in Proc : WF_vars(Program(p))
-----------------------------------------------------------------------------
(* Every variable has the type its declaration says. *)
TypeOK ==
    /\ disk \in Image /\ backup \in Image /\ preDisk \in Image
    /\ stateFile \in StateFile /\ preState \in StateFile
    /\ manifest \in (SUBSET ManagedDir) \cup {NoManifest, TornManifest}
    /\ lock \in Proc \cup {NoProc}
    /\ tags \in [Group -> [Version -> Commit \cup {NoCommit}]]
    /\ pc \in [Proc -> Holding \cup {"idle", "opened"}]
    /\ job \in [Proc -> Job]
    /\ runs \in Nat /\ faults \in Nat /\ crashes \in Nat /\ publishes \in Nat
    /\ damaged \subseteq ManagedDir

(* An update that reports a plain failure (not "rollback failed") has put  *)
(* the managed directories and the version state back to what they were    *)
(* when it took the lock, whatever failed: a loop of sync_managed_dirs,    *)
(* the write of the state, the validation, or the reload it was part of.   *)
RollbackRestores ==
    \A p \in Proc :
        pc[p] = "release" /\ job[p].outcome = "failed" =>
            disk = preDisk /\ stateFile = preState

(* From the first directory an update replaces until it releases the lock, *)
(* the backup holds every directory that existed before, complete, and its *)
(* manifest lists exactly those: a death at any point loses nothing that   *)
(* the backup does not have.                                               *)
BackupCoversLoss ==
    \A p \in Proc :
        pc[p] \in Holding /\ disk # preDisk =>
            /\ manifest = {d \in MyDirs(p) : preDisk[d] # Absent}
            /\ \A d \in manifest : backup[d] = preDisk[d]

(* An update that reports success left exactly the target commit in its    *)
(* group's directories, everything else as it was, a project that loads,   *)
(* the target recorded, and the other group's record kept; whatever an     *)
(* earlier death left on disk or in the backup.                            *)
SuccessIsExact ==
    \A p \in Proc :
        pc[p] \in {"hold", "release"} /\ job[p].outcome \in {"none", "ok"} =>
            /\ disk = Replaced(preDisk, NewTree(p), MyDirs(p))
            /\ disk \in Loadable
            /\ stateFile.of[job[p].group] = job[p].target
            /\ job[p].group # "all" /\ preState.kind = "dual" =>
                 \A h \in Group \ {job[p].group} :
                    stateFile.of[h] = preState.of[h]

(* While a process updates one group of a dual-repo project, no step of    *)
(* any process touches the other group's directories or its record.        *)
GroupIsolation ==
    [][\A p \in Proc :
        pc[p] \in Holding /\ job[p].group # "all" =>
            /\ \A d \in ManagedDir \ MyDirs(p) : disk'[d] = disk[d]
            /\ preState.kind = "dual" =>
                 \A h \in Group \ {job[p].group} :
                    stateFile'.of[h] = stateFile.of[h]]_vars

(* Whoever has the lock gives it back: no error path keeps it. *)
LockIsReturned == \A p \in Proc : lock = p ~> lock # p

-----------------------------------------------------------------------------
(* Seen by a reader who respects the lock, an update is atomic: until the  *)
(* holder releases, the project is what it was when the lock was taken.    *)
Atomic == INSTANCE AtomicProject WITH
    Faulty    <- MaxFaults + MaxCrashes > 0,
    project   <- IF lock = NoProc THEN disk ELSE preDisk,
    state     <- IF lock = NoProc THEN stateFile ELSE preState,
    damaged   <- damaged

AtomicUpdates == Atomic!Spec

(* The promises of AtomicProject, for the files themselves: what the state *)
(* records is what is installed, and it loads.                             *)
RecordsAreTrue == Atomic!StateNamesContent /\ Atomic!RecordedLoads

-----------------------------------------------------------------------------
(* The inductive invariant behind them: what is true of the files at every *)
(* program point of the process that holds the lock.                       *)
BackupComplete(p) ==
    /\ manifest = {d \in MyDirs(p) : preDisk[d] # Absent}
    /\ \A d \in manifest : backup[d] = preDisk[d]

Untouched == disk = preDisk /\ stateFile = preState

Updated(p) ==
    /\ disk = Replaced(preDisk, NewTree(p), MyDirs(p))
    /\ stateFile = Recorded(preState, job[p].group, job[p].target)
    /\ ~PersistRefused(preState, job[p].group)

StateOldOrNew(p) ==
    \/ stateFile = preState
    \/ /\ job[p].target \in Entry
       /\ stateFile = Recorded(preState, job[p].group, job[p].target)

(* Loops visit directories of the group and stop after the last one. *)
LoopInv(p) ==
    pc[p] \in {"copyBackup", "replace", "clear", "copyBack"} =>
        job[p].todo # {} /\ job[p].todo \subseteq MyDirs(p)

MemoryInv(p) ==
    /\ pc[p] \in Holding \ {"locked", "release"} => job[p].snap = preState
    /\ pc[p] \in Holding \ {"locked", "snapped", "release"} =>
         job[p].prev = preState /\ job[p].target \in Entry
    /\ pc[p] = "release" => job[p].outcome # "none"

BackupInv(p) ==
    /\ pc[p] = "copyBackup" =>
         /\ manifest = NoManifest
         /\ backup = [d \in ManagedDir |->
                        IF d \in MyDirs(p) \ job[p].todo THEN preDisk[d]
                                                        ELSE Absent]
    /\ pc[p] = "writeManifest" =>
         backup = [d \in ManagedDir |->
                     IF d \in MyDirs(p) THEN preDisk[d] ELSE Absent]
    /\ pc[p] \in {"clearBackup", "copyBackup", "writeManifest", "replace",
                  "clear", "copyBack"} => job[p].changed
    /\ pc[p] \in Applying \cup Restoring \cup {"validate", "hold"} =>
         IF job[p].changed THEN BackupComplete(p)
         ELSE disk = preDisk /\ ~Differs(NewTree(p), preDisk, MyDirs(p))

FilesInv(p) ==
    /\ pc[p] \in Preparing => Untouched
    /\ pc[p] \in Holding =>
         /\ \A d \in ManagedDir \ MyDirs(p) : disk[d] = preDisk[d]
         /\ StateOldOrNew(p)
    /\ pc[p] \in Applying => stateFile = preState
    /\ pc[p] = "replace" =>
         \A d \in MyDirs(p) :
            disk[d] = IF d \in job[p].todo THEN preDisk[d] ELSE NewTree(p)[d]
    /\ pc[p] = "persist" => disk = Replaced(preDisk, NewTree(p), MyDirs(p))
    /\ pc[p] \in {"validate", "hold"} => Updated(p)
    /\ pc[p] = "hold" => disk \in Loadable
    /\ pc[p] = "clear" =>
         \A d \in MyDirs(p) \ job[p].todo : disk[d] = Absent
    /\ pc[p] = "copyBack" =>
         /\ job[p].todo \subseteq manifest
         /\ \A d \in MyDirs(p) \ job[p].todo : disk[d] = preDisk[d]
    /\ pc[p] = "restoreState" => disk = preDisk

ReleaseInv(p) ==
    pc[p] = "release" =>
        /\ disk # preDisk => BackupComplete(p)
        /\ job[p].outcome = "failed" => Untouched
        /\ job[p].outcome = "rollbackFailed" => MaxFaults > 0
        /\ job[p].outcome = "ok" => Updated(p) /\ disk \in Loadable
                                      /\ job[p].target \in Entry

(* Only the holder of the lock is past it; a free project is at rest. *)
LockInv ==
    /\ \A p \in Proc : pc[p] \in Holding <=> lock = p
    /\ lock = NoProc => Untouched

ProcInv(p) ==
    /\ LoopInv(p) /\ MemoryInv(p) /\ BackupInv(p)
    /\ FilesInv(p) /\ ReleaseInv(p)

IInv == TypeOK /\ LockInv /\ \A p \in Proc : ProcInv(p)

-----------------------------------------------------------------------------
ASSUME ProjectRemoteAssumption ==
    /\ NoProc \notin Proc
    /\ Daemon \subseteq Proc
    /\ NoVersion \notin Version
    /\ \A dirs \in SUBSET ManagedDir : dirs # NoManifest /\ dirs # TornManifest
    /\ NoManifest # TornManifest
    /\ InitVersion \in [Group -> Version \cup {NoVersion}]
    /\ ModeOf \in [FileTree -> {"single", "dual", "off"}]
    /\ InitialImage \subseteq Image
    /\ InitialTags \in [Group -> [Version -> Commit \cup {NoCommit}]]
    /\ HeadCommit \in [Group -> Commit]
    /\ MaxRuns \in Nat /\ MaxFaults \in Nat
    /\ MaxCrashes \in Nat /\ MaxPublish \in Nat
=============================================================================
