------------------------- MODULE AdminReload_proof -------------------------
(***************************************************************************)
(* What AdminReload guarantees for any number of requests and any bounds:  *)
(* an inductive invariant, and the properties of its runs that follow.     *)
(*                                                                         *)
(* The flag `reloading` excludes a second reload, the project lock keeps   *)
(* the content still while one is under way.  A client that disconnects    *)
(* takes the lock with it and leaves the flag behind: what is about the    *)
(* lock is stated for `drops = 0`, until the first disconnect.             *)
(***************************************************************************)
EXTENDS AdminReload, TLAPS

USE AdminReloadAssumption

(* The program points of a handler, by what it has done so far. *)
Before  == {"new", "body", "started", "flock", "snapshot", "sync"}
Waiting == {"wait", "watch"}
Ending  == {"clearFlag", "record", "rollback", "return"}
Points  == Before \cup Waiting \cup Ending \cup {"load", "done", "gone"}

Underway == {"queued", "running"}

TypeOK ==
    /\ gate \in Req \cup {NoReq}
    /\ reloading \in BOOLEAN /\ cancelled \in BOOLEAN
    /\ status \in [current : Req \cup {NoReq}, last : Req \cup {NoReq},
                   result : Result]
    /\ flock \in Req \cup {Cli, Nobody}
    /\ content \in Author /\ runtime \in Author
    /\ pc \in [Req -> Points]
    /\ job \in [Req -> Job]
    /\ task \in [Req -> {"none"} \cup Underway \cup Ended]
    /\ loaded \in [Req -> Author]
    /\ cliRuns \in Nat /\ drops \in Nat /\ faults \in Nat

(* A reload in flight, or one whose client went away while the runtime     *)
(* still has its task: nobody is there to clear the flag.                  *)
Occupies(r) == pc[r] \in InFlight \/ (pc[r] = "gone" /\ task[r] \in Underway)

FlagInv ==
    /\ \A r \in Req : Occupies(r) => reloading
    /\ \A r, q \in Req : Occupies(r) /\ Occupies(q) => r = q
    /\ reloading => \E r \in Req : pc[r] \in InFlight \cup {"gone"}
    /\ \A r \in Req : pc[r] = "gone" => drops > 0

(* A handler spawns its task when the new configuration is loaded, and     *)
(* ends after the task.                                                    *)
TaskInv ==
    \A r \in Req :
        /\ pc[r] \in Before \cup {"load"} => task[r] = "none"
        /\ pc[r] \in Waiting => task[r] # "none"
        /\ pc[r] \in Ending \cup {"done"} => task[r] \notin Underway

(* The result is known when the handler ends, and is that of the task. *)
ResultInv ==
    \A r \in Req :
        /\ pc[r] \in Before \cup Waiting \cup {"load"} => job[r].result = "none"
        /\ pc[r] \in Ending => job[r].result # "none"
        /\ job[r].result \notin {"none", "reload_failed"} =>
             task[r] \in {"none", "applied", "blocked"}

StatusInv ==
    /\ \A r \in Req : pc[r] \in InFlight \ {"started"} => status.current = r
    /\ \A r \in Req :
         status.current = r =>
           pc[r] \in (InFlight \ {"started"}) \cup {"record", "gone"}
    /\ status.result = "none" => status.current = status.last

(* Who holds the project lock; the runtime has no task but the holder's.   *)
LockInv ==
    /\ \A r \in Req :
         /\ pc[r] \in {"snapshot", "sync", "load"} \cup Waiting => flock = r
         /\ pc[r] \in Ending /\ job[r].result # "update_in_progress" => flock = r
    /\ \A r, q \in Req : flock = r /\ task[q] \in Underway => q = r

(* What the runtime reads is what the holder of the lock keeps on disk. *)
DiskInv ==
    \A r \in Req :
        /\ pc[r] \in Waiting /\ task[r] = "running" => loaded[r] = content
        /\ pc[r] \in Waiting /\ task[r] = "applied" => runtime = content
        /\ pc[r] \in Ending /\ job[r].result = "reload_done" => runtime = content

(* An update of the project: what it wrote is found by others only after   *)
(* its reload was applied, or kept until a restart.                        *)
Kept(r) == job[r].result \notin {"none", "reload_failed"}

UpdateInv ==
    /\ content = Torn => flock = Cli
    /\ \A r \in Req :
         /\ job[r].synced => pc[r] \notin Before
         /\ ~job[r].synced =>
              /\ content # r
              /\ \A q \in Req : job[q].snap # r /\ loaded[q] # r
         /\ job[r].snap # r /\ job[r].snap # Torn
         /\ pc[r] = "return" /\ job[r].result = "reload_failed" => content # r

OthersInv ==
    drops = 0 =>
        /\ \A r \in Req : content = r => flock = r \/ Kept(r)
        /\ \A r \in Req : loaded[r] # Torn
        /\ \A r, q \in Req :
             r # q /\ (loaded[r] = q \/ job[r].snap = q) => Kept(q)

IInv ==
    /\ TypeOK /\ FlagInv /\ TaskInv /\ ResultInv
    /\ StatusInv /\ LockInv /\ DiskInv /\ UpdateInv /\ OthersInv

USE DEF Before, Waiting, Ending, Points, Underway, InFlight, Ended
USE DEF project, runtimes, bounds, Goto, Finish, Fault

-----------------------------------------------------------------------------
(* Every step keeps the invariant: one lemma per action. *)

LEMMA ArriveStep ==
    ASSUME IInv, NEW r \in Req, Arrive(r)
    PROVE  IInv'
<1>1. TypeOK'
  <2>1. PICK update, wait \in BOOLEAN :
           job' = [job EXCEPT ![r].update = update, ![r].wait = wait]
    BY DEF Arrive
  <2>2. [job[r] EXCEPT !.update = update, !.wait = wait] \in Job
    <3>1. job[r] \in Job
      BY DEF IInv, TypeOK
    <3>. QED BY <2>1, <3>1 DEF Job
  <2>3. job' = [job EXCEPT ![r] =
                  [job[r] EXCEPT !.update = update, !.wait = wait]]
    BY <2>1 DEF IInv, TypeOK
  <2>4. job' \in [Req -> Job]
    BY <2>2, <2>3 DEF IInv, TypeOK
  <2>. QED BY <2>4 DEF IInv, TypeOK, Arrive
<1>2. FlagInv' /\ TaskInv'
  BY DEF IInv, FlagInv, TaskInv, Occupies, Arrive
<1>3. ResultInv' /\ StatusInv'
  BY DEF IInv, TypeOK, ResultInv, StatusInv, Arrive
<1>4. LockInv' /\ DiskInv'
  BY DEF IInv, TypeOK, LockInv, DiskInv, Arrive
<1>5. UpdateInv' /\ OthersInv'
  BY DEF IInv, TypeOK, UpdateInv, OthersInv, Kept, Arrive
<1>. QED BY <1>1, <1>2, <1>3, <1>4, <1>5 DEF IInv

LEMMA GateBusyStep ==
    ASSUME IInv, NEW r \in Req, GateBusy(r)
    PROVE  IInv'
<1>1. TypeOK'
  BY DEF IInv, TypeOK, GateBusy
<1>2. FlagInv' /\ TaskInv'
  BY DEF IInv, FlagInv, TaskInv, Occupies, GateBusy
<1>3. ResultInv' /\ StatusInv'
  BY DEF IInv, ResultInv, StatusInv, GateBusy
<1>4. LockInv' /\ DiskInv'
  BY DEF IInv, LockInv, DiskInv, GateBusy
<1>5. UpdateInv' /\ OthersInv'
  BY DEF IInv, UpdateInv, OthersInv, Kept, GateBusy
<1>. QED BY <1>1, <1>2, <1>3, <1>4, <1>5 DEF IInv

LEMMA AcceptStep ==
    ASSUME IInv, NEW r \in Req, Accept(r)
    PROVE  IInv'
<1>1. TypeOK'
  BY DEF IInv, TypeOK, Accept
<1>2. FlagInv' /\ TaskInv'
  BY DEF IInv, TypeOK, FlagInv, TaskInv, Occupies, Accept
<1>3. ResultInv' /\ StatusInv'
  BY DEF IInv, ResultInv, StatusInv, Accept
<1>4. LockInv' /\ DiskInv'
  BY DEF IInv, LockInv, DiskInv, Accept
<1>5. UpdateInv' /\ OthersInv'
  BY DEF IInv, UpdateInv, OthersInv, Kept, Accept
<1>. QED BY <1>1, <1>2, <1>3, <1>4, <1>5 DEF IInv

LEMMA RefuseStep ==
    ASSUME IInv, NEW r \in Req, Refuse(r)
    PROVE  IInv'
<1>1. TypeOK'
  BY DEF IInv, TypeOK, Refuse
<1>2. FlagInv' /\ TaskInv'
  BY DEF IInv, FlagInv, TaskInv, Occupies, Refuse
<1>3. ResultInv' /\ StatusInv'
  BY DEF IInv, ResultInv, StatusInv, Refuse
<1>4. LockInv' /\ DiskInv'
  BY DEF IInv, LockInv, DiskInv, Refuse
<1>5. UpdateInv' /\ OthersInv'
  BY DEF IInv, UpdateInv, OthersInv, Kept, Refuse
<1>. QED BY <1>1, <1>2, <1>3, <1>4, <1>5 DEF IInv

LEMMA RecordStartStep ==
    ASSUME IInv, NEW r \in Req, RecordStart(r)
    PROVE  IInv'
<1>1. TypeOK'
  BY DEF IInv, TypeOK, Result, RecordStart
<1>2. FlagInv' /\ TaskInv'
  BY DEF IInv, FlagInv, TaskInv, Occupies, RecordStart
<1>3. ResultInv' /\ StatusInv'
  BY DEF IInv, TypeOK, ResultInv, StatusInv, FlagInv, Occupies, RecordStart
<1>4. LockInv' /\ DiskInv'
  BY DEF IInv, LockInv, DiskInv, RecordStart
<1>5. UpdateInv' /\ OthersInv'
  BY DEF IInv, UpdateInv, OthersInv, Kept, RecordStart
<1>. QED BY <1>1, <1>2, <1>3, <1>4, <1>5 DEF IInv

LEMMA LockProjectStep ==
    ASSUME IInv, NEW r \in Req, LockProject(r)
    PROVE  IInv'
<1>1. TypeOK'
  BY DEF IInv, TypeOK, LockProject
<1>2. FlagInv' /\ TaskInv'
  BY DEF IInv, FlagInv, TaskInv, Occupies, LockProject
<1>3. ResultInv' /\ StatusInv'
  BY DEF IInv, ResultInv, StatusInv, LockProject
<1>4. LockInv' /\ DiskInv'
  BY DEF IInv, TypeOK, LockInv, DiskInv, FlagInv, Occupies, TaskInv,
         LockProject
<1>5. UpdateInv' /\ OthersInv'
  BY DEF IInv, UpdateInv, OthersInv, Kept, LockProject
<1>. QED BY <1>1, <1>2, <1>3, <1>4, <1>5 DEF IInv

LEMMA ProjectBusyStep ==
    ASSUME IInv, NEW r \in Req, ProjectBusy(r)
    PROVE  IInv'
<1>1. TypeOK'
  BY DEF IInv, TypeOK, Job, Result, ProjectBusy
<1>2. FlagInv' /\ TaskInv'
  BY DEF IInv, FlagInv, TaskInv, Occupies, ProjectBusy
<1>3. ResultInv' /\ StatusInv'
  BY DEF IInv, TypeOK, ResultInv, StatusInv, TaskInv, ProjectBusy
<1>4. LockInv' /\ DiskInv'
  BY DEF IInv, TypeOK, LockInv, DiskInv, ProjectBusy
<1>5. UpdateInv' /\ OthersInv'
  BY DEF IInv, UpdateInv, OthersInv, Kept, ProjectBusy
<1>. QED BY <1>1, <1>2, <1>3, <1>4, <1>5 DEF IInv

LEMMA SnapshotStep ==
    ASSUME IInv, NEW r \in Req, Snapshot(r)
    PROVE  IInv'
<1>1. TypeOK'
  BY DEF IInv, TypeOK, Job, Result, Snapshot
<1>2. FlagInv' /\ TaskInv'
  BY DEF IInv, TypeOK, FlagInv, TaskInv, Occupies, Snapshot
<1>3. ResultInv' /\ StatusInv'
  BY DEF IInv, TypeOK, ResultInv, StatusInv, TaskInv, Job, Snapshot
<1>4. LockInv' /\ DiskInv'
  BY DEF IInv, TypeOK, LockInv, DiskInv, Job, Snapshot
<1>5. UpdateInv' /\ OthersInv'
  <2>1. \A q \in Req : job'[q].synced = job[q].synced
    BY DEF IInv, TypeOK, Job, Snapshot
  <2>2. \A q \in Req : \/ job'[q].snap = job[q].snap
                       \/ q = r /\ job'[q].snap = content
    BY DEF IInv, TypeOK, Job, Snapshot
  <2>3. flock = r /\ ~job[r].synced /\ content # Torn /\ content # r
    BY DEF IInv, LockInv, UpdateInv, Snapshot
  <2>4. \A q \in Req : Kept(q) => Kept(q)'
    BY DEF IInv, TypeOK, Job, ResultInv, Kept, Snapshot
  <2>5. UpdateInv'
    BY <2>1, <2>2, <2>3 DEF IInv, TypeOK, UpdateInv, Snapshot
  <2>6. OthersInv'
    BY <2>2, <2>3, <2>4 DEF IInv, OthersInv, Snapshot
  <2>. QED BY <2>5, <2>6
<1>. QED BY <1>1, <1>2, <1>3, <1>4, <1>5 DEF IInv

LEMMA SyncStep ==
    ASSUME IInv, NEW r \in Req, Sync(r)
    PROVE  IInv'
<1>1. TypeOK'
  <2>1. job' \in [Req -> Job]
    <3>1. job[r] \in Job
      BY DEF IInv, TypeOK
    <3>2. [job[r] EXCEPT !.synced = TRUE] \in Job
      BY <3>1 DEF Job
    <3>3. [job[r] EXCEPT !.result = "update_failed"] \in Job
      BY <3>1 DEF Job, Result
    <3>4. \/ job' = job
          \/ job' = [job EXCEPT ![r] = [job[r] EXCEPT !.synced = TRUE]]
          \/ job' = [job EXCEPT ![r] =
                         [job[r] EXCEPT !.result = "update_failed"]]
      BY DEF IInv, TypeOK, Sync
    <3>. QED BY <3>2, <3>3, <3>4 DEF IInv, TypeOK
  <2>2. content' \in Author
    BY DEF IInv, TypeOK, Author, Sync
  <2>3. faults' \in Nat
    BY DEF IInv, TypeOK, Sync
  <2>. QED BY <2>1, <2>2, <2>3 DEF IInv, TypeOK, Sync
<1>2. FlagInv' /\ TaskInv'
  BY DEF IInv, TypeOK, FlagInv, TaskInv, Occupies, Sync
<1>3. ResultInv' /\ StatusInv'
  BY DEF IInv, TypeOK, ResultInv, StatusInv, TaskInv, Job, Sync
<1>4. LockInv' /\ DiskInv'
  BY DEF IInv, TypeOK, LockInv, DiskInv, TaskInv, Job, Sync
<1>5. UpdateInv' /\ OthersInv'
  BY DEF IInv, TypeOK, UpdateInv, OthersInv, LockInv, Kept, TaskInv, Author,
         Job, Sync
<1>. QED BY <1>1, <1>2, <1>3, <1>4, <1>5 DEF IInv

LEMMA SpawnStep ==
    ASSUME IInv, NEW r \in Req, Spawn(r)
    PROVE  IInv'
<1>1. TypeOK'
  BY DEF IInv, TypeOK, Spawn
<1>2. FlagInv' /\ TaskInv'
  BY DEF IInv, TypeOK, FlagInv, TaskInv, Occupies, Spawn
<1>3. ResultInv' /\ StatusInv'
  BY DEF IInv, TypeOK, ResultInv, StatusInv, Spawn
<1>4. LockInv' /\ DiskInv'
  BY DEF IInv, TypeOK, LockInv, DiskInv, Spawn
<1>5. UpdateInv' /\ OthersInv'
  BY DEF IInv, TypeOK, UpdateInv, OthersInv, Kept, Spawn
<1>. QED BY <1>1, <1>2, <1>3, <1>4, <1>5 DEF IInv

LEMMA LoadFailsStep ==
    ASSUME IInv, NEW r \in Req, LoadFails(r)
    PROVE  IInv'
<1>1. TypeOK'
  BY DEF IInv, TypeOK, Job, Result, LoadFails
<1>2. FlagInv' /\ TaskInv'
  BY DEF IInv, FlagInv, TaskInv, Occupies, LoadFails
<1>3. ResultInv' /\ StatusInv'
  BY DEF IInv, TypeOK, ResultInv, StatusInv, LoadFails
<1>4. LockInv' /\ DiskInv'
  BY DEF IInv, LockInv, DiskInv, ResultInv, LoadFails
<1>5. UpdateInv' /\ OthersInv'
  BY DEF IInv, UpdateInv, OthersInv, Kept, ResultInv, LoadFails
<1>. QED BY <1>1, <1>2, <1>3, <1>4, <1>5 DEF IInv

LEMMA TaskEndedStep ==
    ASSUME IInv, NEW r \in Req, TaskEnded(r)
    PROVE  IInv'
<1>1. TypeOK'
  BY DEF IInv, TypeOK, Job, Result, TaskEnded
<1>2. FlagInv' /\ TaskInv'
  BY DEF IInv, FlagInv, TaskInv, Occupies, TaskEnded
<1>3. ResultInv' /\ StatusInv'
  BY DEF IInv, TypeOK, ResultInv, StatusInv, TaskEnded
<1>4. LockInv' /\ DiskInv'
  BY DEF IInv, LockInv, DiskInv, ResultInv, TaskEnded
<1>5. UpdateInv' /\ OthersInv'
  BY DEF IInv, UpdateInv, OthersInv, Kept, ResultInv, TaskEnded
<1>. QED BY <1>1, <1>2, <1>3, <1>4, <1>5 DEF IInv

LEMMA ClearFlagStep ==
    ASSUME IInv, NEW r \in Req, ClearFlag(r)
    PROVE  IInv'
<1>1. TypeOK'
  BY DEF IInv, TypeOK, ClearFlag
<1>2. FlagInv' /\ TaskInv'
  BY DEF IInv, TypeOK, FlagInv, TaskInv, Occupies, ClearFlag
<1>3. ResultInv' /\ StatusInv'
  BY DEF IInv, ResultInv, StatusInv, ClearFlag
<1>4. LockInv' /\ DiskInv'
  BY DEF IInv, LockInv, DiskInv, ClearFlag
<1>5. UpdateInv' /\ OthersInv'
  BY DEF IInv, UpdateInv, OthersInv, Kept, ClearFlag
<1>. QED BY <1>1, <1>2, <1>3, <1>4, <1>5 DEF IInv

LEMMA RecordFinishStep ==
    ASSUME IInv, NEW r \in Req, RecordFinish(r)
    PROVE  IInv'
<1>1. TypeOK'
  BY DEF IInv, TypeOK, Job, RecordFinish
<1>2. FlagInv' /\ TaskInv'
  BY DEF IInv, FlagInv, TaskInv, Occupies, RecordFinish
<1>3. ResultInv' /\ StatusInv'
  BY DEF IInv, ResultInv, StatusInv, RecordFinish
<1>4. LockInv' /\ DiskInv'
  BY DEF IInv, LockInv, DiskInv, RecordFinish
<1>5. UpdateInv' /\ OthersInv'
  BY DEF IInv, UpdateInv, OthersInv, Kept, RecordFinish
<1>. QED BY <1>1, <1>2, <1>3, <1>4, <1>5 DEF IInv

LEMMA RollbackStep ==
    ASSUME IInv, NEW r \in Req, Rollback(r)
    PROVE  IInv'
<1>1. TypeOK'
  BY DEF IInv, TypeOK, Job, Author, Rollback
<1>2. FlagInv' /\ TaskInv'
  BY DEF IInv, FlagInv, TaskInv, Occupies, Rollback
<1>3. ResultInv' /\ StatusInv'
  BY DEF IInv, ResultInv, StatusInv, Rollback
<1>4. LockInv' /\ DiskInv'
  BY DEF IInv, LockInv, DiskInv, Rollback
<1>5. UpdateInv' /\ OthersInv'
  BY DEF IInv, UpdateInv, OthersInv, LockInv, Kept, Rollback
<1>. QED BY <1>1, <1>2, <1>3, <1>4, <1>5 DEF IInv

LEMMA ReturnStep ==
    ASSUME IInv, NEW r \in Req, Return(r)
    PROVE  IInv'
<1>1. TypeOK'
  BY DEF IInv, TypeOK, Return
<1>2. FlagInv' /\ TaskInv'
  BY DEF IInv, FlagInv, TaskInv, Occupies, Return
<1>3. ResultInv' /\ StatusInv'
  BY DEF IInv, ResultInv, StatusInv, Return
<1>4. LockInv' /\ DiskInv'
  BY DEF IInv, TypeOK, LockInv, DiskInv, Return
<1>5. UpdateInv' /\ OthersInv'
  BY DEF IInv, UpdateInv, OthersInv, Kept, ResultInv, Return
<1>. QED BY <1>1, <1>2, <1>3, <1>4, <1>5 DEF IInv

LEMMA WaitTimeoutStep ==
    ASSUME IInv, NEW r \in Req, WaitTimeout(r)
    PROVE  IInv'
<1>1. TypeOK'
  BY DEF IInv, TypeOK, WaitTimeout
<1>2. FlagInv' /\ TaskInv'
  BY DEF IInv, FlagInv, TaskInv, Occupies, WaitTimeout
<1>3. ResultInv' /\ StatusInv'
  BY DEF IInv, ResultInv, StatusInv, WaitTimeout
<1>4. LockInv' /\ DiskInv'
  BY DEF IInv, LockInv, DiskInv, WaitTimeout
<1>5. UpdateInv' /\ OthersInv'
  BY DEF IInv, UpdateInv, OthersInv, Kept, WaitTimeout
<1>. QED BY <1>1, <1>2, <1>3, <1>4, <1>5 DEF IInv

LEMMA DisconnectStep ==
    ASSUME IInv, NEW r \in Req, Disconnect(r)
    PROVE  IInv'
<1>1. TypeOK'
  BY DEF IInv, TypeOK, Disconnect
<1>2. FlagInv' /\ TaskInv'
  BY DEF IInv, TypeOK, FlagInv, TaskInv, Occupies, Disconnect
<1>3. ResultInv' /\ StatusInv'
  BY DEF IInv, ResultInv, StatusInv, Disconnect
<1>4. LockInv' /\ DiskInv'
  BY DEF IInv, TypeOK, LockInv, DiskInv, Disconnect
<1>5. UpdateInv' /\ OthersInv'
  BY DEF IInv, TypeOK, UpdateInv, OthersInv, Disconnect
<1>. QED BY <1>1, <1>2, <1>3, <1>4, <1>5 DEF IInv

LEMMA ApplyBeginStep ==
    ASSUME IInv, NEW r \in Req, ApplyBegin(r)
    PROVE  IInv'
<1>1. TypeOK'
  BY DEF IInv, TypeOK, ApplyBegin
<1>2. FlagInv' /\ TaskInv'
  BY DEF IInv, FlagInv, TaskInv, Occupies, ApplyBegin
<1>3. ResultInv' /\ StatusInv'
  BY DEF IInv, ResultInv, StatusInv, ApplyBegin
<1>4. LockInv' /\ DiskInv'
  BY DEF IInv, TypeOK, LockInv, DiskInv, ApplyBegin
<1>5. UpdateInv' /\ OthersInv'
  <2>1. \A q \in Req : \/ loaded'[q] = loaded[q]
                       \/ q = r /\ loaded'[q] = content
    BY DEF IInv, TypeOK, ApplyBegin
  <2>2. UpdateInv'
    BY <2>1 DEF IInv, UpdateInv, ApplyBegin
  <2>3. drops = 0 => flock = r
    BY DEF IInv, TypeOK, TaskInv, FlagInv, LockInv, ApplyBegin
  <2>4. OthersInv'
    BY <2>1, <2>3 DEF IInv, TypeOK, UpdateInv, OthersInv, Kept, ApplyBegin
  <2>. QED BY <2>2, <2>4
<1>. QED BY <1>1, <1>2, <1>3, <1>4, <1>5 DEF IInv

LEMMA ApplyEndStep ==
    ASSUME IInv, NEW r \in Req, ApplyEnd(r)
    PROVE  IInv'
<1>1. TypeOK'
  BY DEF IInv, TypeOK, ApplyEnd
<1>2. FlagInv' /\ TaskInv'
  BY DEF IInv, FlagInv, TaskInv, Occupies, ApplyEnd
<1>3. ResultInv' /\ StatusInv'
  BY DEF IInv, ResultInv, StatusInv, ApplyEnd
<1>4. LockInv' /\ DiskInv'
  BY DEF IInv, LockInv, DiskInv, ResultInv, ApplyEnd
<1>5. UpdateInv' /\ OthersInv'
  BY DEF IInv, UpdateInv, OthersInv, Kept, ApplyEnd
<1>. QED BY <1>1, <1>2, <1>3, <1>4, <1>5 DEF IInv

LEMMA ApplyClosedStep ==
    ASSUME IInv, NEW r \in Req, ApplyClosed(r)
    PROVE  IInv'
<1>1. TypeOK'
  BY DEF IInv, TypeOK, ApplyClosed
<1>2. FlagInv' /\ TaskInv'
  BY DEF IInv, FlagInv, TaskInv, Occupies, ApplyClosed
<1>3. ResultInv' /\ StatusInv'
  BY DEF IInv, ResultInv, StatusInv, ApplyClosed
<1>4. LockInv' /\ DiskInv'
  BY DEF IInv, LockInv, DiskInv, ApplyClosed
<1>5. UpdateInv' /\ OthersInv'
  BY DEF IInv, UpdateInv, OthersInv, Kept, ApplyClosed
<1>. QED BY <1>1, <1>2, <1>3, <1>4, <1>5 DEF IInv

LEMMA CancelStep ==
    ASSUME IInv, Cancel
    PROVE  IInv'
<1>1. TypeOK' /\ FlagInv' /\ TaskInv' /\ ResultInv' /\ StatusInv'
  BY DEF IInv, TypeOK, FlagInv, Occupies, TaskInv, ResultInv, StatusInv, Cancel
<1>2. LockInv' /\ DiskInv' /\ UpdateInv' /\ OthersInv'
  BY DEF IInv, LockInv, DiskInv, UpdateInv, OthersInv, Kept, Cancel
<1>. QED BY <1>1, <1>2 DEF IInv

LEMMA CliBeginStep ==
    ASSUME IInv, CliBegin
    PROVE  IInv'
<1>1. TypeOK'
  BY DEF IInv, TypeOK, Author, CliBegin
<1>2. FlagInv' /\ TaskInv' /\ ResultInv' /\ StatusInv'
  BY DEF IInv, FlagInv, Occupies, TaskInv, ResultInv, StatusInv, CliBegin
<1>3. LockInv' /\ DiskInv'
  BY DEF IInv, TypeOK, ResultInv, Result, LockInv, DiskInv, CliBegin
<1>4. UpdateInv' /\ OthersInv'
  BY DEF IInv, TypeOK, UpdateInv, OthersInv, Kept, CliBegin
<1>. QED BY <1>1, <1>2, <1>3, <1>4 DEF IInv

LEMMA CliEndStep ==
    ASSUME IInv, CliEnd
    PROVE  IInv'
<1>1. TypeOK'
  BY DEF IInv, TypeOK, Author, CliEnd
<1>2. FlagInv' /\ TaskInv' /\ ResultInv' /\ StatusInv'
  BY DEF IInv, FlagInv, Occupies, TaskInv, ResultInv, StatusInv, CliEnd
<1>3. LockInv' /\ DiskInv'
  BY DEF IInv, TypeOK, ResultInv, Result, LockInv, DiskInv, CliEnd
<1>4. UpdateInv' /\ OthersInv'
  BY DEF IInv, TypeOK, UpdateInv, OthersInv, Kept, CliEnd
<1>. QED BY <1>1, <1>2, <1>3, <1>4 DEF IInv

LEMMA StutterStep ==
    ASSUME IInv, UNCHANGED vars
    PROVE  IInv'
<1>1. TypeOK' /\ FlagInv' /\ TaskInv' /\ ResultInv' /\ StatusInv'
  BY DEF IInv, TypeOK, FlagInv, Occupies, TaskInv, ResultInv, StatusInv, vars
<1>2. LockInv' /\ DiskInv' /\ UpdateInv' /\ OthersInv'
  BY DEF IInv, LockInv, DiskInv, UpdateInv, OthersInv, Kept, vars
<1>. QED BY <1>1, <1>2 DEF IInv

LEMMA InitIInv == Init => IInv
<1>. SUFFICES ASSUME Init PROVE IInv
  OBVIOUS
<1>1. TypeOK
  BY DEF Init, TypeOK, NoJob, Job, Result, Author
<1>2. FlagInv /\ TaskInv /\ ResultInv /\ StatusInv
  BY DEF Init, FlagInv, Occupies, TaskInv, ResultInv, StatusInv, NoJob
<1>3. LockInv /\ DiskInv /\ UpdateInv /\ OthersInv
  BY DEF Init, LockInv, DiskInv, UpdateInv, OthersInv, Kept, NoJob
<1>. QED BY <1>1, <1>2, <1>3 DEF IInv

LEMMA NextIInv ==
    ASSUME IInv, [Next]_vars
    PROVE  IInv'
<1>1. ASSUME NEW r \in Req, Handler(r)
      PROVE  IInv'
  BY <1>1, AcceptStep, RefuseStep, RecordStartStep, LockProjectStep,
     ProjectBusyStep, SnapshotStep, SyncStep, SpawnStep, LoadFailsStep,
     TaskEndedStep, ClearFlagStep, RecordFinishStep, RollbackStep, ReturnStep
  DEF Handler
<1>2. ASSUME NEW r \in Req, Runtime(r)
      PROVE  IInv'
  BY <1>2, ApplyBeginStep, ApplyEndStep, ApplyClosedStep DEF Runtime
<1>3. ASSUME NEW r \in Req,
             Arrive(r) \/ GateBusy(r) \/ WaitTimeout(r) \/ Disconnect(r)
      PROVE  IInv'
  BY <1>3, ArriveStep, GateBusyStep, WaitTimeoutStep, DisconnectStep
<1>4. CASE Cancel \/ CliBegin \/ CliEnd
  BY <1>4, CancelStep, CliBeginStep, CliEndStep
<1>5. CASE UNCHANGED vars
  BY <1>5, StutterStep
<1>. QED BY <1>1, <1>2, <1>3, <1>4, <1>5 DEF Next

(* The invariant holds in every state, for any number of requests. *)
THEOREM IInvInvariant == Spec => []IInv
<1>1. Init => IInv
  BY InitIInv
<1>2. IInv /\ [Next]_vars => IInv'
  BY NextIInv
<1>. QED BY <1>1, <1>2, PTL DEF Spec

-----------------------------------------------------------------------------
(* The properties of the runs. *)

(* Two requests never have a task at the runtime at the same time, though  *)
(* handlers answer early and clients go away: the flag that the second one *)
(* checks stays up until the first one's task has ended.                   *)
THEOREM OneApply == Spec => []AtMostOneApply
<1>1. IInv => AtMostOneApply
  BY DEF IInv, TypeOK, FlagInv, Occupies, TaskInv, AtMostOneApply
<1>. QED BY <1>1, IInvInvariant, PTL

(* The status names the reload in flight, and ends with a result, in       *)
(* whatever order the mutex is taken by the reload that ends and by the    *)
(* next one that starts.                                                   *)
THEOREM StatusIsCurrent == Spec => []StatusFollows
<1>1. ASSUME IInv
      PROVE  StatusFollows
  <2>1. \A r \in Req : pc[r] \in InFlight \ {"started"} => status.current = r
    BY <1>1 DEF IInv, StatusInv
  <2>2. ASSUME \A r \in Req : pc[r] \in {"new", "done"}
        PROVE  /\ status.current = NoReq /\ ~reloading
               /\ status.last # NoReq => status.result # "none"
    <3>1. status.current = NoReq
      BY <1>1, <2>2 DEF IInv, TypeOK, StatusInv
    <3>2. ~reloading
      BY <1>1, <2>2 DEF IInv, TypeOK, FlagInv
    <3>. QED BY <1>1, <3>1, <3>2 DEF IInv, StatusInv
  <2>. QED BY <2>1, <2>2 DEF StatusFollows
<1>. QED BY <1>1, IInvInvariant, PTL

(* "reload_done" is never said of rules other than those on disk.          *)
THEOREM DoneIsOnDisk == Spec => []AppliedIsOnDisk
<1>1. IInv => AppliedIsOnDisk
  BY DEF IInv, DiskInv, AppliedIsOnDisk
<1>. QED BY <1>1, IInvInvariant, PTL

(* Until the first client goes away in mid-reload, the flag is up only     *)
(* while somebody is there to clear it (MCAdminReload_stuck shows what     *)
(* happens after).                                                         *)
THEOREM FlagIsInFlight == Spec => [](drops = 0 => ReloadingIsInFlight)
<1>1. IInv => (drops = 0 => ReloadingIsInFlight)
  BY DEF IInv, TypeOK, FlagInv, ReloadingIsInFlight
<1>. QED BY <1>1, IInvInvariant, PTL

(* Until then the runtime reads neither a half-replaced project nor        *)
(* another request's update that was refused or is still undecided.        *)
THEOREM WholeProjectIsRead == Spec => [](drops = 0 => ReadsWholeProject)
<1>1. IInv => (drops = 0 => ReadsWholeProject)
  BY DEF IInv, OthersInv, Kept, ReadsWholeProject
<1>. QED BY <1>1, IInvInvariant, PTL

(* Until then an update whose reload was refused is undone before anybody  *)
(* else can take the project lock.                                         *)
THEOREM RefusedUpdateIsUndone == Spec => [](drops = 0 => RefusedIsUndone)
<1>1. ASSUME IInv, drops = 0
      PROVE  RefusedIsUndone
  <2>. SUFFICES ASSUME flock = Nobody, NEW r \in Req, content = r
                PROVE  /\ job[r].result # "reload_failed"
                       /\ task[r] \notin {"failed", "panicked"}
    BY DEF RefusedIsUndone
  <2>1. Kept(r)
    BY <1>1 DEF IInv, OthersInv
  <2>. QED BY <1>1, <2>1 DEF IInv, ResultInv, Kept
<1>. QED BY <1>1, IInvInvariant, PTL
=============================================================================
