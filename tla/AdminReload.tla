---------------------------- MODULE AdminReload ----------------------------
(***************************************************************************)
(* POST /admin/v1/reloads/model of the wfusion daemon: the handlers of     *)
(* concurrent requests, the runtime's reload task, the monitor that takes  *)
(* over when a handler answers before the task ended, a `wfadm conf        *)
(* update` in another process, clients that go away, and the shutdown.     *)
(*                                                                         *)
(* A handler runs without interruption between two awaits, and can be      *)
(* dropped only at one.  What a remote update does to the work root is the *)
(* subject of ProjectRemote; here `content` is who wrote it last.          *)
(***************************************************************************)
EXTENDS Naturals, FiniteSets

CONSTANTS
    Req,          \* requests to reload
    NoReq,        \* none
    Cli,          \* the process that runs `wfadm conf update`
    Nobody,       \* nobody holds the project lock
    Start,        \* the content the daemon booted from
    Torn,         \* the managed directories while Cli replaces them
    Broken,       \* what a rollback that failed left
    MaxCli,       \* bound on updates by Cli
    MaxDrops,     \* bound on clients that disconnect
    MaxFaults     \* bound on failures of the work root's files

ASSUME AdminReloadAssumption ==
    /\ NoReq \notin Req
    /\ Cli \notin Req /\ Nobody \notin Req \cup {Cli}
    /\ {Start, Torn, Broken} \cap (Req \cup {Cli}) = {}
    /\ Torn \notin {Start, Broken}
    /\ MaxCli \in Nat /\ MaxDrops \in Nat /\ MaxFaults \in Nat

VARIABLES
    gate,         \* reload_gate: the request whose handler holds it
    reloading,    \* the flag `reloading`
    status,       \* reload_state
    flock,        \* holder of project_remote.lock
    content,      \* who wrote the managed directories last
    runtime,      \* the content the running rules were loaded from
    cancelled,    \* the runtime's cancel token
    pc,           \* where the handler or the monitor of each request is
    job,          \* what they remember
    task,         \* the runtime's reload task of each request
    loaded,       \* the content that task read
    cliRuns, drops, faults    \* counters behind the bounds

project  == <<flock, content>>
runtimes == <<runtime, cancelled, task, loaded>>
bounds   == <<cliRuns, drops, faults>>
vars     == <<gate, reloading, status, project, runtimes, pc, job, bounds>>

Ended == {"applied", "blocked", "failed", "panicked"}

Result == {"none", "reload_done", "restart_required", "reload_failed",
           "update_failed", "update_in_progress"}

Author == Req \cup {Cli, Start, Torn, Broken}

(* `synced` is update_result.is_some(): a remote update is to be undone. *)
Job == [update : BOOLEAN, wait : BOOLEAN, synced : BOOLEAN,
        snap : Author, result : Result]

NoJob == [update |-> FALSE, wait |-> TRUE, synced |-> FALSE,
          snap |-> Start, result |-> "none"]

Init ==
    /\ gate = NoReq /\ reloading = FALSE /\ cancelled = FALSE
    /\ status = [current |-> NoReq, last |-> NoReq, result |-> "none"]
    /\ flock = Nobody /\ content = Start /\ runtime = Start
    /\ pc = [r \in Req |-> "new"]
    /\ job = [r \in Req |-> NoJob]
    /\ task = [r \in Req |-> "none"]
    /\ loaded = [r \in Req |-> Start]
    /\ cliRuns = 0 /\ drops = 0 /\ faults = 0

Goto(r, next) == pc' = [pc EXCEPT ![r] = next]

(* mark_reload_finished is about to be called with this result. *)
Finish(r, result) ==
    /\ Goto(r, "clearFlag")
    /\ job' = [job EXCEPT ![r].result = result]

Fault == faults < MaxFaults /\ faults' = faults + 1

-----------------------------------------------------------------------------
(* A request arrives; reload_gate.try_lock *)
Arrive(r) ==
    /\ pc[r] = "new" /\ gate = NoReq
    /\ gate' = r
    /\ \E update, wait \in BOOLEAN :
         job' = [job EXCEPT ![r].update = update, ![r].wait = wait]
    /\ Goto(r, "body")
    /\ UNCHANGED <<reloading, status, project, runtimes, bounds>>

GateBusy(r) ==
    /\ pc[r] = "new" /\ gate # NoReq
    /\ Goto(r, "done")
    /\ UNCHANGED <<gate, reloading, status, project, runtimes, job, bounds>>

(* The body is no reload request or contradicts the configuration, the     *)
(* runtime is shutting down, or a reload is in flight.                     *)
Refuse(r) ==
    /\ pc[r] = "body"
    /\ gate' = NoReq
    /\ Goto(r, "done")
    /\ UNCHANGED <<reloading, status, project, runtimes, job, bounds>>

(* Mutant of Accept: the gate alone is trusted. *)
AcceptAnyway(r) ==
    /\ pc[r] = "body" /\ ~cancelled
    /\ reloading' = TRUE
    /\ Goto(r, "started")
    /\ UNCHANGED <<gate, status, project, runtimes, job, bounds>>

(* A handler checks the cancel token and the flag, then sets the flag. *)
Accept(r) ==
    /\ pc[r] = "body" /\ ~cancelled /\ ~reloading
    /\ reloading' = TRUE
    /\ Goto(r, "started")
    /\ UNCHANGED <<gate, status, project, runtimes, job, bounds>>

(* mark_reload_started has the mutex. *)
RecordStart(r) ==
    /\ pc[r] = "started"
    /\ status' = [current |-> r, last |-> r, result |-> "none"]
    /\ Goto(r, "flock")
    /\ UNCHANGED <<gate, reloading, project, runtimes, job, bounds>>

(* acquire_project_remote_lock; the guard opens the file for itself, so    *)
(* two guards of one process exclude each other.                           *)
LockProject(r) ==
    /\ pc[r] = "flock" /\ flock = Nobody
    /\ flock' = r
    /\ Goto(r, "snapshot")
    /\ UNCHANGED <<gate, reloading, status, content, runtimes, job, bounds>>

(* Mutant of ProjectBusy: the early return does not end the reload. *)
ProjectBusyReturns(r) ==
    /\ pc[r] = "flock" /\ flock # Nobody
    /\ Goto(r, "return")
    /\ UNCHANGED <<gate, reloading, status, project, runtimes, job, bounds>>

ProjectBusy(r) ==
    /\ pc[r] = "flock" /\ flock # Nobody
    /\ Finish(r, "update_in_progress")
    /\ UNCHANGED <<gate, reloading, status, project, runtimes, bounds>>

Snapshot(r) ==
    /\ pc[r] = "snapshot"
    /\ \/ /\ job' = [job EXCEPT ![r].snap = content]
          /\ Goto(r, "sync")
          /\ UNCHANGED faults
       \/ Fault /\ Finish(r, "update_failed")
    /\ UNCHANGED <<gate, reloading, status, project, runtimes, cliRuns, drops>>

(* run_remote_sync undoes what it did before it reports an error. *)
Sync(r) ==
    /\ pc[r] = "sync"
    /\ \/ /\ ~job[r].update
          /\ Goto(r, "load")
          /\ UNCHANGED <<content, job, faults>>
       \/ /\ job[r].update
          /\ content' = r
          /\ job' = [job EXCEPT ![r].synced = TRUE]
          /\ Goto(r, "load")
          /\ UNCHANGED faults
       \/ /\ job[r].update
          /\ UNCHANGED <<content, faults>> \/ (Fault /\ content' = Broken)
          /\ Finish(r, "update_failed")
    /\ UNCHANGED <<gate, reloading, status, flock, runtimes, cliRuns, drops>>

(* Mutant of Spawn: an answer without waiting drops the project lock. *)
SpawnUnlocked(r) ==
    /\ pc[r] = "load"
    /\ task' = [task EXCEPT ![r] = "queued"]
    /\ IF job[r].wait THEN Goto(r, "wait") /\ UNCHANGED <<gate, flock>>
       ELSE Goto(r, "watch") /\ gate' = NoReq /\ flock' = Nobody
    /\ UNCHANGED <<reloading, status, content, runtime, cancelled, loaded, job,
                   bounds>>

(* The new configuration is loaded and the reload task spawned; without    *)
(* `wait` the handler answers at once and the monitor takes over.          *)
Spawn(r) ==
    /\ pc[r] = "load"
    /\ task' = [task EXCEPT ![r] = "queued"]
    /\ IF job[r].wait THEN Goto(r, "wait") /\ UNCHANGED gate
       ELSE Goto(r, "watch") /\ gate' = NoReq
    /\ UNCHANGED <<reloading, status, project, runtime, cancelled, loaded, job,
                   bounds>>

(* Mutant of LoadFails: the early return does not end the reload. *)
LoadFailsEarly(r) ==
    /\ pc[r] = "load"
    /\ Goto(r, "rollback")
    /\ job' = [job EXCEPT ![r].result = "reload_failed"]
    /\ UNCHANGED <<gate, reloading, status, project, runtimes, bounds>>

LoadFails(r) ==
    /\ pc[r] = "load"
    /\ Finish(r, "reload_failed")
    /\ UNCHANGED <<gate, reloading, status, project, runtimes, bounds>>

(* Mutant of WaitTimeout: the monitor is not given the project lock. *)
WaitTimeoutUnlocks(r) ==
    /\ pc[r] = "wait"
    /\ gate' = NoReq /\ flock' = Nobody
    /\ Goto(r, "watch")
    /\ UNCHANGED <<reloading, status, content, runtimes, job, bounds>>

(* timeout(wait_timeout, &mut task) elapses, whatever the task does. *)
WaitTimeout(r) ==
    /\ pc[r] = "wait"
    /\ gate' = NoReq
    /\ Goto(r, "watch")
    /\ UNCHANGED <<reloading, status, project, runtimes, job, bounds>>

(* The task ended: map_reload_result, or the arm for a join error. *)
TaskEnded(r) ==
    /\ pc[r] \in {"wait", "watch"} /\ task[r] \in Ended
    /\ Finish(r, CASE task[r] = "applied" -> "reload_done"
                   [] task[r] = "blocked" -> "restart_required"
                   [] OTHER -> "reload_failed")
    /\ UNCHANGED <<gate, reloading, status, project, runtimes, bounds>>

(* mark_reload_finished: the flag first, the state once it has the mutex. *)
ClearFlag(r) ==
    /\ pc[r] = "clearFlag"
    /\ reloading' = FALSE
    /\ Goto(r, "record")
    /\ UNCHANGED <<gate, status, project, runtimes, job, bounds>>

(* Mutant of RecordFinish: whoever is current is cleared. *)
RecordFinishClears(r) ==
    /\ pc[r] = "record"
    /\ status' = [current |-> NoReq, last |-> r, result |-> job[r].result]
    /\ Goto(r, "rollback")
    /\ UNCHANGED <<gate, reloading, project, runtimes, job, bounds>>

RecordFinish(r) ==
    /\ pc[r] = "record"
    /\ status' = [current |-> IF status.current = r THEN NoReq
                                                    ELSE status.current,
                  last |-> r, result |-> job[r].result]
    /\ Goto(r, "rollback")
    /\ UNCHANGED <<gate, reloading, project, runtimes, job, bounds>>

(* Mutant of Rollback: the monitor does not undo the update. *)
RollbackInHandler(r) ==
    /\ pc[r] = "rollback"
    /\ content' = IF job[r].synced /\ job[r].result = "reload_failed"
                       /\ gate = r THEN job[r].snap ELSE content
    /\ Goto(r, "return")
    /\ UNCHANGED <<gate, reloading, status, flock, runtimes, job, bounds>>

(* rollback_updated_project, on the paths that report reload_failed; a     *)
(* rollback that fails is only a warning in the answer.                    *)
Rollback(r) ==
    /\ pc[r] = "rollback"
    /\ IF job[r].synced /\ job[r].result = "reload_failed"
         THEN \/ content' = job[r].snap /\ UNCHANGED faults
              \/ content' = Broken /\ Fault
         ELSE UNCHANGED <<content, faults>>
    /\ Goto(r, "return")
    /\ UNCHANGED <<gate, reloading, status, flock, runtimes, job, cliRuns, drops>>

(* Its guards are dropped: the project lock, then the gate. *)
Return(r) ==
    /\ pc[r] = "return"
    /\ flock' = IF flock = r THEN Nobody ELSE flock
    /\ gate' = IF gate = r THEN NoReq ELSE gate
    /\ Goto(r, "done")
    /\ UNCHANGED <<reloading, status, content, runtimes, job, bounds>>

(* The client goes away: hyper drops the connection and with it the        *)
(* handler's future, which must be at an await: for the body, for the      *)
(* mutex of reload_state, or for the reload task.                          *)
Disconnect(r) ==
    /\ gate = r /\ pc[r] \in {"body", "started", "wait", "record"}
    /\ drops < MaxDrops /\ drops' = drops + 1
    /\ gate' = NoReq
    /\ flock' = IF flock = r THEN Nobody ELSE flock
    /\ Goto(r, "gone")
    /\ UNCHANGED <<reloading, status, content, runtimes, job, cliRuns, faults>>

-----------------------------------------------------------------------------
(* The runtime: apply_reload sends the request to the control loop of the  *)
(* reactor, which serves one at a time, reads the rules from the work root *)
(* and answers.  Once it is cancelled its channel is closed.               *)
ApplyBegin(r) ==
    /\ task[r] = "queued" /\ ~cancelled
    /\ \A q \in Req : task[q] # "running"
    /\ task' = [task EXCEPT ![r] = "running"]
    /\ loaded' = [loaded EXCEPT ![r] = content]
    /\ UNCHANGED <<gate, reloading, status, project, runtime, cancelled, pc,
                   job, bounds>>

ApplyEnd(r) ==
    /\ task[r] = "running"
    /\ \E end \in Ended :
         /\ task' = [task EXCEPT ![r] = end]
         /\ runtime' = IF end = "applied" THEN loaded[r] ELSE runtime
    /\ UNCHANGED <<gate, reloading, status, project, cancelled, loaded, pc,
                   job, bounds>>

ApplyClosed(r) ==
    /\ task[r] = "queued" /\ cancelled
    /\ task' = [task EXCEPT ![r] = "failed"]
    /\ UNCHANGED <<gate, reloading, status, project, runtime, cancelled,
                   loaded, pc, job, bounds>>

Cancel ==
    /\ ~cancelled /\ cancelled' = TRUE
    /\ UNCHANGED <<gate, reloading, status, project, runtime, task, loaded, pc,
                   job, bounds>>

(* `wfadm conf update` replaces the managed directories. *)
CliBegin ==
    /\ flock = Nobody /\ cliRuns < MaxCli
    /\ cliRuns' = cliRuns + 1
    /\ flock' = Cli /\ content' = Torn
    /\ UNCHANGED <<gate, reloading, status, runtimes, pc, job, drops, faults>>

CliEnd ==
    /\ flock = Cli
    /\ flock' = Nobody /\ content' = Cli
    /\ UNCHANGED <<gate, reloading, status, runtimes, pc, job, bounds>>

Handler(r) ==
    \/ Accept(r) \/ Refuse(r) \/ RecordStart(r) \/ LockProject(r)
    \/ ProjectBusy(r) \/ Snapshot(r) \/ Sync(r) \/ Spawn(r) \/ LoadFails(r)
    \/ TaskEnded(r) \/ ClearFlag(r) \/ RecordFinish(r) \/ Rollback(r)
    \/ Return(r)

Runtime(r) == ApplyBegin(r) \/ ApplyEnd(r) \/ ApplyClosed(r)

Next ==
    \/ \E r \in Req : Arrive(r) \/ GateBusy(r) \/ Handler(r) \/ WaitTimeout(r)
                        \/ Disconnect(r) \/ Runtime(r)
    \/ Cancel \/ CliBegin \/ CliEnd

Spec == Init /\ [][Next]_vars

(* Tasks are scheduled fairly, and the runtime answers every reload. *)
FairSpec ==
    Spec /\ \A r \in Req : WF_vars(Handler(r)) /\ WF_vars(Runtime(r))

-----------------------------------------------------------------------------
(* Between the handler's first look at the flag and the end of its reload. *)
InFlight == {"started", "flock", "snapshot", "sync", "load", "wait", "watch",
             "clearFlag"}

(* The runtime is never asked to reload while it still reloads, though a   *)
(* handler that answers early gives the gate back, and a client that goes  *)
(* away takes the handler's locks with it.                                 *)
AtMostOneApply ==
    \A r, q \in Req :
        task[r] \in {"queued", "running"} /\ task[q] \in {"queued", "running"}
            => r = q

(* current_request_id names the reload in flight, even when the reload     *)
(* before it records its end after this one recorded its start; when no    *)
(* request is left there is none, and the last one has a result.           *)
StatusFollows ==
    /\ \A r \in Req : pc[r] \in InFlight \ {"started"} => status.current = r
    /\ (\A r \in Req : pc[r] \in {"new", "done"}) =>
          /\ status.current = NoReq /\ ~reloading
          /\ status.last # NoReq => status.result # "none"

(* A reload that is about to be reported done left the runtime with the    *)
(* rules that are on disk at that moment.                                  *)
AppliedIsOnDisk ==
    \A r \in Req :
        pc[r] \in {"clearFlag", "record", "rollback", "return"}
          /\ job[r].result = "reload_done" => runtime = content

(* The project lock keeps a reload from reading the managed directories    *)
(* while `wfadm conf update` replaces them, and from reading an update that *)
(* the runtime has refused and the status already calls failed, but whose  *)
(* rollback is still to come (admin_api.rs:915).                           *)
ReadsWholeProject ==
    \A r, q \in Req :
        /\ loaded[r] # Torn
        /\ r # q /\ loaded[r] = q => job[q].result \notin {"none", "reload_failed"}

(* Nobody finds on disk an update whose reload the runtime refused: it is  *)
(* undone before the project lock is given back.                           *)
RefusedIsUndone ==
    flock = Nobody =>
        \A r \in Req :
            content = r => /\ job[r].result # "reload_failed"
                           /\ task[r] \notin {"failed", "panicked"}

(* `reloading` is true only while a reload is in flight. *)
ReloadingIsInFlight == reloading => \E r \in Req : pc[r] \in InFlight

(* A reload always ends: the flag is cleared, whether the handler, the     *)
(* monitor or an early return does it.                                     *)
ReloadEnds == reloading ~> ~reloading
=============================================================================
