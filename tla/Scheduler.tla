----------------------------- MODULE Scheduler -----------------------------
(***************************************************************************)
(* The gq daemon's scheduler: the job tables in SQLite, the memory and the *)
(* tasks of the daemon process around its one asyncio lock, and the        *)
(* process groups and GPUs it drives (scheduler.py, database.py,           *)
(* allocator.py, and what they use of processes.py, nvml.py, daemon.py).   *)
(*                                                                         *)
(* Code under the lock that reaches no await is one action; a pass, a      *)
(* recovery and a reap are broken where the code awaits or commits, so     *)
(* that crashes, cancellation tasks and the machine interleave with them.  *)
(***************************************************************************)
EXTENDS Integers, FiniteSets, Sequences

CONSTANTS
  GPU,            \* device indices, ordered as NVML numbers them
  MaxJobs,        \* bound: job ids are 1..MaxJobs
  MaxStarts,      \* bound: how often the daemon process is started
  Group,          \* group labels
  Key,            \* key labels
  Submissions,    \* the submissions clients send: [gpus, group, key]
  FailFastCount,  \* GQ_FAIL_FAST_COUNT; 0 disables automatic holds
  Externals,      \* GPUs on which programs outside gq may compute
  Requests,       \* the kinds of client request sent
  Faults          \* the kinds of failure that happen

RequestKinds == {"status", "cancel", "retry", "pause", "hold", "delete", "stop"}
FaultKinds   == {"scan", "device", "missing", "launcher", "spawn", "record",
                 "write", "monitor", "crash", "reboot"}

None == "none"

ASSUME ConstantsAssumption ==
  /\ GPU \subseteq Nat /\ IsFiniteSet(GPU)
  /\ MaxJobs \in Nat /\ MaxStarts \in Nat /\ FailFastCount \in Nat
  /\ None \notin Group /\ None \notin Key
  /\ Submissions \subseteq [gpus : Nat \ {0}, group : Group \cup {None},
                            key : Key \cup {None}]
  /\ Externals \subseteq GPU
  /\ Requests \subseteq RequestKinds
  /\ Faults \subseteq FaultKinds

JobId == 1..MaxJobs

VARIABLES
  \* The database.
  state,      \* jobs.state by id; None where there is no row
  request,    \* the submitted columns: gpus, group, key, retry_of (0: NULL)
  nextId,     \* AUTOINCREMENT: ids of deleted rows are not used again
  rows,       \* job_gpus: the devices recorded for each job
  saved,      \* the saved process identity, by the boot it belongs to
  ended,      \* DONE and FAILED jobs of groups in the order of their end_time
  fast,       \* the jobs that failed within fail_fast_seconds of starting
  holds,      \* group_holds: "free", or the reason the group is held
  since,      \* changed_at of a released group, as a position in ended
  \* The daemon process.
  phase,      \* "down", "up", "stopping" (stop_event set), "closed" (_stopping)
  starts,     \* how often the daemon was started
  paused,     \* _paused
  held,       \* _held, the mirror of group_holds
  obs,        \* _observations, reduced to what allocation reads
  monitored,  \* the jobs in _processes and _monitor_tasks
  canceller,  \* where each job's _finish_cancellation task is
  \* The lock and what its holder is doing.
  pc,         \* "free", or the step of the task that holds the lock
  todo,       \* the jobs still ahead in the loop it runs
  cur,        \* the job it is launching, 0 if none
  byTick,     \* whether the holder is the reconciliation loop
  \* The machine.
  grp,        \* each job's process group: leader alive, only workers left, dead
  cvd,        \* CUDA_VISIBLE_DEVICES of a live group
  killed,     \* groups sent SIGKILL and not dead yet
  ext         \* GPUs on which a program outside gq computes

tableVars   == <<request, nextId>>
jobVars     == <<state, rows, saved>>
outcomeVars == <<ended, fast>>
holdVars    == <<holds, held, since>>
daemonVars  == <<phase, starts, paused>>
taskVars    == <<monitored, canceller>>
lockVars    == <<pc, todo, cur, byTick>>
procVars    == <<grp, cvd, killed>>
machineVars == <<procVars, ext>>
vars == <<tableVars, jobVars, outcomeVars, holdVars, daemonVars, obs, taskVars,
          lockVars, machineVars>>

-----------------------------------------------------------------------------
(* States of jobs and GPUs.                                                *)

ActiveStates   == {"STARTING", "RUNNING", "CANCELLING"}
TerminalStates == {"DONE", "FAILED", "CANCELLED", "ORPHANED"}
JobStates      == {None, "WAITING"} \cup ActiveStates \cup TerminalStates

NoRequest == [gpus |-> 0, group |-> None, key |-> None, root |-> 0]

(* The states whose rows Database.assignments() returns.                   *)
AssignedStates_forgetsCancelling == {"STARTING", "RUNNING", "ORPHANED"}
AssignedStates_forgetsOrphaned == ActiveStates
AssignedStates == ActiveStates \cup {"ORPHANED"}

Assigned(g) == \E j \in JobId : state[j] \in AssignedStates /\ g \in rows[j]

(* An observation: listed and healthy without or with a compute process,   *)
(* listed by UUID but unread since NVML failed, listed without a UUID, or  *)
(* not listed.                                                             *)
Observation == {"idle", "busy", "error", "placeholder", "absent"}

(* classify_gpus, as allocation sees it: FREE needs a healthy device with  *)
(* no compute process at all and no assignment.                            *)
FreeGpus == {g \in GPU : obs[g] = "idle" /\ ~Assigned(g)}

(* What select_gpus may return: the n lowest of the free devices, nothing  *)
(* when there are fewer.                                                   *)
Lowest(D, free) == \A g \in D, h \in free \ D : g < h

SelectGpus_takesWhatThereIs(free, n) ==
  {D \in SUBSET free : D # {} /\ Cardinality(D) <= n /\ Lowest(D, free)}
SelectGpus(free, n) == {D \in SUBSET free : Cardinality(D) = n /\ Lowest(D, free)}

(* len(self._observations): a placeholder counts.                          *)
Visible(o) == Cardinality({g \in GPU : o[g] # "absent"})

Live(j) == grp[j] \in {"leader", "workers"}

(* managed_process_group_alive on the saved identity. Recycled process ids *)
(* are not modelled: a saved group is live exactly while the job's own is. *)
Alive(j) == saved[j] = "this" /\ Live(j)

(* What nvmlDeviceGetComputeRunningProcesses may answer for a device: a    *)
(* job that holds it need not have a CUDA context yet, or any more.        *)
Readings(g) ==
  (IF g \in ext THEN {"busy"}
   ELSE IF \E j \in JobId : Live(j) /\ g \in cvd[j] THEN {"idle", "busy"}
   ELSE {"idle"})
  \cup (IF "device" \in Faults THEN {"placeholder"} ELSE {})
  \cup (IF "missing" \in Faults THEN {"absent"} ELSE {})

(* After a failed scan the devices of the last one stay, without contents. *)
Degraded == [g \in GPU |-> IF obs[g] \in {"idle", "busy"} THEN "error" ELSE obs[g]]

(* _refresh_observations_locked.                                           *)
Refresh_keepsOldContents ==
  obs' \in {o \in [GPU -> Observation] : \A g \in GPU : o[g] \in Readings(g)}
             \cup {obs}
Refresh ==
  obs' \in {o \in [GPU -> Observation] : \A g \in GPU : o[g] \in Readings(g)}
             \cup (IF "scan" \in Faults THEN {Degraded} ELSE {})

-----------------------------------------------------------------------------
(* The lock, and the pass its holder ends with.                            *)

(* A handler or task can take the lock: the daemon runs, nobody holds it.  *)
LockFree_duringLaunch == phase # "down" /\ pc \in {"free", "spawned"}
LockFree == phase # "down" /\ pc = "free"

Unlock == pc' = "free" /\ todo' = {} /\ cur' = 0 /\ byTick' = FALSE

(* The early return of _try_schedule_locked.                               *)
Suspended_ignoresPause == phase' = "closed"
Suspended == paused' \/ phase' = "closed"

(* The WAITING jobs, as the handler that starts the pass has left them.    *)
WaitingJobs_readEarlier == {j \in JobId : state[j] = "WAITING"}
WaitingJobs == {j \in JobId : state'[j] = "WAITING"}

(* _try_schedule_locked reads the WAITING jobs once, then visits them.     *)
BeginPass(tick) ==
  IF Suspended
  THEN Unlock
  ELSE /\ pc' = "scan"
       /\ todo' = WaitingJobs
       /\ cur' = 0
       /\ byTick' = tick

-----------------------------------------------------------------------------
(* Finishing a job, and holding a group whose jobs keep failing.           *)

(* Database.finish. The end of a job and whether its failure came soon     *)
(* after its start are read only for jobs of a group.                      *)
Finish(j, final) ==
  /\ state' = [state EXCEPT ![j] = final]
  /\ ended' = IF final \in {"DONE", "FAILED"} /\ request[j].group # None
              THEN Append(ended, j) ELSE ended
  /\ \E quick \in BOOLEAN :
       /\ quick => final = "FAILED" /\ request[j].group # None
       /\ fast' = IF quick THEN fast \cup {j} ELSE fast

(* recent_group_outcomes without its limit: positions in the order of the  *)
(* end times.                                                              *)
Outcomes(g) ==
  {i \in DOMAIN ended' : /\ i > since[g]
                         /\ request[ended'[i]].group = g
                         /\ state'[ended'[i]] \in {"DONE", "FAILED"}}

(* The last FailFastCount outcomes are failures right after the start.     *)
Failing(g) ==
  \E i \in Outcomes(g) :
    LET latest == {k \in Outcomes(g) : i <= k}
    IN /\ Cardinality(latest) = FailFastCount
       /\ \A k \in latest : state'[ended'[k]] = "FAILED" /\ ended'[k] \in fast'

(* _set_hold_locked(g, True, why): the row keeps the first reason, memory  *)
(* takes the last one.                                                     *)
HoldGroup(g, why) ==
  /\ holds' = IF holds[g] = "free" THEN [holds EXCEPT ![g] = why] ELSE holds
  /\ held'  = [held EXCEPT ![g] = why]
  /\ UNCHANGED since

(* _set_hold_locked(g, False) for each group of a set.                     *)
ReleaseGroups(G) ==
  /\ holds' = [g \in Group |-> IF g \in G THEN "free" ELSE holds[g]]
  /\ held'  = [g \in Group |-> IF g \in G THEN "free" ELSE held[g]]
  /\ since' = [g \in Group |->
                 IF g \in G /\ holds[g] # "free" THEN Len(ended) ELSE since[g]]

(* _note_failure_locked, after the Finish of the same step.                *)
NoteFailure(j) ==
  LET g == request[j].group
  IN IF g # None /\ FailFastCount > 0 /\ held[g] = "free" /\ Failing(g)
     THEN HoldGroup(g, "auto")
     ELSE UNCHANGED holdVars

NoteOutcome(j, final) ==
  IF final = "FAILED" THEN NoteFailure(j) ELSE UNCHANGED holdVars

-----------------------------------------------------------------------------
(* Client requests, each one handler under the lock.                       *)

Exists(j) == state[j] # None

(* The transaction of create_job: a key is taken unless every job that has *)
(* it FAILED or was CANCELLED.                                             *)
KeyTaken_ifNotCancelling(k) ==
  k # None /\ \E j \in JobId :
    request[j].key = k /\ state[j] \in {"WAITING", "STARTING", "RUNNING", "DONE"}
KeyTaken(k) ==
  k # None /\ \E j \in JobId :
    request[j].key = k /\ state[j] \notin {None, "FAILED", "CANCELLED"}

(* Insert the rows of a function from new ids to requests.                 *)
Create_skipsAnId(new) ==
  /\ request' = [j \in JobId |-> IF j \in DOMAIN new THEN new[j] ELSE request[j]]
  /\ state' = [j \in JobId |-> IF j \in DOMAIN new THEN "WAITING" ELSE state[j]]
  /\ nextId' = nextId + Cardinality(DOMAIN new) + 1
  /\ UNCHANGED <<rows, saved>>
Create(new) ==
  /\ request' = [j \in JobId |-> IF j \in DOMAIN new THEN new[j] ELSE request[j]]
  /\ state' = [j \in JobId |-> IF j \in DOMAIN new THEN "WAITING" ELSE state[j]]
  /\ nextId' = nextId + Cardinality(DOMAIN new)
  /\ UNCHANGED <<rows, saved>>

(* submit. A refused submission only refreshes, like Observe.              *)
Submit(s) ==
  /\ LockFree
  /\ nextId \in JobId
  /\ Refresh
  /\ s.gpus <= Visible(obs')
  /\ ~KeyTaken(s.key)
  /\ Create([n \in {nextId} |->
                [gpus |-> s.gpus, group |-> s.group, key |-> s.key, root |-> 0]])
  /\ UNCHANGED <<outcomeVars, holdVars, daemonVars, taskVars, machineVars>>
  /\ BeginPass(FALSE)

(* gpu_status, and the refused submit or retry.                            *)
Observe ==
  /\ "status" \in Requests
  /\ LockFree
  /\ Refresh
  /\ UNCHANGED <<tableVars, jobVars, outcomeVars, holdVars, daemonVars, taskVars,
                 lockVars, machineVars>>

(* A job that is neither missing nor finished.                             *)
Cancellable_anyRow(j) == Exists(j)
Cancellable(j) == state[j] \in {"WAITING"} \cup ActiveStates

(* cancel and cancel_many, each _cancel_locked of a set of jobs, empty when *)
(* all of a batch are skipped; a pass follows anyway. SIGTERM by itself    *)
(* changes nothing: a group may always die, or ignore it.                  *)
Cancel(S) ==
  /\ "cancel" \in Requests
  /\ LockFree
  /\ \A j \in S : Cancellable(j)
  /\ state' = [j \in JobId |-> IF j \notin S THEN state[j]
                               ELSE IF state[j] = "WAITING" THEN "CANCELLED"
                               ELSE "CANCELLING"]
  /\ canceller' = [j \in JobId |->
                     IF j \in S /\ state[j] \in {"STARTING", "RUNNING"}
                     THEN "grace" ELSE canceller[j]]
  /\ UNCHANGED <<rows, saved, tableVars, outcomeVars, holdVars, daemonVars, obs,
                 monitored, machineVars>>
  /\ BeginPass(FALSE)

(* The first job of a retry lineage.                                       *)
Root(j) == IF request[j].root # 0 THEN request[j].root ELSE j

(* newer_attempt(job.retry_of or job.id, job.id).                          *)
NewerAttempt_rootOnly(j) == \E i \in JobId : Exists(i) /\ i > j /\ i = Root(j)
NewerAttempt(j) ==
  \E i \in JobId : Exists(i) /\ i > j /\ (i = Root(j) \/ request[i].root = Root(j))

Retryable(j) ==
  /\ state[j] \in {"FAILED", "CANCELLED"}
  /\ ~NewerAttempt(j)
  /\ request[j].gpus <= Visible(obs')
  /\ ~KeyTaken(request[j].key)

(* Of a batch, the jobs that get a new attempt: an attempt created earlier *)
(* in the batch takes the key.                                             *)
Chosen(S) ==
  {j \in S : /\ Retryable(j)
             /\ request[j].key # None =>
                  \A i \in S : i < j /\ Retryable(i) => request[i].key # request[j].key}

(* The ids of the new rows, given in the order of the batch: each new id   *)
(* with the job it retries.                                                *)
Numberings(C) ==
  {from \in [nextId..(nextId + Cardinality(C) - 1) -> C] :
     \A m, n \in DOMAIN from : m < n => from[m] < from[n]}

Attempts(from) ==
  [n \in DOMAIN from |-> [request[from[n]] EXCEPT !.root = Root(from[n])]]

(* retry. It also releases the groups of the jobs it resubmits.            *)
Retry(S) ==
  /\ "retry" \in Requests
  /\ LockFree
  /\ \A j \in S : Exists(j)
  /\ Refresh
  /\ nextId + Cardinality(Chosen(S)) - 1 <= MaxJobs
  /\ \E from \in Numberings(Chosen(S)) : Create(Attempts(from))
  /\ ReleaseGroups({g \in Group : held[g] # "free"
                                    /\ \E j \in Chosen(S) : request[j].group = g})
  /\ UNCHANGED <<outcomeVars, daemonVars, taskVars, machineVars>>
  /\ BeginPass(FALSE)

(* set_paused: resuming runs a pass.                                       *)
SetPaused(on) ==
  /\ "pause" \in Requests
  /\ LockFree
  /\ on # paused
  /\ paused' = on
  /\ UNCHANGED <<tableVars, jobVars, outcomeVars, holdVars, phase, starts, obs,
                 taskVars, machineVars>>
  /\ IF on THEN UNCHANGED lockVars ELSE BeginPass(FALSE)

(* set_group_held: a release that changed the table runs a pass.           *)
Hold(g) ==
  /\ "hold" \in Requests
  /\ LockFree
  /\ HoldGroup(g, "manual")
  /\ UNCHANGED <<tableVars, jobVars, outcomeVars, daemonVars, obs, taskVars,
                 lockVars, machineVars>>

Release(g) ==
  /\ "hold" \in Requests
  /\ LockFree
  /\ holds[g] # "free"
  /\ ReleaseGroups({g})
  /\ UNCHANGED <<tableVars, jobVars, outcomeVars, daemonVars, obs, taskVars,
                 machineVars>>
  /\ BeginPass(FALSE)

Deletable_anyRow(j) == Exists(j)
Deletable(j) == state[j] \in TerminalStates

(* delete_jobs, and clean_jobs, whose cutoff selects one such set. Rows    *)
(* and job_gpus go together.                                               *)
Delete(S) ==
  /\ "delete" \in Requests
  /\ LockFree
  /\ \A j \in S : Deletable(j)
  /\ state'   = [j \in JobId |-> IF j \in S THEN None ELSE state[j]]
  /\ request' = [j \in JobId |-> IF j \in S THEN NoRequest ELSE request[j]]
  /\ rows'    = [j \in JobId |-> IF j \in S THEN {} ELSE rows[j]]
  /\ saved'   = [j \in JobId |-> IF j \in S THEN None ELSE saved[j]]
  /\ fast'    = fast \ S
  /\ UNCHANGED <<nextId, ended, holdVars, daemonVars, obs, taskVars, lockVars,
                 machineVars>>

-----------------------------------------------------------------------------
(* The pass: visit the waiting jobs oldest first, launch each one that     *)
(* fits and is not held.                                                   *)

Startable_holdsUnchecked(j) == SelectGpus(FreeGpus, request[j].gpus) # {}
Startable(j) ==
  /\ request[j].group # None => held[request[j].group] = "free"
  /\ SelectGpus(FreeGpus, request[j].gpus) # {}

PassOver_allStarted == todo = {}
PassOver == \A j \in todo : ~Startable(j)

EndPass ==
  /\ pc = "scan"
  /\ PassOver
  /\ Unlock
  /\ UNCHANGED <<tableVars, jobVars, outcomeVars, holdVars, daemonVars, obs,
                 taskVars, machineVars>>

(* ORDER BY submit_time, id.                                               *)
Before_newestFirst(i, j) == i > j
Before(i, j) == i < j

(* Database.reserve: state and assignment in one transaction. The older    *)
(* jobs passed over are not looked at again in this pass.                  *)
Reserve(j) ==
  /\ pc = "scan"
  /\ j \in todo /\ Startable(j)
  /\ \A i \in todo : Before(i, j) => ~Startable(i)
  /\ state' = [state EXCEPT ![j] = "STARTING"]
  /\ \E D \in SelectGpus(FreeGpus, request[j].gpus) : rows' = [rows EXCEPT ![j] = D]
  /\ pc' = "reserved"
  /\ cur' = j
  /\ todo' = {i \in todo : Before(j, i)}
  /\ UNCHANGED <<saved, tableVars, outcomeVars, holdVars, daemonVars, obs,
                 taskVars, byTick, machineVars>>

(* create_subprocess_exec forks, then awaits: the first suspension point   *)
(* since the reservation.                                                  *)
Spawn ==
  /\ pc = "reserved"
  /\ grp' = [grp EXCEPT ![cur] = "leader"]
  /\ cvd' = [cvd EXCEPT ![cur] = rows[cur]]
  /\ pc' = "spawned"
  /\ UNCHANGED <<tableVars, jobVars, outcomeVars, holdVars, daemonVars, obs,
                 taskVars, todo, cur, byTick, killed, ext>>

(* After a launch that came to nothing the pass goes on.                   *)
NextInPass == pc' = "scan" /\ cur' = 0 /\ UNCHANGED <<todo, byTick>>

(* The except clause of _launch_locked.                                    *)
LaunchFailed_notNoted == Finish(cur, "FAILED") /\ UNCHANGED holdVars
LaunchFailed == Finish(cur, "FAILED") /\ NoteFailure(cur)

(* Opening the log, or the fork itself, raises.                            *)
SpawnFails ==
  /\ "spawn" \in Faults
  /\ pc = "reserved"
  /\ LaunchFailed
  /\ NextInPass
  /\ UNCHANGED <<tableVars, rows, saved, daemonVars, obs, taskVars, machineVars>>

(* mark_running, and the monitor task. The leader's /proc entry is there   *)
(* even when it has exited, until it is waited for.                        *)
RecordStart ==
  /\ pc = "spawned"
  /\ state' = [state EXCEPT ![cur] = "RUNNING"]
  /\ saved' = [saved EXCEPT ![cur] = "this"]
  /\ monitored' = monitored \cup {cur}
  /\ NextInPass
  /\ UNCHANGED <<rows, tableVars, outcomeVars, holdVars, daemonVars, obs,
                 canceller, machineVars>>

(* The leader has been waited for already: its exit status ends the job,   *)
(* whatever is left of its group.                                          *)
ShortExit(final) ==
  /\ pc = "spawned"
  /\ grp[cur] # "leader"
  /\ Finish(cur, final)
  /\ NoteOutcome(cur, final)
  /\ NextInPass
  /\ UNCHANGED <<tableVars, rows, saved, daemonVars, obs, taskVars, machineVars>>

(* Kill the group and wait for its leader. A leader that was gone is not   *)
(* followed by a kill.                                                     *)
KillLaunched ==
  IF grp[cur] = "leader"
  THEN \E left \in {"workers", "dead"} :
         /\ grp' = [grp EXCEPT ![cur] = left]
         /\ cvd' = IF left = "dead" THEN [cvd EXCEPT ![cur] = {}] ELSE cvd
         /\ killed' = IF left = "dead" THEN killed ELSE killed \cup {cur}
  ELSE UNCHANGED procVars

(* No identity can be read, or mark_running raises.                        *)
RecordFails ==
  /\ "record" \in Faults
  /\ pc = "spawned"
  /\ KillLaunched
  /\ LaunchFailed
  /\ NextInPass
  /\ UNCHANGED <<tableVars, rows, saved, daemonVars, obs, taskVars, ext>>

(* SQLite cannot be written: mark_running or the fork raises, and so does  *)
(* the finish that should follow. The pass is given up, its job STARTING.  *)
WriteFails ==
  /\ "write" \in Faults
  /\ \/ pc = "reserved" /\ "spawn" \in Faults /\ UNCHANGED procVars
     \/ pc = "spawned" /\ KillLaunched
  /\ Unlock
  /\ UNCHANGED <<tableVars, jobVars, outcomeVars, holdVars, daemonVars, obs,
                 taskVars, ext>>

(* Shutdown cancels the reconciliation loop while it awaits the launch:    *)
(* asyncio kills the child, no handler of ours sees the CancelledError.    *)
CancelTick ==
  /\ phase = "stopping" /\ byTick
  /\ pc = "spawned"
  /\ IF grp[cur] = "leader"
     THEN \E left \in {"workers", "dead"} :
            /\ grp' = [grp EXCEPT ![cur] = left]
            /\ cvd' = IF left = "dead" THEN [cvd EXCEPT ![cur] = {}] ELSE cvd
     ELSE UNCHANGED <<grp, cvd>>
  /\ Unlock
  /\ UNCHANGED <<tableVars, jobVars, outcomeVars, holdVars, daemonVars, obs,
                 taskVars, killed, ext>>

-----------------------------------------------------------------------------
(* The monitor and cancellation tasks.                                     *)

(* The leader was waited for and process_group_members finds nobody.       *)
GroupGone_leaderOnly(j) == grp[j] # "leader"
GroupGone(j) == grp[j] = "dead"

(* A job being cancelled ends CANCELLED, another by its exit status.       *)
ExitState_statusOnly(j, final) == final # "CANCELLED"
ExitState(j, final) == final = "CANCELLED" <=> state[j] = "CANCELLING"

(* _monitor_process: the group is gone; under the lock the row is read     *)
(* again, finished, and a pass follows on a new scan.                      *)
MonitorExit(j, final) ==
  /\ LockFree /\ phase # "closed"
  /\ j \in monitored
  /\ GroupGone(j)
  /\ state[j] \in ActiveStates
  /\ ExitState(j, final)
  /\ Finish(j, final)
  /\ NoteOutcome(j, final)
  /\ Refresh
  /\ monitored' = monitored \ {j}
  /\ UNCHANGED <<tableVars, rows, saved, daemonVars, canceller, machineVars>>
  /\ BeginPass(FALSE)

(* The monitor task ends on an error; its finally clause forgets the job.  *)
MonitorDies(j) ==
  /\ "monitor" \in Faults
  /\ j \in monitored
  /\ monitored' = monitored \ {j}
  /\ UNCHANGED <<tableVars, jobVars, outcomeVars, holdVars, daemonVars, obs,
                 canceller, lockVars, machineVars>>

(* _finish_cancellation, once the grace period is over or the group gone:  *)
(* a job with a monitor is the monitor's to finish.                        *)
AfterGrace(j) ==
  canceller' = [canceller EXCEPT ![j] = IF j \in monitored THEN None ELSE "wait"]

(* Within the grace period the group is found gone.                        *)
GraceOver(j) ==
  /\ canceller[j] = "grace"
  /\ ~Alive(j)
  /\ AfterGrace(j)
  /\ UNCHANGED <<tableVars, jobVars, outcomeVars, holdVars, daemonVars, obs,
                 monitored, lockVars, machineVars>>

(* The deadline passes first: SIGKILL to the group.                        *)
Kill_leavesIt(j) == UNCHANGED killed
Kill(j) == killed' = killed \cup {j}

Escalate(j) ==
  /\ canceller[j] = "grace"
  /\ Alive(j)
  /\ Kill(j)
  /\ AfterGrace(j)
  /\ UNCHANGED <<tableVars, jobVars, outcomeVars, holdVars, daemonVars, obs,
                 monitored, lockVars, grp, cvd, ext>>

(* A job without a monitor is finished by its cancellation task.           *)
FinishCancel(j) ==
  /\ LockFree
  /\ canceller[j] = "wait"
  /\ ~Alive(j)
  /\ canceller' = [canceller EXCEPT ![j] = None]
  /\ UNCHANGED <<tableVars, rows, saved, holdVars, daemonVars, monitored,
                 machineVars>>
  /\ IF state[j] = "CANCELLING"
     THEN Finish(j, "CANCELLED") /\ Refresh /\ BeginPass(FALSE)
     ELSE UNCHANGED <<state, outcomeVars, obs, lockVars>>

-----------------------------------------------------------------------------
(* The reconciliation loop: refresh, reap, pass.                           *)

(* A job no monitor watches is reaped when its group is gone.              *)
ReapTarget(j) == state[j] \in ActiveStates /\ j \notin monitored /\ ~Alive(j)

Tick ==
  /\ LockFree /\ phase = "up"
  /\ Refresh
  /\ pc' = "reap"
  /\ todo' = {j \in JobId : ReapTarget(j)}
  /\ cur' = 0
  /\ byTick' = TRUE
  /\ UNCHANGED <<tableVars, jobVars, outcomeVars, holdVars, daemonVars, taskVars,
                 machineVars>>

First(j) == j \in todo /\ \A i \in todo : j <= i

ReapState_failed(j) == "FAILED"
ReapState(j) == IF state[j] = "CANCELLING" THEN "CANCELLED" ELSE "FAILED"

ReapJob(j) ==
  /\ pc = "reap"
  /\ First(j)
  /\ Finish(j, ReapState(j))
  /\ todo' = todo \ {j}
  /\ UNCHANGED <<tableVars, rows, saved, holdVars, daemonVars, obs, taskVars, pc,
                 cur, byTick, machineVars>>

ReapDone_withoutPass ==
  /\ pc = "reap"
  /\ todo = {}
  /\ Unlock
  /\ UNCHANGED <<tableVars, jobVars, outcomeVars, holdVars, daemonVars, obs,
                 taskVars, machineVars>>
ReapDone ==
  /\ pc = "reap"
  /\ todo = {}
  /\ UNCHANGED <<tableVars, jobVars, outcomeVars, holdVars, daemonVars, obs,
                 taskVars, machineVars>>
  /\ BeginPass(TRUE)

-----------------------------------------------------------------------------
(* Start, recovery, shutdown and crash of the daemon.                      *)

NoObservation == [g \in GPU |-> "absent"]

(* Database.active_jobs, as recovery reads it.                             *)
Unfinished_andOrphans == {j \in JobId : state[j] \in ActiveStates \cup {"ORPHANED"}}
Unfinished == {j \in JobId : state[j] \in ActiveStates}

LoadHolds_none == UNCHANGED held
LoadHolds == held' = holds

(* initialize, up to the recovery: it loads the holds and scans once.      *)
Start ==
  /\ phase = "down" /\ starts < MaxStarts
  /\ phase' = "up" /\ starts' = starts + 1
  /\ LoadHolds
  /\ Refresh
  /\ pc' = "recover"
  /\ todo' = Unfinished
  /\ UNCHANGED <<tableVars, jobVars, outcomeVars, holds, since, paused, taskVars,
                 cur, byTick, machineVars>>

(* What recovery makes of an unfinished row: another boot's, one whose     *)
(* group is gone, one whose devices are not all listed, or a good one.     *)
Recovered_failsAll(j) == "FAILED"
Recovered_trustsUnsaved(j) == IF saved[j] = None THEN state[j] ELSE "FAILED"
Recovered(j) ==
  IF saved[j] = "earlier" THEN "FAILED"
  ELSE IF ~Alive(j) THEN IF state[j] = "CANCELLING" THEN "CANCELLED" ELSE "FAILED"
  ELSE IF rows[j] = {} \/ \E g \in rows[j] : obs[g] \in {"placeholder", "absent"}
  THEN "ORPHANED"
  ELSE state[j]

(* Only a row still CANCELLING gets a cancellation task.                   *)
ResumeCancel_never(j) == UNCHANGED canceller
ResumeCancel(j) ==
  canceller' = [canceller EXCEPT
                  ![j] = IF Recovered(j) = "CANCELLING" THEN "grace" ELSE @]

(* _recover_locked for one row.                                            *)
RecoverJob(j) ==
  /\ pc = "recover"
  /\ First(j)
  /\ IF Recovered(j) # state[j]
     THEN Finish(j, Recovered(j))
     ELSE UNCHANGED <<state, outcomeVars>>
  /\ ResumeCancel(j)
  /\ todo' = todo \ {j}
  /\ UNCHANGED <<tableVars, rows, saved, holdVars, daemonVars, obs, monitored, pc,
                 cur, byTick, machineVars>>

RecoverDone ==
  /\ pc = "recover"
  /\ todo = {}
  /\ UNCHANGED <<tableVars, jobVars, outcomeVars, holdVars, daemonVars, obs,
                 taskVars, machineVars>>
  /\ BeginPass(FALSE)

(* shutdown or SIGTERM sets stop_event, whoever holds the lock.            *)
Stop ==
  /\ "stop" \in Requests
  /\ phase = "up"
  /\ phase' = "stopping"
  /\ UNCHANGED <<tableVars, jobVars, outcomeVars, holdVars, starts, paused, obs,
                 taskVars, lockVars, machineVars>>

(* close: under the lock _stopping is set, then every task is cancelled.   *)
Close ==
  /\ phase = "stopping" /\ pc = "free"
  /\ phase' = "closed"
  /\ monitored' = {}
  /\ canceller' = [j \in JobId |-> None]
  /\ UNCHANGED <<tableVars, jobVars, outcomeVars, holdVars, starts, paused, obs,
                 lockVars, machineVars>>

(* The daemon process is gone: what it had in memory is.                   *)
ForgetMemory ==
  /\ phase' = "down"
  /\ paused' = FALSE
  /\ held' = [g \in Group |-> "free"]
  /\ obs' = NoObservation
  /\ monitored' = {}
  /\ canceller' = [j \in JobId |-> None]
  /\ Unlock
  /\ UNCHANGED starts

Exit ==
  /\ phase = "closed"
  /\ ForgetMemory
  /\ UNCHANGED <<tableVars, jobVars, outcomeVars, holds, since, machineVars>>

(* The daemon is killed, at any point. Jobs are sessions of their own.     *)
Crash ==
  /\ "crash" \in Faults
  /\ phase # "down"
  /\ ForgetMemory
  /\ UNCHANGED <<tableVars, jobVars, outcomeVars, holds, since, machineVars>>

(* The machine restarts: no process survives, saved identities are of an   *)
(* earlier boot.                                                           *)
Reboot ==
  /\ "reboot" \in Faults
  /\ ForgetMemory
  /\ saved' = [j \in JobId |-> IF saved[j] = "this" THEN "earlier" ELSE saved[j]]
  /\ grp' = [j \in JobId |-> IF grp[j] = None THEN None ELSE "dead"]
  /\ cvd' = [j \in JobId |-> {}]
  /\ killed' = {}
  /\ ext' = {}
  /\ UNCHANGED <<tableVars, state, rows, outcomeVars, holds, since>>

-----------------------------------------------------------------------------
(* The machine: job processes and programs outside gq.                     *)

UnchangedByMachine ==
  UNCHANGED <<tableVars, jobVars, outcomeVars, holdVars, daemonVars, obs, taskVars,
              lockVars>>

(* A launcher exits and leaves workers in its group.                       *)
LauncherExits(j) ==
  /\ "launcher" \in Faults
  /\ grp[j] = "leader"
  /\ grp' = [grp EXCEPT ![j] = "workers"]
  /\ UnchangedByMachine
  /\ UNCHANGED <<cvd, killed, ext>>

(* The last process of a group is gone, by itself or by a signal.          *)
GroupDies(j) ==
  /\ Live(j)
  /\ grp' = [grp EXCEPT ![j] = "dead"]
  /\ cvd' = [cvd EXCEPT ![j] = {}]
  /\ killed' = killed \ {j}
  /\ UnchangedByMachine
  /\ UNCHANGED ext

ExternalStarts(g) ==
  /\ g \in Externals \ ext
  /\ ext' = ext \cup {g}
  /\ UnchangedByMachine
  /\ UNCHANGED procVars

ExternalStops(g) ==
  /\ g \in ext
  /\ ext' = ext \ {g}
  /\ UnchangedByMachine
  /\ UNCHANGED procVars

-----------------------------------------------------------------------------
(* The specification.                                                      *)

Init ==
  /\ state   = [j \in JobId |-> None]
  /\ request = [j \in JobId |-> NoRequest]
  /\ nextId  = 1
  /\ rows    = [j \in JobId |-> {}]
  /\ saved   = [j \in JobId |-> None]
  /\ ended = <<>> /\ fast = {}
  /\ holds = [g \in Group |-> "free"]
  /\ since = [g \in Group |-> 0]
  /\ phase = "down" /\ starts = 0 /\ paused = FALSE
  /\ held = [g \in Group |-> "free"]
  /\ obs = NoObservation
  /\ monitored = {}
  /\ canceller = [j \in JobId |-> None]
  /\ pc = "free" /\ todo = {} /\ cur = 0 /\ byTick = FALSE
  /\ grp = [j \in JobId |-> None]
  /\ cvd = [j \in JobId |-> {}]
  /\ killed = {}
  /\ ext = {}

ClientRequest ==
  \/ \E s \in Submissions : Submit(s)
  \/ Observe
  \/ \E S \in SUBSET JobId : Cancel(S)
  \/ \E S \in SUBSET JobId \ {{}} : Retry(S)
  \/ \E on \in BOOLEAN : SetPaused(on)
  \/ \E g \in Group : Hold(g)
  \/ \E g \in Group : Release(g)
  \/ \E S \in SUBSET JobId \ {{}} : Delete(S)
  \/ Stop

(* What the task that holds the lock does next.                            *)
PassStep ==
  \/ EndPass
  \/ \E j \in JobId : Reserve(j)
  \/ Spawn
  \/ SpawnFails
  \/ RecordStart
  \/ \E final \in {"DONE", "FAILED"} : ShortExit(final)
  \/ RecordFails
  \/ WriteFails
RecoverStep == (\E j \in JobId : RecoverJob(j)) \/ RecoverDone
ReapStep    == (\E j \in JobId : ReapJob(j)) \/ ReapDone

MonitorEnds(j) == \E final \in {"DONE", "FAILED", "CANCELLED"} : MonitorExit(j, final)

TaskStep ==
  \/ \E j \in JobId : MonitorEnds(j)
  \/ \E j \in JobId : MonitorDies(j)
  \/ \E j \in JobId : GraceOver(j)
  \/ \E j \in JobId : Escalate(j)
  \/ \E j \in JobId : FinishCancel(j)
  \/ Tick

Lifecycle == Start \/ Close \/ Exit \/ Crash \/ Reboot \/ CancelTick

MachineStep ==
  \/ \E j \in JobId : LauncherExits(j)
  \/ \E j \in JobId : GroupDies(j)
  \/ \E g \in GPU : ExternalStarts(g)
  \/ \E g \in GPU : ExternalStops(g)

Next ==
  \/ ClientRequest
  \/ PassStep
  \/ RecoverStep
  \/ ReapStep
  \/ TaskStep
  \/ Lifecycle
  \/ MachineStep

Spec == Init /\ [][Next]_vars

(* asyncio runs every task that is ready, and its lock is handed over in   *)
(* arrival order: a step of the lock's holder is weakly fair, a task that  *)
(* waits for the lock is strongly fair. The grace period ends, and a group *)
(* sent SIGKILL dies. Nobody has to start the daemon again.                *)
Fairness ==
  /\ WF_vars(PassStep)
  /\ WF_vars(RecoverStep)
  /\ WF_vars(ReapStep)
  /\ SF_vars(Tick)
  /\ \A j \in JobId :
       /\ SF_vars(MonitorEnds(j))
       /\ SF_vars(FinishCancel(j))
       /\ WF_vars(GraceOver(j) \/ Escalate(j))
       /\ WF_vars(j \in killed /\ GroupDies(j))

FairSpec == Spec /\ Fairness

(* Moreover the commands users queue do end, cancelled ones only when they *)
(* are killed, and NVML does not fail every scan of the reconciliation     *)
(* loop from some time on.                                                 *)
EndingSpec ==
  /\ FairSpec
  /\ \A j \in JobId : WF_vars(state[j] # "CANCELLING" /\ GroupDies(j))
  /\ SF_vars(Tick /\ \A g \in GPU : obs'[g] \in {"idle", "busy"})
=============================================================================
