# gq in TLA+

gq is a GPU job queue for one user on one machine. A daemon keeps jobs in SQLite,
starts each one on whole GPUs as soon as enough of them are free, and survives its
own restarts: job processes live in sessions of their own and outlast it. What is
hard in it is not the arithmetic of allocation but the agreement of four things that
change on their own: the rows in SQLite, the memory and tasks of the daemon, the
process groups, and what NVML says about the devices. Around it, clients start and
stop daemons and repeat requests, `gq update` replaces the daemon while others use it,
and the system gives process numbers out again. This directory models all three,
model-checks them on small instances with TLC and proves their core with TLAPS.

Source paths below are relative to the package `gq`; documents are the repository's
own `README.md`, `docs/architecture.md` and `docs/usage.md`.

## The system

| Part | State | Operations | Hard behaviour |
|---|---|---|---|
| Job tables, `database.py` | `jobs`, `job_gpus`, `group_holds` | one transaction each: `create_job`, `reserve`, `mark_running`, `set_cancelling`, `finish`, `delete_jobs`, `set_group_hold`; `migrate` | crashes between two transactions and inside a migration; key uniqueness; id order |
| Scheduler, `scheduler.py` | `_paused`, `_held`, `_observations`, `_processes`, tasks, one lock | submit, cancel, retry, hold, pause, delete; the pass; launches; monitors; cancellation; reaping; recovery | tasks interleave at every `await`; failures in the middle of a launch; recovery from partial rows |
| Allocation, `allocator.py` | none | `classify_gpus`, `select_gpus` | a device free for NVML and reserved for gq |
| Process groups, `processes.py` | the machine's | identity by pid, start time and boot; SIGTERM, SIGKILL | launchers that exit before their workers; numbers used again, by other jobs too; identities of an earlier boot; `/proc` read while processes move |
| GPU observation, `nvml.py` | none | `snapshot` | devices without UUID, missing devices, failed scans |
| Daemon, `daemon.py` | instance lock, socket, `stop_event` | dispatch, reconciliation loop, start, shutdown | shutdown in the middle of a launch; two daemons at once, or one while the last still closes |
| Client, `cli.py` and `protocol.py` | none | requests, starting and stopping the daemon | answers that come too late; requests sent twice; two-step bulk operations |
| Update, `update.py` and `cli.py` | none | pause, wait, stop, install, start | failures half way; jobs that start in between |
| Records and paths, `models.py`, `paths.py` | none | job states, formats, names of files | none |

**Interaction.** Clients send one JSON request per connection; `_dispatch` calls the
scheduler. Every handler, every monitor, every cancellation task and the
reconciliation loop (every 2 s) take the same `asyncio` lock before they touch the
tables. Most of them end in a *pass*: read the `WAITING` rows once, visit them oldest
first, reserve devices for each that fits, and launch it. Inside the lock the code
awaits only at a launch; there, signals, job exits, shutdown and crashes can happen,
but no other handler runs. Outside the lock run the wait of a monitor for its process
group and the grace period of a cancellation. The daemon never signals jobs when it
stops; the next daemon compares the unfinished rows with `/proc`, the boot id and a
scan.

**What makes it correct.** No device reserved twice. A recorded process group keeps
its devices until its last process is gone, whoever crashes. All devices of a request
or none. No launch leaves a row behind. Whoever finishes a job, it is finished once. A
cancellation is carried through. A key belongs to one job. A retried lineage runs
once. Held groups do not start and a failing sweep is held in time. The queue drains.
A saved group is taken for alive exactly while its job is. One daemon at a time uses
the database, and clients reach it. Migrations are whole. A submission with a key takes
effect once, however often it is sent. An update loses no exit status and, where its
answers come in time and Ctrl-C where it is caught, leaves no daemon paused.
`PROJECT.json` lists the hazards at the lines where they bite.

## Modules

- **`Scheduler`** models the whole of the scheduler's control: tables, daemon, lock,
  process groups and devices. One action per handler or task step.
- **`SchedulerProperties`** states what must hold of it, without using the operators
  that model the code.
- **`SchedulerInvariant`** is the inductive invariant, in named parts.
- **`SchedulerProofs`** holds the invariant's proof and the theorems that follow from it,
  **`HistoryProofs`** what needs to know how rows, holds, keys, lineages and streaks came
  about, **`OrderProofs`** the order of the pass and how long the lock is held.
- **`GpuLedger`** is the abstract specification: jobs wait, take their whole request
  at once from devices nobody holds, and give everything back only when no process gq
  has on record is left. **`SchedulerLedger`** is the refinement mapping and
  **`LedgerProofs`** the proof that the scheduler implements the ledger.
- **`SchedulerClaims`** states sentences of the documents that the code does not keep.
  **`ClaimsProofs`** proves each of them from the condition that keeps away the steps
  that break it.
- **`MCScheduler`** has the values of constants for TLC.
- **`ProcessIdentity`** models processes, their numbers and how gq recognises a saved
  group, with its properties. **`ProcessProofs`** proves them, **`MCProcesses`** is for
  TLC, **`ProcessClaims`** states what does not hold. `Scheduler` takes its answer,
  alive or not, as one step.
- **`Daemon`** models the life of daemon processes: lock, socket, migrations, requests,
  shutdown, crash. Of the scheduler it keeps rows, pause, and which daemon is the parent
  of a job. **`Clients`** extends it with the commands that take several requests.
- **`Submissions`** is the abstract specification of what those who submit jobs are
  promised: accepted means stored, rows stay and keep their owner, a key in use gets no
  second row.
- **`ClientsProperties`** states what must hold of daemons and clients, among it that they
  implement `Submissions` (the mapping is `Promise`). **`ClientsProofs`** and
  **`UpdateProofs`** prove it, **`MCClients`** is for TLC, **`ClientsClaims`** states what
  does not hold.

### State of the scheduler

| Variables | Code |
|---|---|
| `state`, `request`, `nextId`, `rows`, `saved` | table `jobs` (state; gpus, group, key, retry_of; AUTOINCREMENT; pid, start time and boot id as one identity) and `job_gpus` |
| `ended`, `fast` | `end_time` order and "failed within fail_fast_seconds of its start", for jobs of groups |
| `holds`, `since`, `held` | table `group_holds`, its `changed_at`, and `Scheduler._held` |
| `phase`, `starts`, `paused` | the daemon process, `stop_event`, `_stopping`, `_paused` |
| `obs` | `_observations`, reduced to what allocation reads |
| `monitored`, `canceller` | `_processes`/`_monitor_tasks`, and the `_finish_cancellation` tasks |
| `pc`, `todo`, `cur`, `byTick` | who holds `Scheduler.lock` and where he is: the loop over rows he runs, the job he launches |
| `grp`, `cvd`, `killed`, `ext` | process groups, their `CUDA_VISIBLE_DEVICES`, SIGKILLs on their way, programs outside gq |

### Actions of the scheduler

Code under the lock that reaches no `await` is one action. `Submit`, `Cancel`,
`Retry`, `SetPaused`, `Hold`, `Release`, `Delete` and `Observe` are the handlers, each
with its refresh and the start of its pass. A pass is `Reserve` (one transaction),
`Spawn` (the fork), `RecordStart` (`mark_running`), or one of the ways a launch comes
to nothing: `SpawnFails`, `RecordFails`, `WriteFails` (the `finish` that should follow
raises too: the pass is given up and the job stays `STARTING` until it is reaped),
`ShortExit` (the launcher was waited for before its identity could be read),
`CancelTick` (shutdown cancels the loop in the middle of it). `MonitorExit`, `GraceOver`, `Escalate` and `FinishCancel` are the
tasks; `Tick`, `ReapJob`, `ReapDone` the reconciliation loop; `Start`, `RecoverJob`,
`RecoverDone` the start of a daemon, row by row because a crash may come between two
commits. `Stop`, `Close`, `Exit`, `Crash`, `Reboot`, `MonitorDies` end things; the
machine moves by `LauncherExits`, `GroupDies`, `ExternalStarts`, `ExternalStops`.

### Process groups

| Variables | Code |
|---|---|
| `proc`, `clock`, `boot` | the processes by number, with group (`pgid`), start time (`/proc/<pid>/stat`) and owner; ticks since the boot; `boot_id` |
| `saved` | `pid`, `pgid`, start time and boot of each job's row |
| `check` | the call of `managed_process_group_alive` under way: what it has listed and found |

`Launch`, `Fork`, `OutsideStarts`, `Exits` and `Reboot` are the kernel's moves and the
daemon's fork. `Begin`, `ReadIdentity`, `List`, `ReadGroup`, `Decide` and `Return` are
the call, cut where it reads `/proc`: between any two of them processes move.
`check.stayed` is history, for `StayerIsSeen`; the code has no such memory.

### Daemons and clients

A client and the daemon it may start share a name; `First` is a daemon started before.

| Variables | Code |
|---|---|
| `step`, `lock`, `socket` | where each daemon is in `run`; the `flock` on the lock file; whose socket the path names |
| `schema`, `txn` | `user_version` with the versions whose statements the tables have seen; the migration not yet committed |
| `job`, `alive`, `watcher`, `paused` | rows with their submitter, living job processes, the daemon whose child each is, `_paused` |
| `conns`, `inbox` | requests a daemon has not answered; what a client waits for, and its answer |
| `command`, `pc`, `sent` | what a client runs, where it is, how many requests it sent |

`TakeLock`, `LoseLock`, `RemoveStale`, `BeginMigration`, `RunStatement`,
`CommitMigration`, `RefuseSchema`, `Recover` and `Listen` are the start of a daemon in
its order; `Handle` is a request; `CloseServer`, `CloseDatabase`, `RemoveSocket` and
`Unlock` the `finally` clause of `run`; `Crash` may come anywhere. `Ask`, `Receive` and
`RequestFails` are `request`; `StartDaemon`, `AwaitDaemon`, `LookAtChild` and
`StartTimesOut` are `_start_daemon`; `StopDaemon` and `AwaitStop` are `_stop_daemon`;
`CheckDaemon`, `WaitForJobs`, `Refuse` and `Install` are `gq update`; `Interrupt` is
Ctrl-C in any command, wherever it is.

### Abstractions

- In `Scheduler`, a saved identity is valid exactly while the job's own group lives.
  `ProcessIdentity` says when that is so: `LiveGroupRecognised` always,
  `OnlyOwnGroupRecognised` as long as strangers with a saved number keep their leader.
- In `ProcessIdentity`, no number is given out twice within one tick, and a process
  that nobody has waited for yet counts as alive, as it does for `/proc`.
- SIGTERM has no effect of its own: any group may end at any time, or never.
- `cancel` and `cancel_many` are one action on a set of jobs, as are `delete_jobs` and
  `clean_jobs`. A refused submission or retry only refreshes: `Observe`.
- The order of `end_time` is the order of the commits; a wall clock set back is left
  out. Whether a failure was quick is a choice of the environment.
- `finish` and the automatic hold that follows from it are one step; so are
  `create_job` and `set_log_path`.
- Of the GPU states only FREE or not is kept. EXTERNAL, UNKNOWN and conflicts differ
  in what `gpu_status` shows and not in what is allocated.
- In `Daemon`, every command of a job succeeds: `FAILED` means that the exit status was
  lost. SIGTERM to a daemon is a shutdown request. `Server.wait_closed` waits for open
  connections (Python 3.12) or does not (3.11): both happen.
- In `Clients`, a ping is one step that may come out as "no daemon" when answers are
  slow. So is each list of the jobs that `_wait_for_running_jobs` asks for. Daemons of
  an older protocol are left out. Ctrl-C while the installer runs is no more than its end
  (cli.py:766): the `finally` clause restarts the daemon.
- A write to SQLite fails where it records a launch (`RecordFails`), where it ends a failed
  one (`WriteFails`; in the pass that ends recovery the exception ends the daemon, which is
  `WriteFails` and then `Crash`) and in a monitor (`MonitorDies`). A handler that fails
  between two of its transactions is left out.
- `cancel_many` of ids that are all skipped is `Cancel({})`: it only runs a pass.
- Names, paths, logs, argv, exit codes and the wire format are left out.

## Runs

| Run | Instance | Question |
|---|---|---|
| `core` | 2 GPUs, 3 jobs of 1 or 2 GPUs, one daemon; launchers exit early, spawns fail, launches cannot be recorded; cancel, pause | Do reservations, the order of the pass, the pause and the outcomes survive every interleaving of passes, launches, exits and cancellations? |
| `restart` | 2 GPUs, 2 jobs, 3 daemons; crash, reboot, stop at every step; missing devices; cancel, delete | The same across lives of the daemon; does the scheduler implement `GpuLedger`; is the invariant of the proofs one? |
| `sweep` | 1 GPU, 3 jobs of one group, hold after 2 quick failures; cancel, retry, hold, release; spawns and scans fail, an outside program comes and goes | Is every streak of failures held in time, does a lineage run once, does a pass that begins with a scan use it? |
| `keys` | 1 GPU, 3 jobs of one group with one key or none, hold after 1 quick failure, 2 daemons; cancel, retry, delete, crash | Is a key exclusive, does the mirror of the holds agree with the table, and does a held group start nothing? |
| `tasks` | 1 GPU, 2 jobs, 2 daemons; scans fail, monitors are lost, launches fail in every way, so does the write that ends one; crash, restart; cancel | Liveness: does a cancelled job end although it ignores SIGTERM, is the lock given back, does every queued job start? |
| `processes` | 3 numbers, 2 jobs and programs outside gq, 2 boots, 5 starts each | Is a saved group recognised exactly while its job lives, and can a call that reads `/proc` entry by entry miss it? |
| `commands` | 2 clients, 3 daemons, 2 rows, one key; a client submits while the other submits, starts, stops or updates (3 ways); crash, late answers, Ctrl-C anywhere; an old, current or newer schema | Do daemons take turns, are migrations whole, does a key take effect once, does the whole implement `Submissions`, does an update lose no status, does every command end? |
| `booking`, `launcher`, `orphan`, `recycled`, `paused` | the smallest instance that shows it | The five findings below, each violated. |

**Why the bounds are enough.** Two jobs are enough for any conflict between a pair of
jobs, and every invariant speaks of one or two; three add a pass with a job before
and one behind the job that is launched, a lineage with two retries, and a streak of
two failures with one outcome more. Two GPUs with requests of one and two give passes
where the older job does not fit and the younger one does. For liveness one GPU is
enough: both jobs want it, so each waits for the other to give it back, and which jobs
fit is a question of `core`. Three daemons give a
recovery of what a recovery left. Three process numbers are one for a leader, one for
its worker and one for the stranger that takes over; five starts let a number be given
out again twice. Two clients and the daemon before them make two daemons start at once
while a third closes, and two rows let a repeated submission go wrong. Two statements
stand for any number in a migration: a crash comes before, between or after them.

The bounds are `MaxJobs`, `MaxStarts`, `MaxForks` and `MaxBoots`; the sets `Submissions`,
`Requests`, `Faults`, `Commands` and `Versions` switch kinds of request, of failure and
of instance on per run. The theorems hold for all of them.

`CHECK_DEADLOCK FALSE` is set where the system may stop for good: after the last start
of a daemon, when all commands have ended, when all starts and boots are used up.

**Fairness.** `FairSpec` assumes of the code: the task that holds the lock goes on
(weak fairness; asyncio runs ready tasks, and a launch's awaits return); a task that
waits for the lock gets it (strong fairness, since the lock is only free now and then:
`asyncio.Lock` wakes waiters in order); the reconciliation loop ticks; a grace period
ends; a group sent SIGKILL dies. Nothing is assumed of clients, of starts of the
daemon or of failures. `EndingSpec` adds for `tasks` that commands end unless they are
being cancelled, and that scans succeed again and again, without which no queue drains;
`QueueDrains` excuses a daemon that is down for good and a device kept by an `ORPHANED`
job.

`Clients!FairSpec` assumes that some daemon that can go on does, that clients go on,
that the eight seconds of `_start_daemon` pass, and that the processes of jobs end. It
assumes nothing of starts, of timely answers or of the absence of kills.

## Findings

Five sentences of the documents and comments that the code does not keep; each run
shows the behaviour. For all but the fourth the proofs say what it takes to break them;
for the fourth `OnlyOwnGroupRecognised` does, which holds while strangers keep their leader.

1. `booking`: "never a double-booked one" (README.md:38). The fork (scheduler.py:530)
   and `mark_running` (566) are two steps. A daemon killed between them leaves a
   `STARTING` row without an identity; recovery fails it and frees its GPUs while the
   command runs on. If the command has no CUDA context when NVML is asked, the next
   job is started on the same GPU. `DoubleBookingNeedsLostLaunch` shows that this takes a
   launch given up between fork and record, or an `ORPHANED` job deleted under its
   processes.
2. `launcher`: resources are retained "until the rest of the process group disappears"
   (architecture.md:79). Not when the launcher has been waited for before its start
   time is read (scheduler.py:545): the job ends at once, whatever its workers do.
   `EndedJobsNeedLostLaunch` has the same two conditions.
3. `orphan`: "CANCELLING, then CANCELLED" (usage.md:128). A live cancelling job one of
   whose devices has no UUID in the first scan after a restart becomes `ORPHANED`, and
   nobody cancels it any more. `CancellationsLost` shows that the only other way is a
   reboot under the cancellation, which ends `FAILED`.
4. `recycled`: "a recycled PID is never mistaken for your job" (README.md:50). A group
   whose number is the saved one and whose own leader has exited is taken for the job
   without a look at any start time (processes.py:66-72): "a newly recycled group
   necessarily has a new leader" (59) stops being true when that leader exits.
5. `paused`: "Never leave a live daemon paused because the update did not go ahead"
   (cli.py:733). The clause catches `CLIError`; an answer that is late raises
   `ProtocolError`, and a slow ping counts as no daemon. Ctrl-C at the pause request (703)
   or at the stop (731) is not caught either, though usage.md:375 says that it resumes the
   queue. `UpdatesLeaveNoPause` shows that it takes such an answer or ping, such a Ctrl-C,
   or a second update.

Smaller ones without a run:

- `cancel`, `cancel_many`, resuming and releasing start a pass on the scan of whatever
  ran last, where architecture.md:34 has a new scan for each pass. `NewScanBeforePass`
  holds of all other passes.
- `_set_hold_locked` (scheduler.py:328) writes its reason to memory even when the table
  kept the first one, so a group held automatically and then by hand shows one reason
  before a restart and another after it.
- The pause is memory only: a daemon that is killed while `gq update` waits, or a second
  update, loses it, and jobs start before the stop. `UpdateLosesNoStatus` excuses both.
- `_start_daemon` gives up as soon as its own child has ended (cli.py:79), also when the
  child lost the lock to a daemon that is about to serve.
- When `/proc` cannot be opened, `process_group_members` reads it as empty from Python 3.13
  on (processes.py:38) and raises before, since `iterdir` is a generator there and opens
  it in the loop. `List` has both; with `Unreadable` set, `StayerIsSeen` does not hold.
- A failed launch whose `finish` raises too (scheduler.py:582) leaves its job `STARTING`,
  with its devices, until the reaper next looks. The jobs behind it wait for another pass.

## Proofs

`SchedulerProofs` proves for all values of the constants that satisfy
`ConstantsAssumption` (`GPU` is a finite set of naturals, ids and counts are naturals, `Submissions` ask for at least one
GPU, requests and faults are of the known kinds): `TypeOK`, `NoDoubleBooking`,
`LiveGroupKeepsReservation`, `RecordedGroupsDisjoint`, `WholeAssignment`,
`NoStuckStarting` (as long as the write that ends a failed launch succeeds),
`PassListStaysTrue`, and the action properties `OutcomeIsFinal` and `CancelSticks`.
`RecordedGroupsDisjoint` follows from two of the others and has no run of its own.

**The invariant.** None of these is inductive. `IInv` has three parts:

- `TypeOK`.
- `RowsInv`, what tables and launches agree on. `FreshIds` lets a submission create
  rows without touching a reservation. `RowsFollowState` says that a row before
  `mark_running` has no identity and that an identity of an earlier boot has no
  process; without it `RecordStart`, `Delete` and recovery could drop a live group.
  `LaunchInHand` carries the job of the launch across the awaits: still `STARTING`, its
  processes on the devices reserved. With these, the reservation properties become
  inductive.
- `ListsInv`, what the lock's holder remembers: the rows a pass still has to visit are
  `WAITING` and are all the younger waiting ones (`PassList`), those to reap have no
  recorded process (`ReapList`), those to recover are unfinished (`RecoverList`).
  `ReapJob` and `RecoverJob` act on lists that were read some steps before, so without
  these they could end a job that finished meanwhile or free devices in use.

`TypesKept`, `RowsKept` and `ListsKept` show that every action keeps its part, one step
per action; the shared cases are lemmas (`RowsFrame`, `RowsEnd`, `RowsCreate`,
`ListsFrame`, `ListsBegin`, `ListsNext`). `JobSteps` does the same for what a step may
do to a finished or cancelled job. The run `restart` also has TLC check `IInv`.

**The ledger.** `LedgerProofs` proves that the initial states map to one of the ledger and
that under `IInv` each action maps to a ledger step or changes nothing of it
(`StepMaps`). Three lemmas carry most of it: an action that leaves lives, devices and
recorded groups alone (`LedgerFrame`), one that ends a job and gives back its devices
(`LedgerEnd`), one that adds waiting jobs (`LedgerQueue`). The cases that need the
invariant are the launch (its devices are nobody's) and all that ends a job (no recorded
process is left, `ReapList` and `RowsFollowState`).

**History.** `HistoryProofs` starts from `RowSteps`: what any step may make of one row.
On it stand invariants that are inductive together with `IInv`:

- `HeldMirrorsTable`, `CancelNotForgotten` and `KeyExclusive` as they are. For keys the
  case that matters is a retry, which may copy the key of a job that failed only when no
  other job has it (`AttemptRows`).
- `PausedOnlyShrinks` needs `PauseStopsPasses`: while the queue is paused no pass is under
  way, since `pause` waits for the lock.
- `LineageRunsOnce` needs `LineageInv`: a first attempt is never younger than its retries
  (`RootsOld`), and an unfinished attempt is the newest of its lineage (`Newest`). A retry
  creates the newest attempt, of a lineage whose newest has finished.
- `NewScanBeforePass` follows from `RefreshSeesExternals`: no scan, also a failed one that
  keeps old devices, calls a device idle that another program uses.

- `StreakIsHeld` speaks of the last outcomes of a group that are still in the table. The
  proof names them by their positions in `ended`, so that an outcome added at the end is
  compared with a suffix and not with a filtered sequence. `OutcomesAreOver` (the job of
  an outcome has ended, and ids are not used again) keeps later steps from changing one.
  The property excuses failures that no running daemon saw and deleted rows (`Attended`),
  and has to: deleting the success that broke a streak leaves one that nobody holds.

**Order.** `OldestThatFitsFirst` speaks of the moment a job gets GPUs, the code of the
moment the pass went by the older ones, several launches and awaits earlier. `PassedOver`
connects the two: a waiting job the pass has gone by is held or asks for more devices than
are left, where those of the launch under way count as left, because a launch that fails
gives them back. That the pass finds devices whenever enough are left is `LowestExists`, by
the least size for which it would not. `HeldGroupsDoNotStart` needs no order, only that
memory mirrors the table (`HeldMirrorsTable`): the pass asks memory, the property the table.

**The lock.** `LockReleased` needs fairness; what it rests on does not. `StepsLeft` counts
what the holder of the lock still has to do: three steps for each job ahead of a pass, one
for each row ahead of recovery or reaping. `LockHolderProgresses` shows that no step of
anybody raises it while the lock is held and that each of the holder's lowers it;
`LockHoldsAreShort` that the holder is never stuck and that it is at most 4 * `MaxJobs` + 2.

**What the documents say.** `ClaimsProofs` separates the steps that break a sentence from
all the others.

- `SightInv`: processes see the devices of the job that holds them, and a row that never
  was launched has none. `Accounted`: every process is on record under a job that holds its
  devices, or belongs to the launch in hand. Every step keeps it if it satisfies
  `LaunchesRecorded` (the step that ends a launch whose processes live records them) and
  `OrphansKept` (no `ORPHANED` row is deleted under its processes), and the sentences of
  `booking` and `launcher` follow. The conditions are on steps and not on states, so all
  crashes, failures and cancellations elsewhere stay in.
- `DevicesGivenBack` has no condition: devices are given back under living processes only
  where those were never recorded, or by such a delete.
- `CancellationsLost` has none either: of all steps only two of recovery end a cancellation
  otherwise than as `CANCELLED`. `CancelsEndCancelled` is the sentence itself, for first
  scans that list every device (`FirstScanComplete`) and no reboot under a cancellation
  (`CancelledBeforeBoot`).

**Process groups.** `ProcessProofs` proves its `TypeOK`, `LiveGroupRecognised`,
`OnlyOwnGroupRecognised` and `StayerIsSeen` for any numbers, jobs and bounds that
satisfy `ProcessAssumption`. `ProcInv` says that everything that lives started before
`clock` and every saved identity before that (`Past`); that a living job is in the group
of its own saved number, of this boot (`OwnGroup`); that a group has one owner
(`OneOwner`); and that a stranger in a group with a saved number has its leader
(`StrangersLed`, where `LeadersStay`). `Past` is what keeps a new process from matching
a start time. `CallInv` says, for each stage of the call, what it has not yet passed
over: a process that stayed is still listed or already a member.

**Daemons and clients.** `ClientsProofs` proves `ServingDaemonIsReached`,
`SchemaMatchesVersion`, `SubmittedOnce`, `TypeOK` and `ImplementsSubmissions` under
`DaemonAssumption` (`MaxJobs` and versions are numbers, the faults are of the known kinds, and `None` is no
daemon, row or answer) and `CommandsAssumption`. `LifeInv` ties each step of a daemon to the lock, and the socket
to the one that listens; its part `SpawnsOnce` (a client that has not spawned its daemon
finds it unborn) is what keeps a spawn from replacing a daemon that lives. `SchemaInv` adds
to the schema what an open transaction may contain. `SubmittedOnce` needs no
strengthening beyond types: the key is looked up and the row written in one step.

That daemons and clients implement `Submissions` needs to know why an answer can be
believed, which `AnswersInv` says: a request a client still waits for is of the kind it
sent last, so a late answer to an earlier one is never taken for an acceptance, and once a
submission has been answered its job is stored (`Promise!Stored`). It stays stored because
no daemon removes a row (`StoredStays`), through recovery and migrations. The steps are
split by what they are in the abstract specification: nothing (`PromiseFrame`), a row
stored, jobs failed by a shutdown or recovery, a client that believes its answer.

**The update.** `UpdateProofs` proves `UpdateLosesNoStatus`. The property excuses killed
daemons, stops, forced updates and a second updater; `Calm` says that there were none, and
`UpdateInv` what holds then:

- `Watched`: a running job is a child of the daemon that schedules, and no job lost its
  status.
- `Messages`: a request on its way is with a daemon that will handle it, and the update has
  one out at a time, so a late answer is never taken for another request's.
- `PauseHolds`: from the answer to the pause on, the queue is paused and a daemon serves;
  from the sight of an empty list on, nothing runs.
- `StopsQuietly`: a daemon that shuts down does so in a paused, empty queue, and nobody is
  about to resume it.

Daemons that end, and clients that spawn one meanwhile, are the hard cases: `Calm` does not
keep a second daemon from being started, only `LifeInv` (one has the lock) does.

**The pause.** `UpdatesLeaveNoPause` is the sentence that `paused` refutes, for answers that
come in time (`InTime`: the fault `slow` is off), one update at a time (`OneUpdate`), and
Ctrl-C that does not hit the update where `cli.py` lets it through (`CtrlCWhereGuarded`): not
at the requests that pause, resume and stop nor between them. It may come before, in the
wait, which resumes the queue, once the daemon has agreed to stop, and in any other command
at any point. TLC finds the sentence violated without any one of the three. The invariant
`HandInv` says that the pause is always in somebody's hand: while a serving daemon is
paused, every update waits for the jobs, is about to stop the daemon or to resume it, or
has its request with the daemon or the list at hand (`Kept`, `InHand`); what an update waits
for is what it sent last (`Exchange`); a daemon that starts is not paused (`Fresh`); and
only an update pauses (`Roles`). Crashes, stops and starts of daemons stay in. The condition
is on steps: it is the premise `[][CtrlCWhereGuarded]_vars` of the theorem.

**Only model-checked.** Liveness under fairness: `CancellationEnds`, `QueueDrains`,
`LockReleased` and `CommandsEnd`. The prover does not treat it; of `LockReleased` the part
that needs no fairness is proved.

## Plan

Done: the scheduler with its tables, tasks, processes and devices; the ledger; process
groups; daemons, migrations, the commands of several requests and the update; what
submitters are promised; the invariants and proofs above. Left, in this order:

1. A specification of a job's group as `Scheduler` uses it (alive or not, in one step),
   and the proof that `ProcessIdentity` implements it where strangers keep their leader.
   It would turn the first item of the abstractions into a theorem.
2. `Allocator`: the whole classification of a device (FREE, EXTERNAL, UNKNOWN and the
   states of its job) against a reference definition, and a theorem that FREE implies
   unassigned and unused.
3. Bulk cancellation in two requests, and `gq logs --follow` against the end of a job.

## Not modelled

`paths.py` (names of files), printing and argument parsing in `cli.py`, the formats of
`protocol.py` and `models.py`, which version is newer and how gq was installed in
`update.py`: no behaviour over time that a model would say more about than the code. The
check of the protocol version and the refusal to run as root are guards with nothing
behind them. Bulk cancellation and following a log are in the plan above.
