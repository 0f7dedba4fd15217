---------------------------- MODULE ClaimsProofs ----------------------------
(***************************************************************************)
(* Which steps stand between gq and what its documents say. SchedulerClaims*)
(* states three sentences that runs refute; here each is proved from the   *)
(* condition that keeps just the steps away that break it, and for every   *)
(* value of the constants.                                                 *)
(***************************************************************************)
EXTENDS SchedulerClaims, HistoryProofs

\* Ids are compared with nextId.
LEMMA IdsAreNumbers == JobId \subseteq Nat
BY ConstantsAssumption DEF JobId

-----------------------------------------------------------------------------
(* Processes see the devices reserved for their job.                       *)

\* A job that was never launched has no processes.
Unforked ==
  /\ \A j \in JobId : j >= nextId \/ state[j] = "WAITING" => grp[j] = None
  /\ pc = "reserved" => grp[cur] = None

\* The processes of a job that holds devices see these, on record or not.
SeesItsDevices == \A j \in JobId : Running(j) /\ Holding(j) => cvd[j] = rows[j]

SightInv == Unforked /\ SeesItsDevices

\* A step that moves no process keeps to it, if it reserves nothing.
LEMMA SightFrame ==
  ASSUME IInv, SightInv, Next, UNCHANGED <<rows, grp, cvd>>,
         pc' = "reserved" => pc = "reserved" /\ cur' = cur,
         pc = "scan" => state' = state
  PROVE  SightInv'
<1>n. nextId \in Nat /\ nextId' \in Nat /\ JobId \subseteq Nat
  <2>1. TypeOK /\ TypeOK'
    BY TypesKept DEF IInv, RowsInv
  <2> QED BY <2>1, IdsAreNumbers DEF TypeOK
<1>1. /\ \A j \in JobId : /\ j >= nextId' => j >= nextId
                          /\ state'[j] = "WAITING" => j >= nextId \/ state[j] = "WAITING"
                          /\ Holding(j)' => Holding(j)
  <2>1. CASE ~Created
    <3> SUFFICES ASSUME NEW j \in JobId
                 PROVE  /\ j >= nextId' => j >= nextId
                        /\ state'[j] = "WAITING" => j >= nextId \/ state[j] = "WAITING"
                        /\ Holding(j)' => Holding(j)
      OBVIOUS
    <3>1. RowStep(j) /\ nextId' = nextId
      BY <2>1, RowSteps
    <3> QED BY <3>1 DEF RowStep, Holding, None
  <2>2. CASE Created
    <3>1. PICK new : Creates(new)
      BY <2>2, SubmitCreates, RetryCreates DEF Created
    <3>2. \A j \in JobId : j < nextId => state'[j] = state[j]
      BY <3>1, <1>n DEF Creates, Create
    <3>3. \A j \in JobId : state'[j] = state[j] \/ state'[j] = "WAITING"
      BY <3>1 DEF Creates, Create
    <3>4. nextId' >= nextId
      BY <3>1 DEF Creates
    <3>5. \A j \in JobId : j >= nextId' => j >= nextId
      BY <3>4, <1>n
    <3>6. \A j \in JobId : j >= nextId \/ state'[j] = state[j]
      BY <3>2, <1>n
    <3> QED BY <3>3, <3>5, <3>6 DEF Holding
  <2> QED BY <2>1, <2>2
<1> QED BY <1>1 DEF SightInv, Unforked, SeesItsDevices, Running

\* Every step keeps to it.
LEMMA SightKept ==
  ASSUME IInv, SightInv, Next
  PROVE  SightInv'
<1> USE DEF tableVars, jobVars, outcomeVars, holdVars, daemonVars, lockVars, procVars,
            machineVars, taskVars
<1>t. /\ TypeOK /\ RowsInv /\ ListsInv
      /\ nextId \in Nat /\ JobId \subseteq Nat
      /\ grp \in [JobId -> {None, "leader", "workers", "dead"}]
      /\ cvd \in [JobId -> SUBSET GPU] /\ rows \in [JobId -> SUBSET GPU]
      /\ state \in [JobId -> JobStates]
  <2>1. TypeOK /\ RowsInv /\ ListsInv
    BY DEF IInv
  <2>2. nextId \in Nat
    BY <2>1 DEF TypeOK
  <2> QED BY <2>1, <2>2, IdsAreNumbers DEF TypeOK
<1>l. pc \in {"reserved", "spawned"} =>
        /\ cur \in JobId /\ state[cur] = "STARTING" /\ cur < nextId
        /\ pc = "spawned" /\ Running(cur) => cvd[cur] = rows[cur]
  <2>1. pc \in {"reserved", "spawned"} =>
          /\ cur \in JobId /\ state[cur] = "STARTING" /\ ~(cur >= nextId)
          /\ pc = "spawned" /\ Running(cur) => cvd[cur] = rows[cur]
    BY <1>t DEF RowsInv, LaunchInHand, FreshIds, None
  <2>2. cur \in JobId /\ ~(cur >= nextId) => cur < nextId
    BY <1>t
  <2> QED BY <2>1, <2>2
<1>f. ASSUME UNCHANGED <<rows, grp, cvd>>,
             pc' = "reserved" => pc = "reserved" /\ cur' = cur,
             pc = "scan" => state' = state
      PROVE  SightInv'
  BY <1>f, SightFrame
\* Where rows and requests stay, processes that end or change leave the rest.
<1>g. ASSUME UNCHANGED <<state, nextId, rows>>,
             pc' # "reserved" \/ (pc = "reserved" /\ cur' = cur),
             \A j \in JobId : /\ grp[j] = None => grp'[j] = None
                              /\ Running(j)' => Running(j) /\ cvd'[j] = cvd[j]
      PROVE  SightInv'
  BY <1>g, <1>l DEF SightInv, Unforked, SeesItsDevices, Holding
<1>1. ASSUME NEW j \in JobId, Reserve(j) PROVE SightInv'
  <2>1. /\ state[j] = "WAITING" /\ grp[j] = None
        /\ state' = [state EXCEPT ![j] = "STARTING"] /\ cur' = j
        /\ UNCHANGED <<nextId, grp, cvd>>
        /\ \A i \in JobId : i # j => rows'[i] = rows[i]
    BY <1>1, <1>t DEF Reserve, ListsInv, PassList, SightInv, Unforked
  <2> QED BY <2>1, <1>t DEF SightInv, Unforked, SeesItsDevices, Running, Holding, None
<1>2. CASE Spawn
  <2>1. /\ grp' = [grp EXCEPT ![cur] = "leader"]
        /\ cvd' = [cvd EXCEPT ![cur] = rows[cur]]
        /\ pc = "reserved" /\ pc' = "spawned"
        /\ UNCHANGED <<state, nextId, rows>>
    BY <1>2 DEF Spawn
  <2> QED BY <2>1, <1>t, <1>l DEF SightInv, Unforked, SeesItsDevices, Running, Holding
<1>3. CASE RecordFails
  <2>1. /\ pc = "spawned" /\ pc' = "scan" /\ UNCHANGED <<nextId, rows>>
        /\ state' = [state EXCEPT ![cur] = "FAILED"]
        /\ \A j \in JobId : j # cur => grp'[j] = grp[j] /\ cvd'[j] = cvd[j]
    BY <1>3, <1>t, <1>l, LaunchFailedTyped, KillSpares DEF RecordFails, NextInPass
  <2> QED BY <2>1, <1>t, <1>l DEF SightInv, Unforked, SeesItsDevices, Running, Holding
<1>4. CASE CancelTick
  <2>1. /\ pc = "spawned" /\ pc' = "free" /\ UNCHANGED <<state, nextId, rows>>
        /\ \A j \in JobId : j # cur => grp'[j] = grp[j] /\ cvd'[j] = cvd[j]
        /\ grp'[cur] \in {"leader", "workers"} => Running(cur) /\ cvd'[cur] = cvd[cur]
        /\ grp[cur] = None => grp'[cur] = None
    <3>1. cur \in JobId /\ pc = "spawned"
      BY <1>4, <1>l DEF CancelTick
    <3>2. CASE grp[cur] = "leader"
      BY <1>4, <1>t, <3>1, <3>2 DEF CancelTick, Unlock, Running, None
    <3>3. CASE grp[cur] # "leader"
      BY <1>4, <1>t, <3>1, <3>3 DEF CancelTick, Unlock, Running, None
    <3> QED BY <3>2, <3>3
  <2> QED BY <2>1, <1>g DEF Running
<1>15. CASE WriteFails
  <2>1. UNCHANGED <<state, nextId, rows>>
    BY <1>15 DEF WriteFails
  <2>2. pc' # "reserved"
    BY <1>15 DEF WriteFails, Unlock
  <2>3. ASSUME NEW j \in JobId
        PROVE  /\ grp[j] = None => grp'[j] = None
               /\ Running(j)' => Running(j) /\ cvd'[j] = cvd[j]
    BY <1>15, <1>t, KillSpares DEF WriteFails, Running, None
  <2> QED BY <2>1, <2>2, <2>3, <1>g
<1>5. ASSUME NEW S \in SUBSET JobId, Delete(S) PROVE SightInv'
  <2>1. /\ pc = "free" /\ pc' = pc /\ UNCHANGED <<nextId, grp, cvd>>
        /\ \A j \in JobId : j \in S => state'[j] = None
        /\ \A j \in JobId : j \notin S => state'[j] = state[j] /\ rows'[j] = rows[j]
    BY <1>5 DEF Delete, LockFree
  <2> QED BY <2>1 DEF SightInv, Unforked, SeesItsDevices, Running, Holding, None
<1>6. CASE Reboot
  BY <1>6, <1>g DEF Reboot, ForgetMemory, Unlock, Running, None
<1>7. ASSUME NEW j \in JobId, LauncherExits(j) PROVE SightInv'
  BY <1>7, <1>g, <1>t DEF LauncherExits, UnchangedByMachine, Running, None
<1>8. ASSUME NEW j \in JobId, GroupDies(j) PROVE SightInv'
  BY <1>8, <1>g, <1>t DEF GroupDies, Live, UnchangedByMachine, Running, None
<1>9. CASE ClientRequest
  BY <1>5, <1>9, <1>f
     DEF ClientRequest, Submit, Observe, Cancel, Retry, SetPaused, Hold, Release, Stop,
         BeginPass, Unlock, Create, LockFree
<1>10. CASE PassStep
  BY <1>1, <1>2, <1>3, <1>10, <1>15, <1>f
     DEF PassStep, EndPass, Unlock, SpawnFails, RecordStart, ShortExit, NextInPass
<1>11. CASE RecoverStep \/ ReapStep
  BY <1>11, <1>f
     DEF RecoverStep, ReapStep, RecoverJob, RecoverDone, ReapJob, ReapDone, BeginPass, Unlock
<1>12. CASE TaskStep
  BY <1>12, <1>f
     DEF TaskStep, MonitorEnds, MonitorExit, MonitorDies, GraceOver, Escalate, FinishCancel,
         Tick, BeginPass, Unlock, LockFree
<1>13. CASE Lifecycle
  BY <1>4, <1>6, <1>13, <1>f
     DEF Lifecycle, Start, Close, ForgetMemory, Unlock, Exit, Crash
<1>14. CASE MachineStep
  BY <1>7, <1>8, <1>14, <1>f
     DEF MachineStep, ExternalStarts, ExternalStops, UnchangedByMachine
<1> QED BY <1>9, <1>10, <1>11, <1>12, <1>13, <1>14 DEF Next

\* Without any condition.
LEMMA SightInvariance == Spec => []SightInv
<1>1. Init => SightInv
  BY DEF Init, SightInv, Unforked, SeesItsDevices, Running, Holding, None
<1>2. IInv /\ SightInv /\ [Next]_vars => SightInv'
  <2>1. CASE UNCHANGED vars
    BY <2>1 DEF vars, tableVars, jobVars, lockVars, procVars, machineVars, SightInv,
                Unforked, SeesItsDevices, Running, Holding
  <2> QED BY <2>1, SightKept
<1> QED BY <1>1, <1>2, Invariance, PTL DEF Spec

-----------------------------------------------------------------------------
(* Devices given back too early.                                           *)

\* No launch is given up while processes it forked live: no crash between the
\* fork and the commit of mark_running, no failure to record a start and no
\* launcher that is gone before its identity is read leaves workers behind.
LaunchesRecorded ==
  pc = "spawned" /\ pc' # "spawned" /\ grp'[cur] \in {"leader", "workers"} =>
    saved'[cur] # None

\* A job set aside is not deleted while its processes live.
OrphansKept == \A j \in JobId : state[j] = "ORPHANED" /\ Running(j) => state'[j] # None

\* Every process is on record under a job that holds its devices, or belongs to
\* the launch in hand.
Accounted ==
  \A j \in JobId :
    Running(j) => /\ Holding(j)
                  /\ saved[j] # None \/ (pc = "spawned" /\ cur = j)

\* Only the fork of a launch gives a job processes.
LEMMA ForkedBySpawn ==
  ASSUME IInv, Next, NEW j \in JobId, ~Running(j), Running(j)'
  PROVE  Spawn /\ cur = j
<1> USE DEF procVars, machineVars, Running
<1>t. /\ grp \in [JobId -> {None, "leader", "workers", "dead"}]
      /\ pc \in {"reserved", "spawned"} => cur \in JobId
  BY DEF IInv, TypeOK, RowsInv, LaunchInHand
<1>1. CASE grp'[j] = grp[j]
  BY <1>1
<1>2. CASE Spawn
  BY <1>2, <1>t DEF Spawn
<1>3. CASE RecordFails \/ WriteFails \/ CancelTick
  <2>1. cur \in JobId
    BY <1>3, <1>t DEF RecordFails, WriteFails, CancelTick
  <2>2. TypeOK
    BY DEF IInv
  <2>3. CASE KillLaunched
    BY <2>2, <2>3, KillSpares
  <2>4. CASE CancelTick
    BY <2>1, <2>4, <1>t DEF CancelTick
  <2> QED BY <1>3, <2>3, <2>4 DEF RecordFails, WriteFails
<1>4. CASE Reboot
  BY <1>4 DEF Reboot, None
<1>5. ASSUME NEW k \in JobId, LauncherExits(k) \/ GroupDies(k) PROVE FALSE
  BY <1>5, <1>t DEF LauncherExits, GroupDies, Live
<1> QED
  BY <1>1, <1>2, <1>3, <1>4, <1>5
     DEF Next, ClientRequest, PassStep, RecoverStep, ReapStep, TaskStep, Lifecycle,
         MachineStep, Submit, Observe, Cancel, Retry, SetPaused, Hold, Release, Delete,
         Stop, EndPass, Reserve, SpawnFails, RecordStart, ShortExit, RecoverJob,
         RecoverDone, ReapJob, ReapDone, MonitorEnds, MonitorExit, MonitorDies, GraceOver,
         Escalate, FinishCancel, Tick, Start, Close, Exit, Crash, ExternalStarts,
         ExternalStops, UnchangedByMachine

\* What can become of a saved identity.
IdentityStep(j) ==
  \/ saved'[j] = saved[j]
  \/ pc = "spawned" /\ cur = j /\ saved'[j] = "this"
  \/ saved'[j] = None /\ state[j] \in TerminalStates /\ state'[j] = None
  \/ Reboot /\ saved[j] = "this" /\ saved'[j] = "earlier"

LEMMA IdentitySteps ==
  ASSUME IInv, Next, NEW j \in JobId
  PROVE  IdentityStep(j)
<1> USE DEF jobVars, IdentityStep
<1>t. /\ saved \in [JobId -> {None, "this", "earlier"}]
      /\ pc \in {"reserved", "spawned"} => cur \in JobId
  BY DEF IInv, TypeOK, RowsInv, LaunchInHand
<1>1. CASE saved'[j] = saved[j]
  BY <1>1
<1>2. CASE RecordStart
  BY <1>2, <1>t DEF RecordStart
<1>3. ASSUME NEW S \in SUBSET JobId, Delete(S) PROVE IdentityStep(j)
  BY <1>3 DEF Delete, Deletable
<1>4. CASE Reboot
  BY <1>4 DEF Reboot
<1> QED
  BY <1>1, <1>2, <1>3, <1>4
     DEF Next, ClientRequest, PassStep, RecoverStep, ReapStep, TaskStep, Lifecycle,
         MachineStep, Submit, Observe, Cancel, Retry, Create, SetPaused, Hold, Release,
         Stop, EndPass, Reserve, Spawn, SpawnFails, ShortExit, RecordFails, RecoverJob,
         RecoverDone, ReapJob, ReapDone, MonitorEnds, MonitorExit, MonitorDies, GraceOver,
         Escalate, FinishCancel, Tick, Start, Close, Exit, Crash, CancelTick, WriteFails,
         LauncherExits, GroupDies, ExternalStarts, ExternalStops, UnchangedByMachine

\* The launch in hand stays the same until it is over.
LEMMA SameLaunch ==
  ASSUME Next, pc = "spawned", pc' = "spawned"
  PROVE  cur' = cur
BY DEF lockVars, Next, ClientRequest, PassStep, RecoverStep, ReapStep, TaskStep, Lifecycle,
       MachineStep, Submit, Observe, Cancel, Retry, SetPaused, Hold, Release, Delete, Stop,
       LockFree, EndPass, Reserve, Spawn, SpawnFails, RecordStart, ShortExit, RecordFails,
       NextInPass, RecoverJob, RecoverDone, ReapJob, ReapDone, MonitorEnds, MonitorExit,
       MonitorDies, GraceOver, Escalate, FinishCancel, Tick, Start, Close, ForgetMemory,
       Unlock, Exit, Crash, Reboot, CancelTick, WriteFails, LauncherExits, GroupDies,
       ExternalStarts, ExternalStops, UnchangedByMachine

\* What the two conditions rule out is all that breaks it.
LEMMA AccountedKept ==
  ASSUME IInv, IInv', Accounted, Next, LaunchesRecorded, OrphansKept
  PROVE  Accounted'
<1> SUFFICES ASSUME NEW j \in JobId, Running(j)'
             PROVE  Holding(j)' /\ (saved'[j] # None \/ (pc' = "spawned" /\ cur' = j))
  BY DEF Accounted
<1>1. CASE saved'[j] # None
  BY <1>1 DEF IInv, RowsInv, LiveGroupKeepsReservation
<1>2. CASE pc' = "spawned" /\ cur' = j
  BY <1>2 DEF IInv, RowsInv, LaunchInHand, Holding
<1>3. CASE ~Running(j)
  <2>1. Spawn /\ cur = j
    BY <1>3, ForkedBySpawn
  <2> QED BY <1>2, <2>1 DEF Spawn
<1>4. CASE Running(j) /\ saved[j] # None /\ saved'[j] = None
  <2>1. state[j] \in TerminalStates /\ state'[j] = None /\ Holding(j)
    BY <1>4, IdentitySteps DEF IdentityStep, Accounted, None
  <2> QED BY <1>4, <2>1 DEF OrphansKept, TerminalStates, Holding
<1>5. CASE Running(j) /\ pc = "spawned" /\ cur = j
  <2>1. pc' # "spawned" => saved'[j] # None
    BY <1>5 DEF LaunchesRecorded, Running
  <2> QED BY <1>1, <1>2, <1>5, <2>1, SameLaunch
<1> QED BY <1>1, <1>3, <1>4, <1>5 DEF Accounted

\* So it holds wherever they do.
LEMMA AccountedInvariance ==
  Spec /\ [][LaunchesRecorded /\ OrphansKept]_vars => []Accounted
<1>1. Init => Accounted
  BY DEF Init, Accounted, Running, None
<1>2. /\ IInv /\ IInv' /\ Accounted /\ [Next]_vars
      /\ [LaunchesRecorded /\ OrphansKept]_vars
      => Accounted'
  <2>1. CASE UNCHANGED vars
    BY <2>1 DEF vars, jobVars, lockVars, procVars, machineVars, Accounted, Running, Holding
  <2> QED BY <2>1, AccountedKept
<1> QED BY <1>1, <1>2, Invariance, PTL DEF Spec

\* Two jobs' processes never see the same GPU (README.md:38), whatever crashes,
\* fails, is cancelled or restarted, if no launch is given up under its processes
\* and no job set aside is deleted under them.
THEOREM DoubleBookingNeedsLostLaunch ==
  Spec /\ [][LaunchesRecorded /\ OrphansKept]_vars => []NeverDoubleBooked
<1>1. IInv /\ SightInv /\ Accounted => NeverDoubleBooked
  BY DEF IInv, RowsInv, NoDoubleBooking, SightInv, SeesItsDevices, Accounted,
         NeverDoubleBooked
<1> QED BY <1>1, Invariance, SightInvariance, AccountedInvariance, PTL

\* And under the same condition no process outlives the end of its job, its
\* launcher's exit included (architecture.md:79).
THEOREM EndedJobsNeedLostLaunch ==
  Spec /\ [][LaunchesRecorded /\ OrphansKept]_vars => []EndedJobsAreGone
<1>1. Accounted => EndedJobsAreGone
  BY DEF Accounted, EndedJobsAreGone, Holding
<1> QED BY <1>1, AccountedInvariance, PTL

\* A step that takes the devices of a job from its processes finds no identity of
\* theirs on record, or deletes a job that was set aside.
DevicesReturned(j) ==
  Running(j) /\ Running(j)' /\ Holding(j) /\ ~Holding(j)' =>
    \/ saved[j] = None
    \/ state[j] = "ORPHANED" /\ state'[j] = None

\* Without any condition: devices are given back under living processes only
\* where these were never recorded, or the job was set aside and is deleted.
THEOREM DevicesGivenBack == Spec => [][\A j \in JobId : DevicesReturned(j)]_vars
<1>1. IInv /\ IInv' /\ [Next]_vars => [\A j \in JobId : DevicesReturned(j)]_vars
  <2> SUFFICES ASSUME IInv, IInv', Next, NEW j \in JobId, Running(j)', Holding(j),
                      ~Holding(j)', saved[j] # None
               PROVE  state[j] = "ORPHANED" /\ state'[j] = None
    BY DEF DevicesReturned
  <2>1. saved'[j] = None
    BY DEF IInv, RowsInv, LiveGroupKeepsReservation
  <2>2. state[j] \in TerminalStates /\ state'[j] = None
    BY <2>1, IdentitySteps DEF IdentityStep, None
  <2> QED BY <2>2 DEF TerminalStates, Holding
<1> QED BY <1>1, Invariance, PTL DEF Spec

-----------------------------------------------------------------------------
(* Cancelled jobs that end otherwise.                                      *)

\* Nobody asks for no GPU at all: the test for an empty assignment in recovery
\* does not find one under a live group.
AsksForGpus == \A j \in JobId : state[j] # None => request[j].gpus > 0

\* Submissions ask for some, retries copy what was asked.
LEMMA AskingKept ==
  ASSUME IInv, AsksForGpus, Next
  PROVE  AsksForGpus'
<1> SUFFICES ASSUME NEW j \in JobId, state'[j] # None PROVE request'[j].gpus > 0
  BY DEF AsksForGpus
<1>1. CASE ~Created
  BY <1>1, RowSteps DEF RowStep, AsksForGpus, None
<1>2. ASSUME NEW s \in Submissions, Submit(s) PROVE request'[j].gpus > 0
  <2>1. s.gpus > 0
    BY ConstantsAssumption
  <2>2. CASE j = nextId
    BY <1>2, <2>1, <2>2 DEF Submit, Create
  <2>3. CASE j # nextId
    BY <1>2, <2>3 DEF Submit, Create, AsksForGpus
  <2> QED BY <2>2, <2>3
<1>3. ASSUME NEW S \in SUBSET JobId, Retry(S) PROVE request'[j].gpus > 0
  <2>1. PICK from \in Numberings(Chosen(S)) :
          /\ Creates(Attempts(from))
          /\ DOMAIN Attempts(from) = DOMAIN from
          /\ \A n \in DOMAIN from : from[n] \in Chosen(S)
    BY <1>3, RetryCreates
  <2>2. CASE j \in DOMAIN from
    <3>1. /\ from[j] \in JobId /\ Retryable(from[j])
          /\ request'[j].gpus = request[from[j]].gpus
      BY <2>1, <2>2, AttemptRows
    <3> QED BY <3>1 DEF Retryable, AsksForGpus, None
  <2>3. CASE j \notin DOMAIN from
    <3>1. state'[j] = state[j] /\ request'[j] = request[j]
      BY <2>1, <2>3, AttemptRows
    <3> QED BY <3>1 DEF AsksForGpus
  <2> QED BY <2>2, <2>3
<1> QED BY <1>1, <1>2, <1>3 DEF Created

\* A daemon does nothing about jobs before it has recovered those of an earlier
\* boot.
EarlierAwaits ==
  \A j \in JobId :
    /\ phase # "down"
    /\ state[j] \in {"STARTING", "RUNNING", "CANCELLING"} /\ saved[j] = "earlier"
    => pc = "recover" /\ j \in todo

\* What becomes of a recovery under way.
LEMMA RecoverySteps ==
  ASSUME Next, phase' # "down", NEW j \in JobId
  PROVE  /\ phase = "down" => Start
         /\ phase # "down" /\ pc = "recover" /\ j \in todo =>
              RecoverJob(j) \/ (pc' = "recover" /\ j \in todo')
BY DEF lockVars, daemonVars, taskVars,
       Next, ClientRequest, PassStep, RecoverStep, ReapStep, TaskStep, Lifecycle,
       MachineStep, Submit, Observe, Cancel, Retry, SetPaused, Hold, Release, Delete, Stop,
       LockFree, EndPass, Reserve, Spawn, SpawnFails, RecordStart, ShortExit, RecordFails,
       RecoverJob, RecoverDone, ReapJob, ReapDone, MonitorEnds, MonitorExit,
       MonitorDies, GraceOver, Escalate, FinishCancel, Tick, Start, Close, ForgetMemory,
       Exit, Crash, Reboot, CancelTick, WriteFails, LauncherExits, GroupDies, ExternalStarts,
       ExternalStops, UnchangedByMachine

\* A reboot makes identities earlier ones while no daemon runs; recovery is
\* what the next daemon does first, and it ends these jobs.
LEMMA EarlierKept ==
  ASSUME IInv, EarlierAwaits, Next
  PROVE  EarlierAwaits'
<1> SUFFICES ASSUME NEW j \in JobId, phase' # "down",
                    state'[j] \in {"STARTING", "RUNNING", "CANCELLING"},
                    saved'[j] = "earlier"
             PROVE  pc' = "recover" /\ j \in todo'
  BY DEF EarlierAwaits
<1>t. TypeOK /\ RowsInv
  BY DEF IInv
<1>1. saved[j] = "earlier"
  BY IdentitySteps DEF IdentityStep, Reboot, ForgetMemory, None
<1>2. state[j] \in {"STARTING", "RUNNING", "CANCELLING"}
  <2>1. state[j] \notin {None, "WAITING"}
    BY <1>t, <1>1 DEF RowsInv, RowsFollowState, None
  <2>2. CASE ~Created
    BY <2>1, <2>2, RowSteps DEF RowStep, None
  <2>3. CASE Created
    <3>1. PICK new : Create(new)
      BY <2>3, SubmitCreates, RetryCreates DEF Created, Creates
    <3> QED BY <3>1 DEF Create
  <2> QED BY <2>2, <2>3
<1>3. CASE phase = "down"
  BY <1>2, <1>3, RecoverySteps DEF Start, Unfinished, ActiveStates
<1>4. CASE phase # "down"
  <2>1. pc = "recover" /\ j \in todo
    BY <1>1, <1>2, <1>4 DEF EarlierAwaits
  <2>2. ASSUME RecoverJob(j) PROVE FALSE
    <3>1. Recovered(j) = "FAILED"
      BY <1>1 DEF Recovered
    <3> QED BY <1>2, <1>t, <2>2, <3>1 DEF RecoverJob, Finish, TypeOK
  <2> QED BY <1>4, <2>1, <2>2, RecoverySteps
<1> QED BY <1>3, <1>4

\* Both hold whatever happens.
LEMMA RecoveryInvariance == Spec => [](AsksForGpus /\ EarlierAwaits)
<1>1. Init => AsksForGpus /\ EarlierAwaits
  BY DEF Init, AsksForGpus, EarlierAwaits
<1>2. IInv /\ AsksForGpus /\ EarlierAwaits /\ [Next]_vars => (AsksForGpus /\ EarlierAwaits)'
  <2>1. CASE UNCHANGED vars
    BY <2>1 DEF vars, tableVars, jobVars, daemonVars, lockVars, AsksForGpus, EarlierAwaits
  <2> QED BY <2>1, AskingKept, EarlierKept
<1> QED BY <1>1, <1>2, Invariance, PTL DEF Spec

\* While rows are recovered nobody else changes an unfinished one.
LEMMA RecoveryOnly ==
  ASSUME Next, pc = "recover", NEW j \in JobId, state \in [JobId -> JobStates],
         state'[j] # state[j]
  PROVE  RecoverJob(j)
<1>1. ASSUME NEW k \in JobId, RecoverJob(k) PROVE k = j
  BY <1>1 DEF RecoverJob, Finish
<1>2. state' # state
  OBVIOUS
<1> QED
  BY <1>1, <1>2
     DEF jobVars, Next, ClientRequest, PassStep, RecoverStep, ReapStep, TaskStep, Lifecycle,
         MachineStep, Submit, Observe, Cancel, Retry, SetPaused, Hold, Release, Delete, Stop,
         LockFree, EndPass, Reserve, Spawn, SpawnFails, RecordStart, ShortExit, RecordFails,
         RecoverDone, ReapJob, ReapDone, MonitorEnds, MonitorExit, MonitorDies, GraceOver,
         Escalate, FinishCancel, Tick, Start, Close, Exit, Crash, Reboot, CancelTick,
         WriteFails, LauncherExits, GroupDies, ExternalStarts, ExternalStops, UnchangedByMachine

\* Only a request, under the lock, cancels a job.
LEMMA CancelledByRequest ==
  ASSUME IInv, Next, NEW j \in JobId, state[j] # "CANCELLING", state'[j] = "CANCELLING"
  PROVE  LockFree /\ state[j] \in {"STARTING", "RUNNING"}
<1> USE DEF jobVars
<1>t. TypeOK /\ state \in [JobId -> JobStates]
  BY DEF IInv, TypeOK
<1>l. pc \in {"reserved", "spawned"} => cur \in JobId
  BY DEF IInv, RowsInv, LaunchInHand
<1>1. ASSUME NEW S \in SUBSET JobId, Cancel(S) PROVE LockFree /\ state[j] \in {"STARTING", "RUNNING"}
  BY <1>1 DEF Cancel, Cancellable, ActiveStates
<1>2. ASSUME Created PROVE FALSE
  <2>1. PICK new : Create(new)
    BY <1>2, SubmitCreates, RetryCreates DEF Created, Creates
  <2> QED BY <2>1 DEF Create
<1>3. ASSUME NEW k \in JobId, NEW final, final # "CANCELLING",
             state' = [state EXCEPT ![k] = final]
      PROVE  FALSE
  BY <1>3, <1>t
<1>4. ASSUME NEW k \in JobId, RecoverJob(k) PROVE FALSE
  BY <1>3, <1>4 DEF RecoverJob, Finish, Recovered
<1>5. ASSUME NEW S \in SUBSET JobId, Delete(S) PROVE FALSE
  BY <1>5 DEF Delete, None
<1>6. ASSUME SpawnFails \/ RecordFails \/ RecordStart PROVE FALSE
  BY <1>3, <1>6, <1>l DEF SpawnFails, RecordFails, RecordStart, LaunchFailed, Finish
<1>7. ASSUME NEW final \in {"DONE", "FAILED"}, ShortExit(final) PROVE FALSE
  BY <1>3, <1>7, <1>l DEF ShortExit, Finish
<1>8. ASSUME NEW k \in JobId,
             \/ \E final \in {"DONE", "FAILED", "CANCELLED"} : MonitorExit(k, final)
             \/ FinishCancel(k)
             \/ ReapJob(k)
      PROVE  FALSE
  BY <1>3, <1>8 DEF MonitorExit, FinishCancel, ReapJob, ReapState, Finish
<1>9. ASSUME NEW k \in JobId, Reserve(k) PROVE FALSE
  BY <1>3, <1>9 DEF Reserve
<1> QED
  BY <1>1, <1>2, <1>4, <1>5, <1>6, <1>7, <1>8, <1>9
     DEF Next, ClientRequest, PassStep, RecoverStep, ReapStep, TaskStep, Lifecycle,
         MachineStep, Created, Observe, SetPaused, Hold, Release, Stop, EndPass, Spawn,
         RecoverDone, ReapDone, MonitorEnds, MonitorDies, GraceOver, Escalate, Tick,
         Start, Close, Exit, Crash, Reboot, CancelTick, WriteFails, LauncherExits, GroupDies,
         ExternalStarts, ExternalStops, UnchangedByMachine

Unlisted(g) == obs[g] \in {"placeholder", "absent"}

\* A step that ends a cancelled job otherwise: recovery finds the machine
\* rebooted, or one of its devices not listed with a UUID.
LosesCancellation(j) ==
  state[j] = "CANCELLING" /\ state'[j] \notin {"CANCELLING", "CANCELLED"} =>
    /\ pc = "recover"
    /\ \/ saved[j] = "earlier" /\ state'[j] = "FAILED"
       \/ Recorded(j) /\ state'[j] = "ORPHANED" /\ \E g \in rows[j] : Unlisted(g)

\* Only these two ways a cancelled job ends otherwise than CANCELLED
\* (usage.md:128).
THEOREM CancellationsLost == Spec => [][\A j \in JobId : LosesCancellation(j)]_vars
<1>1. IInv /\ AsksForGpus /\ [Next]_vars => [\A j \in JobId : LosesCancellation(j)]_vars
  <2> SUFFICES ASSUME IInv, AsksForGpus, Next, NEW j \in JobId, state[j] = "CANCELLING",
                      state'[j] \notin {"CANCELLING", "CANCELLED"}
               PROVE  LosesCancellation(j)
    BY DEF LosesCancellation
  <2>t. /\ TypeOK /\ RowsInv
        /\ state \in [JobId -> JobStates]
    BY DEF IInv, TypeOK
  <2>1. pc = "recover"
    BY JobSteps DEF JobStep
  <2>2. RecoverJob(j) /\ state'[j] = Recovered(j)
    <3>1. RecoverJob(j)
      BY <2>t, <2>1, RecoveryOnly
    <3> QED BY <3>1, <2>t DEF RecoverJob, Finish
  <2>3. rows[j] # {}
    <3>1. Cardinality(rows[j]) = request[j].gpus /\ request[j].gpus > 0
      BY <2>t DEF RowsInv, WholeAssignment, Holding, AsksForGpus, None
    <3> QED BY <3>1, FS_EmptySet
  <2>4. CASE saved[j] = "earlier"
    BY <2>1, <2>2, <2>4 DEF Recovered, LosesCancellation
  <2>5. CASE saved[j] # "earlier"
    <3>1. /\ Alive(j)
          /\ \E g \in rows[j] : Unlisted(g)
          /\ state'[j] = "ORPHANED"
      BY <2>2, <2>3, <2>5 DEF Recovered, Unlisted
    <3> QED BY <2>1, <3>1 DEF LosesCancellation, Alive, Live, Recorded, Running, None
  <2> QED BY <2>4, <2>5
<1> QED BY <1>1, Invariance, RecoveryInvariance, PTL DEF Spec

\* The first scan of a daemon lists every device.
FirstScanComplete == phase = "down" /\ phase' # "down" => \A g \in GPU : ~Unlisted(g)'

\* No machine is rebooted under a job that is being cancelled.
CancelledBeforeBoot ==
  \A j \in JobId : state[j] = "CANCELLING" /\ saved[j] = "this" => saved'[j] # "earlier"

\* Then recovery finds every device, and no cancelled job of an earlier boot.
CancelsRecover ==
  /\ pc = "recover" => \A g \in GPU : ~Unlisted(g)
  /\ \A j \in JobId : state[j] = "CANCELLING" => saved[j] # "earlier"

\* Every step keeps to it.
LEMMA CancelsRecoverKept ==
  ASSUME IInv, EarlierAwaits, CancelsRecover, Next, FirstScanComplete,
         CancelledBeforeBoot
  PROVE  CancelsRecover'
<1>t. TypeOK /\ ListsInv
  BY DEF IInv
<1>1. pc' = "recover" => Start \/ (pc = "recover" /\ obs' = obs)
  BY DEF lockVars, Next, ClientRequest, PassStep, RecoverStep, ReapStep, TaskStep, Lifecycle,
         MachineStep, Submit, Observe, Cancel, Retry, SetPaused, Hold, Release, Delete, Stop,
         LockFree, BeginPass, EndPass, Reserve, Spawn, SpawnFails, RecordStart, ShortExit,
         RecordFails, NextInPass, RecoverJob, RecoverDone, ReapJob, ReapDone, MonitorEnds,
         MonitorExit, MonitorDies, GraceOver, Escalate, FinishCancel, Tick, Close,
         ForgetMemory, Unlock, Exit, Crash, Reboot, CancelTick, WriteFails, LauncherExits,
         GroupDies, ExternalStarts, ExternalStops, UnchangedByMachine
<1>2. pc' = "recover" => \A g \in GPU : ~Unlisted(g)'
  BY <1>1 DEF Start, FirstScanComplete, CancelsRecover, Unlisted
<1>3. ASSUME NEW j \in JobId, state'[j] = "CANCELLING", saved'[j] = "earlier" PROVE FALSE
  <2>1. saved[j] = "earlier"
    BY <1>3, IdentitySteps
       DEF IdentityStep, Reboot, CancelledBeforeBoot, None
  <2>2. state[j] # "CANCELLING"
    BY <2>1 DEF CancelsRecover
  <2>3. LockFree /\ state[j] \in {"STARTING", "RUNNING"}
    BY <1>3, <2>2, CancelledByRequest
  <2> QED BY <2>1, <2>3 DEF EarlierAwaits, LockFree
<1> QED BY <1>2, <1>3 DEF CancelsRecover

\* A cancelled job ends CANCELLED and nothing else (usage.md:128), recovered or not,
\* where each daemon's first scan lists every device with its UUID and nobody
\* reboots the machine under a cancellation.
THEOREM CancelsEndCancelled ==
  Spec /\ [][FirstScanComplete /\ CancelledBeforeBoot]_vars => CancellingEndsCancelled
<1> DEFINE EndsCancelled == \A j \in JobId :
      state[j] = "CANCELLING" => state'[j] \in {"CANCELLING", "CANCELLED"}
<1>1. Init => CancelsRecover
  BY DEF Init, CancelsRecover, None
<1>2. /\ IInv /\ EarlierAwaits /\ CancelsRecover /\ [Next]_vars
      /\ [FirstScanComplete /\ CancelledBeforeBoot]_vars
      => CancelsRecover'
  <2>1. CASE UNCHANGED vars
    BY <2>1 DEF vars, jobVars, lockVars, CancelsRecover, Unlisted
  <2> QED BY <2>1, CancelsRecoverKept
<1>3. /\ TypeOK /\ CancelsRecover /\ [\A j \in JobId : LosesCancellation(j)]_vars
      => [EndsCancelled]_vars
  BY DEF LosesCancellation, CancelsRecover, TypeOK
<1> QED
  BY <1>1, <1>2, <1>3, Invariance, TypeCorrect, RecoveryInvariance, CancellationsLost, PTL
     DEF Spec, CancellingEndsCancelled

=============================================================================
