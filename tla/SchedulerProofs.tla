-------------------------- MODULE SchedulerProofs --------------------------
(***************************************************************************)
(* The safety properties of the scheduler, proved for every number of      *)
(* GPUs, jobs and starts, every mix of requests and every fault.           *)
(***************************************************************************)
EXTENDS SchedulerInvariant, FiniteSetTheorems, TLAPS

-----------------------------------------------------------------------------
(* What the operators under the handlers do.                               *)

\* A scan gives every device one of the observations.
LEMMA RefreshTyped ==
  ASSUME TypeOK, Refresh
  PROVE  obs' \in [GPU -> Observation]
BY DEF TypeOK, Refresh, Readings, Degraded, Observation

\* Database.finish changes the state of one row and records its end.
LEMMA FinishTyped ==
  ASSUME TypeOK, NEW j \in JobId, NEW final \in JobStates, Finish(j, final)
  PROVE  /\ state' = [state EXCEPT ![j] = final]
         /\ state' \in [JobId -> JobStates]
         /\ ended' \in Seq(JobId)
         /\ fast' \subseteq JobId
BY DEF TypeOK, Finish

\* Holding a group keeps the table and its mirror well formed.
LEMMA HoldTyped ==
  ASSUME TypeOK, NEW g \in Group, NEW why \in {"manual", "auto"}, HoldGroup(g, why)
  PROVE  /\ holds' \in [Group -> {"free", "manual", "auto"}]
         /\ held' \in [Group -> {"free", "manual", "auto"}]
         /\ since' \in [Group -> Nat]
BY DEF TypeOK, HoldGroup

\* So does noting how a job ended.
LEMMA NoteTyped ==
  ASSUME TypeOK, NEW j \in JobId, NoteFailure(j) \/ UNCHANGED holdVars
  PROVE  /\ holds' \in [Group -> {"free", "manual", "auto"}]
         /\ held' \in [Group -> {"free", "manual", "auto"}]
         /\ since' \in [Group -> Nat]
<1>1. CASE UNCHANGED holdVars
  BY <1>1 DEF TypeOK, holdVars
<1>2. CASE NoteFailure(j)
  <2>1. request[j].group \in Group \cup {None}
    BY DEF TypeOK
  <2>2. CASE /\ request[j].group \in Group
             /\ HoldGroup(request[j].group, "auto")
    BY <2>2, HoldTyped
  <2>3. QED
    BY <1>1, <1>2, <2>1, <2>2 DEF NoteFailure
<1>3. QED
  BY <1>1, <1>2

\* Releasing groups keeps the table and its mirror well formed.
LEMMA ReleaseTyped ==
  ASSUME TypeOK, NEW G, ReleaseGroups(G)
  PROVE  /\ holds' \in [Group -> {"free", "manual", "auto"}]
         /\ held' \in [Group -> {"free", "manual", "auto"}]
         /\ since' \in [Group -> Nat]
BY DEF TypeOK, ReleaseGroups

\* A handler leaves the lock free or starts a pass over the WAITING jobs.
LEMMA BeginPassFacts ==
  ASSUME NEW tick \in BOOLEAN, BeginPass(tick)
  PROVE  /\ pc' \in {"free", "scan"}
         /\ todo' \subseteq JobId
         /\ cur' = 0
         /\ byTick' \in BOOLEAN
         /\ pc' = "scan" => todo' = {j \in JobId : state'[j] = "WAITING"}
BY DEF BeginPass, Unlock, WaitingJobs

\* The rows of a batch of retries take the next ids, one each.
LEMMA NumberingFacts ==
  ASSUME TypeOK, NEW C, C \subseteq JobId,
         nextId + Cardinality(C) - 1 <= MaxJobs,
         NEW from \in Numberings(C)
  PROVE  /\ Cardinality(C) \in Nat
         /\ DOMAIN from = nextId..(nextId + Cardinality(C) - 1)
         /\ Cardinality(DOMAIN from) = Cardinality(C)
         /\ DOMAIN from \subseteq JobId
         /\ \A n \in DOMAIN from : from[n] \in C
<1>1. IsFiniteSet(JobId)
  BY ConstantsAssumption, FS_Interval DEF JobId
<1>2. Cardinality(C) \in Nat
  BY <1>1, FS_Subset, FS_CardinalityType
<1>3. /\ DOMAIN from = nextId..(nextId + Cardinality(C) - 1)
      /\ \A n \in DOMAIN from : from[n] \in C
  BY DEF Numberings
<1>4. nextId \in Nat /\ nextId >= 1
  BY ConstantsAssumption DEF TypeOK
<1>5. Cardinality(DOMAIN from) = Cardinality(C)
  BY <1>2, <1>3, <1>4, FS_Interval
<1>6. QED
  BY <1>2, <1>3, <1>4, <1>5, ConstantsAssumption DEF JobId

\* The launch that came to nothing ends its row and keeps the types.
LEMMA LaunchFailedTyped ==
  ASSUME TypeOK, cur \in JobId, LaunchFailed
  PROVE  /\ state' = [state EXCEPT ![cur] = "FAILED"]
         /\ state' \in [JobId -> JobStates]
         /\ ended' \in Seq(JobId)
         /\ fast' \subseteq JobId
         /\ holds' \in [Group -> {"free", "manual", "auto"}]
         /\ held' \in [Group -> {"free", "manual", "auto"}]
         /\ since' \in [Group -> Nat]
<1>1. Finish(cur, "FAILED") /\ NoteFailure(cur)
  BY DEF LaunchFailed
<1>2. "FAILED" \in JobStates
  BY DEF JobStates, TerminalStates
<1>3. QED
  BY <1>1, <1>2, FinishTyped, NoteTyped

\* Killing the group of a launch keeps the types of the groups.
LEMMA KillTyped ==
  ASSUME TypeOK, cur \in JobId, KillLaunched
  PROVE  /\ grp' \in [JobId -> {None, "leader", "workers", "dead"}]
         /\ cvd' \in [JobId -> SUBSET GPU]
         /\ killed' \subseteq JobId
<1>1. CASE grp[cur] = "leader"
  <2>1. PICK left \in {"workers", "dead"} :
          /\ grp' = [grp EXCEPT ![cur] = left]
          /\ cvd' = IF left = "dead" THEN [cvd EXCEPT ![cur] = {}] ELSE cvd
          /\ killed' = IF left = "dead" THEN killed ELSE killed \cup {cur}
    BY <1>1 DEF KillLaunched
  <2> QED BY <2>1 DEF TypeOK
<1>2. CASE grp[cur] # "leader"
  BY <1>2 DEF KillLaunched, procVars, TypeOK
<1> QED BY <1>1, <1>2

\* It touches no other group, and none without a leader; what it leaves are
\* processes that ran before.
LEMMA KillSpares ==
  ASSUME TypeOK, KillLaunched
  PROVE  /\ \A i \in JobId : i # cur \/ grp[i] # "leader" =>
              grp'[i] = grp[i] /\ cvd'[i] = cvd[i]
         /\ \A i \in JobId : Running(i)' => Running(i) /\ cvd'[i] = cvd[i]
         /\ killed \subseteq killed'
<1>1. CASE grp[cur] = "leader"
  BY <1>1 DEF KillLaunched, TypeOK, Running
<1>2. CASE grp[cur] # "leader"
  BY <1>2 DEF KillLaunched, procVars, Running
<1> QED BY <1>1, <1>2

-----------------------------------------------------------------------------
(* Types.                                                                  *)

\* Every variable keeps its type in every step of Next.
LEMMA TypesKept ==
  ASSUME TypeOK, LaunchInHand, Next
  PROVE  TypeOK'
<1> USE DEF tableVars, jobVars, outcomeVars, holdVars, daemonVars, taskVars,
            lockVars, procVars, machineVars
<1>s. /\ JobStates = {None, "WAITING", "STARTING", "RUNNING", "CANCELLING",
                      "DONE", "FAILED", "CANCELLED", "ORPHANED"}
      /\ JobId \subseteq Nat
      /\ \A j \in JobId : j <= MaxJobs
      /\ 0 \in 0..MaxJobs
  BY ConstantsAssumption DEF JobStates, ActiveStates, TerminalStates, JobId
<1>c. pc \in {"reserved", "spawned"} => cur \in JobId
  BY DEF LaunchInHand
<1>1. ASSUME NEW s \in Submissions, Submit(s) PROVE TypeOK'
  <2>1. obs' \in [GPU -> Observation]
    BY <1>1, RefreshTyped DEF Submit
  <2>2. nextId' = nextId + 1
    BY <1>1, FS_Singleton DEF Submit, Create
  <2>3. BeginPass(FALSE)
    BY <1>1 DEF Submit
  <2>4. s.gpus \in Nat /\ s.group \in Group \cup {None} /\ s.key \in Key \cup {None}
    BY ConstantsAssumption
  <2>5. /\ request' = [j \in JobId |-> IF j \in {nextId}
                          THEN [gpus |-> s.gpus, group |-> s.group,
                                key |-> s.key, root |-> 0]
                          ELSE request[j]]
        /\ state' = [j \in JobId |-> IF j \in {nextId} THEN "WAITING" ELSE state[j]]
    BY <1>1 DEF Submit, Create
  <2>6. /\ nextId \in 1..MaxJobs
        /\ UNCHANGED <<rows, saved, outcomeVars, holdVars, daemonVars, taskVars,
                       machineVars>>
    BY <1>1 DEF Submit, Create, JobId
  <2>7. nextId' \in 1..(MaxJobs + 1)
    BY <2>2, <2>6, ConstantsAssumption
  <2>8. state' \in [JobId -> JobStates]
    BY <2>5, <1>s DEF TypeOK
  <2>9. request' \in [JobId -> [gpus : Nat, group : Group \cup {None},
                                key : Key \cup {None}, root : Nat]]
    BY <2>4, <2>5 DEF TypeOK
  <2>10. pc' \in {"free", "scan"} /\ todo' \subseteq JobId /\ cur' = 0
         /\ byTick' \in BOOLEAN
    BY <2>3, BeginPassFacts
  <2>11. QED
    BY <2>1, <2>6, <2>7, <2>8, <2>9, <2>10, ConstantsAssumption DEF TypeOK
<1>2. ASSUME Observe PROVE TypeOK'
  BY <1>2, RefreshTyped DEF Observe, TypeOK
<1>3. ASSUME NEW S \in SUBSET JobId, Cancel(S) PROVE TypeOK'
  <2>1. BeginPass(FALSE)
    BY <1>3 DEF Cancel
  <2>2. QED
    BY <1>3, <1>s, <2>1, BeginPassFacts DEF Cancel, TypeOK
<1>4. ASSUME NEW S \in SUBSET JobId, Retry(S) PROVE TypeOK'
  <2>1. obs' \in [GPU -> Observation]
    BY <1>4, RefreshTyped DEF Retry
  <2>2. BeginPass(FALSE) /\ Chosen(S) \subseteq JobId
        /\ nextId + Cardinality(Chosen(S)) - 1 <= MaxJobs
    BY <1>4 DEF Retry, Chosen
  <2>3. PICK from \in Numberings(Chosen(S)) : Create(Attempts(from))
    BY <1>4 DEF Retry
  <2>4. /\ DOMAIN Attempts(from) = DOMAIN from
        /\ \A n \in DOMAIN from : Attempts(from)[n] =
             [request[from[n]] EXCEPT !.root = Root(from[n])]
    BY DEF Attempts
  <2>5. /\ Cardinality(Chosen(S)) \in Nat
        /\ Cardinality(DOMAIN from) = Cardinality(Chosen(S))
        /\ \A n \in DOMAIN from : from[n] \in JobId
    BY <2>2, <2>3, NumberingFacts
  <2>6. nextId' \in 1..(MaxJobs + 1)
    BY <2>2, <2>3, <2>4, <2>5, ConstantsAssumption DEF Create, TypeOK
  <2>7. state' \in [JobId -> JobStates]
    BY <2>3, <1>s DEF Create, TypeOK
  <2>8. request' \in [JobId -> [gpus : Nat, group : Group \cup {None},
                                key : Key \cup {None}, root : Nat]]
    <3>1. \A j \in JobId : Root(j) \in Nat
      BY <1>s DEF Root, TypeOK
    <3>2. \A n \in DOMAIN from :
            Attempts(from)[n] \in [gpus : Nat, group : Group \cup {None},
                                   key : Key \cup {None}, root : Nat]
      <4> TAKE n \in DOMAIN from
      <4>1. from[n] \in JobId /\ Root(from[n]) \in Nat
        BY <2>5, <3>1
      <4>2. request[from[n]] \in [gpus : Nat, group : Group \cup {None},
                                  key : Key \cup {None}, root : Nat]
        BY <4>1 DEF TypeOK
      <4>3. QED
        BY <2>4, <4>1, <4>2
    <3>3. QED
      BY <2>3, <2>4, <3>2 DEF Create, TypeOK
  <2>9. pc' \in {"free", "scan"} /\ todo' \subseteq JobId /\ cur' = 0
        /\ byTick' \in BOOLEAN
    BY <2>2, BeginPassFacts
  <2>10. /\ holds' \in [Group -> {"free", "manual", "auto"}]
         /\ held' \in [Group -> {"free", "manual", "auto"}]
         /\ since' \in [Group -> Nat]
    BY <1>4, ReleaseTyped DEF Retry
  <2>11. UNCHANGED <<rows, saved, outcomeVars, daemonVars, taskVars, machineVars>>
    BY <1>4, <2>3 DEF Retry, Create
  <2>12. QED
    BY <2>1, <2>6, <2>7, <2>8, <2>9, <2>10, <2>11, ConstantsAssumption DEF TypeOK
<1>5. ASSUME NEW on \in BOOLEAN, SetPaused(on) PROVE TypeOK'
  <2>1. UNCHANGED lockVars \/ BeginPass(FALSE)
    BY <1>5 DEF SetPaused
  <2>2. QED
    BY <1>5, <2>1, BeginPassFacts, <1>s DEF SetPaused, TypeOK
<1>6. ASSUME NEW g \in Group, Hold(g) PROVE TypeOK'
  BY <1>6, HoldTyped DEF Hold, TypeOK
<1>7. ASSUME NEW g \in Group, Release(g) PROVE TypeOK'
  <2>1. BeginPass(FALSE) /\ ReleaseGroups({g})
    BY <1>7 DEF Release
  <2>2. QED
    BY <1>7, <2>1, BeginPassFacts, ReleaseTyped, <1>s
       DEF Release, TypeOK
<1>8. ASSUME NEW S \in SUBSET JobId, Delete(S) PROVE TypeOK'
  BY <1>8, <1>s DEF Delete, TypeOK, NoRequest
<1>9. ASSUME Stop PROVE TypeOK'
  BY <1>9 DEF Stop, TypeOK
<1>10. ASSUME EndPass PROVE TypeOK'
  BY <1>10, <1>s DEF EndPass, Unlock, TypeOK
<1>11. ASSUME NEW j \in JobId, Reserve(j) PROVE TypeOK'
  <2>1. PICK D \in SUBSET GPU : rows' = [rows EXCEPT ![j] = D]
    BY <1>11 DEF Reserve, SelectGpus, FreeGpus
  <2>2. j \in 0..MaxJobs
    BY <1>s
  <2>3. QED
    BY <1>11, <1>s, <2>1, <2>2 DEF Reserve, TypeOK
<1>12. ASSUME Spawn PROVE TypeOK'
  BY <1>12, <1>c DEF Spawn, TypeOK
<1>13. ASSUME SpawnFails PROVE TypeOK'
  BY <1>13, <1>c, LaunchFailedTyped, <1>s
     DEF SpawnFails, NextInPass, TypeOK
<1>14. ASSUME RecordStart PROVE TypeOK'
  BY <1>14, <1>c, <1>s DEF RecordStart, NextInPass, TypeOK
<1>15. ASSUME NEW final \in {"DONE", "FAILED"}, ShortExit(final) PROVE TypeOK'
  <2>1. /\ Finish(cur, final) /\ final \in JobStates
        /\ NoteFailure(cur) \/ UNCHANGED holdVars
    BY <1>15, <1>s DEF ShortExit, NoteOutcome
  <2>2. cur \in JobId
    BY <1>15, <1>c DEF ShortExit
  <2>3. QED
    BY <1>15, <2>1, <2>2, FinishTyped, NoteTyped, <1>s
       DEF ShortExit, NextInPass, TypeOK
<1>16. ASSUME RecordFails PROVE TypeOK'
  <2>1. cur \in JobId /\ LaunchFailed
    BY <1>16, <1>c DEF RecordFails
  <2>2. QED
    BY <1>16, <2>1, KillTyped, LaunchFailedTyped, <1>s
       DEF RecordFails, NextInPass, TypeOK
<1>36. ASSUME WriteFails PROVE TypeOK'
  <2>1. /\ grp' \in [JobId -> {None, "leader", "workers", "dead"}]
        /\ cvd' \in [JobId -> SUBSET GPU]
        /\ killed' \subseteq JobId
    BY <1>36, <1>c, KillTyped DEF WriteFails, procVars, TypeOK
  <2>2. QED
    BY <1>36, <2>1, <1>s DEF WriteFails, Unlock, TypeOK
<1>17. ASSUME NEW j \in JobId, RecoverJob(j) PROVE TypeOK'
  <2>1. Recovered(j) \in JobStates
    BY <1>s DEF Recovered, TypeOK
  <2>2. /\ state' \in [JobId -> JobStates]
        /\ ended' \in Seq(JobId)
        /\ fast' \subseteq JobId
    BY <1>17, <2>1, FinishTyped DEF RecoverJob, TypeOK
  <2>3. canceller' \in [JobId -> {None, "grace", "wait"}]
    BY <1>17 DEF RecoverJob, ResumeCancel, TypeOK
  <2>4. QED
    BY <1>17, <2>2, <2>3 DEF RecoverJob, TypeOK
<1>18. ASSUME RecoverDone PROVE TypeOK'
  <2>1. BeginPass(FALSE)
    BY <1>18 DEF RecoverDone
  <2>2. QED
    BY <1>18, <2>1, BeginPassFacts, <1>s DEF RecoverDone, TypeOK
<1>19. ASSUME NEW j \in JobId, ReapJob(j) PROVE TypeOK'
  <2>1. ReapState(j) \in JobStates
    BY <1>s DEF ReapState
  <2>2. QED
    BY <1>19, <2>1, FinishTyped DEF ReapJob, TypeOK
<1>20. ASSUME ReapDone PROVE TypeOK'
  <2>1. BeginPass(TRUE)
    BY <1>20 DEF ReapDone
  <2>2. QED
    BY <1>20, <2>1, BeginPassFacts, <1>s DEF ReapDone, TypeOK
<1>21. ASSUME NEW j \in JobId, MonitorEnds(j) PROVE TypeOK'
  <2>1. PICK final \in {"DONE", "FAILED", "CANCELLED"} : MonitorExit(j, final)
    BY <1>21 DEF MonitorEnds
  <2>2. /\ Finish(j, final) /\ final \in JobStates
        /\ NoteFailure(j) \/ UNCHANGED holdVars
        /\ Refresh /\ BeginPass(FALSE)
    BY <2>1, <1>s DEF MonitorExit, NoteOutcome
  <2>3. QED
    BY <2>1, <2>2, FinishTyped, NoteTyped, RefreshTyped, BeginPassFacts,
       <1>s DEF MonitorExit, TypeOK
<1>22. ASSUME NEW j \in JobId, MonitorDies(j) PROVE TypeOK'
  BY <1>22 DEF MonitorDies, TypeOK
<1>23. ASSUME NEW j \in JobId, GraceOver(j) PROVE TypeOK'
  BY <1>23 DEF GraceOver, AfterGrace, TypeOK
<1>24. ASSUME NEW j \in JobId, Escalate(j) PROVE TypeOK'
  BY <1>24 DEF Escalate, Kill, AfterGrace, TypeOK
<1>25. ASSUME NEW j \in JobId, FinishCancel(j) PROVE TypeOK'
  <2>1. CASE Finish(j, "CANCELLED") /\ Refresh /\ BeginPass(FALSE)
    BY <1>25, <1>s, <2>1, FinishTyped, RefreshTyped, BeginPassFacts
       DEF FinishCancel, TypeOK
  <2>2. CASE UNCHANGED <<state, outcomeVars, obs, lockVars>>
    BY <1>25, <2>2 DEF FinishCancel, TypeOK
  <2>3. QED
    BY <1>25, <2>1, <2>2 DEF FinishCancel
<1>26. ASSUME Tick PROVE TypeOK'
  BY <1>26, RefreshTyped, <1>s DEF Tick, TypeOK
<1>27. ASSUME Start PROVE TypeOK'
  <2>1. starts' \in 0..MaxStarts
    BY <1>27, ConstantsAssumption DEF Start, TypeOK
  <2>2. QED
    BY <1>27, <2>1, RefreshTyped DEF Start, LoadHolds, Unfinished, TypeOK
<1>28. ASSUME Close PROVE TypeOK'
  BY <1>28 DEF Close, TypeOK
<1>29. ASSUME ForgetMemory,
              UNCHANGED <<tableVars, state, rows, outcomeVars, holds, since>>,
              saved' \in [JobId -> {None, "this", "earlier"}],
              grp' \in [JobId -> {None, "leader", "workers", "dead"}],
              cvd' \in [JobId -> SUBSET GPU],
              killed' \subseteq JobId, ext' \subseteq GPU
       PROVE  TypeOK'
  BY <1>29, <1>s
     DEF ForgetMemory, Unlock, NoObservation, Observation, TypeOK
<1>30. ASSUME Exit \/ Crash PROVE TypeOK'
  BY <1>30, <1>29 DEF Exit, Crash, TypeOK
<1>31. ASSUME Reboot PROVE TypeOK'
  BY <1>31, <1>29 DEF Reboot, TypeOK
<1>32. ASSUME CancelTick PROVE TypeOK'
  <2>1. /\ grp' \in [JobId -> {None, "leader", "workers", "dead"}]
        /\ cvd' \in [JobId -> SUBSET GPU]
    <3>1. CASE grp[cur] = "leader"
      <4>1. PICK left \in {"workers", "dead"} :
              /\ grp' = [grp EXCEPT ![cur] = left]
              /\ cvd' = IF left = "dead" THEN [cvd EXCEPT ![cur] = {}] ELSE cvd
        BY <1>32, <3>1 DEF CancelTick
      <4>2. QED
        BY <4>1 DEF TypeOK
    <3>2. CASE grp[cur] # "leader"
      BY <1>32, <3>2 DEF CancelTick, TypeOK
    <3>3. QED
      BY <3>1, <3>2
  <2>2. QED
    BY <1>32, <2>1, <1>s DEF CancelTick, Unlock, TypeOK
<1>33. ASSUME NEW j \in JobId, LauncherExits(j) \/ GroupDies(j) PROVE TypeOK'
  BY <1>33 DEF LauncherExits, GroupDies, UnchangedByMachine, TypeOK
<1>34. ASSUME NEW g \in GPU, ExternalStarts(g) \/ ExternalStops(g) PROVE TypeOK'
  BY <1>34 DEF ExternalStarts, ExternalStops, UnchangedByMachine, TypeOK
<1>35. QED
  BY <1>1, <1>2, <1>3, <1>4, <1>5, <1>6, <1>7, <1>8, <1>9, <1>10, <1>11, <1>12,
     <1>13, <1>14, <1>15, <1>16, <1>17, <1>18, <1>19, <1>20, <1>21, <1>22, <1>23,
     <1>24, <1>25, <1>26, <1>27, <1>28, <1>30, <1>31, <1>32, <1>33, <1>34, <1>36
     DEF Next, ClientRequest, PassStep, RecoverStep, ReapStep, TaskStep, Lifecycle,
         MachineStep

-----------------------------------------------------------------------------
(* Rows, launches and reservations.                                        *)

\* A step that leaves the rows and the groups alone keeps their invariant.
LEMMA RowsFrame ==
  ASSUME RowsInv,
         UNCHANGED <<state, request, nextId, rows, saved, grp, cvd>>,
         pc' \in {"reserved", "spawned"} => pc' = pc /\ cur' = cur
  PROVE  RowsInv'
<1>1. (FreshIds /\ RowsFollowState /\ LiveGroupKeepsReservation)'
  BY DEF RowsInv, FreshIds, RowsFollowState, LiveGroupKeepsReservation,
         Running, Holding
<1>2. LaunchInHand'
  BY DEF RowsInv, LaunchInHand, Running
<1>3. (NoDoubleBooking /\ WholeAssignment)'
  BY DEF RowsInv, NoDoubleBooking, WholeAssignment, Holding
<1>4. QED
  BY <1>1, <1>2, <1>3 DEF RowsInv

\* Ending a job keeps it when no recorded process of the job is left, or when
\* the job keeps its reservation as an orphan.
LEMMA RowsEnd ==
  ASSUME TypeOK, RowsInv, NEW j \in JobId,
         NEW final \in {"DONE", "FAILED", "CANCELLED", "ORPHANED"},
         state[j] \in {"STARTING", "RUNNING", "CANCELLING"},
         final = "ORPHANED" \/ ~Recorded(j),
         state' = [state EXCEPT ![j] = final],
         UNCHANGED <<request, nextId, rows, saved, grp, cvd>>,
         pc' \notin {"reserved", "spawned"}
  PROVE  RowsInv'
<1>t. state' \in [JobId -> JobStates \cup {final}]
  BY DEF TypeOK
<1>1. (FreshIds /\ RowsFollowState)'
  BY DEF TypeOK, RowsInv, FreshIds, RowsFollowState, Running, None
<1>2. LiveGroupKeepsReservation'
  BY DEF TypeOK, RowsInv, LiveGroupKeepsReservation, Recorded, Running, Holding
<1>3. LaunchInHand'
  BY DEF LaunchInHand
<1>4. (NoDoubleBooking /\ WholeAssignment)'
  <2>1. \A i \in JobId : Holding(i)' => Holding(i)
    BY DEF TypeOK, Holding
  <2>2. \A i \in JobId : state'[i] = "WAITING" => state[i] = "WAITING"
    BY DEF TypeOK
  <2>3. QED
    BY <2>1, <2>2 DEF RowsInv, NoDoubleBooking, WholeAssignment
<1>5. QED
  BY <1>1, <1>2, <1>3, <1>4 DEF RowsInv

\* Creating rows at fresh ids keeps it: a new row holds nothing.
LEMMA RowsCreate ==
  ASSUME TypeOK, RowsInv, NEW new,
         DOMAIN new \subseteq JobId,
         \A n \in DOMAIN new : n >= nextId,
         \A n \in DOMAIN new : n < nextId',
         nextId' >= nextId, nextId' \in Nat,
         state' = [j \in JobId |-> IF j \in DOMAIN new THEN "WAITING" ELSE state[j]],
         request' = [j \in JobId |-> IF j \in DOMAIN new THEN new[j] ELSE request[j]],
         UNCHANGED <<rows, saved, grp, cvd>>,
         pc' \notin {"reserved", "spawned"}
  PROVE  RowsInv'
<1>n. nextId \in Nat /\ JobId \subseteq Nat
  BY ConstantsAssumption DEF TypeOK, JobId
<1>1. \A n \in DOMAIN new : state[n] = None /\ rows[n] = {} /\ saved[n] = None
  BY DEF RowsInv, FreshIds, RowsFollowState
<1>2. FreshIds'
  BY <1>n DEF RowsInv, FreshIds
<1>3. (RowsFollowState /\ LiveGroupKeepsReservation)'
  BY <1>1 DEF RowsInv, RowsFollowState, LiveGroupKeepsReservation, Running, Holding
<1>4. LaunchInHand'
  BY DEF LaunchInHand
<1>5. (NoDoubleBooking /\ WholeAssignment)'
  BY <1>1 DEF RowsInv, NoDoubleBooking, WholeAssignment, Holding
<1>6. QED
  BY <1>2, <1>3, <1>4, <1>5 DEF RowsInv

\* The invariant of the rows survives every step of Next.
LEMMA RowsKept ==
  ASSUME TypeOK, RowsInv, ListsInv, Next
  PROVE  RowsInv'
<1> USE DEF tableVars, jobVars, outcomeVars, holdVars, daemonVars, taskVars,
            lockVars, procVars, machineVars
<1>s. /\ {"DONE", "FAILED", "CANCELLED", "ORPHANED"} \subseteq JobStates
      /\ JobId \subseteq Nat
      /\ nextId \in Nat
  BY ConstantsAssumption
     DEF JobStates, ActiveStates, TerminalStates, JobId, TypeOK
<1>c. pc \in {"reserved", "spawned"} =>
        cur \in JobId /\ state[cur] = "STARTING" /\ saved[cur] = None /\ ~Recorded(cur)
  BY DEF RowsInv, LaunchInHand, RowsFollowState, Recorded
<1>p. \A tick \in BOOLEAN : BeginPass(tick) => pc' \notin {"reserved", "spawned"}
  BY BeginPassFacts
<1>a. \A j \in JobId : ~Alive(j) => ~Recorded(j)
  BY DEF TypeOK, RowsInv, RowsFollowState, Alive, Live, Recorded, Running
<1>1. ASSUME NEW s \in Submissions, Submit(s) PROVE RowsInv'
  <2> DEFINE new == [n \in {nextId} |->
                       [gpus |-> s.gpus, group |-> s.group, key |-> s.key, root |-> 0]]
  <2>1. /\ Create(new) /\ nextId \in JobId /\ pc' \notin {"reserved", "spawned"}
        /\ UNCHANGED <<grp, cvd>>
    BY <1>1, <1>p DEF Submit
  <2>2. nextId' = nextId + 1
    BY <2>1, FS_Singleton DEF Create
  <2>3. DOMAIN new = {nextId}
    OBVIOUS
  <2> HIDE DEF new
  <2>4. QED
    BY <2>1, <2>2, <2>3, <1>s, RowsCreate DEF Create
<1>2. ASSUME Observe PROVE RowsInv'
  BY <1>2, RowsFrame DEF Observe
<1>3. ASSUME NEW S \in SUBSET JobId, Cancel(S) PROVE RowsInv'
  <2>1. /\ \A j \in S : state[j] \in {"WAITING", "STARTING", "RUNNING", "CANCELLING"}
        /\ pc' \notin {"reserved", "spawned"}
        /\ state' = [j \in JobId |-> IF j \notin S THEN state[j]
                                     ELSE IF state[j] = "WAITING" THEN "CANCELLED"
                                     ELSE "CANCELLING"]
        /\ UNCHANGED <<request, nextId, rows, saved, grp, cvd>>
    BY <1>3, <1>p DEF Cancel, Cancellable, ActiveStates
  <2>2. (FreshIds /\ RowsFollowState /\ LaunchInHand)'
    BY <2>1 DEF RowsInv, FreshIds, RowsFollowState, LaunchInHand, Running, None
  <2>3. LiveGroupKeepsReservation'
    BY <2>1 DEF RowsInv, RowsFollowState, LiveGroupKeepsReservation, Running, Holding
  <2>4. \A j \in JobId : /\ Holding(j)' => Holding(j)
                         /\ state'[j] = "WAITING" => state[j] = "WAITING"
    BY <2>1 DEF Holding
  <2>5. (NoDoubleBooking /\ WholeAssignment)'
    BY <2>1, <2>4 DEF RowsInv, NoDoubleBooking, WholeAssignment
  <2>6. QED
    BY <2>2, <2>3, <2>5 DEF RowsInv
<1>4. ASSUME NEW S \in SUBSET JobId, Retry(S) PROVE RowsInv'
  <2>1. /\ Chosen(S) \subseteq JobId
        /\ nextId + Cardinality(Chosen(S)) - 1 <= MaxJobs
        /\ pc' \notin {"reserved", "spawned"}
        /\ UNCHANGED <<grp, cvd>>
    BY <1>4, <1>p DEF Retry, Chosen
  <2>2. PICK from \in Numberings(Chosen(S)) : Create(Attempts(from))
    BY <1>4 DEF Retry
  <2>3. /\ Cardinality(Chosen(S)) \in Nat
        /\ DOMAIN from = nextId..(nextId + Cardinality(Chosen(S)) - 1)
        /\ Cardinality(DOMAIN from) = Cardinality(Chosen(S))
        /\ DOMAIN from \subseteq JobId
    BY <2>1, <2>2, NumberingFacts
  <2>4. DOMAIN Attempts(from) = DOMAIN from
    BY DEF Attempts
  <2>5. nextId' = nextId + Cardinality(Chosen(S))
    BY <2>2, <2>3, <2>4 DEF Create
  <2> DEFINE new == Attempts(from)
  <2>6. /\ DOMAIN new \subseteq JobId
        /\ \A n \in DOMAIN new : n >= nextId /\ n < nextId'
        /\ nextId' >= nextId /\ nextId' \in Nat
    BY <2>3, <2>4, <2>5, <1>s
  <2> HIDE DEF new
  <2>7. Create(new)
    BY <2>2 DEF new
  <2>8. QED
    BY <2>1, <2>6, <2>7, RowsCreate DEF Create
<1>5. ASSUME NEW on \in BOOLEAN, SetPaused(on) PROVE RowsInv'
  <2>1. UNCHANGED lockVars \/ pc' \notin {"reserved", "spawned"}
    BY <1>5, <1>p DEF SetPaused
  <2>2. QED
    BY <1>5, <2>1, RowsFrame DEF SetPaused
<1>6. ASSUME NEW g \in Group, Hold(g) PROVE RowsInv'
  BY <1>6, RowsFrame DEF Hold
<1>7. ASSUME NEW g \in Group, Release(g) PROVE RowsInv'
  BY <1>7, <1>p, RowsFrame DEF Release
<1>8. ASSUME NEW S \in SUBSET JobId, Delete(S) PROVE RowsInv'
  <2>1. /\ \A j \in S : state[j] \in {"DONE", "FAILED", "CANCELLED", "ORPHANED"}
        /\ pc = "free" /\ pc' = "free"
        /\ state'   = [j \in JobId |-> IF j \in S THEN None ELSE state[j]]
        /\ request' = [j \in JobId |-> IF j \in S THEN NoRequest ELSE request[j]]
        /\ rows'    = [j \in JobId |-> IF j \in S THEN {} ELSE rows[j]]
        /\ saved'   = [j \in JobId |-> IF j \in S THEN None ELSE saved[j]]
        /\ UNCHANGED <<nextId, grp, cvd>>
    BY <1>8 DEF Delete, Deletable, TerminalStates, LockFree
  <2>2. (FreshIds /\ RowsFollowState /\ LaunchInHand)'
    BY <2>1 DEF RowsInv, FreshIds, RowsFollowState, LaunchInHand, Running, None
  <2>3. LiveGroupKeepsReservation'
    BY <2>1 DEF RowsInv, LiveGroupKeepsReservation, Running, Holding
  <2>4. (NoDoubleBooking /\ WholeAssignment)'
    BY <2>1 DEF RowsInv, NoDoubleBooking, WholeAssignment, Holding, None
  <2>5. QED
    BY <2>2, <2>3, <2>4 DEF RowsInv
<1>9. ASSUME Stop PROVE RowsInv'
  BY <1>9, RowsFrame DEF Stop
<1>10. ASSUME EndPass PROVE RowsInv'
  BY <1>10, RowsFrame DEF EndPass, Unlock
<1>11. ASSUME NEW j \in JobId, Reserve(j) PROVE RowsInv'
  <2>1. PICK D \in SelectGpus(FreeGpus, request[j].gpus) : rows' = [rows EXCEPT ![j] = D]
    BY <1>11 DEF Reserve
  <2>2. /\ pc' = "reserved" /\ cur' = j
        /\ state' = [state EXCEPT ![j] = "STARTING"]
        /\ UNCHANGED <<request, nextId, saved, grp, cvd>>
    BY <1>11 DEF Reserve
  <2>3. state[j] = "WAITING" /\ saved[j] = None
    BY <1>11 DEF Reserve, ListsInv, PassList, RowsInv, RowsFollowState
  <2>4. /\ Cardinality(D) = request[j].gpus
        /\ \A i \in JobId : Holding(i) => D \cap rows[i] = {}
    BY DEF SelectGpus, FreeGpus, Assigned, AssignedStates, ActiveStates, Holding
  <2>5. (FreshIds /\ RowsFollowState)'
    BY <2>1, <2>2, <2>3 DEF TypeOK, RowsInv, FreshIds, RowsFollowState, Running, None
  <2>6. LaunchInHand'
    BY <2>2 DEF LaunchInHand, TypeOK
  <2>7. LiveGroupKeepsReservation'
    BY <2>1, <2>2, <2>3
       DEF TypeOK, RowsInv, LiveGroupKeepsReservation, Running, Holding
  <2>8. NoDoubleBooking'
    BY <2>1, <2>2, <2>4 DEF TypeOK, RowsInv, NoDoubleBooking, Holding
  <2>9. WholeAssignment'
    BY <2>1, <2>2, <2>4 DEF TypeOK, RowsInv, WholeAssignment, Holding
  <2>10. QED
    BY <2>5, <2>6, <2>7, <2>8, <2>9 DEF RowsInv
<1>12. ASSUME Spawn PROVE RowsInv'
  <2>1. /\ pc = "reserved" /\ pc' = "spawned" /\ cur' = cur
        /\ grp' = [grp EXCEPT ![cur] = "leader"]
        /\ cvd' = [cvd EXCEPT ![cur] = rows[cur]]
        /\ UNCHANGED <<state, request, nextId, rows, saved>>
    BY <1>12 DEF Spawn
  <2>2. (FreshIds /\ NoDoubleBooking /\ WholeAssignment)'
    BY <2>1 DEF RowsInv, FreshIds, NoDoubleBooking, WholeAssignment, Holding
  <2>3. (RowsFollowState /\ LaunchInHand)'
    BY <2>1, <1>c DEF TypeOK, RowsInv, RowsFollowState, LaunchInHand, Running, None
  <2>4. LiveGroupKeepsReservation'
    BY <2>1, <1>c DEF TypeOK, RowsInv, LiveGroupKeepsReservation, Running, Holding
  <2>5. QED
    BY <2>2, <2>3, <2>4 DEF RowsInv
<1>13. ASSUME SpawnFails PROVE RowsInv'
  BY <1>13, <1>c, LaunchFailedTyped, RowsEnd DEF SpawnFails, NextInPass
<1>14. ASSUME RecordStart PROVE RowsInv'
  <2>1. /\ pc = "spawned" /\ pc' = "scan"
        /\ state' = [state EXCEPT ![cur] = "RUNNING"]
        /\ saved' = [saved EXCEPT ![cur] = "this"]
        /\ UNCHANGED <<request, nextId, rows, grp, cvd>>
    BY <1>14 DEF RecordStart, NextInPass
  <2>2. (FreshIds /\ RowsFollowState /\ LaunchInHand)'
    BY <2>1, <1>c
       DEF TypeOK, RowsInv, FreshIds, RowsFollowState, LaunchInHand, Running, None
  <2>3. LiveGroupKeepsReservation'
    BY <2>1, <1>c
       DEF TypeOK, RowsInv, LaunchInHand, LiveGroupKeepsReservation, Running, Holding
  <2>4. \A i \in JobId : /\ Holding(i)' => Holding(i)
                         /\ state'[i] = "WAITING" => state[i] = "WAITING"
    BY <2>1, <1>c DEF TypeOK, Holding
  <2>5. (NoDoubleBooking /\ WholeAssignment)'
    BY <2>1, <2>4 DEF RowsInv, NoDoubleBooking, WholeAssignment
  <2>6. QED
    BY <2>2, <2>3, <2>5 DEF RowsInv
<1>15. ASSUME NEW final \in {"DONE", "FAILED"}, ShortExit(final) PROVE RowsInv'
  <2>1. state' = [state EXCEPT ![cur] = final]
    BY <1>15, <1>c, <1>s, FinishTyped DEF ShortExit
  <2>2. QED
    BY <1>15, <2>1, <1>c, RowsEnd DEF ShortExit, NextInPass
<1>16. ASSUME RecordFails PROVE RowsInv'
  <2>1. /\ state' = [state EXCEPT ![cur] = "FAILED"]
        /\ pc' = "scan" /\ UNCHANGED <<request, nextId, rows, saved>>
    BY <1>16, <1>c, LaunchFailedTyped DEF RecordFails, NextInPass
  <2>2. \A i \in JobId : i # cur => grp'[i] = grp[i] /\ cvd'[i] = cvd[i]
    BY <1>16, KillSpares DEF RecordFails
  <2>3. cur \in JobId /\ state[cur] = "STARTING" /\ saved[cur] = None
    BY <1>16, <1>c DEF RecordFails
  <2>4. (FreshIds /\ RowsFollowState /\ LaunchInHand)'
    BY <2>1, <2>2, <2>3
       DEF TypeOK, RowsInv, FreshIds, RowsFollowState, LaunchInHand, Running, None
  <2>5. LiveGroupKeepsReservation'
    BY <2>1, <2>2, <2>3
       DEF TypeOK, RowsInv, LiveGroupKeepsReservation, Running, Holding
  <2>6. \A i \in JobId : /\ Holding(i)' => Holding(i)
                         /\ state'[i] = "WAITING" => state[i] = "WAITING"
    BY <2>1, <2>3 DEF TypeOK, Holding
  <2>7. (NoDoubleBooking /\ WholeAssignment)'
    BY <2>1, <2>6 DEF RowsInv, NoDoubleBooking, WholeAssignment
  <2>8. QED
    BY <2>4, <2>5, <2>7 DEF RowsInv
<1>17. ASSUME NEW j \in JobId, RecoverJob(j) PROVE RowsInv'
  <2>1. /\ pc' = "recover" /\ UNCHANGED <<request, nextId, rows, saved, grp, cvd>>
        /\ state[j] \in {"STARTING", "RUNNING", "CANCELLING"}
    BY <1>17 DEF RecoverJob, First, ListsInv, RecoverList
  <2>2. CASE Recovered(j) # state[j]
    <3>1. /\ Recovered(j) \in {"FAILED", "CANCELLED", "ORPHANED"}
          /\ Recovered(j) = "ORPHANED" \/ ~Recorded(j)
      BY <2>1, <2>2, <1>a
         DEF Recovered, RowsInv, RowsFollowState, Recorded
    <3>2. state' = [state EXCEPT ![j] = Recovered(j)]
      BY <1>17, <2>2, <3>1, <1>s, FinishTyped DEF RecoverJob
    <3>3. QED
      BY <2>1, <3>1, <3>2, RowsEnd
  <2>3. CASE Recovered(j) = state[j]
    BY <1>17, <2>1, <2>3, RowsFrame DEF RecoverJob
  <2>4. QED
    BY <2>2, <2>3
<1>18. ASSUME RecoverDone PROVE RowsInv'
  BY <1>18, <1>p, RowsFrame DEF RecoverDone
<1>19. ASSUME NEW j \in JobId, ReapJob(j) PROVE RowsInv'
  <2>1. /\ pc' = "reap" /\ UNCHANGED <<request, nextId, rows, saved, grp, cvd>>
        /\ state[j] \in {"STARTING", "RUNNING", "CANCELLING"} /\ ~Recorded(j)
    BY <1>19 DEF ReapJob, First, ListsInv, ReapList
  <2>2. ReapState(j) \in {"FAILED", "CANCELLED"}
    BY DEF ReapState
  <2>3. state' = [state EXCEPT ![j] = ReapState(j)]
    BY <1>19, <2>2, <1>s, FinishTyped DEF ReapJob
  <2>4. QED
    BY <2>1, <2>2, <2>3, RowsEnd
<1>20. ASSUME ReapDone PROVE RowsInv'
  BY <1>20, <1>p, RowsFrame DEF ReapDone
<1>21. ASSUME NEW j \in JobId, MonitorEnds(j) PROVE RowsInv'
  <2>1. PICK final \in {"DONE", "FAILED", "CANCELLED"} : MonitorExit(j, final)
    BY <1>21 DEF MonitorEnds
  <2>2. /\ state[j] \in {"STARTING", "RUNNING", "CANCELLING"} /\ ~Recorded(j)
        /\ pc' \notin {"reserved", "spawned"}
        /\ UNCHANGED <<request, nextId, rows, saved, grp, cvd>>
    BY <2>1, <1>p DEF MonitorExit, ActiveStates, GroupGone, Recorded, Running
  <2>3. state' = [state EXCEPT ![j] = final]
    BY <2>1, <1>s, FinishTyped DEF MonitorExit
  <2>4. QED
    BY <2>2, <2>3, RowsEnd
<1>22. ASSUME NEW j \in JobId, MonitorDies(j) PROVE RowsInv'
  BY <1>22, RowsFrame DEF MonitorDies
<1>23. ASSUME NEW j \in JobId, GraceOver(j) \/ Escalate(j) PROVE RowsInv'
  BY <1>23, RowsFrame DEF GraceOver, Escalate
<1>24. ASSUME NEW j \in JobId, FinishCancel(j) PROVE RowsInv'
  <2>1. CASE /\ state[j] = "CANCELLING"
             /\ Finish(j, "CANCELLED") /\ BeginPass(FALSE)
    <3>1. /\ ~Recorded(j) /\ pc' \notin {"reserved", "spawned"}
          /\ UNCHANGED <<request, nextId, rows, saved, grp, cvd>>
          /\ state' = [state EXCEPT ![j] = "CANCELLED"]
      BY <1>24, <2>1, <1>a, <1>p, <1>s, FinishTyped DEF FinishCancel
    <3>2. QED
      BY <2>1, <3>1, RowsEnd
  <2>2. CASE UNCHANGED <<state, lockVars>>
    BY <1>24, <2>2, RowsFrame DEF FinishCancel
  <2>3. QED
    BY <1>24, <2>1, <2>2 DEF FinishCancel
<1>25. ASSUME Tick PROVE RowsInv'
  BY <1>25, RowsFrame DEF Tick
<1>26. ASSUME Start PROVE RowsInv'
  BY <1>26, RowsFrame DEF Start
<1>27. ASSUME Close PROVE RowsInv'
  BY <1>27, RowsFrame DEF Close
<1>28. ASSUME Exit \/ Crash PROVE RowsInv'
  BY <1>28, RowsFrame DEF Exit, Crash, ForgetMemory, Unlock
<1>29. ASSUME Reboot PROVE RowsInv'
  <2>1. /\ saved' = [j \in JobId |-> IF saved[j] = "this" THEN "earlier" ELSE saved[j]]
        /\ grp' = [j \in JobId |-> IF grp[j] = None THEN None ELSE "dead"]
        /\ pc' = "free" /\ UNCHANGED <<state, request, nextId, rows>>
    BY <1>29 DEF Reboot, ForgetMemory, Unlock
  <2>2. \A j \in JobId : ~Running(j)'
    BY <2>1 DEF Running, None
  <2>3. QED
    BY <2>1, <2>2
       DEF RowsInv, FreshIds, RowsFollowState, LaunchInHand,
           LiveGroupKeepsReservation, NoDoubleBooking, WholeAssignment, Holding, None
<1>30. ASSUME CancelTick PROVE RowsInv'
  <2>1. /\ pc' = "free" /\ UNCHANGED <<state, request, nextId, rows, saved>>
        /\ cur \in JobId /\ saved[cur] = None
    BY <1>30, <1>c DEF CancelTick, Unlock
  <2>2. \A i \in JobId : i # cur => grp'[i] = grp[i] /\ cvd'[i] = cvd[i]
    <3>1. CASE grp[cur] = "leader"
      BY <1>30, <3>1 DEF CancelTick, TypeOK
    <3>2. CASE grp[cur] # "leader"
      BY <1>30, <3>2 DEF CancelTick
    <3>3. QED
      BY <3>1, <3>2
  <2>3. (FreshIds /\ LaunchInHand /\ NoDoubleBooking /\ WholeAssignment)'
    BY <2>1 DEF RowsInv, FreshIds, LaunchInHand, NoDoubleBooking, WholeAssignment,
                Holding
  <2>4. (RowsFollowState /\ LiveGroupKeepsReservation)'
    BY <2>1, <2>2
       DEF RowsInv, RowsFollowState, LiveGroupKeepsReservation, Running, Holding, None
  <2>5. QED
    BY <2>3, <2>4 DEF RowsInv
<1>34. ASSUME WriteFails PROVE RowsInv'
  <2>1. /\ pc' = "free" /\ UNCHANGED <<state, request, nextId, rows, saved>>
        /\ cur \in JobId /\ saved[cur] = None
    BY <1>34, <1>c DEF WriteFails, Unlock
  <2>2. \A i \in JobId : i # cur => grp'[i] = grp[i] /\ cvd'[i] = cvd[i]
    BY <1>34, KillSpares DEF WriteFails, procVars
  <2>3. (FreshIds /\ LaunchInHand /\ NoDoubleBooking /\ WholeAssignment)'
    BY <2>1 DEF RowsInv, FreshIds, LaunchInHand, NoDoubleBooking, WholeAssignment,
                Holding
  <2>4. (RowsFollowState /\ LiveGroupKeepsReservation)'
    BY <2>1, <2>2
       DEF RowsInv, RowsFollowState, LiveGroupKeepsReservation, Running, Holding, None
  <2>5. QED
    BY <2>3, <2>4 DEF RowsInv
<1>31. ASSUME NEW j \in JobId, LauncherExits(j) \/ GroupDies(j) PROVE RowsInv'
  <2>1. /\ UNCHANGED <<state, request, nextId, rows, saved, pc, cur>>
        /\ \A i \in JobId : /\ Running(i)' => Running(i)
                            /\ Running(i)' => cvd'[i] = cvd[i]
    BY <1>31 DEF LauncherExits, GroupDies, UnchangedByMachine, Running, TypeOK
  <2>2. QED
    BY <2>1
       DEF RowsInv, FreshIds, RowsFollowState, LaunchInHand,
           LiveGroupKeepsReservation, NoDoubleBooking, WholeAssignment, Holding
<1>32. ASSUME NEW g \in GPU, ExternalStarts(g) \/ ExternalStops(g) PROVE RowsInv'
  BY <1>32, RowsFrame DEF ExternalStarts, ExternalStops, UnchangedByMachine
<1>33. QED
  BY <1>1, <1>2, <1>3, <1>4, <1>5, <1>6, <1>7, <1>8, <1>9, <1>10, <1>11, <1>12,
     <1>13, <1>14, <1>15, <1>16, <1>17, <1>18, <1>19, <1>20, <1>21, <1>22, <1>23,
     <1>24, <1>25, <1>26, <1>27, <1>28, <1>29, <1>30, <1>31, <1>32,
     <1>34
     DEF Next, ClientRequest, PassStep, RecoverStep, ReapStep, TaskStep, Lifecycle,
         MachineStep

-----------------------------------------------------------------------------
(* What the lock's holder remembers.                                       *)

\* A step that leaves the lock alone, changes no state of a job and records no
\* group keeps the lists true.
LEMMA ListsFrame ==
  ASSUME ListsInv,
         UNCHANGED <<state, pc, todo, cur>>,
         \A j \in JobId : Recorded(j)' => Recorded(j),
         phase' = "up" => phase = "up",
         phase' = "down" => phase = "down",
         todo \subseteq JobId
  PROVE  ListsInv'
BY DEF ListsInv, PassList, ReapList, RecoverList, LockMemory, NoStuckStarting

\* So does a step that leaves the lock free.
LEMMA ListsIdle ==
  ASSUME pc' = "free", cur' = 0,
         phase' = "up" /\ "write" \notin Faults =>
           \A j \in JobId : state'[j] # "STARTING"
  PROVE  ListsInv'
BY DEF ListsInv, PassList, ReapList, RecoverList, LockMemory, NoStuckStarting

\* A pass may begin where no launch is in hand and no row is left to recover:
\* then no job is STARTING.
LEMMA ListsBegin ==
  ASSUME ListsInv,
         pc \in {"free", "reap"} \/ (pc = "recover" /\ todo = {}),
         NEW tick \in BOOLEAN, BeginPass(tick),
         phase' = phase, phase # "down",
         \A j \in JobId : state'[j] = "STARTING" => state[j] = "STARTING"
  PROVE  ListsInv'
<1>1. phase = "up" /\ "write" \notin Faults => \A j \in JobId : state'[j] # "STARTING"
  BY DEF ListsInv, NoStuckStarting
<1>2. /\ pc' \in {"free", "scan"} /\ cur' = 0
      /\ pc' = "scan" => todo' = {j \in JobId : state'[j] = "WAITING"}
  BY BeginPassFacts
<1>3. QED
  BY <1>1, <1>2
     DEF ListsInv, PassList, ReapList, RecoverList, LockMemory, NoStuckStarting

\* So it may in a handler that takes the free lock.
LEMMA ListsHandler ==
  ASSUME ListsInv, LockFree, BeginPass(FALSE), phase' = phase,
         \A j \in JobId : state'[j] = "STARTING" => state[j] = "STARTING"
  PROVE  ListsInv'
<1>1. pc = "free" /\ phase # "down"
  BY DEF LockFree
<1>2. QED
  BY <1>1, ListsBegin

\* The pass goes on after a launch whose job is WAITING and STARTING no more.
LEMMA ListsNext ==
  ASSUME TypeOK, ListsInv, LaunchInHand,
         pc \in {"reserved", "spawned"},
         NextInPass, phase' = phase,
         NEW final \in {"RUNNING", "DONE", "FAILED"},
         state' = [state EXCEPT ![cur] = final]
  PROVE  ListsInv'
<1>1. /\ cur \in JobId /\ state[cur] = "STARTING"
      /\ pc' = "scan" /\ cur' = 0 /\ todo' = todo
  BY DEF LaunchInHand, NextInPass
<1>2. \A j \in JobId : state'[j] = "WAITING" <=> state[j] = "WAITING"
  BY <1>1 DEF TypeOK
<1>3. cur \notin todo
  BY <1>1 DEF ListsInv, PassList
<1>4. (PassList /\ ReapList /\ RecoverList)'
  BY <1>1, <1>2 DEF TypeOK, ListsInv, PassList, ReapList, RecoverList
<1>5. (LockMemory /\ NoStuckStarting)'
  BY <1>1 DEF TypeOK, ListsInv, LockMemory, NoStuckStarting
<1>6. QED
  BY <1>4, <1>5 DEF ListsInv

\* The lists stay true in every step of Next.
LEMMA ListsKept ==
  ASSUME TypeOK, RowsInv, ListsInv, Next
  PROVE  ListsInv'
<1> USE DEF tableVars, jobVars, outcomeVars, holdVars, daemonVars, taskVars,
            lockVars, procVars, machineVars
<1>s. /\ {"DONE", "FAILED", "CANCELLED", "ORPHANED"} \subseteq JobStates
      /\ JobId \subseteq Nat /\ 0 \notin JobId
      /\ todo \subseteq JobId
  BY ConstantsAssumption
     DEF JobStates, ActiveStates, TerminalStates, JobId, TypeOK
<1>c. pc \in {"reserved", "spawned"} =>
        cur \in JobId /\ state[cur] = "STARTING" /\ saved[cur] = None /\ LaunchInHand
  BY DEF RowsInv, LaunchInHand, RowsFollowState
<1>a. \A j \in JobId : ~Alive(j) => ~Recorded(j)
  BY DEF TypeOK, RowsInv, RowsFollowState, Alive, Live, Recorded, Running
<1>f. ASSUME UNCHANGED <<state, saved, grp, phase, pc, todo, cur>> PROVE ListsInv'
  BY <1>f, <1>s, ListsFrame DEF Recorded, Running
<1>1. ASSUME NEW s \in Submissions, Submit(s) PROVE ListsInv'
  BY <1>1, ListsHandler DEF Submit, Create
<1>2. ASSUME Observe PROVE ListsInv'
  BY <1>2, <1>f DEF Observe
<1>3. ASSUME NEW S \in SUBSET JobId, Cancel(S) PROVE ListsInv'
  BY <1>3, ListsHandler DEF Cancel
<1>4. ASSUME NEW S \in SUBSET JobId, Retry(S) PROVE ListsInv'
  BY <1>4, ListsHandler DEF Retry, Create
<1>5. ASSUME NEW on \in BOOLEAN, SetPaused(on) PROVE ListsInv'
  <2>1. CASE UNCHANGED lockVars
    BY <1>5, <2>1, <1>f DEF SetPaused
  <2>2. CASE BeginPass(FALSE)
    BY <1>5, <2>2, ListsHandler DEF SetPaused
  <2>3. QED
    BY <1>5, <2>1, <2>2 DEF SetPaused
<1>6. ASSUME NEW g \in Group, Hold(g) PROVE ListsInv'
  BY <1>6, <1>f DEF Hold
<1>7. ASSUME NEW g \in Group, Release(g) PROVE ListsInv'
  BY <1>7, ListsHandler DEF Release
<1>8. ASSUME NEW S \in SUBSET JobId, Delete(S) PROVE ListsInv'
  <2>1. /\ pc = "free" /\ cur = 0 /\ UNCHANGED <<pc, cur, phase>>
        /\ \A j \in JobId : state'[j] = "STARTING" => state[j] = "STARTING"
    BY <1>8 DEF Delete, LockFree, ListsInv, LockMemory, None
  <2>2. QED
    BY <2>1, ListsIdle DEF ListsInv, NoStuckStarting
<1>9. ASSUME Stop PROVE ListsInv'
  BY <1>9, <1>s, ListsFrame DEF Stop, Recorded, Running
<1>10. ASSUME EndPass PROVE ListsInv'
  BY <1>10, ListsIdle DEF EndPass, Unlock, ListsInv, NoStuckStarting
<1>11. ASSUME NEW j \in JobId, Reserve(j) PROVE ListsInv'
  <2>1. /\ pc = "scan" /\ pc' = "reserved" /\ cur' = j /\ phase' = phase
        /\ j \in todo /\ todo' = {i \in todo : j < i}
        /\ state' = [state EXCEPT ![j] = "STARTING"]
    BY <1>11 DEF Reserve, Before
  <2>2. \A i \in JobId : state'[i] = "WAITING" <=> state[i] = "WAITING" /\ i # j
    BY <2>1 DEF TypeOK
  <2>3. \A i \in JobId : state[i] = "WAITING" /\ j < i => i \in todo
    BY <2>1 DEF ListsInv, PassList
  <2>4. PassList'
    BY <2>1, <2>2, <2>3, <1>s DEF ListsInv, PassList
  <2>5. (ReapList /\ RecoverList /\ LockMemory /\ NoStuckStarting)'
    BY <2>1 DEF TypeOK, ListsInv, ReapList, RecoverList, LockMemory, NoStuckStarting
  <2>6. QED
    BY <2>4, <2>5 DEF ListsInv
<1>12. ASSUME Spawn PROVE ListsInv'
  <2>1. pc = "reserved" /\ pc' = "spawned" /\ UNCHANGED <<state, todo, cur, phase>>
    BY <1>12 DEF Spawn
  <2>2. QED
    BY <2>1
       DEF ListsInv, PassList, ReapList, RecoverList, LockMemory, NoStuckStarting
<1>13. ASSUME SpawnFails PROVE ListsInv'
  <2>1. state' = [state EXCEPT ![cur] = "FAILED"]
    BY <1>13, <1>c, LaunchFailedTyped DEF SpawnFails
  <2>2. QED
    BY <1>13, <1>c, <2>1, ListsNext DEF SpawnFails
<1>14. ASSUME RecordStart PROVE ListsInv'
  BY <1>14, <1>c, ListsNext DEF RecordStart
<1>15. ASSUME NEW final \in {"DONE", "FAILED"}, ShortExit(final) PROVE ListsInv'
  <2>1. state' = [state EXCEPT ![cur] = final]
    BY <1>15, <1>c, <1>s, FinishTyped DEF ShortExit
  <2>2. QED
    BY <1>15, <2>1, <1>c, ListsNext DEF ShortExit
<1>16. ASSUME RecordFails PROVE ListsInv'
  <2>1. state' = [state EXCEPT ![cur] = "FAILED"]
    BY <1>16, <1>c, LaunchFailedTyped DEF RecordFails
  <2>2. QED
    BY <1>16, <1>c, <2>1, ListsNext DEF RecordFails
<1>17. ASSUME NEW j \in JobId, RecoverJob(j) PROVE ListsInv'
  <2>1. /\ pc = "recover" /\ todo' = todo \ {j} /\ UNCHANGED <<pc, cur, phase>>
        /\ state[j] \in {"STARTING", "RUNNING", "CANCELLING"}
    BY <1>17 DEF RecoverJob, First, ListsInv, RecoverList
  <2>2. state[j] = "STARTING" => Recovered(j) = "FAILED"
    BY DEF RowsInv, RowsFollowState, Recovered, Alive, None
  <2>3. /\ \A i \in JobId : i # j => state'[i] = state[i]
        /\ state'[j] # "STARTING"
    <3>1. CASE Recovered(j) # state[j]
      <4>1. Recovered(j) \in {"FAILED", "CANCELLED", "ORPHANED"}
        BY <2>1, <3>1 DEF Recovered
      <4>2. state' = [state EXCEPT ![j] = Recovered(j)]
        BY <1>17, <3>1, <4>1, <1>s, FinishTyped DEF RecoverJob
      <4>3. QED
        BY <4>1, <4>2 DEF TypeOK
    <3>2. CASE Recovered(j) = state[j]
      BY <1>17, <2>2, <3>2 DEF RecoverJob
    <3>3. QED
      BY <3>1, <3>2
  <2>4. QED
    BY <2>1, <2>3, <1>s
       DEF ListsInv, PassList, ReapList, RecoverList, LockMemory, NoStuckStarting
<1>18. ASSUME RecoverDone PROVE ListsInv'
  BY <1>18, ListsBegin DEF RecoverDone, ListsInv, LockMemory
<1>19. ASSUME NEW j \in JobId, ReapJob(j) PROVE ListsInv'
  <2>1. /\ pc = "reap" /\ todo' = todo \ {j}
        /\ UNCHANGED <<pc, cur, phase, saved, grp>>
    BY <1>19 DEF ReapJob
  <2>2. ReapState(j) \in {"FAILED", "CANCELLED"}
    BY DEF ReapState
  <2>3. state' = [state EXCEPT ![j] = ReapState(j)]
    BY <1>19, <2>2, <1>s, FinishTyped DEF ReapJob
  <2>4. /\ \A i \in JobId : i # j => state'[i] = state[i]
        /\ state'[j] # "STARTING"
    BY <2>2, <2>3 DEF TypeOK
  <2>5. QED
    BY <2>1, <2>4, <1>s
       DEF ListsInv, PassList, ReapList, RecoverList, LockMemory, NoStuckStarting,
           Recorded, Running
<1>20. ASSUME ReapDone PROVE ListsInv'
  BY <1>20, ListsBegin DEF ReapDone, ListsInv, LockMemory
<1>21. ASSUME NEW j \in JobId, MonitorEnds(j) PROVE ListsInv'
  <2>1. PICK final \in {"DONE", "FAILED", "CANCELLED"} : MonitorExit(j, final)
    BY <1>21 DEF MonitorEnds
  <2>2. state' = [state EXCEPT ![j] = final]
    BY <2>1, <1>s, FinishTyped DEF MonitorExit
  <2>3. \A i \in JobId : state'[i] = "STARTING" => state[i] = "STARTING"
    BY <2>2 DEF TypeOK
  <2>4. QED
    BY <2>1, <2>3, ListsHandler DEF MonitorExit
<1>22. ASSUME NEW j \in JobId, MonitorDies(j) PROVE ListsInv'
  BY <1>22, <1>f DEF MonitorDies
<1>23. ASSUME NEW j \in JobId, GraceOver(j) \/ Escalate(j) PROVE ListsInv'
  BY <1>23, <1>f DEF GraceOver, Escalate
<1>24. ASSUME NEW j \in JobId, FinishCancel(j) PROVE ListsInv'
  <2>1. CASE Finish(j, "CANCELLED") /\ BeginPass(FALSE)
    <3>1. state' = [state EXCEPT ![j] = "CANCELLED"]
      BY <2>1, <1>s, FinishTyped
    <3>2. \A i \in JobId : state'[i] = "STARTING" => state[i] = "STARTING"
      BY <3>1 DEF TypeOK
    <3>3. QED
      BY <1>24, <2>1, <3>2, ListsHandler DEF FinishCancel
  <2>2. CASE UNCHANGED <<state, lockVars>>
    BY <1>24, <2>2, <1>f DEF FinishCancel
  <2>3. QED
    BY <1>24, <2>1, <2>2 DEF FinishCancel
<1>25. ASSUME Tick PROVE ListsInv'
  <2>1. /\ pc = "free" /\ pc' = "reap" /\ cur' = 0 /\ phase = "up" /\ phase' = "up"
        /\ UNCHANGED <<state, saved, grp>>
    BY <1>25 DEF Tick, LockFree
  <2>2. \A j \in todo' : /\ state[j] \in {"STARTING", "RUNNING", "CANCELLING"}
                         /\ ~Recorded(j)
    BY <1>25, <1>a DEF Tick, ReapTarget, ActiveStates
  <2>3. QED
    BY <2>1, <2>2
       DEF ListsInv, PassList, ReapList, RecoverList, LockMemory, NoStuckStarting,
           Recorded, Running
<1>26. ASSUME Start PROVE ListsInv'
  <2>1. /\ phase = "down" /\ phase' = "up" /\ pc' = "recover"
        /\ todo' = {j \in JobId : state[j] \in {"STARTING", "RUNNING", "CANCELLING"}}
        /\ UNCHANGED <<state, cur>>
    BY <1>26 DEF Start, Unfinished, ActiveStates
  <2>2. QED
    BY <2>1
       DEF ListsInv, PassList, ReapList, RecoverList, LockMemory, NoStuckStarting
<1>27. ASSUME Close PROVE ListsInv'
  BY <1>27, <1>s, ListsFrame DEF Close, Recorded, Running
<1>28. ASSUME Exit \/ Crash \/ Reboot PROVE ListsInv'
  BY <1>28, ListsIdle DEF Exit, Crash, Reboot, ForgetMemory, Unlock
<1>29. ASSUME CancelTick PROVE ListsInv'
  BY <1>29, ListsIdle DEF CancelTick, Unlock
<1>33. ASSUME WriteFails PROVE ListsInv'
  BY <1>33, ListsIdle DEF WriteFails, Unlock
<1>30. ASSUME NEW j \in JobId, LauncherExits(j) \/ GroupDies(j) PROVE ListsInv'
  <2>1. /\ UNCHANGED <<state, saved, phase, pc, todo, cur>>
        /\ \A i \in JobId : Running(i)' => Running(i)
    BY <1>30 DEF LauncherExits, GroupDies, UnchangedByMachine, Running, TypeOK
  <2>2. QED
    BY <2>1, <1>s, ListsFrame DEF Recorded
<1>31. ASSUME NEW g \in GPU, ExternalStarts(g) \/ ExternalStops(g) PROVE ListsInv'
  BY <1>31, <1>f DEF ExternalStarts, ExternalStops, UnchangedByMachine
<1>32. QED
  BY <1>1, <1>2, <1>3, <1>4, <1>5, <1>6, <1>7, <1>8, <1>9, <1>10, <1>11, <1>12,
     <1>13, <1>14, <1>15, <1>16, <1>17, <1>18, <1>19, <1>20, <1>21, <1>22, <1>23,
     <1>24, <1>25, <1>26, <1>27, <1>28, <1>29, <1>30, <1>31,
     <1>33
     DEF Next, ClientRequest, PassStep, RecoverStep, ReapStep, TaskStep, Lifecycle,
         MachineStep

-----------------------------------------------------------------------------
(* The invariant, and the properties that follow from it.                  *)

\* The empty database and the daemon that was never started satisfy it.
LEMMA InitInv ==
  ASSUME Init
  PROVE  IInv
<1>1. TypeOK
  <2>1. /\ 1 \in 1..(MaxJobs + 1)
        /\ 0 \in 0..MaxJobs /\ 0 \in 0..MaxStarts
    BY ConstantsAssumption
  <2>2. /\ NoRequest \in [gpus : Nat, group : Group \cup {None},
                          key : Key \cup {None}, root : Nat]
        /\ None \in JobStates
        /\ NoObservation \in [GPU -> Observation]
    BY DEF NoRequest, JobStates, NoObservation, Observation
  <2>3. /\ state \in [JobId -> JobStates]
        /\ request \in [JobId -> [gpus : Nat, group : Group \cup {None},
                                  key : Key \cup {None}, root : Nat]]
        /\ obs \in [GPU -> Observation]
    BY <2>2 DEF Init
  <2>4. nextId \in 1..(MaxJobs + 1) /\ starts \in 0..MaxStarts /\ cur \in 0..MaxJobs
    BY <2>1 DEF Init
  <2>5. /\ ended \in Seq(JobId)
        /\ paused \in BOOLEAN
        /\ byTick \in BOOLEAN
    <3>1. ended = <<>> /\ ~paused /\ ~byTick
      BY DEF Init
    <3>2. paused \in BOOLEAN
      BY DEF Init
    <3>3. byTick \in BOOLEAN
      BY DEF Init
    <3>4. QED
      BY <3>1, <3>2, <3>3
  <2>6. QED
    BY <2>3, <2>4, <2>5 DEF Init, TypeOK
<1>2. RowsInv
  BY DEF Init, RowsInv, FreshIds, RowsFollowState, LaunchInHand,
         LiveGroupKeepsReservation, NoDoubleBooking, WholeAssignment, Running,
         Holding, None
<1>3. ListsInv
  BY DEF Init, ListsInv, PassList, ReapList, RecoverList, LockMemory,
         NoStuckStarting
<1>4. QED
  BY <1>1, <1>2, <1>3 DEF IInv

\* A step that changes nothing keeps it.
LEMMA StutterInv ==
  ASSUME IInv, UNCHANGED vars
  PROVE  IInv'
<1> USE DEF vars, tableVars, jobVars, outcomeVars, holdVars, daemonVars, taskVars,
            lockVars, procVars, machineVars
<1>1. TypeOK'
  BY DEF IInv, TypeOK
<1>2. RowsInv'
  BY RowsFrame DEF IInv
<1>3. ListsInv'
  BY ListsFrame DEF IInv, TypeOK, Recorded, Running
<1>4. QED
  BY <1>1, <1>2, <1>3 DEF IInv

\* The inductive invariant holds in every reachable state.
THEOREM Invariance == Spec => []IInv
<1>1. Init => IInv
  BY InitInv
<1>2. IInv /\ [Next]_vars => IInv'
  BY StutterInv, TypesKept, RowsKept, ListsKept DEF IInv, RowsInv
<1>3. QED
  BY <1>1, <1>2, PTL DEF Spec

\* Every variable keeps its type.
THEOREM TypeCorrect == Spec => []TypeOK
<1>1. IInv => TypeOK
  BY DEF IInv
<1>2. QED
  BY <1>1, Invariance, PTL

\* No GPU is held by two jobs at once, whatever sequence of launches, failures,
\* cancellations, crashes and recoveries there was (architecture.md:32).
THEOREM NeverBookedTwice == Spec => []NoDoubleBooking
<1>1. IInv => NoDoubleBooking
  BY DEF IInv, RowsInv
<1>2. QED
  BY <1>1, Invariance, PTL

\* A recorded group keeps its reservation while any of its processes lives,
\* through daemon crashes and machine reboots (architecture.md:78).
THEOREM ReservationOutlivesDaemon == Spec => []LiveGroupKeepsReservation
<1>1. IInv => LiveGroupKeepsReservation
  BY DEF IInv, RowsInv
<1>2. QED
  BY <1>1, Invariance, PTL

\* Recorded live groups never compute on one GPU: each sees its reservation,
\* and reservations are disjoint.
THEOREM RecordedGroupsApart == Spec => []RecordedGroupsDisjoint
<1>1. IInv => RecordedGroupsDisjoint
  BY DEF IInv, RowsInv, NoDoubleBooking, LiveGroupKeepsReservation,
         RecordedGroupsDisjoint
<1>2. QED
  BY <1>1, Invariance, PTL

\* A job holds all the GPUs it asked for, or none.
THEOREM WholeRequests == Spec => []WholeAssignment
<1>1. IInv => WholeAssignment
  BY DEF IInv, RowsInv
<1>2. QED
  BY <1>1, Invariance, PTL

\* No failure of a launch, at any of its steps, leaves a STARTING row behind in
\* a running daemon.
THEOREM LaunchesLeaveNothing == Spec => []NoStuckStarting
<1>1. IInv => NoStuckStarting
  BY DEF IInv, ListsInv
<1>2. QED
  BY <1>1, Invariance, PTL

\* The list a pass read stays true across the awaits of its launches.
THEOREM PassListNeverStale == Spec => []PassListStaysTrue
<1>1. IInv => PassListStaysTrue
  BY DEF IInv, ListsInv, PassList, PassListStaysTrue
<1>2. QED
  BY <1>1, Invariance, PTL

-----------------------------------------------------------------------------
(* How a job may end.                                                      *)

\* What a step may do to a job that is finished or being cancelled.
JobStep(j) ==
  /\ state[j] \in {"DONE", "FAILED", "CANCELLED", "ORPHANED"} =>
       state'[j] \in {state[j], None}
  /\ state[j] = "CANCELLING" /\ pc # "recover" =>
       state'[j] \in {"CANCELLING", "CANCELLED"}

\* Every step of Next does no more than that to any job.
LEMMA JobSteps ==
  ASSUME IInv, Next, NEW k \in JobId
  PROVE  JobStep(k)
<1> USE DEF tableVars, jobVars, JobStep
<1>s. /\ TypeOK /\ RowsInv /\ ListsInv
      /\ {"DONE", "FAILED", "CANCELLED", "ORPHANED"} \subseteq JobStates
      /\ state \in [JobId -> JobStates]
  BY DEF IInv, TypeOK, JobStates, ActiveStates, TerminalStates
<1>c. pc \in {"reserved", "spawned"} => cur \in JobId /\ state[cur] = "STARTING"
  BY <1>s DEF RowsInv, LaunchInHand
<1>n. \A j \in JobId : j >= nextId => state[j] = None
  BY <1>s DEF RowsInv, FreshIds
<1>f. ASSUME UNCHANGED state PROVE JobStep(k)
  BY <1>f
<1>e. ASSUME NEW j \in JobId, NEW final \in JobStates,
             state' = [state EXCEPT ![j] = final],
             state[j] \in {"WAITING", "STARTING", "RUNNING", "CANCELLING"},
             state[j] = "CANCELLING" /\ pc # "recover" => final = "CANCELLED"
      PROVE  JobStep(k)
  BY <1>e, <1>s
<1>1. ASSUME NEW s \in Submissions, Submit(s) PROVE JobStep(k)
  <2>1. /\ state' = [j \in JobId |-> IF j \in {nextId} THEN "WAITING" ELSE state[j]]
        /\ state[nextId] = None
    BY <1>1, <1>n, <1>s, ConstantsAssumption DEF Submit, Create, JobId
  <2>2. QED
    BY <2>1 DEF None
<1>2. ASSUME NEW S \in SUBSET JobId, Cancel(S) PROVE JobStep(k)
  BY <1>2 DEF Cancel, Cancellable, ActiveStates
<1>3. ASSUME NEW S \in SUBSET JobId, Retry(S) PROVE JobStep(k)
  <2>1. /\ Chosen(S) \subseteq JobId
        /\ nextId + Cardinality(Chosen(S)) - 1 <= MaxJobs
    BY <1>3 DEF Retry, Chosen
  <2>2. PICK from \in Numberings(Chosen(S)) : Create(Attempts(from))
    BY <1>3 DEF Retry
  <2>3. /\ Cardinality(Chosen(S)) \in Nat
        /\ DOMAIN from = nextId..(nextId + Cardinality(Chosen(S)) - 1)
        /\ DOMAIN from \subseteq JobId
    BY <1>s, <2>1, <2>2, NumberingFacts
  <2>4. \A j \in DOMAIN from : state[j] = None
    BY <1>s, <1>n, <2>3 DEF TypeOK
  <2>5. state' = [j \in JobId |-> IF j \in DOMAIN from THEN "WAITING" ELSE state[j]]
    BY <2>2 DEF Create, Attempts
  <2>6. QED
    BY <2>4, <2>5 DEF None
<1>4. ASSUME NEW S \in SUBSET JobId, Delete(S) PROVE JobStep(k)
  BY <1>4 DEF Delete, Deletable, TerminalStates
<1>5. ASSUME NEW j \in JobId, Reserve(j) PROVE JobStep(k)
  <2>1. state[j] = "WAITING" /\ "STARTING" \in JobStates
    BY <1>5, <1>s DEF Reserve, ListsInv, PassList, JobStates, ActiveStates
  <2>2. QED
    BY <1>5, <2>1, <1>e DEF Reserve
<1>6. ASSUME SpawnFails \/ RecordFails PROVE JobStep(k)
  BY <1>6, <1>s, <1>c, <1>e, LaunchFailedTyped DEF SpawnFails, RecordFails
<1>7. ASSUME RecordStart PROVE JobStep(k)
  BY <1>7, <1>s, <1>c, <1>e DEF RecordStart, JobStates, ActiveStates
<1>8. ASSUME NEW final \in {"DONE", "FAILED"}, ShortExit(final) PROVE JobStep(k)
  BY <1>8, <1>s, <1>c, <1>e, FinishTyped DEF ShortExit
<1>9. ASSUME NEW j \in JobId, RecoverJob(j) PROVE JobStep(k)
  <2>1. /\ pc = "recover"
        /\ state[j] \in {"STARTING", "RUNNING", "CANCELLING"}
    BY <1>9, <1>s DEF RecoverJob, First, ListsInv, RecoverList
  <2>2. CASE Recovered(j) # state[j]
    <3>1. Recovered(j) \in {"FAILED", "CANCELLED", "ORPHANED"}
      BY <2>2 DEF Recovered
    <3>2. state' = [state EXCEPT ![j] = Recovered(j)]
      BY <1>9, <2>2, <3>1, <1>s, FinishTyped DEF RecoverJob
    <3>3. QED
      BY <2>1, <3>1, <3>2, <1>s, <1>e
  <2>3. CASE Recovered(j) = state[j]
    BY <1>9, <2>3, <1>f DEF RecoverJob
  <2>4. QED
    BY <2>2, <2>3
<1>10. ASSUME NEW j \in JobId, ReapJob(j) PROVE JobStep(k)
  <2>1. state[j] \in {"STARTING", "RUNNING", "CANCELLING"}
    BY <1>10, <1>s DEF ReapJob, First, ListsInv, ReapList
  <2>2. /\ ReapState(j) \in {"FAILED", "CANCELLED"}
        /\ state[j] = "CANCELLING" => ReapState(j) = "CANCELLED"
    BY DEF ReapState
  <2>3. state' = [state EXCEPT ![j] = ReapState(j)]
    BY <1>10, <2>2, <1>s, FinishTyped DEF ReapJob
  <2>4. QED
    BY <2>1, <2>2, <2>3, <1>s, <1>e
<1>11. ASSUME NEW j \in JobId, MonitorEnds(j) PROVE JobStep(k)
  <2>1. PICK final \in {"DONE", "FAILED", "CANCELLED"} : MonitorExit(j, final)
    BY <1>11 DEF MonitorEnds
  <2>2. /\ state[j] \in {"STARTING", "RUNNING", "CANCELLING"}
        /\ state[j] = "CANCELLING" => final = "CANCELLED"
    BY <2>1 DEF MonitorExit, ActiveStates, ExitState
  <2>3. state' = [state EXCEPT ![j] = final]
    BY <2>1, <1>s, FinishTyped DEF MonitorExit
  <2>4. QED
    BY <2>2, <2>3, <1>s, <1>e
<1>12. ASSUME NEW j \in JobId, FinishCancel(j) PROVE JobStep(k)
  <2>1. CASE state[j] = "CANCELLING"
    BY <1>12, <2>1, <1>s, <1>e, FinishTyped DEF FinishCancel
  <2>2. CASE state[j] # "CANCELLING"
    BY <1>12, <2>2, <1>f DEF FinishCancel
  <2>3. QED
    BY <2>1, <2>2
<1>13. CASE UNCHANGED state
  BY <1>13, <1>f
<1>14. QED
  BY <1>1, <1>2, <1>3, <1>4, <1>5, <1>6, <1>7, <1>8, <1>9, <1>10, <1>11, <1>12,
     <1>13
     DEF Next, ClientRequest, PassStep, RecoverStep, ReapStep, TaskStep, Lifecycle,
         MachineStep, Observe, SetPaused, Hold, Release, Stop, EndPass, Spawn,
         RecoverDone, ReapDone, MonitorDies, GraceOver, Escalate, Tick, Start, Close,
         Exit, Crash, Reboot, CancelTick, WriteFails, LauncherExits, GroupDies,
         ExternalStarts, ExternalStops, UnchangedByMachine

\* A finished job stays as it finished until it is deleted: no late monitor,
\* cancellation task, reaper or recovery rewrites its outcome.
THEOREM OutcomesAreFinal == Spec => OutcomeIsFinal
<1>1. IInv /\ [Next]_vars =>
        [\A j \in JobId :
           state[j] \in {"DONE", "FAILED", "CANCELLED", "ORPHANED"} =>
             state'[j] \in {state[j], None}]_vars
  BY JobSteps DEF JobStep
<1>2. QED
  BY <1>1, Invariance, PTL DEF Spec, OutcomeIsFinal

\* Outside restart recovery a cancelled job ends CANCELLED, whichever task
\* finishes it.
THEOREM CancellationSticks == Spec => CancelSticks
<1>1. IInv /\ [Next]_vars =>
        [\A j \in JobId :
           state[j] = "CANCELLING" /\ pc # "recover" =>
             state'[j] \in {"CANCELLING", "CANCELLED"}]_vars
  BY JobSteps DEF JobStep
<1>2. QED
  BY <1>1, Invariance, PTL DEF Spec, CancelSticks

=============================================================================
