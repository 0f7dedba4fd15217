--------------------------- MODULE HistoryProofs ---------------------------
(***************************************************************************)
(* What the scheduler's earlier steps promise its later ones, proved for   *)
(* every value of the constants: holds, pauses, cancellations, keys and    *)
(* lineages.                                                               *)
(***************************************************************************)
EXTENDS SchedulerProofs

-----------------------------------------------------------------------------
(* The life of a row.                                                      *)

Created == (\E s \in Submissions : Submit(s)) \/ (\E S \in SUBSET JobId : Retry(S))

\* The ways a row changes its state once it is there.
RowStep(k) ==
  \/ state'[k] = state[k] /\ request'[k] = request[k]
  \/ /\ request'[k] = request[k]
     /\ \/ state[k] = "WAITING" /\ state'[k] = "CANCELLED"
        \/ state[k] = "WAITING" /\ state'[k] = "STARTING" /\ pc = "scan"
        \/ /\ state[k] \in {"STARTING", "RUNNING", "CANCELLING"}
           /\ state'[k] \in {"RUNNING", "CANCELLING", "DONE", "FAILED", "CANCELLED",
                             "ORPHANED"}
  \/ /\ state[k] \in {"DONE", "FAILED", "CANCELLED", "ORPHANED"}
     /\ state'[k] = None

\* Every step but a submission or a retry keeps to them and creates no row.
LEMMA RowSteps ==
  ASSUME IInv, Next, ~Created, NEW k \in JobId
  PROVE  RowStep(k) /\ nextId' = nextId
<1> USE DEF tableVars, jobVars, RowStep
<1>s. /\ TypeOK /\ RowsInv /\ ListsInv
      /\ {"DONE", "FAILED", "CANCELLED", "ORPHANED"} \subseteq JobStates
      /\ state \in [JobId -> JobStates]
  BY DEF IInv, TypeOK, JobStates, ActiveStates, TerminalStates
<1>c. pc \in {"reserved", "spawned"} => cur \in JobId /\ state[cur] = "STARTING"
  BY <1>s DEF RowsInv, LaunchInHand
<1> DEFINE Goal == RowStep(k) /\ nextId' = nextId
<1>f. ASSUME UNCHANGED <<state, request, nextId>> PROVE Goal
  BY <1>f
<1>e. ASSUME NEW j \in JobId,
             NEW final \in {"RUNNING", "DONE", "FAILED", "CANCELLED", "ORPHANED"},
             state' = [state EXCEPT ![j] = final],
             state[j] \in {"STARTING", "RUNNING", "CANCELLING"},
             UNCHANGED <<request, nextId>>
      PROVE  Goal
  BY <1>e, <1>s
<1>1. ASSUME NEW S \in SUBSET JobId, Cancel(S) PROVE Goal
  BY <1>1 DEF Cancel, Cancellable, ActiveStates
<1>2. ASSUME NEW S \in SUBSET JobId, Delete(S) PROVE Goal
  BY <1>2 DEF Delete, Deletable, TerminalStates
<1>3. ASSUME NEW j \in JobId, Reserve(j) PROVE Goal
  <2>1. state[j] = "WAITING"
    BY <1>3, <1>s DEF Reserve, ListsInv, PassList
  <2> QED BY <1>3, <2>1, <1>s DEF Reserve
<1>4. ASSUME SpawnFails \/ RecordFails PROVE Goal
  BY <1>4, <1>s, <1>c, <1>e, LaunchFailedTyped DEF SpawnFails, RecordFails
<1>5. ASSUME RecordStart PROVE Goal
  BY <1>5, <1>s, <1>c, <1>e DEF RecordStart
<1>6. ASSUME NEW final \in {"DONE", "FAILED"}, ShortExit(final) PROVE Goal
  BY <1>6, <1>s, <1>c, <1>e, FinishTyped DEF ShortExit
<1>7. ASSUME NEW j \in JobId, RecoverJob(j) PROVE Goal
  <2>1. state[j] \in {"STARTING", "RUNNING", "CANCELLING"}
    BY <1>7, <1>s DEF RecoverJob, First, ListsInv, RecoverList
  <2>2. CASE Recovered(j) # state[j]
    <3>1. Recovered(j) \in {"FAILED", "CANCELLED", "ORPHANED"}
      BY <2>2 DEF Recovered
    <3>2. state' = [state EXCEPT ![j] = Recovered(j)]
      BY <1>7, <2>2, <3>1, <1>s, FinishTyped DEF RecoverJob
    <3> QED BY <1>7, <2>1, <3>1, <3>2, <1>e DEF RecoverJob
  <2>3. CASE Recovered(j) = state[j]
    BY <1>7, <2>3, <1>f DEF RecoverJob
  <2> QED BY <2>2, <2>3
<1>8. ASSUME NEW j \in JobId, ReapJob(j) PROVE Goal
  <2>1. state[j] \in {"STARTING", "RUNNING", "CANCELLING"}
    BY <1>8, <1>s DEF ReapJob, First, ListsInv, ReapList
  <2>2. ReapState(j) \in {"FAILED", "CANCELLED"}
    BY DEF ReapState
  <2>3. state' = [state EXCEPT ![j] = ReapState(j)]
    BY <1>8, <2>2, <1>s, FinishTyped DEF ReapJob
  <2> QED BY <1>8, <2>1, <2>2, <2>3, <1>e DEF ReapJob
<1>9. ASSUME NEW j \in JobId, MonitorEnds(j) PROVE Goal
  <2>1. PICK final \in {"DONE", "FAILED", "CANCELLED"} : MonitorExit(j, final)
    BY <1>9 DEF MonitorEnds
  <2>2. state[j] \in {"STARTING", "RUNNING", "CANCELLING"}
    BY <2>1 DEF MonitorExit, ActiveStates
  <2>3. state' = [state EXCEPT ![j] = final]
    BY <2>1, <1>s, FinishTyped DEF MonitorExit
  <2> QED BY <2>1, <2>2, <2>3, <1>e DEF MonitorExit
<1>10. ASSUME NEW j \in JobId, FinishCancel(j) PROVE Goal
  <2>1. CASE state[j] = "CANCELLING"
    BY <1>10, <2>1, <1>s, <1>e, FinishTyped DEF FinishCancel
  <2>2. CASE state[j] # "CANCELLING"
    BY <1>10, <2>2, <1>f DEF FinishCancel
  <2> QED BY <2>1, <2>2
<1>11. CASE UNCHANGED <<state, request, nextId>>
  BY <1>11, <1>f
<1> QED
  BY <1>1, <1>2, <1>3, <1>4, <1>5, <1>6, <1>7, <1>8, <1>9, <1>10, <1>11
     DEF Created, Next, ClientRequest, PassStep, RecoverStep, ReapStep, TaskStep,
         Lifecycle, MachineStep, Observe, SetPaused, Hold, Release, Stop, EndPass,
         Spawn, RecoverDone, ReapDone, MonitorDies, GraceOver, Escalate, Tick, Start,
         Close, Exit, Crash, Reboot, CancelTick, WriteFails, LauncherExits, GroupDies,
         ExternalStarts, ExternalStops, UnchangedByMachine

\* The rows a submission or a retry creates: at the next ids, one for each
\* element of a function to the requests.
Creates(new) ==
  /\ Create(new)
  /\ \A n \in JobId : n \in DOMAIN new <=> nextId <= n /\ n < nextId'
  /\ DOMAIN new \subseteq JobId
  /\ nextId' \in Nat /\ nextId' >= nextId

LEMMA SubmitCreates ==
  ASSUME IInv, NEW s \in Submissions, Submit(s)
  PROVE  Creates([n \in {nextId} |->
                    [gpus |-> s.gpus, group |-> s.group, key |-> s.key, root |-> 0]])
<1> DEFINE new == [n \in {nextId} |->
                     [gpus |-> s.gpus, group |-> s.group, key |-> s.key, root |-> 0]]
<1>1. Create(new) /\ nextId \in JobId
  BY DEF Submit
<1>2. DOMAIN new = {nextId}
  OBVIOUS
<1> HIDE DEF new
<1>3. nextId' = nextId + 1
  BY <1>1, <1>2, FS_Singleton DEF Create
<1>n. JobId \subseteq Nat
  BY ConstantsAssumption DEF JobId
<1>4. Creates(new)
  BY <1>1, <1>2, <1>3, <1>n DEF Creates
<1> QED BY <1>4 DEF new

LEMMA RetryCreates ==
  ASSUME IInv, NEW S \in SUBSET JobId, Retry(S)
  PROVE  \E from \in Numberings(Chosen(S)) :
           /\ Creates(Attempts(from))
           /\ DOMAIN Attempts(from) = DOMAIN from
           /\ \A n \in DOMAIN from : from[n] \in Chosen(S)
<1>1. /\ Chosen(S) \subseteq JobId
      /\ nextId + Cardinality(Chosen(S)) - 1 <= MaxJobs
      /\ TypeOK
  BY DEF Retry, Chosen, IInv
<1>2. PICK from \in Numberings(Chosen(S)) : Create(Attempts(from))
  BY DEF Retry
<1>3. /\ Cardinality(Chosen(S)) \in Nat
      /\ DOMAIN from = nextId..(nextId + Cardinality(Chosen(S)) - 1)
      /\ Cardinality(DOMAIN from) = Cardinality(Chosen(S))
      /\ DOMAIN from \subseteq JobId
      /\ \A n \in DOMAIN from : from[n] \in Chosen(S)
  BY <1>1, <1>2, NumberingFacts
<1>4. DOMAIN Attempts(from) = DOMAIN from
  BY DEF Attempts
<1>5. nextId' = nextId + Cardinality(Chosen(S))
  BY <1>2, <1>3, <1>4 DEF Create
<1>6. JobId \subseteq Nat /\ nextId \in Nat
  BY <1>1, ConstantsAssumption DEF TypeOK, JobId
<1>7. Creates(Attempts(from))
  BY <1>2, <1>3, <1>4, <1>5, <1>6 DEF Creates
<1> QED BY <1>3, <1>4, <1>7

-----------------------------------------------------------------------------
(* Holds.                                                                  *)

\* Holding a group, for whatever reason, holds it in the table and in memory.
LEMMA HoldMirrors ==
  ASSUME TypeOK, \A g \in Group : held[g] = "free" <=> holds[g] = "free",
         NEW h \in Group, NEW why \in {"manual", "auto"}, HoldGroup(h, why)
  PROVE  \A g \in Group : held'[g] = "free" <=> holds'[g] = "free"
BY DEF TypeOK, HoldGroup

LEMMA NoteMirrors ==
  ASSUME TypeOK, \A g \in Group : held[g] = "free" <=> holds[g] = "free",
         NEW j \in JobId, NoteFailure(j) \/ UNCHANGED holdVars
  PROVE  \A g \in Group : held'[g] = "free" <=> holds'[g] = "free"
<1>1. CASE UNCHANGED holdVars
  BY <1>1 DEF holdVars
<1>2. CASE request[j].group \in Group /\ HoldGroup(request[j].group, "auto")
  BY <1>2, HoldMirrors
<1>3. request[j].group \in Group \cup {None}
  BY DEF TypeOK
<1> QED BY <1>1, <1>2, <1>3 DEF NoteFailure

LEMMA HoldsKept ==
  ASSUME IInv, HeldMirrorsTable, Next
  PROVE  HeldMirrorsTable'
<1> USE DEF HeldMirrorsTable, holdVars, daemonVars
<1>s. TypeOK /\ RowsInv /\ ListsInv
  BY DEF IInv
<1>c. pc \in {"reserved", "spawned"} => cur \in JobId /\ phase # "down"
  BY <1>s DEF RowsInv, LaunchInHand, ListsInv, LockMemory
<1>1. ASSUME NEW S, Retry(S) PROVE HeldMirrorsTable'
  BY <1>1, <1>s DEF Retry, ReleaseGroups, LockFree
<1>2. ASSUME NEW g \in Group, Hold(g) PROVE HeldMirrorsTable'
  BY <1>2, <1>s, HoldMirrors DEF Hold, LockFree
<1>3. ASSUME NEW g \in Group, Release(g) PROVE HeldMirrorsTable'
  BY <1>3, <1>s DEF Release, ReleaseGroups, LockFree
<1>4. ASSUME SpawnFails \/ RecordFails PROVE HeldMirrorsTable'
  BY <1>4, <1>s, <1>c, NoteMirrors DEF SpawnFails, RecordFails, LaunchFailed
<1>5. ASSUME NEW final \in {"DONE", "FAILED"}, ShortExit(final) PROVE HeldMirrorsTable'
  BY <1>5, <1>s, <1>c, NoteMirrors DEF ShortExit, NoteOutcome
<1>6. ASSUME NEW j \in JobId, MonitorEnds(j) PROVE HeldMirrorsTable'
  BY <1>6, <1>s, NoteMirrors DEF MonitorEnds, MonitorExit, NoteOutcome, LockFree
<1>7. ASSUME Start PROVE HeldMirrorsTable'
  BY <1>7 DEF Start, LoadHolds
<1>8. CASE phase' = "down"
  BY <1>8
<1>9. CASE UNCHANGED holdVars /\ (phase = "down" => phase' = "down")
  BY <1>9
<1> QED
  BY <1>1, <1>2, <1>3, <1>4, <1>5, <1>6, <1>7, <1>8, <1>9
     DEF Next, ClientRequest, PassStep, RecoverStep, ReapStep, TaskStep, Lifecycle,
         MachineStep, Submit, Observe, Cancel, SetPaused, Delete, Stop, EndPass,
         Reserve, Spawn, RecordStart, RecoverJob, RecoverDone, ReapJob, ReapDone,
         MonitorDies, GraceOver, Escalate, FinishCancel, Tick, Close, ForgetMemory,
         Exit, Crash, Reboot, CancelTick, WriteFails, LauncherExits, GroupDies, ExternalStarts,
         ExternalStops, UnchangedByMachine, LockFree

\* The daemon's mirror of the holds and the table agree on which groups are
\* held, through automatic holds, releases by retry, crashes and restarts.
THEOREM HoldsAreMirrored == Spec => []HeldMirrorsTable
<1>1. Init => HeldMirrorsTable
  BY DEF Init, HeldMirrorsTable
<1>2. IInv /\ HeldMirrorsTable /\ [Next]_vars => HeldMirrorsTable'
  <2>1. CASE UNCHANGED vars
    BY <2>1 DEF vars, holdVars, daemonVars, HeldMirrorsTable
  <2> QED BY <2>1, HoldsKept
<1> QED BY <1>1, <1>2, Invariance, PTL DEF Spec

-----------------------------------------------------------------------------
(* Streaks of failures.                                                    *)

\* The outcomes that count for a group, and whether the last of them hold it.
Recent(g) == {i \in DOMAIN ended : /\ i > since[g]
                                   /\ request[ended[i]].group = g
                                   /\ state[ended[i]] \in {"DONE", "FAILED"}}

Streak(g) ==
  \E i \in Recent(g) :
    /\ Cardinality({k \in Recent(g) : k >= i}) = FailFastCount
    /\ \A k \in Recent(g) : k >= i => ended[k] \in fast

\* An outcome belongs to a job that is over or deleted, whose id is not used
\* again; only failures are quick ones.
OutcomesAreOver ==
  /\ \A i \in DOMAIN ended : /\ ended[i] < nextId
                             /\ state[ended[i]] \in {None, "DONE", "FAILED"}
  /\ \A j \in fast : state[j] = "FAILED"

StreakInv == OutcomesAreOver /\ StreakIsHeld

\* No outcome is deleted, and none is one that no daemon watched.
Attended ==
  /\ \A j \in JobId : state[j] \in {"DONE", "FAILED"} => state'[j] # None
  /\ pc \in {"reap", "recover"} =>
       \A j \in JobId : state'[j] = "FAILED" => state[j] = "FAILED"

\* The rule, by whether a group has such a streak.
LEMMA StreakMeans == StreakIsHeld <=> \A g \in Group : holds[g] = "free" => ~Streak(g)
BY DEF StreakIsHeld, Streak, Recent

\* A group whose outcomes stay keeps to the rule, unless it is released.
LEMMA StreakFrame ==
  ASSUME NEW g \in Group, ~Streak(g),
         Recent(g)' = Recent(g),
         \A i \in Recent(g) : ended'[i] = ended[i] /\ (ended[i] \in fast' => ended[i] \in fast)
  PROVE  ~Streak(g)'
BY DEF Streak

\* A step that ends no job keeps the rule.
LEMMA StreaksUntouched ==
  ASSUME OutcomesAreOver, StreakIsHeld, UNCHANGED ended,
         fast' \subseteq fast,
         nextId' \in Nat, nextId \in Nat, nextId' >= nextId,
         \A i \in DOMAIN ended : ended[i] \in JobId,
         fast \subseteq JobId, JobId \subseteq Nat,
         \A j \in JobId : state[j] \in {"DONE", "FAILED"} => state'[j] = state[j] /\ request'[j] = request[j],
         \A j \in JobId : state[j] = None /\ j < nextId => state'[j] = None,
         \A g \in Group : holds'[g] = "free" =>
           (holds[g] = "free" /\ since'[g] = since[g]) \/ since'[g] = Len(ended),
         ended \in Seq(JobId)
  PROVE  StreakInv'
<1>o. ASSUME NEW i \in DOMAIN ended
      PROVE  /\ ended'[i] = ended[i]
             /\ ended[i] < nextId'
             /\ state'[ended[i]] = state[ended[i]]
             /\ state[ended[i]] \in {"DONE", "FAILED"} => request'[ended[i]] = request[ended[i]]
             /\ state[ended[i]] \in {None, "DONE", "FAILED"}
  <2>1. /\ ended[i] \in JobId /\ ended[i] < nextId
        /\ state[ended[i]] \in {None, "DONE", "FAILED"}
    BY <1>o DEF OutcomesAreOver
  <2>2. ended'[i] = ended[i]
    OBVIOUS
  <2>3. ended[i] < nextId'
    <3>1. ended[i] \in Nat
      BY <2>1
    <3>2. \A a, b, c \in Nat : a < b /\ c >= b => a < c
      OBVIOUS
    <3> QED BY <2>1, <3>1, <3>2
  <2> DEFINE j == ended[i]
  <2>4. j \in JobId /\ j < nextId /\ state[j] \in {None, "DONE", "FAILED"}
    BY <2>1
  <2> HIDE DEF j
  <2>5. /\ state'[j] = state[j]
        /\ state[j] \in {"DONE", "FAILED"} => request'[j] = request[j]
    BY <2>4 DEF None
  <2> QED BY <2>1, <2>2, <2>3, <2>5 DEF j
<1>1. OutcomesAreOver'
  <2>1. \A j \in fast' : state'[j] = "FAILED"
    BY DEF OutcomesAreOver
  <2> QED BY <1>o, <2>1 DEF OutcomesAreOver
<1>2. ASSUME NEW g \in Group, holds'[g] = "free" PROVE ~Streak(g)'
  <2>1. CASE holds[g] = "free" /\ since'[g] = since[g]
    <3>1. Recent(g)' = Recent(g)
      BY <1>o, <2>1 DEF Recent, None
    <3>2. ~Streak(g)
      BY <1>2, <2>1, StreakMeans
    <3> QED BY <3>1, <3>2, StreakFrame
  <2>2. CASE since'[g] = Len(ended)
    <3>1. DOMAIN ended' = 1..Len(ended)
      OBVIOUS
    <3>2. Recent(g)' = {}
      BY <2>2, <3>1 DEF Recent
    <3> QED BY <3>2 DEF Streak
  <2> QED BY <1>2, <2>1, <2>2
<1>3. StreakIsHeld'
  <2>1. (StreakIsHeld <=> \A g \in Group : holds[g] = "free" => ~Streak(g))'
    BY StreakMeans, PTL
  <2> QED BY <1>2, <2>1
<1> QED BY <1>1, <1>3 DEF StreakInv

\* A step that ends a job keeps it, if its group is held when it has to be.
LEMMA FinishStreaks ==
  ASSUME TypeOK, OutcomesAreOver, StreakIsHeld,
         NEW j \in JobId, state[j] \in {"STARTING", "RUNNING", "CANCELLING"}, j < nextId,
         NEW final \in {"DONE", "FAILED", "CANCELLED", "ORPHANED"},
         Finish(j, final),
         UNCHANGED <<request, nextId, since>>,
         \A g \in Group : holds'[g] = "free" =>
           /\ holds[g] = "free"
           /\ final = "FAILED" /\ request[j].group = g /\ FailFastCount > 0 => ~Failing(g)
  PROVE  StreakInv'
<1>0. final \in JobStates
  BY DEF JobStates, TerminalStates
<1>1. /\ state' = [state EXCEPT ![j] = final] /\ state \in [JobId -> JobStates]
      /\ ended \in Seq(JobId) /\ fast \subseteq JobId
  BY <1>0, FinishTyped DEF TypeOK
<1>n. JobId \subseteq Nat /\ nextId \in Nat
  BY ConstantsAssumption DEF TypeOK, JobId
<1>2. /\ ended' = IF final \in {"DONE", "FAILED"} /\ request[j].group # None
                  THEN Append(ended, j) ELSE ended
      /\ fast' \subseteq fast \cup {j}
      /\ j \in fast' => j \in fast \/ final = "FAILED"
  BY DEF Finish
<1>3. j \notin fast /\ \A i \in DOMAIN ended : ended[i] # j
  BY DEF OutcomesAreOver, None
<1>4. /\ DOMAIN ended = 1..Len(ended) /\ Len(ended) \in Nat
      /\ \A i \in DOMAIN ended : i \in DOMAIN ended' /\ ended'[i] = ended[i]
  BY <1>1, <1>2
<1>5. \A i \in DOMAIN ended' \ DOMAIN ended :
        /\ i = Len(ended) + 1 /\ ended'[i] = j
        /\ final \in {"DONE", "FAILED"} /\ request[j].group # None
  BY <1>1, <1>2, <1>4
<1>6. OutcomesAreOver'
  <2>1. \A i \in DOMAIN ended' : /\ ended'[i] < nextId'
                                 /\ state'[ended'[i]] \in {None, "DONE", "FAILED"}
    BY <1>n, <1>1, <1>3, <1>4, <1>5 DEF OutcomesAreOver
  <2>2. \A i \in fast' : state'[i] = "FAILED"
    BY <1>1, <1>2, <1>3 DEF OutcomesAreOver
  <2> QED BY <2>1, <2>2 DEF OutcomesAreOver
<1>7. ASSUME NEW g \in Group, holds'[g] = "free" PROVE ~Streak(g)'
  <2>1. ~Streak(g)
    BY <1>7, StreakMeans
  <2>2. CASE ended' = ended \/ request[j].group # g
    <3>1. Recent(g)' = Recent(g)
      BY <2>2, <1>1, <1>3, <1>4, <1>5 DEF Recent
    <3>2. \A i \in Recent(g) : ended'[i] = ended[i] /\ (ended[i] \in fast' => ended[i] \in fast)
      BY <1>2, <1>3, <1>4 DEF Recent
    <3> QED BY <2>1, <3>1, <3>2, StreakFrame
  <2>3. CASE ended' # ended /\ request[j].group = g
    <3>1. /\ ended' = Append(ended, j) /\ final \in {"DONE", "FAILED"}
          /\ Outcomes(g) = Recent(g)'
      BY <2>3, <1>2 DEF Outcomes, Recent
    <3> SUFFICES ASSUME NEW i \in Outcomes(g),
                        Cardinality({k \in Outcomes(g) : k >= i}) = FailFastCount,
                        \A k \in Outcomes(g) : k >= i => ended'[k] \in fast'
                 PROVE  FALSE
      BY <3>1 DEF Streak
    <3>2. DOMAIN ended' = 1..(Len(ended) + 1) /\ ended'[Len(ended) + 1] = j
      BY <3>1, <1>1
    <3>3. CASE final = "DONE"
      <4>1. Len(ended) + 1 > since[g]
        BY <3>2 DEF Outcomes, TypeOK
      <4>2. Len(ended) + 1 \in Outcomes(g) /\ Len(ended) + 1 >= i
        BY <3>2, <3>3, <4>1, <2>3, <1>1 DEF Outcomes
      <4> QED BY <3>2, <3>3, <4>2, <1>2, <1>3
    <3>4. CASE final = "FAILED"
      <4>1. {k \in Outcomes(g) : k >= i} = {k \in Outcomes(g) : i <= k}
        BY <3>2 DEF Outcomes
      <4>2. FailFastCount > 0
        <5>1. IsFiniteSet(Outcomes(g))
          <6>1. IsFiniteSet(1..(Len(ended) + 1))
            BY <1>4, FS_Interval
          <6>2. Outcomes(g) \subseteq 1..(Len(ended) + 1)
            BY <3>2 DEF Outcomes
          <6> QED BY <6>1, <6>2, FS_Subset
        <5>2. IsFiniteSet({k \in Outcomes(g) : k >= i})
          BY <5>1, FS_Subset
        <5>3. i \in {k \in Outcomes(g) : k >= i}
          BY <3>2 DEF Outcomes
        <5> QED BY <5>2, <5>3, FS_EmptySet, FS_CardinalityType
      <4>3. \A k \in Outcomes(g) : i <= k => state'[ended'[k]] = "FAILED" /\ ended'[k] \in fast'
        BY <1>6, <3>2 DEF OutcomesAreOver, Outcomes
      <4>4. Failing(g)
        BY <4>1, <4>3 DEF Failing
      <4> QED BY <1>7, <2>3, <3>4, <4>2, <4>4
    <3> QED BY <3>1, <3>3, <3>4
  <2> QED BY <2>2, <2>3
<1>8. StreakIsHeld'
  <2>1. (StreakIsHeld <=> \A g \in Group : holds[g] = "free" => ~Streak(g))'
    BY StreakMeans, PTL
  <2> QED BY <1>7, <2>1
<1> QED BY <1>6, <1>8 DEF StreakInv

\* What a failure noted in the step that ends it leaves free.
LEMMA NotedFailures ==
  ASSUME TypeOK, HeldMirrorsTable, phase # "down",
         NEW j \in JobId, NEW final, NoteOutcome(j, final)
  PROVE  /\ UNCHANGED since
         /\ \A g \in Group : holds'[g] = "free" =>
              /\ holds[g] = "free"
              /\ final = "FAILED" /\ request[j].group = g /\ FailFastCount > 0 => ~Failing(g)
<1> USE DEF NoteOutcome, NoteFailure, holdVars
<1>1. request[j].group \in Group \cup {None}
  BY DEF TypeOK
<1>h. \A g \in Group : held[g] = "free" <=> holds[g] = "free"
  BY DEF HeldMirrorsTable
<1>2. CASE UNCHANGED holdVars
  <2> SUFFICES ASSUME NEW g \in Group, holds'[g] = "free", final = "FAILED",
                      request[j].group = g, FailFastCount > 0, Failing(g)
               PROVE  FALSE
    BY <1>2
  <2>1. g # None /\ held[g] = "free" /\ NoteFailure(j)
    BY <1>h, <1>2, ConstantsAssumption
  <2>2. HoldGroup(g, "auto")
    BY <2>1
  <2> QED BY <1>2, <2>1, <2>2 DEF HoldGroup, TypeOK
<1>3. CASE final = "FAILED" /\ HoldGroup(request[j].group, "auto") /\ request[j].group \in Group
  BY <1>3 DEF HoldGroup, TypeOK
<1> QED BY <1>1, <1>2, <1>3

\* Every attended step keeps the rule.
LEMMA StreaksKept ==
  ASSUME IInv, HeldMirrorsTable, StreakInv, Next, Attended
  PROVE  StreakInv'
<1> USE DEF tableVars, jobVars, outcomeVars, holdVars
<1>s. /\ TypeOK /\ RowsInv /\ ListsInv /\ OutcomesAreOver /\ StreakIsHeld
      /\ TypeOK'
  BY TypesKept DEF IInv, RowsInv, StreakInv
<1>n. nextId \in Nat /\ nextId' \in Nat /\ JobId \subseteq Nat
  BY <1>s, ConstantsAssumption DEF TypeOK, JobId
<1>t. /\ nextId \in Nat /\ nextId' \in Nat /\ JobId \subseteq Nat
      /\ ended \in Seq(JobId) /\ fast \subseteq JobId
      /\ \A i \in DOMAIN ended : ended[i] \in JobId
  BY <1>s, <1>n DEF TypeOK
<1>l. \A j \in JobId : state[j] # None => j < nextId
  BY <1>s, <1>t DEF RowsInv, FreshIds
<1>c. pc \in {"reserved", "spawned"} =>
        cur \in JobId /\ state[cur] = "STARTING" /\ cur < nextId /\ phase # "down"
  BY <1>s, <1>l DEF RowsInv, LaunchInHand, ListsInv, LockMemory, None
<1> DEFINE Kept == /\ \A j \in JobId : state[j] \in {"DONE", "FAILED"} =>
                                state'[j] = state[j] /\ request'[j] = request[j]
                   /\ \A j \in JobId : state[j] = None /\ j < nextId => state'[j] = None
                   /\ nextId' >= nextId
<1>k. ~Created => Kept /\ nextId' = nextId
  <2> SUFFICES ASSUME ~Created PROVE Kept /\ nextId' = nextId
    OBVIOUS
  <2>1. \A j \in JobId : RowStep(j) /\ nextId' = nextId
    BY RowSteps
  <2>2. \A j \in JobId : state[j] \in {"DONE", "FAILED"} => state'[j] # None
    BY DEF Attended
  <2>3. nextId' = nextId
    <3>1. CASE JobId = {}
      <4>1. MaxJobs = 0
        BY <3>1, ConstantsAssumption DEF JobId
      <4>2. nextId \in 1..(MaxJobs + 1) /\ nextId' \in 1..(MaxJobs + 1)
        BY <1>s DEF TypeOK
      <4> QED BY <4>1, <4>2
    <3> QED BY <2>1, <3>1
  <2> QED BY <2>1, <2>2, <2>3, <1>t DEF RowStep, None
<1>u. ASSUME Kept, UNCHANGED <<ended>>, fast' \subseteq fast,
             \A g \in Group : holds'[g] = "free" =>
               (holds[g] = "free" /\ since'[g] = since[g]) \/ since'[g] = Len(ended)
      PROVE  StreakInv'
  BY <1>u, <1>s, <1>t, StreaksUntouched
<1>f. ASSUME NEW j \in JobId, state[j] \in {"STARTING", "RUNNING", "CANCELLING"},
             NEW final \in {"DONE", "FAILED", "CANCELLED", "ORPHANED"},
             Finish(j, final), NoteOutcome(j, final), phase # "down",
             UNCHANGED <<request, nextId>>
      PROVE  StreakInv'
  <2>1. j < nextId
    BY <1>f, <1>l DEF None
  <2> QED BY <1>f, <1>s, <2>1, NotedFailures, FinishStreaks
<1>g. ASSUME NEW j \in JobId, state[j] \in {"STARTING", "RUNNING", "CANCELLING"},
             NEW final \in {"CANCELLED", "ORPHANED"},
             Finish(j, final), UNCHANGED <<request, nextId, holdVars>>
      PROVE  StreakInv'
  <2>1. j < nextId
    BY <1>g, <1>l DEF None
  <2> QED BY <1>g, <1>s, <2>1, FinishStreaks
<1>1. ASSUME NEW s \in Submissions, Submit(s) PROVE StreakInv'
  <2>1. /\ nextId' >= nextId
        /\ \A j \in JobId : j < nextId => state'[j] = state[j] /\ request'[j] = request[j]
    BY <1>1, <1>s, SubmitCreates, <1>t DEF Creates, Create, TypeOK
  <2>2. Kept
    BY <2>1, <1>l, <1>t DEF None
  <2> QED BY <1>1, <2>2, <1>u DEF Submit
<1>2. ASSUME NEW S \in SUBSET JobId, Retry(S) PROVE StreakInv'
  <2>1. PICK from \in Numberings(Chosen(S)) : Creates(Attempts(from))
    BY <1>2, RetryCreates
  <2>2. /\ nextId' >= nextId
        /\ \A j \in JobId : j < nextId => state'[j] = state[j] /\ request'[j] = request[j]
    BY <2>1, <1>s, <1>t DEF Creates, Create, TypeOK
  <2>3. Kept
    BY <2>2, <1>l, <1>t DEF None
  <2> QED BY <1>2, <2>3, <1>u DEF Retry, ReleaseGroups
<1>3. ASSUME NEW g \in Group, Hold(g) PROVE StreakInv'
  <2>1. ~Created => Kept
    BY <1>k
  <2> QED BY <1>3, <1>s, <1>u, <2>1, <1>1, <1>2 DEF Hold, HoldGroup, TypeOK, Created
<1>4. ASSUME NEW g \in Group, Release(g) PROVE StreakInv'
  BY <1>4, <1>k, <1>u, <1>1, <1>2 DEF Release, ReleaseGroups, Created
<1>5. ASSUME UNCHANGED <<ended, holds, since>>, fast' \subseteq fast PROVE StreakInv'
  BY <1>5, <1>k, <1>u, <1>1, <1>2 DEF Created
<1>6. ASSUME SpawnFails \/ RecordFails PROVE StreakInv'
  BY <1>6, <1>c, <1>f DEF SpawnFails, RecordFails, LaunchFailed, NoteOutcome
<1>7. ASSUME NEW final \in {"DONE", "FAILED"}, ShortExit(final) PROVE StreakInv'
  BY <1>7, <1>c, <1>f DEF ShortExit
<1>8. ASSUME NEW j \in JobId, MonitorEnds(j) PROVE StreakInv'
  <2>1. PICK final \in {"DONE", "FAILED", "CANCELLED"} : MonitorExit(j, final)
    BY <1>8 DEF MonitorEnds
  <2> QED BY <2>1, <1>f DEF MonitorExit, ActiveStates, LockFree
<1>9. ASSUME NEW j \in JobId, FinishCancel(j) PROVE StreakInv'
  BY <1>9, <1>g, <1>5 DEF FinishCancel
<1>10. ASSUME NEW j \in JobId, ReapJob(j) PROVE StreakInv'
  <2>1. state[j] \in {"STARTING", "RUNNING", "CANCELLING"}
    BY <1>10, <1>s DEF ReapJob, First, ListsInv, ReapList
  <2>2. state'[j] = ReapState(j) /\ ReapState(j) \in {"FAILED", "CANCELLED"}
    BY <1>10, <1>s DEF ReapJob, Finish, ReapState, TypeOK
  <2>3. ReapState(j) = "CANCELLED"
    BY <1>10, <2>1, <2>2 DEF Attended, ReapJob
  <2> QED BY <1>10, <2>1, <2>3, <1>g DEF ReapJob
<1>11. ASSUME NEW j \in JobId, RecoverJob(j) PROVE StreakInv'
  <2>1. state[j] \in {"STARTING", "RUNNING", "CANCELLING"}
    BY <1>11, <1>s DEF RecoverJob, First, ListsInv, RecoverList
  <2>2. CASE Recovered(j) # state[j]
    <3>1. Recovered(j) \in {"FAILED", "CANCELLED", "ORPHANED"}
      BY <2>2 DEF Recovered
    <3>2. Finish(j, Recovered(j)) /\ state'[j] = Recovered(j)
      BY <1>11, <2>2, <1>s DEF RecoverJob, Finish, TypeOK
    <3>3. Recovered(j) # "FAILED"
      BY <1>11, <2>1, <3>2 DEF Attended, RecoverJob
    <3> QED BY <1>11, <2>1, <3>1, <3>2, <3>3, <1>g DEF RecoverJob
  <2>3. CASE Recovered(j) = state[j]
    BY <1>11, <2>3, <1>5 DEF RecoverJob
  <2> QED BY <2>2, <2>3
<1> QED
  BY <1>1, <1>2, <1>3, <1>4, <1>5, <1>6, <1>7, <1>8, <1>9, <1>10, <1>11
     DEF Next, ClientRequest, PassStep, RecoverStep, ReapStep, TaskStep, Lifecycle,
         MachineStep, Observe, Cancel, SetPaused, Delete, Stop, EndPass, Reserve, Spawn,
         RecordStart, RecoverDone, ReapDone, MonitorDies, GraceOver, Escalate, Tick,
         Start, Close, ForgetMemory, Exit, Crash, Reboot, CancelTick, WriteFails, LauncherExits,
         GroupDies, ExternalStarts, ExternalStops, UnchangedByMachine

\* In a group that is not held the last FailFastCount outcomes are not all quick
\* failures, through retries, releases, cancellations, crashes and restarts: as
\* long as daemons watch the failures and no outcome is deleted.
THEOREM StreaksAreHeld == Spec /\ [][Attended]_vars => []StreakIsHeld
<1>1. Init => StreakInv
  BY DEF Init, StreakInv, OutcomesAreOver, StreakIsHeld
<1>2. IInv /\ HeldMirrorsTable /\ StreakInv /\ [Next]_vars /\ [Attended]_vars => StreakInv'
  <2> SUFFICES ASSUME IInv, HeldMirrorsTable, StreakInv, [Next]_vars, [Attended]_vars
               PROVE  StreakInv'
    OBVIOUS
  <2>1. CASE UNCHANGED vars
    BY <2>1 DEF vars, tableVars, jobVars, outcomeVars, holdVars, StreakInv,
                OutcomesAreOver, StreakIsHeld
  <2> QED BY <2>1, StreaksKept
<1>3. StreakInv => StreakIsHeld
  BY DEF StreakInv
<1> QED BY <1>1, <1>2, <1>3, Invariance, HoldsAreMirrored, PTL DEF Spec

-----------------------------------------------------------------------------
(* The pause.                                                              *)

\* No pass is under way in a paused daemon.
PauseStopsPasses == paused => pc \notin {"scan", "reserved", "spawned"}

LEMMA PauseKept ==
  ASSUME IInv, PauseStopsPasses, Next
  PROVE  PauseStopsPasses'
<1> USE DEF PauseStopsPasses, daemonVars, lockVars
<1>p. \A tick \in BOOLEAN : BeginPass(tick) => PauseStopsPasses'
  BY DEF BeginPass, Suspended, Unlock
<1>1. ASSUME NEW on \in BOOLEAN, SetPaused(on) PROVE PauseStopsPasses'
  BY <1>1, <1>p DEF SetPaused, LockFree
<1>2. ASSUME NEW j \in JobId, FinishCancel(j) PROVE PauseStopsPasses'
  BY <1>2, <1>p DEF FinishCancel
<1>3. CASE \E tick \in BOOLEAN : BeginPass(tick)
  BY <1>3, <1>p
<1>4. CASE paused' = paused /\ pc \in {"scan", "reserved", "spawned"}
  BY <1>4
<1>5. CASE pc' \in {"free", "reap", "recover"}
  BY <1>5
<1>6. CASE UNCHANGED <<paused, pc>>
  BY <1>6
<1> QED
  BY <1>1, <1>2, <1>3, <1>4, <1>5, <1>6
     DEF Next, ClientRequest, PassStep, RecoverStep, ReapStep, TaskStep, Lifecycle,
         MachineStep, Submit, Observe, Cancel, Retry, Hold, Release, Delete, Stop,
         EndPass, Reserve, Spawn, SpawnFails, RecordStart, ShortExit, RecordFails,
         RecoverJob, RecoverDone, ReapJob, ReapDone, MonitorEnds, MonitorExit,
         MonitorDies, GraceOver, Escalate, Tick, Start, Close, ForgetMemory, Unlock,
         Exit, Crash, Reboot, CancelTick, WriteFails, LauncherExits, GroupDies, ExternalStarts,
         ExternalStops, UnchangedByMachine, NextInPass

\* While the queue stays paused no job starts: passes under way when it was
\* paused, cancellations, recoveries and retries included.
THEOREM PauseOnlyShrinks == Spec => PausedOnlyShrinks
<1> DEFINE Shrinks ==
      paused /\ paused' =>
        {j \in JobId : Holding(j)}' \subseteq {j \in JobId : Holding(j)}
<1>1. Init => PauseStopsPasses
  BY DEF Init, PauseStopsPasses
<1>2. IInv /\ PauseStopsPasses /\ [Next]_vars => PauseStopsPasses'
  <2>1. CASE UNCHANGED vars
    BY <2>1 DEF vars, daemonVars, lockVars, PauseStopsPasses
  <2> QED BY <2>1, PauseKept
<1>3. IInv /\ PauseStopsPasses /\ [Next]_vars => [Shrinks]_vars
  <2> SUFFICES ASSUME IInv, PauseStopsPasses, Next, paused
               PROVE  \A j \in JobId : Holding(j)' => Holding(j)
    OBVIOUS
  <2>1. CASE ~Created
    <3> SUFFICES ASSUME NEW j \in JobId PROVE Holding(j)' => Holding(j)
      OBVIOUS
    <3>1. RowStep(j) /\ pc # "scan"
      BY <2>1, RowSteps DEF PauseStopsPasses
    <3> QED BY <3>1 DEF RowStep, Holding, None
  <2>2. CASE Created
    <3>1. PICK new : Create(new)
      BY <2>2, SubmitCreates, RetryCreates DEF Created, Creates
    <3> QED BY <3>1 DEF Create, Holding
  <2> QED BY <2>1, <2>2
<1> QED BY <1>1, <1>2, <1>3, Invariance, PTL DEF Spec, PausedOnlyShrinks

-----------------------------------------------------------------------------
(* Cancellation.                                                           *)

\* A step keeps the promise when it leaves the rows, the daemon and what
\* cancels them alone and no unpromised group comes to life.
LEMMA CancelFrame ==
  ASSUME CancelNotForgotten,
         phase' = "up" => phase = "up",
         killed \subseteq killed',
         pc = "recover" => pc' = "recover" /\ todo \subseteq todo',
         \A j \in JobId :
           /\ state'[j] = "CANCELLING" /\ saved'[j] = "this" /\ Running(j)' =>
                state[j] = "CANCELLING" /\ saved[j] = "this" /\ Running(j)
           /\ canceller[j] = "grace" => canceller'[j] = "grace"
  PROVE  CancelNotForgotten'
BY DEF CancelNotForgotten

LEMMA CancelKept ==
  ASSUME IInv, CancelNotForgotten, Next
  PROVE  CancelNotForgotten'
<1> USE DEF daemonVars, lockVars, jobVars, taskVars, procVars, machineVars
<1>s. TypeOK /\ RowsInv /\ ListsInv
  BY DEF IInv
<1>c. pc \in {"reserved", "spawned"} => cur \in JobId /\ saved[cur] = None
  BY <1>s DEF RowsInv, LaunchInHand, RowsFollowState
<1>g. UNCHANGED grp => \A j \in JobId : Running(j)' <=> Running(j)
  BY DEF Running
<1>r. CASE /\ ~Created
           /\ UNCHANGED <<saved, grp, killed, canceller>>
           /\ phase' = "up" => phase = "up"
           /\ pc = "recover" => pc' = "recover" /\ todo' = todo
           /\ \A j \in JobId : state'[j] = "CANCELLING" => state[j] = "CANCELLING"
  BY <1>r, <1>g, CancelFrame
<1>e. ASSUME NEW j \in JobId, NEW final \in JobStates \ {"CANCELLING"},
             state' = [state EXCEPT ![j] = final],
             UNCHANGED <<saved, grp, phase>>,
             pc # "recover",
             \A i \in JobId : canceller'[i] = canceller[i] \/ i = j,
             killed' = killed
      PROVE  CancelNotForgotten'
  BY <1>e, <1>g, <1>s DEF CancelNotForgotten, TypeOK
<1>1. ASSUME Created PROVE CancelNotForgotten'
  <2>1. PICK new : Create(new) /\ UNCHANGED <<grp, killed, canceller, phase>> /\ pc = "free"
    <3>1. CASE \E s \in Submissions : Submit(s)
      BY <3>1, SubmitCreates DEF Creates, Submit, LockFree
    <3>2. CASE \E S \in SUBSET JobId : Retry(S)
      BY <3>2, RetryCreates DEF Creates, Retry, LockFree
    <3> QED BY <1>1, <3>1, <3>2 DEF Created
  <2> QED BY <2>1, <1>g, CancelFrame DEF Create
<1>2. ASSUME NEW S \in SUBSET JobId, Cancel(S) PROVE CancelNotForgotten'
  <2>1. /\ pc = "free" /\ UNCHANGED <<saved, grp, killed, phase>>
        /\ \A j \in S : state[j] \in {"WAITING", "STARTING", "RUNNING", "CANCELLING"}
        /\ state' = [j \in JobId |-> IF j \notin S THEN state[j]
                                     ELSE IF state[j] = "WAITING" THEN "CANCELLED"
                                     ELSE "CANCELLING"]
        /\ canceller' = [j \in JobId |->
                           IF j \in S /\ state[j] \in {"STARTING", "RUNNING"}
                           THEN "grace" ELSE canceller[j]]
    BY <1>2 DEF Cancel, Cancellable, ActiveStates, LockFree
  <2> SUFFICES ASSUME phase = "up", NEW j \in JobId,
                      state'[j] = "CANCELLING", saved[j] = "this", Running(j)
               PROVE  canceller'[j] = "grace" \/ j \in killed
    BY <2>1, <1>g DEF CancelNotForgotten
  <2>2. CASE state[j] = "CANCELLING"
    BY <2>1, <2>2 DEF CancelNotForgotten
  <2>3. CASE state[j] # "CANCELLING"
    BY <2>1, <2>3
  <2> QED BY <2>2, <2>3
<1>3. ASSUME NEW S \in SUBSET JobId, Delete(S) PROVE CancelNotForgotten'
  <2>1. /\ UNCHANGED <<grp, killed, canceller, phase, pc>> /\ pc = "free"
        /\ \A j \in JobId : saved'[j] = "this" => saved[j] = "this" /\ j \notin S
        /\ \A j \in JobId \ S : state'[j] = state[j]
    BY <1>3 DEF Delete, LockFree, None
  <2> QED BY <2>1, <1>g, CancelFrame
<1>4. ASSUME NEW j \in JobId, Reserve(j) PROVE CancelNotForgotten'
  BY <1>4, <1>s, <1>e DEF Reserve, JobStates, ActiveStates
<1>5. ASSUME Spawn PROVE CancelNotForgotten'
  <2>1. \A i \in JobId : i # cur => (Running(i)' <=> Running(i))
    BY <1>5, <1>s DEF Spawn, TypeOK, Running
  <2> QED BY <1>5, <2>1, <1>c, CancelFrame DEF Spawn, None
<1>6. ASSUME SpawnFails PROVE CancelNotForgotten'
  BY <1>6, <1>s, <1>c, <1>e, LaunchFailedTyped
     DEF SpawnFails, JobStates, TerminalStates
<1>7. ASSUME RecordStart PROVE CancelNotForgotten'
  <2>1. /\ state' = [state EXCEPT ![cur] = "RUNNING"]
        /\ saved' = [saved EXCEPT ![cur] = "this"]
        /\ UNCHANGED <<grp, killed, canceller, phase>> /\ pc = "spawned"
    BY <1>7 DEF RecordStart
  <2>2. \A i \in JobId : state'[i] = "CANCELLING" =>
          state[i] = "CANCELLING" /\ saved'[i] = saved[i]
    BY <2>1, <1>c, <1>s DEF TypeOK
  <2> QED BY <2>1, <2>2, <1>g, CancelFrame
<1>8. ASSUME NEW final \in {"DONE", "FAILED"}, ShortExit(final) PROVE CancelNotForgotten'
  BY <1>8, <1>s, <1>c, <1>e, FinishTyped DEF ShortExit, JobStates, TerminalStates
<1>9. ASSUME RecordFails PROVE CancelNotForgotten'
  <2>1. /\ cur \in JobId /\ saved[cur] = None
        /\ state' = [state EXCEPT ![cur] = "FAILED"]
        /\ UNCHANGED <<saved, canceller, phase>> /\ pc = "spawned"
    BY <1>9, <1>c, <1>s, LaunchFailedTyped DEF RecordFails
  <2>2. killed \subseteq killed' /\ \A i \in JobId : i # cur => grp'[i] = grp[i]
    BY <1>9, <1>s, KillSpares DEF RecordFails
  <2>3. \A i \in JobId : saved[i] = "this" => (Running(i)' <=> Running(i))
    BY <2>1, <2>2 DEF Running, None
  <2>4. \A i \in JobId : state'[i] = "CANCELLING" => state[i] = "CANCELLING"
    BY <2>1, <1>s DEF TypeOK
  <2> QED BY <2>1, <2>2, <2>3, <2>4, CancelFrame
<1>21. ASSUME WriteFails PROVE CancelNotForgotten'
  <2>1. /\ cur \in JobId /\ saved[cur] = None
        /\ UNCHANGED <<state, saved, canceller, phase>> /\ pc # "recover"
    BY <1>21, <1>c DEF WriteFails
  <2>2. killed \subseteq killed' /\ \A i \in JobId : i # cur => grp'[i] = grp[i]
    BY <1>21, <1>s, KillSpares DEF WriteFails, procVars
  <2>3. \A i \in JobId : saved[i] = "this" => (Running(i)' <=> Running(i))
    BY <2>1, <2>2 DEF Running, None
  <2> QED BY <2>1, <2>2, <2>3, CancelFrame
<1>10. ASSUME NEW j \in JobId, RecoverJob(j) PROVE CancelNotForgotten'
  <2>1. /\ pc = "recover" /\ pc' = "recover" /\ todo' = todo \ {j}
        /\ UNCHANGED <<saved, grp, killed, phase>>
        /\ state[j] \in {"STARTING", "RUNNING", "CANCELLING"}
        /\ canceller' = [canceller EXCEPT
                           ![j] = IF Recovered(j) = "CANCELLING" THEN "grace" ELSE @]
    BY <1>10, <1>s DEF RecoverJob, First, ListsInv, RecoverList, ResumeCancel
  <2>2. state' = [state EXCEPT ![j] = Recovered(j)]
    <3>1. CASE Recovered(j) = state[j]
      BY <1>10, <3>1, <1>s DEF RecoverJob, TypeOK
    <3>2. CASE Recovered(j) # state[j]
      BY <1>10, <3>2 DEF RecoverJob, Finish
    <3> QED BY <3>1, <3>2
  <2> SUFFICES ASSUME phase = "up", NEW i \in JobId,
                      state'[i] = "CANCELLING", saved[i] = "this", Running(i)
               PROVE  canceller'[i] = "grace" \/ i \in killed \/ i \in todo'
    BY <2>1, <1>g DEF CancelNotForgotten
  <2>3. CASE i = j
    BY <2>1, <2>2, <2>3, <1>s DEF TypeOK
  <2>4. CASE i # j
    BY <2>1, <2>2, <2>4, <1>s DEF TypeOK, CancelNotForgotten
  <2> QED BY <2>3, <2>4
<1>11. ASSUME RecoverDone PROVE CancelNotForgotten'
  <2>1. UNCHANGED <<state, saved, grp, killed, canceller, phase>> /\ todo = {}
    BY <1>11 DEF RecoverDone
  <2> QED BY <2>1, <1>g DEF CancelNotForgotten
<1>12. ASSUME NEW j \in JobId, ReapJob(j) PROVE CancelNotForgotten'
  <2>1. ReapState(j) \in JobStates \ {"CANCELLING"}
    BY DEF ReapState, JobStates, TerminalStates
  <2>2. state' = [state EXCEPT ![j] = ReapState(j)]
    BY <1>12, <2>1, <1>s, FinishTyped DEF ReapJob
  <2> QED BY <1>12, <2>1, <2>2, <1>e DEF ReapJob
<1>13. ASSUME NEW j \in JobId, MonitorEnds(j) PROVE CancelNotForgotten'
  <2>1. PICK final \in {"DONE", "FAILED", "CANCELLED"} : MonitorExit(j, final)
    BY <1>13 DEF MonitorEnds
  <2>2. final \in JobStates \ {"CANCELLING"}
    BY DEF JobStates, TerminalStates
  <2>3. state' = [state EXCEPT ![j] = final]
    BY <2>1, <2>2, <1>s, FinishTyped DEF MonitorExit
  <2> QED BY <2>1, <2>2, <2>3, <1>e DEF MonitorExit, LockFree
<1>14. ASSUME NEW j \in JobId, GraceOver(j) PROVE CancelNotForgotten'
  <2>1. /\ UNCHANGED <<state, saved, grp, killed, phase, pc, todo>>
        /\ \A i \in JobId : i # j => canceller'[i] = canceller[i]
        /\ ~(saved[j] = "this" /\ Running(j))
    BY <1>14, <1>s DEF GraceOver, AfterGrace, Alive, Live, Running, TypeOK
  <2> QED BY <2>1, <1>g DEF CancelNotForgotten
<1>15. ASSUME NEW j \in JobId, Escalate(j) PROVE CancelNotForgotten'
  <2>1. /\ UNCHANGED <<state, saved, grp, phase, pc, todo>>
        /\ \A i \in JobId : i # j => canceller'[i] = canceller[i]
        /\ killed' = killed \cup {j}
    BY <1>15, <1>s DEF Escalate, Kill, AfterGrace, TypeOK
  <2> QED BY <2>1, <1>g DEF CancelNotForgotten
<1>16. ASSUME NEW j \in JobId, FinishCancel(j) PROVE CancelNotForgotten'
  <2>1. /\ UNCHANGED <<saved, grp, killed, phase>> /\ pc = "free"
        /\ canceller[j] = "wait" /\ canceller' = [canceller EXCEPT ![j] = None]
    BY <1>16 DEF FinishCancel, LockFree
  <2>2. \A i \in JobId : i # j => canceller'[i] = canceller[i]
    BY <2>1
  <2>3. CASE state[j] = "CANCELLING"
    <3>1. "CANCELLED" \in JobStates \ {"CANCELLING"}
      BY DEF JobStates, TerminalStates
    <3>2. state' = [state EXCEPT ![j] = "CANCELLED"]
      BY <1>16, <2>3, <3>1, <1>s, FinishTyped DEF FinishCancel
    <3> QED BY <2>1, <2>2, <3>1, <3>2, <1>e
  <2>4. CASE state[j] # "CANCELLING"
    <3>1. UNCHANGED <<state, pc, todo>>
      BY <1>16, <2>4 DEF FinishCancel
    <3>2. \A i \in JobId : canceller[i] = "grace" => canceller'[i] = "grace"
      BY <2>1, <2>2
    <3> QED BY <2>1, <3>1, <3>2, <1>g, CancelFrame
  <2> QED BY <2>3, <2>4
<1>17. ASSUME Start PROVE CancelNotForgotten'
  BY <1>17 DEF Start, Unfinished, ActiveStates, CancelNotForgotten
<1>18. CASE phase' # "up"
  BY <1>18 DEF CancelNotForgotten
<1>19. ASSUME NEW j \in JobId, LauncherExits(j) \/ GroupDies(j) PROVE CancelNotForgotten'
  <2>1. /\ UNCHANGED <<state, saved, canceller, phase, pc, todo>>
        /\ \A i \in JobId : Running(i)' => Running(i) /\ (i \in killed => i \in killed')
    BY <1>19, <1>s DEF LauncherExits, GroupDies, UnchangedByMachine, Running, TypeOK
  <2> QED BY <2>1 DEF CancelNotForgotten
<1>20. CASE /\ UNCHANGED <<state, saved, grp, killed, canceller, phase>>
            /\ pc # "recover" \/ UNCHANGED <<pc, todo>>
  BY <1>20, <1>g, CancelFrame
<1> QED
  BY <1>1, <1>2, <1>3, <1>4, <1>5, <1>6, <1>7, <1>8, <1>9, <1>10, <1>11, <1>12,
     <1>13, <1>14, <1>15, <1>16, <1>17, <1>18, <1>19, <1>20, <1>21
     DEF Created, Next, ClientRequest, PassStep, RecoverStep, ReapStep, TaskStep,
         Lifecycle, MachineStep, Observe, SetPaused, Hold, Release, Stop, EndPass,
         ReapDone, MonitorDies, Tick, Close, ForgetMemory, Exit, Crash, Reboot,
         CancelTick, ExternalStarts, ExternalStops, UnchangedByMachine, LockFree

\* A cancelled group that lives is in its grace period or was sent SIGKILL, as
\* long as the daemon is up, also after a crash between the request and the
\* escalation.
THEOREM CancellationsAreKept == Spec => []CancelNotForgotten
<1>1. Init => CancelNotForgotten
  BY DEF Init, CancelNotForgotten
<1>2. IInv /\ CancelNotForgotten /\ [Next]_vars => CancelNotForgotten'
  <2>1. CASE UNCHANGED vars
    BY <2>1, CancelFrame DEF vars, jobVars, daemonVars, taskVars, lockVars, procVars,
       machineVars, Running
  <2> QED BY <2>1, CancelKept
<1> QED BY <1>1, <1>2, Invariance, PTL DEF Spec

-----------------------------------------------------------------------------
(* Keys.                                                                   *)

\* What the rows of a batch of retries are: each asks for the same as the job
\* it retries and belongs to that job's lineage.
LEMMA AttemptRows ==
  ASSUME IInv, NEW S \in SUBSET JobId, NEW from \in Numberings(Chosen(S)),
         Creates(Attempts(from)), DOMAIN Attempts(from) = DOMAIN from,
         \A n \in DOMAIN from : from[n] \in Chosen(S)
  PROVE  /\ \A k \in JobId : k \in DOMAIN from =>
              /\ from[k] \in S /\ from[k] \in JobId /\ Retryable(from[k])
              /\ state'[k] = "WAITING" /\ state[k] = None
              /\ request'[k].key = request[from[k]].key
              /\ request'[k].root = Root(from[k])
              /\ request'[k].gpus = request[from[k]].gpus
         /\ \A k \in JobId : k \notin DOMAIN from =>
              state'[k] = state[k] /\ request'[k] = request[k]
         /\ \A m, n \in DOMAIN from : m < n => from[m] < from[n]
<1>t. TypeOK /\ FreshIds
  BY DEF IInv, RowsInv
<1>1. ASSUME NEW k \in JobId, k \in DOMAIN from
      PROVE  /\ from[k] \in S /\ from[k] \in JobId /\ Retryable(from[k])
             /\ state'[k] = "WAITING" /\ state[k] = None
             /\ request'[k].key = request[from[k]].key
             /\ request'[k].root = Root(from[k])
             /\ request'[k].gpus = request[from[k]].gpus
  <2>1. from[k] \in S /\ from[k] \in JobId /\ Retryable(from[k])
    BY <1>1 DEF Chosen
  <2>2. state'[k] = "WAITING" /\ request'[k] = Attempts(from)[k] /\ k >= nextId
    BY <1>1 DEF Creates, Create
  <2>3. Attempts(from)[k] = [request[from[k]] EXCEPT !.root = Root(from[k])]
    BY <1>1 DEF Attempts
  <2>4. request[from[k]] \in [gpus : Nat, group : Group \cup {None},
                              key : Key \cup {None}, root : Nat]
    BY <2>1, <1>t DEF TypeOK
  <2>5. state[k] = None
    BY <2>2, <1>t DEF FreshIds
  <2> QED BY <2>1, <2>2, <2>3, <2>4, <2>5
<1>2. ASSUME NEW k \in JobId, k \notin DOMAIN from
      PROVE  state'[k] = state[k] /\ request'[k] = request[k]
  BY <1>2 DEF Creates, Create
<1>3. \A m, n \in DOMAIN from : m < n => from[m] < from[n]
  BY DEF Numberings
<1> QED BY <1>1, <1>2, <1>3

LEMMA KeysKept ==
  ASSUME IInv, KeyExclusive, Next
  PROVE  KeyExclusive'
<1>1. CASE ~Created
  <2> SUFFICES ASSUME NEW i \in JobId, NEW j \in JobId, i # j,
                      request'[i].key = request'[j].key, request'[i].key # None,
                      state'[i] \notin {None, "FAILED", "CANCELLED"},
                      state'[j] \notin {None, "FAILED", "CANCELLED"}
               PROVE  FALSE
    BY DEF KeyExclusive
  <2>1. RowStep(i) /\ RowStep(j)
    BY <1>1, RowSteps
  <2>2. /\ request'[i] = request[i] /\ request'[j] = request[j]
        /\ state[i] \notin {None, "FAILED", "CANCELLED"}
        /\ state[j] \notin {None, "FAILED", "CANCELLED"}
    BY <2>1 DEF RowStep, None
  <2> QED BY <2>2 DEF KeyExclusive
<1>2. ASSUME NEW s \in Submissions, Submit(s) PROVE KeyExclusive'
  <2>1. ~KeyTaken(s.key)
    BY <1>2 DEF Submit
  <2>2. /\ request' = [j \in JobId |-> IF j \in {nextId}
                          THEN [gpus |-> s.gpus, group |-> s.group,
                                key |-> s.key, root |-> 0]
                          ELSE request[j]]
        /\ state' = [j \in JobId |-> IF j \in {nextId} THEN "WAITING" ELSE state[j]]
    BY <1>2 DEF Submit, Create
  <2>3. \A i \in JobId : i = nextId => request'[i].key = s.key
    BY <2>2
  <2>4. \A i \in JobId : i # nextId => state'[i] = state[i] /\ request'[i] = request[i]
    BY <2>2
  <2> SUFFICES ASSUME NEW i \in JobId, NEW j \in JobId, i # j,
                      request'[i].key = request'[j].key, request'[i].key # None,
                      state'[i] \notin {None, "FAILED", "CANCELLED"},
                      state'[j] \notin {None, "FAILED", "CANCELLED"}
               PROVE  FALSE
    BY DEF KeyExclusive
  <2>5. CASE i = nextId
    BY <2>1, <2>3, <2>4, <2>5 DEF KeyTaken
  <2>6. CASE j = nextId
    BY <2>1, <2>3, <2>4, <2>6 DEF KeyTaken
  <2>7. CASE i # nextId /\ j # nextId
    BY <2>4, <2>7 DEF KeyExclusive
  <2> QED BY <2>5, <2>6, <2>7
<1>3. ASSUME NEW S \in SUBSET JobId, Retry(S) PROVE KeyExclusive'
  <2>1. PICK from \in Numberings(Chosen(S)) :
          /\ Creates(Attempts(from))
          /\ DOMAIN Attempts(from) = DOMAIN from
          /\ \A n \in DOMAIN from : from[n] \in Chosen(S)
    BY <1>3, RetryCreates
  <2>2. /\ \A k \in JobId : k \in DOMAIN from =>
              /\ from[k] \in S /\ from[k] \in JobId /\ Retryable(from[k])
              /\ state'[k] = "WAITING"
              /\ request'[k].key = request[from[k]].key
        /\ \A k \in JobId : k \notin DOMAIN from =>
              state'[k] = state[k] /\ request'[k] = request[k]
        /\ \A m, n \in DOMAIN from : m < n => from[m] < from[n]
    BY <2>1, AttemptRows
  <2>k. \A k \in JobId : k \in DOMAIN from => ~KeyTaken(request[from[k]].key)
    BY <2>2 DEF Retryable
  <2> SUFFICES ASSUME NEW i \in JobId, NEW j \in JobId, i < j,
                      request'[i].key = request'[j].key, request'[i].key # None,
                      state'[i] \notin {None, "FAILED", "CANCELLED"},
                      state'[j] \notin {None, "FAILED", "CANCELLED"}
               PROVE  FALSE
    <3>1. \A i, j \in JobId : i # j => i < j \/ j < i
      BY ConstantsAssumption DEF JobId
    <3> QED BY <3>1 DEF KeyExclusive
  <2>3. CASE i \notin DOMAIN from /\ j \notin DOMAIN from
    <3>1. i # j
      BY DEF JobId
    <3> QED BY <2>2, <2>3, <3>1 DEF KeyExclusive
  <2>4. CASE i \in DOMAIN from /\ j \notin DOMAIN from
    BY <2>2, <2>k, <2>4 DEF KeyTaken
  <2>5. CASE i \notin DOMAIN from /\ j \in DOMAIN from
    BY <2>2, <2>k, <2>5 DEF KeyTaken
  <2>6. CASE i \in DOMAIN from /\ j \in DOMAIN from
    <3>1. /\ from[i] < from[j] /\ from[i] \in S /\ Retryable(from[i])
          /\ request[from[i]].key = request[from[j]].key
          /\ request[from[j]].key # None
      BY <2>2, <2>6
    <3>2. from[j] \in Chosen(S)
      BY <2>1, <2>6
    <3> QED BY <3>1, <3>2 DEF Chosen
  <2> QED BY <2>3, <2>4, <2>5, <2>6
<1> QED BY <1>1, <1>2, <1>3 DEF Created

\* A key belongs to one job that has neither failed nor been cancelled:
\* create_job and a batch of retries look at the same rows, and no row comes
\* back to life.
THEOREM KeysAreExclusive == Spec => []KeyExclusive
<1>1. Init => KeyExclusive
  BY DEF Init, KeyExclusive
<1>2. IInv /\ KeyExclusive /\ [Next]_vars => KeyExclusive'
  <2>1. CASE UNCHANGED vars
    BY <2>1 DEF vars, tableVars, jobVars, KeyExclusive
  <2> QED BY <2>1, KeysKept
<1> QED BY <1>1, <1>2, Invariance, PTL DEF Spec

-----------------------------------------------------------------------------
(* Lineages.                                                               *)

Unended == {"WAITING", "STARTING", "RUNNING", "CANCELLING"}

\* The first attempt of a job is not newer than the job.
RootsOld == \A k \in JobId : Exists(k) => Root(k) <= k

\* Of two attempts in the table the older one is finished.
Newest ==
  \A i, j \in JobId :
    i < j /\ Exists(i) /\ Exists(j) /\ Root(i) = Root(j) => state[i] \notin Unended

LineageInv == RootsOld /\ Newest

LEMMA LineageKept ==
  ASSUME IInv, LineageInv, Next
  PROVE  LineageInv'
<1> USE DEF LineageInv, RootsOld, Newest, Unended
<1>t. TypeOK /\ FreshIds
  BY DEF IInv, RowsInv
<1>n. \A k \in JobId : k \in Nat /\ k # 0
  BY ConstantsAssumption DEF JobId
<1>1. CASE ~Created
  <2>1. \A k \in JobId : RowStep(k)
    BY <1>1, RowSteps
  <2>2. \A k \in JobId : Exists(k)' =>
          /\ Exists(k) /\ Root(k)' = Root(k)
          /\ state'[k] \in Unended => state[k] \in Unended
    <3> SUFFICES ASSUME NEW k \in JobId, Exists(k)'
                 PROVE  /\ Exists(k) /\ Root(k)' = Root(k)
                        /\ state'[k] \in Unended => state[k] \in Unended
      OBVIOUS
    <3>1. RowStep(k)
      BY <2>1
    <3> QED BY <3>1 DEF RowStep, Exists, Root, None
  <2> QED BY <2>2
<1>2. ASSUME NEW s \in Submissions, Submit(s) PROVE LineageInv'
  <2>0. PICK new \in JobId : new = nextId
    BY <1>2 DEF Submit
  <2>1. /\ new \in JobId
        /\ request' = [j \in JobId |-> IF j \in {new}
                          THEN [gpus |-> s.gpus, group |-> s.group,
                                key |-> s.key, root |-> 0]
                          ELSE request[j]]
        /\ state' = [j \in JobId |-> IF j \in {new} THEN "WAITING" ELSE state[j]]
    BY <1>2, <2>0 DEF Submit, Create
  <2>2. Root(new)' = new
    <3>1. request'[new].root = 0
      BY <2>1
    <3> QED BY <3>1 DEF Root
  <2>3. \A k \in JobId : k # new =>
          /\ Exists(k)' <=> Exists(k)
          /\ Root(k)' = Root(k) /\ state'[k] = state[k]
    BY <2>1 DEF Exists, Root
  <2>4. \A k \in JobId : k # new /\ Exists(k) => k < new /\ Root(k) < new
    <3> SUFFICES ASSUME NEW k \in JobId, k # new, Exists(k)
                 PROVE  k < new /\ Root(k) < new
      OBVIOUS
    <3>1. Root(k) \in Nat /\ Root(k) <= k
      BY <1>t, <1>n DEF Root, TypeOK
    <3>2. ~(k >= new)
      BY <1>t, <2>0 DEF FreshIds, Exists
    <3> QED BY <3>1, <3>2, <2>1, <1>n
  <2>5. RootsOld'
    BY <2>2, <2>3, <1>n, <2>1
  <2>6. Newest'
    <3> SUFFICES ASSUME NEW i \in JobId, NEW j \in JobId, i < j,
                        Exists(i)', Exists(j)', Root(i)' = Root(j)'
                 PROVE  state'[i] \notin Unended
      OBVIOUS
    <3>1. CASE i = new
      BY <3>1, <2>3, <2>4, <1>n
    <3>2. CASE j = new
      BY <3>2, <2>2, <2>3, <2>4, <1>n
    <3>3. CASE i # new /\ j # new
      BY <3>3, <2>3
    <3> QED BY <3>1, <3>2, <3>3
  <2> QED BY <2>5, <2>6
<1>3. ASSUME NEW S \in SUBSET JobId, Retry(S) PROVE LineageInv'
  <2>1. PICK from \in Numberings(Chosen(S)) :
          /\ Creates(Attempts(from))
          /\ DOMAIN Attempts(from) = DOMAIN from
          /\ \A n \in DOMAIN from : from[n] \in Chosen(S)
    BY <1>3, RetryCreates
  <2>2. /\ \A k \in JobId : k \in DOMAIN from =>
              /\ from[k] \in JobId /\ Retryable(from[k])
              /\ state[k] = None
              /\ request'[k].root = Root(from[k])
        /\ \A k \in JobId : k \notin DOMAIN from =>
              state'[k] = state[k] /\ request'[k] = request[k]
        /\ \A m, n \in DOMAIN from : m < n => from[m] < from[n]
    BY <2>1, AttemptRows
  <2>r. \A k \in JobId : Root(k) \in Nat /\ Root(k) # 0
    BY <1>t, <1>n DEF Root, TypeOK
  \* The new rows: their jobs are finished, older, of the same lineage, and
  \* have no newer attempt.
  <2>3. \A k \in JobId : k \in DOMAIN from =>
          /\ Root(k)' = Root(from[k])
          /\ Exists(from[k]) /\ state[from[k]] \notin Unended
          /\ ~NewerAttempt(from[k])
    <3> SUFFICES ASSUME NEW k \in JobId, k \in DOMAIN from
                 PROVE  /\ Root(k)' = Root(from[k])
                        /\ Exists(from[k]) /\ state[from[k]] \notin Unended
                        /\ ~NewerAttempt(from[k])
      OBVIOUS
    <3>1. request'[k].root = Root(from[k]) /\ Root(from[k]) # 0 /\ Retryable(from[k])
      BY <2>2, <2>r
    <3> QED BY <3>1 DEF Root, Retryable, Exists, None
  <2>4. \A k \in JobId : k \notin DOMAIN from =>
          /\ Exists(k)' <=> Exists(k)
          /\ Root(k)' = Root(k) /\ state'[k] = state[k]
    BY <2>2 DEF Exists, Root
  \* Rows that are there have lower ids than the new ones.
  <2>5. \A k \in JobId, n \in DOMAIN from : Exists(k) => k < n
    <3>1. \A n \in DOMAIN from : n \in JobId /\ nextId <= n
      BY <2>1 DEF Creates
    <3>2. \A k \in JobId : Exists(k) => ~(k >= nextId)
      BY <1>t DEF FreshIds, Exists
    <3>3. nextId \in Nat
      BY <1>t, ConstantsAssumption DEF TypeOK
    <3> QED BY <3>1, <3>2, <3>3, <1>n
  \* Of a lineage that is retried the last attempt is retried.
  <2>6. ASSUME NEW i \in JobId, NEW k \in JobId, k \in DOMAIN from,
               Exists(i), Root(i) = Root(from[k])
        PROVE  i <= from[k] /\ state[i] \notin Unended
    <3>1. from[k] \in JobId
      BY <2>2, <2>6
    <3>2. ~(i > from[k])
      <4>1. i = Root(from[k]) \/ request[i].root = Root(from[k])
        BY <2>6 DEF Root
      <4> QED BY <4>1, <2>3, <2>6 DEF NewerAttempt
    <3> QED BY <3>1, <3>2, <2>3, <2>6, <1>n
  <2>7. RootsOld'
    <3> SUFFICES ASSUME NEW k \in JobId, Exists(k)' PROVE Root(k)' <= k
      OBVIOUS
    <3>1. CASE k \notin DOMAIN from
      BY <3>1, <2>4
    <3>2. CASE k \in DOMAIN from
      <4>1. /\ Root(k)' = Root(from[k]) /\ Root(from[k]) <= from[k] /\ from[k] < k
            /\ from[k] \in JobId /\ Root(from[k]) \in Nat
        BY <3>2, <2>2, <2>3, <2>5, <2>r
      <4> QED BY <4>1, <1>n
    <3> QED BY <3>1, <3>2
  <2>8. Newest'
    <3> SUFFICES ASSUME NEW i \in JobId, NEW j \in JobId, i < j,
                        Exists(i)', Exists(j)', Root(i)' = Root(j)'
                 PROVE  state'[i] \notin Unended
      OBVIOUS
    <3>1. CASE i \in DOMAIN from /\ j \in DOMAIN from
      <4>1. from[i] < from[j] /\ from[i] \in JobId /\ from[j] \in JobId
        BY <3>1, <2>2
      <4>2. from[j] <= from[i]
        BY <3>1, <4>1, <2>3, <2>6
      <4> QED BY <4>1, <4>2, <1>n
    <3>2. CASE i \in DOMAIN from /\ j \notin DOMAIN from
      BY <3>2, <2>4, <2>5, <1>n
    <3>3. CASE i \notin DOMAIN from /\ j \in DOMAIN from
      BY <3>3, <2>3, <2>4, <2>6
    <3>4. CASE i \notin DOMAIN from /\ j \notin DOMAIN from
      BY <3>4, <2>4
    <3> QED BY <3>1, <3>2, <3>3, <3>4
  <2> QED BY <2>7, <2>8
<1> QED BY <1>1, <1>2, <1>3 DEF Created

\* Retry never makes a lineage run twice at once, whatever was retried,
\* deleted and retried again before.
THEOREM LineagesRunOnce == Spec => []LineageRunsOnce
<1>1. Init => LineageInv
  BY DEF Init, LineageInv, RootsOld, Newest, Exists
<1>2. IInv /\ LineageInv /\ [Next]_vars => LineageInv'
  <2>1. CASE UNCHANGED vars
    BY <2>1 DEF vars, tableVars, jobVars, LineageInv, RootsOld, Newest, Exists, Root
  <2> QED BY <2>1, LineageKept
<1>3. LineageInv => LineageRunsOnce
  <2> SUFFICES ASSUME LineageInv, NEW i \in JobId, NEW j \in JobId, i # j,
                      state[i] \in Unended, state[j] \in Unended,
                      Root(i) = Root(j)
               PROVE  FALSE
    BY DEF LineageRunsOnce, Root, Unended
  <2>1. Exists(i) /\ Exists(j)
    BY DEF Exists, Unended, None
  <2>2. i < j \/ j < i
    BY ConstantsAssumption DEF JobId
  <2> QED BY <2>1, <2>2 DEF LineageInv, Newest
<1> QED BY <1>1, <1>2, <1>3, Invariance, PTL DEF Spec

-----------------------------------------------------------------------------
(* Scans.                                                                  *)

\* After a scan, also after one that failed, no GPU in use from outside counts
\* as idle.
LEMMA RefreshSeesExternals ==
  ASSUME TypeOK, Refresh
  PROVE  \A g \in ext : obs'[g] # "idle"
<1> SUFFICES ASSUME NEW g \in ext PROVE obs'[g] # "idle"
  OBVIOUS
<1>1. g \in GPU
  BY DEF TypeOK
<1>2. CASE \A h \in GPU : obs'[h] \in Readings(h)
  BY <1>1, <1>2 DEF Readings
<1>3. CASE obs' = Degraded
  BY <1>1, <1>3 DEF Degraded
<1> QED BY <1>2, <1>3 DEF Refresh

\* A pass that follows a submission, a retry or the end of a grouped job works
\* on a scan made in that same step.
THEOREM PassesUseNewScans == Spec => NewScanBeforePass
<1> DEFINE Scanned ==
      pc = "free" /\ pc' = "scan" /\ (nextId' # nextId \/ ended' # ended) =>
        \A g \in ext : obs'[g] # "idle"
<1>1. IInv /\ [Next]_vars => [Scanned]_vars
  <2> SUFFICES ASSUME IInv, Next PROVE Scanned
    OBVIOUS
  <2>1. CASE Refresh
    BY <2>1, RefreshSeesExternals DEF IInv
  <2>2. CASE UNCHANGED <<nextId, ended>>
    BY <2>2
  <2>3. CASE pc # "free" \/ pc' # "scan"
    BY <2>3
  <2>4. ASSUME NEW j \in JobId, MonitorEnds(j) PROVE Scanned
    BY <2>1, <2>4 DEF MonitorEnds, MonitorExit
  <2>5. ASSUME NEW j \in JobId, FinishCancel(j) PROVE Scanned
    BY <2>1, <2>2, <2>5 DEF FinishCancel, Finish, tableVars, outcomeVars
  <2>6. CASE ClientRequest
    BY <2>1, <2>2, <2>6
       DEF ClientRequest, Submit, Observe, Cancel, Retry, SetPaused, Hold, Release, Delete,
           Stop, tableVars, outcomeVars
  <2>7. CASE PassStep \/ RecoverStep \/ ReapStep
    BY <2>3, <2>7
       DEF PassStep, RecoverStep, ReapStep, EndPass, Reserve, Spawn, SpawnFails,
           RecordStart, ShortExit, RecordFails, WriteFails, RecoverJob, RecoverDone, ReapJob,
           ReapDone
  <2>8. CASE TaskStep
    BY <2>2, <2>3, <2>4, <2>5, <2>8
       DEF TaskStep, MonitorDies, GraceOver, Escalate, Tick, tableVars, outcomeVars
  <2>9. CASE Lifecycle
    BY <2>2, <2>3, <2>9
       DEF Lifecycle, Start, Close, Exit, Crash, Reboot, CancelTick, tableVars,
           outcomeVars, lockVars
  <2>10. CASE MachineStep
    BY <2>2, <2>10
       DEF MachineStep, LauncherExits, GroupDies, ExternalStarts, ExternalStops,
           UnchangedByMachine, tableVars, outcomeVars
  <2> QED BY <2>6, <2>7, <2>8, <2>9, <2>10 DEF Next
<1> QED BY <1>1, Invariance, PTL DEF Spec, NewScanBeforePass
=============================================================================
