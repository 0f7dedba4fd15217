----------------------------- MODULE OrderProofs -----------------------------
(***************************************************************************)
(* What a pass starts: waiting jobs get GPUs oldest first, none of a held  *)
(* group, proved for every number of GPUs and jobs and every kind of       *)
(* request and fault.                                                      *)
(***************************************************************************)
EXTENDS HistoryProofs, WellFoundedInduction

-----------------------------------------------------------------------------
(* What select_gpus finds.                                                 *)

\* A set of naturals has a least element.
LEMMA LeastElement ==
  ASSUME NEW T, T \subseteq Nat, T # {}
  PROVE  \E x \in T : \A y \in T : x <= y
<1> DEFINE R == OpToRel(<, Nat)
<1>1. IsWellFoundedOn(R, Nat)
  BY NatLessThanWellFounded
<1>2. \A x, y \in Nat : y < x => <<y, x>> \in R
  BY DEF OpToRel
<1> HIDE DEF R
<1>3. PICK x \in T : \A y \in T : ~ (<<y, x>> \in R)
  BY <1>1, WFMin
<1>4. ASSUME NEW y \in T PROVE x <= y
  <2>1. ~(y < x)
    <3>1. <<y, x>> \notin R
      BY <1>3
    <3>2. x \in Nat /\ y \in Nat
      OBVIOUS
    <3>3. y < x => <<y, x>> \in R
      BY <1>2, <3>2
    <3> QED BY <3>1, <3>3
  <2>2. x \in Nat /\ y \in Nat
    OBVIOUS
  <2> QED BY <2>1, <2>2
<1> QED BY <1>4

\* As long as enough devices are free, there are n lowest ones.
LEMMA LowestExists ==
  ASSUME NEW F, F \subseteq Nat, IsFiniteSet(F), NEW n \in Nat, n <= Cardinality(F)
  PROVE  SelectGpus(F, n) # {}
<1> DEFINE T == {k \in Nat : k <= Cardinality(F) /\ SelectGpus(F, k) = {}}
<1> SUFFICES ASSUME T # {} PROVE FALSE
  OBVIOUS
<1>f. Cardinality(F) \in Nat
  BY FS_CardinalityType
<1>1. PICK k \in T : \A y \in T : k <= y
  BY LeastElement
<1> HIDE DEF T
<1>2. k \in Nat /\ k <= Cardinality(F) /\ SelectGpus(F, k) = {}
  BY <1>1 DEF T
<1>3. CASE k = 0
  <2>1. {} \in SelectGpus(F, 0)
    BY FS_EmptySet DEF SelectGpus, Lowest
  <2> QED BY <1>2, <1>3, <2>1
<1>4. CASE k # 0
  <2>1. k - 1 \in Nat /\ k - 1 <= Cardinality(F) /\ k - 1 \notin T
    BY <1>1, <1>2, <1>4, <1>f
  <2>2. PICK D : D \in SelectGpus(F, k - 1)
    BY <2>1 DEF T
  <2>3. /\ D \subseteq F /\ IsFiniteSet(D) /\ Cardinality(D) = k - 1
        /\ Lowest(D, F)
    BY <2>2, FS_Subset DEF SelectGpus
  <2>4. F \ D # {}
    <3>1. D # F
      BY <1>2, <1>4, <2>3
    <3> QED BY <2>3, <3>1
  <2>5. PICK x \in F \ D : \A y \in F \ D : x <= y
    BY <2>4, LeastElement
  <2>6. Cardinality(D \cup {x}) = k
    <3>1. Cardinality(D \cup {x}) = IF x \in D THEN Cardinality(D) ELSE Cardinality(D) + 1
      BY <2>3, FS_AddElement
    <3> QED BY <1>2, <2>3, <2>5, <3>1
  <2>7. Lowest(D \cup {x}, F)
    BY <2>3, <2>5 DEF Lowest
  <2>8. D \cup {x} \in SelectGpus(F, k)
    BY <2>3, <2>5, <2>6, <2>7 DEF SelectGpus
  <2> QED BY <1>2, <2>8
<1> QED BY <1>3, <1>4

-----------------------------------------------------------------------------
(* What a pass has gone by.                                                *)

\* The idle devices reserved for nobody but the job being launched, whose own
\* come back when the launch fails.
Left == {g \in GPU : /\ obs[g] = "idle"
                     /\ \A k \in JobId : k # cur /\ Holding(k) => g \notin rows[k]}

HeldBack(i) == request[i].group # None /\ held[request[i].group] # "free"

\* A waiting job the pass has gone by is held or asks for more than is left.
PassedOver ==
  pc \in {"scan", "reserved", "spawned"} =>
    \A i \in JobId : state[i] = "WAITING" /\ i \notin todo =>
      HeldBack(i) \/ request[i].gpus > Cardinality(Left)

LEMMA LeftFinite == IsFiniteSet(Left) /\ Cardinality(Left) \in Nat
<1>1. IsFiniteSet(Left)
  BY ConstantsAssumption, FS_Subset DEF Left
<1> QED BY <1>1, FS_CardinalityType

\* A job that cannot be started is held or asks for more than is left.
LEMMA NotStartable ==
  ASSUME TypeOK, cur = 0, NEW i \in JobId, ~Startable(i)
  PROVE  HeldBack(i) \/ request[i].gpus > Cardinality(Left)
<1>1. FreeGpus = Left
  BY ConstantsAssumption
     DEF FreeGpus, Left, Assigned, AssignedStates, ActiveStates, Holding, JobId
<1>2. request[i].gpus \in Nat /\ Left \subseteq Nat
  BY ConstantsAssumption DEF TypeOK, Left
<1>3. SelectGpus(Left, request[i].gpus) # {} => HeldBack(i)
  BY <1>1 DEF Startable, HeldBack
<1>4. request[i].gpus <= Cardinality(Left) => HeldBack(i)
  BY <1>2, <1>3, LeftFinite, LowestExists
<1> QED BY <1>2, <1>4, LeftFinite

\* Ending a launch leaves what was left, recording it leaves less, and no group
\* is released meanwhile.
LEMMA LaunchKeepsPassed ==
  ASSUME TypeOK, PassedOver, pc \in {"reserved", "spawned"}, cur \in JobId,
         NEW after \in {"RUNNING", "DONE", "FAILED"}, state' = [state EXCEPT ![cur] = after],
         cur' = 0, UNCHANGED <<request, rows, obs, todo>>,
         \A g \in Group : held[g] # "free" => held'[g] # "free"
  PROVE  PassedOver'
<1> SUFFICES ASSUME NEW i \in JobId, state'[i] = "WAITING", i \notin todo
             PROVE  HeldBack(i)' \/ request[i].gpus > Cardinality(Left')
  BY DEF PassedOver
<1>1. i # cur /\ state[i] = "WAITING"
  BY DEF TypeOK
<1>2. HeldBack(i) \/ request[i].gpus > Cardinality(Left)
  BY <1>1 DEF PassedOver
<1>3. HeldBack(i) => HeldBack(i)'
  BY DEF HeldBack, TypeOK
<1>4. Left' \subseteq Left
  <2>1. cur' \notin JobId
    BY ConstantsAssumption DEF JobId
  <2>2. \A k \in JobId : k # cur => state'[k] = state[k]
    BY DEF TypeOK
  <2> QED BY <2>1, <2>2 DEF Left, Holding
<1>5. Cardinality(Left') \in Nat /\ Cardinality(Left') <= Cardinality(Left)
  BY <1>4, LeftFinite, FS_Subset, FS_CardinalityType
<1>6. request[i].gpus \in Nat
  BY DEF TypeOK
<1> QED BY <1>2, <1>3, <1>5, <1>6, LeftFinite

LEMMA NoteKeepsHeld ==
  ASSUME TypeOK, NEW j \in JobId, NoteFailure(j) \/ UNCHANGED holdVars
  PROVE  \A g \in Group : held[g] # "free" => held'[g] # "free"
BY DEF TypeOK, NoteFailure, HoldGroup, holdVars

LEMMA PassedKept ==
  ASSUME IInv, PassedOver, Next
  PROVE  PassedOver'
<1> USE DEF tableVars, jobVars, daemonVars, lockVars, holdVars
<1>s. /\ TypeOK
      /\ pc \in {"reserved", "spawned"} => cur \in JobId
      /\ pc = "scan" => cur = 0
  BY DEF IInv, RowsInv, ListsInv, LaunchInHand, LockMemory
<1>1. CASE pc' \notin {"scan", "reserved", "spawned"}
  BY <1>1 DEF PassedOver
<1>2. CASE \E tick \in BOOLEAN : BeginPass(tick)
  BY <1>2 DEF BeginPass, Unlock, WaitingJobs, PassedOver
<1>3. CASE UNCHANGED <<state, request, held, obs, rows, todo, cur>>
           /\ (pc' \in {"scan", "reserved", "spawned"} => pc \in {"scan", "reserved", "spawned"})
  BY <1>3 DEF PassedOver, HeldBack, Left, Holding
<1>4. ASSUME NEW j \in JobId, Reserve(j) PROVE PassedOver'
  <2>1. /\ pc = "scan" /\ cur = 0 /\ cur' = j /\ state[j] = "WAITING"
        /\ state' = [state EXCEPT ![j] = "STARTING"]
        /\ UNCHANGED <<request, held, obs>>
        /\ todo' = {i \in todo : j < i}
        /\ \A i \in todo : i < j => ~Startable(i)
    BY <1>4, <1>s DEF Reserve, Before, IInv, ListsInv, PassList
  <2>2. PICK D : rows' = [rows EXCEPT ![j] = D]
    BY <1>4 DEF Reserve
  <2>3. Left' = Left
    <3>1. /\ \A k \in JobId : k # j => state'[k] = state[k] /\ rows'[k] = rows[k]
          /\ ~Holding(j)
      BY <2>1, <2>2, <1>s DEF TypeOK, Holding
    <3>2. 0 \notin JobId
      BY DEF JobId
    <3>3. \A k \in JobId : (k # cur /\ Holding(k)) <=> (k # cur' /\ Holding(k)')
      BY <2>1, <3>1, <3>2 DEF Holding
    <3> QED BY <2>1, <3>1, <3>3 DEF Left
  <2> SUFFICES ASSUME NEW i \in JobId, state'[i] = "WAITING", i \notin todo'
               PROVE  HeldBack(i) \/ request[i].gpus > Cardinality(Left)
    BY <2>1, <2>3 DEF PassedOver, HeldBack
  <2>4. i # j /\ state[i] = "WAITING"
    BY <2>1, <1>s DEF TypeOK
  <2>5. CASE i \notin todo
    BY <2>1, <2>4, <2>5 DEF PassedOver
  <2>6. CASE i \in todo
    <3>1. i < j
      BY <2>1, <2>4, <2>6, ConstantsAssumption DEF JobId
    <3> QED BY <2>1, <2>6, <3>1, <1>s, NotStartable
  <2> QED BY <2>5, <2>6
<1>5. ASSUME SpawnFails \/ RecordFails PROVE PassedOver'
  <2>1. cur \in JobId /\ LaunchFailed
    BY <1>5, <1>s DEF SpawnFails, RecordFails
  <2>2. \A g \in Group : held[g] # "free" => held'[g] # "free"
    BY <2>1, <1>s, NoteKeepsHeld DEF LaunchFailed
  <2> QED BY <1>5, <2>1, <2>2, <1>s, LaunchFailedTyped, LaunchKeepsPassed
          DEF SpawnFails, RecordFails, NextInPass
<1>6. ASSUME RecordStart PROVE PassedOver'
  BY <1>6, <1>s, LaunchKeepsPassed DEF RecordStart, NextInPass
<1>7. ASSUME NEW final \in {"DONE", "FAILED"}, ShortExit(final) PROVE PassedOver'
  <2>1. /\ cur \in JobId /\ final \in JobStates
        /\ NoteFailure(cur) \/ UNCHANGED holdVars
    BY <1>7, <1>s DEF ShortExit, NoteOutcome, JobStates, TerminalStates
  <2>2. state' = [state EXCEPT ![cur] = final]
    BY <1>7, <2>1, <1>s, FinishTyped DEF ShortExit
  <2> QED BY <1>7, <2>1, <2>2, <1>s, NoteKeepsHeld, LaunchKeepsPassed DEF ShortExit, NextInPass
<1>8. ASSUME NEW j \in JobId, FinishCancel(j) PROVE PassedOver'
  BY <1>1, <1>2, <1>8 DEF FinishCancel, LockFree
<1>9. CASE ClientRequest
  BY <1>1, <1>2, <1>3, <1>9
     DEF ClientRequest, Submit, Observe, Cancel, Retry, SetPaused, Hold, Release, Delete,
         Stop, LockFree
<1>10. CASE TaskStep
  BY <1>1, <1>2, <1>3, <1>8, <1>10
     DEF TaskStep, MonitorEnds, MonitorExit, MonitorDies, GraceOver, Escalate, Tick,
         LockFree
<1>11. CASE PassStep
  BY <1>1, <1>3, <1>4, <1>5, <1>6, <1>7, <1>11
     DEF PassStep, EndPass, Unlock, Spawn, WriteFails
<1>12. CASE RecoverStep \/ ReapStep
  BY <1>1, <1>2, <1>12 DEF RecoverStep, ReapStep, RecoverJob, RecoverDone, ReapJob, ReapDone
<1>13. CASE Lifecycle
  BY <1>1, <1>3, <1>13
     DEF Lifecycle, Start, Close, ForgetMemory, Unlock, Exit, Crash, Reboot, CancelTick
<1>14. CASE MachineStep
  BY <1>3, <1>14
     DEF MachineStep, LauncherExits, GroupDies, ExternalStarts, ExternalStops,
         UnchangedByMachine
<1> QED BY <1>9, <1>10, <1>11, <1>12, <1>13, <1>14 DEF Next

\* Only a pass starts a job.
LEMMA StartsInReserve ==
  ASSUME IInv, Next, NEW j \in JobId, state[j] = "WAITING", state'[j] = "STARTING"
  PROVE  Reserve(j)
<1>s. state \in [JobId -> JobStates]
  BY DEF IInv, TypeOK
<1>1. ~Created
  <2> SUFFICES ASSUME Created PROVE FALSE
    OBVIOUS
  <2>1. PICK new : Create(new)
    BY SubmitCreates, RetryCreates DEF Created, Creates
  <2> QED BY <2>1 DEF Create
<1>2. pc = "scan"
  BY <1>1, RowSteps DEF RowStep
<1>3. state' # state
  OBVIOUS
<1>4. \E k \in JobId : Reserve(k)
  BY <1>1, <1>2, <1>3
     DEF Next, ClientRequest, PassStep, RecoverStep, ReapStep, TaskStep, Lifecycle,
         MachineStep, Created, Observe, Cancel, SetPaused, Hold, Release, Delete, Stop,
         LockFree, EndPass, Spawn, SpawnFails, RecordStart, ShortExit, RecordFails,
         RecoverJob, RecoverDone, ReapJob, ReapDone, MonitorEnds, MonitorExit, MonitorDies,
         GraceOver, Escalate, FinishCancel, Tick, Start, Close, Exit, Crash, Reboot,
         CancelTick, WriteFails, LauncherExits, GroupDies, ExternalStarts, ExternalStops,
         UnchangedByMachine, jobVars
<1>5. ASSUME NEW k \in JobId, Reserve(k) PROVE k = j
  BY <1>5, <1>s DEF Reserve
<1> QED BY <1>4, <1>5

\* No job of a held group starts until the group is released: a pass asks the
\* mirror in memory at each start, and the mirror agrees with the table through
\* holds of that same pass, crashes and restarts.
THEOREM HeldGroupsStay == Spec => HeldGroupsDoNotStart
<1>1. IInv /\ HeldMirrorsTable /\ [Next]_vars =>
        [\A j \in JobId : state[j] = "WAITING" /\ state'[j] = "STARTING" =>
           request[j].group = None \/ holds[request[j].group] = "free"]_vars
  <2> SUFFICES ASSUME IInv, HeldMirrorsTable, Next, NEW j \in JobId,
                      state[j] = "WAITING", state'[j] = "STARTING",
                      request[j].group # None
               PROVE  holds[request[j].group] = "free"
    OBVIOUS
  <2>1. pc = "scan" /\ held[request[j].group] = "free"
    BY StartsInReserve DEF Reserve, Startable
  <2>2. phase # "down" /\ request[j].group \in Group
    BY <2>1 DEF IInv, ListsInv, LockMemory, TypeOK
  <2> QED BY <2>1, <2>2 DEF HeldMirrorsTable
<1> QED
  BY <1>1, Invariance, HoldsAreMirrored, PTL DEF Spec, HeldGroupsDoNotStart

\* Waiting jobs are visited oldest first: a job takes GPUs only when no older
\* waiting job whose group is not held would fit.
THEOREM OldestFirst == Spec => OldestThatFitsFirst
<1> DEFINE InOrder ==
      \A j \in JobId : state[j] = "WAITING" /\ state'[j] = "STARTING" =>
        \A i \in 1..(j - 1) :
          state[i] = "WAITING" =>
            \/ request[i].group # None /\ held[request[i].group] # "free"
            \/ request[i].gpus >
                 Cardinality({g \in GPU : obs[g] = "idle" /\
                                \A k \in JobId : Holding(k) => g \notin rows[k]})
<1>1. Init => PassedOver
  BY DEF Init, PassedOver
<1>2. IInv /\ PassedOver /\ [Next]_vars => PassedOver'
  <2>1. CASE UNCHANGED vars
    BY <2>1 DEF vars, tableVars, jobVars, daemonVars, lockVars, holdVars, PassedOver, HeldBack,
       Left, Holding
  <2> QED BY <2>1, PassedKept
<1>3. IInv /\ PassedOver /\ [Next]_vars => [InOrder]_vars
  <2> SUFFICES ASSUME IInv, PassedOver, Next, NEW j \in JobId,
                      state[j] = "WAITING", state'[j] = "STARTING",
                      NEW i \in 1..(j - 1), state[i] = "WAITING"
               PROVE  \/ HeldBack(i)
                      \/ request[i].gpus >
                           Cardinality({g \in GPU : obs[g] = "idle" /\
                                \A k \in JobId : Holding(k) => g \notin rows[k]})
    BY DEF HeldBack
  <2>1. Reserve(j)
    BY StartsInReserve
  <2>2. /\ pc = "scan" /\ cur = 0 /\ TypeOK
        /\ \A k \in todo : k < j => ~Startable(k)
    BY <2>1 DEF Reserve, Before, IInv, ListsInv, LockMemory
  <2>3. i \in JobId /\ i < j
    BY ConstantsAssumption DEF JobId
  <2>4. Left = {g \in GPU : obs[g] = "idle" /\
                   \A k \in JobId : Holding(k) => g \notin rows[k]}
    BY <2>2 DEF Left, JobId
  <2>5. HeldBack(i) \/ request[i].gpus > Cardinality(Left)
    <3>1. CASE i \in todo
      BY <2>2, <2>3, <3>1, NotStartable
    <3>2. CASE i \notin todo
      BY <2>2, <2>3, <3>2 DEF PassedOver
    <3> QED BY <3>1, <3>2
  <2> QED BY <2>4, <2>5
<1> QED BY <1>1, <1>2, <1>3, Invariance, PTL DEF Spec, OldestThatFitsFirst

-----------------------------------------------------------------------------
(* The lock is given back: what there is to prove of that without fairness.*)

\* How many steps the task that holds the lock may still take: three for each job
\* ahead of a pass, one for each row ahead of a recovery or a reap, and a pass.
StepsLeft ==
  CASE pc = "free" -> 0
    [] pc = "scan" -> 3 * Cardinality(todo) + 1
    [] pc = "spawned" -> 3 * Cardinality(todo) + 2
    [] pc = "reserved" -> 3 * Cardinality(todo) + 3
    [] OTHER -> 3 * MaxJobs + 2 + Cardinality(todo)

\* The lists under the lock are as long as there are jobs at most.
LEMMA ListSizes ==
  ASSUME NEW T, T \subseteq JobId
  PROVE  IsFiniteSet(T) /\ Cardinality(T) \in 0..MaxJobs
<1>1. IsFiniteSet(JobId) /\ Cardinality(JobId) = MaxJobs
  BY ConstantsAssumption, FS_Interval DEF JobId
<1>2. IsFiniteSet(T) /\ Cardinality(T) <= Cardinality(JobId)
  BY <1>1, FS_Subset
<1> QED BY <1>1, <1>2, FS_CardinalityType

\* A list that loses a job is shorter.
LEMMA ShorterList ==
  ASSUME NEW T, NEW U, T \subseteq JobId, U \subseteq T, U # T
  PROVE  Cardinality(U) < Cardinality(T)
<1>1. IsFiniteSet(T)
  BY ListSizes
<1>2. Cardinality(U) <= Cardinality(T) /\ Cardinality(U) # Cardinality(T)
  BY <1>1, FS_Subset
<1>3. Cardinality(U) \in Nat /\ Cardinality(T) \in Nat
  BY <1>1, FS_Subset, FS_CardinalityType
<1> QED BY <1>2, <1>3

\* What a step does to the list of the lock's holder.
HolderStep ==
  \/ UNCHANGED <<pc, todo>>
  \/ pc' = "free"
  \/ pc' = "scan" /\ (pc \in {"reserved", "spawned"} => todo' = todo) /\ pc # "scan"
  \/ pc = "scan" /\ pc' = "reserved" /\ todo' \subseteq todo /\ todo' # todo
  \/ pc = "reserved" /\ pc' = "spawned" /\ todo' = todo
  \/ pc \in {"recover", "reap"} /\ pc' = pc /\ todo' \subseteq todo /\ todo' # todo

LEMMA HolderSteps ==
  ASSUME IInv, Next, pc # "free"
  PROVE  HolderStep
<1> USE DEF HolderStep, lockVars
<1>1. phase # "down"
  BY DEF IInv, ListsInv, LockMemory
<1>2. CASE \E tick \in BOOLEAN : BeginPass(tick) /\ pc \in {"recover", "reap"}
  BY <1>2 DEF BeginPass, Unlock
<1>3. ASSUME NEW j \in JobId, Reserve(j) PROVE HolderStep
  <2>1. j \in todo /\ ~(j < j)
    BY <1>3, ConstantsAssumption DEF Reserve, JobId
  <2> QED BY <1>3, <2>1 DEF Reserve, Before
<1>4. ASSUME NEW j \in JobId, RecoverJob(j) \/ ReapJob(j) PROVE HolderStep
  BY <1>4 DEF RecoverJob, ReapJob, First
<1> QED
  BY <1>1, <1>2, <1>3, <1>4
     DEF Next, ClientRequest, PassStep, RecoverStep, ReapStep, TaskStep, Lifecycle,
         MachineStep, Submit, Observe, Cancel, Retry, SetPaused, Hold, Release, Delete, Stop,
         LockFree, EndPass, Unlock, Spawn, SpawnFails, RecordStart, ShortExit, RecordFails,
         NextInPass, RecoverDone, ReapDone, MonitorEnds, MonitorExit, MonitorDies, GraceOver,
         Escalate, FinishCancel, Tick, Start, Close, ForgetMemory, Exit, Crash, Reboot,
         CancelTick, WriteFails, LauncherExits, GroupDies, ExternalStarts, ExternalStops,
         UnchangedByMachine

\* Whoever takes the lock gets through: no step of another task, a client, the
\* machine or the lifecycle sets its holder back, each of its own brings it
\* nearer to the end.
HolderProgress == UNCHANGED <<pc, todo>> \/ StepsLeft' < StepsLeft

LEMMA ProgressKept ==
  ASSUME IInv, IInv', Next, pc # "free"
  PROVE  HolderProgress
<1> DEFINE n == Cardinality(todo)
           m == Cardinality(todo')
<1>1. /\ pc \in {"recover", "reap", "scan", "reserved", "spawned"}
      /\ todo \subseteq JobId /\ todo' \subseteq JobId
  BY DEF IInv, TypeOK
<1>2. n \in 0..MaxJobs /\ m \in 0..MaxJobs /\ MaxJobs \in Nat
  BY <1>1, ListSizes, ConstantsAssumption
<1>3. todo' \subseteq todo /\ todo' # todo => m < n
  BY <1>1, ShorterList
<1>4. StepsLeft = CASE pc = "scan" -> 3 * n + 1
                    [] pc = "spawned" -> 3 * n + 2
                    [] pc = "reserved" -> 3 * n + 3
                    [] OTHER -> 3 * MaxJobs + 2 + n
  BY <1>1 DEF StepsLeft
<1>5. StepsLeft' = CASE pc' = "free" -> 0
                     [] pc' = "scan" -> 3 * m + 1
                     [] pc' = "spawned" -> 3 * m + 2
                     [] pc' = "reserved" -> 3 * m + 3
                     [] OTHER -> 3 * MaxJobs + 2 + m
  BY DEF StepsLeft
<1>6. todo' = todo => m = n
  OBVIOUS
<1> HIDE DEF n, m
<1> QED BY <1>1, <1>2, <1>3, <1>4, <1>5, <1>6, HolderSteps DEF HolderStep, HolderProgress

\* While the lock is held no step of anybody lengthens what its holder has left, and
\* each of the holder's own (pass, launch, recovery, reaping) shortens it.
THEOREM LockHolderProgresses == Spec => [][pc # "free" => HolderProgress]_vars
<1>1. IInv /\ IInv' /\ [Next]_vars => [pc # "free" => HolderProgress]_vars
  BY ProgressKept
<1> QED BY <1>1, Invariance, PTL DEF Spec

\* A holder of the lock always has a step to take.
HolderCanGoOn ==
  /\ pc = "scan" =>
       \/ PassOver
       \/ \E j \in todo : Startable(j) /\ \A i \in todo : Before(i, j) => ~Startable(i)
  /\ pc \in {"recover", "reap"} => todo = {} \/ \E j \in todo : First(j)
  /\ pc \in {"reserved", "spawned"} => cur \in JobId

\* The holder of the lock is never stuck in front of a list it read earlier, and it
\* gives the lock back after at most 4 * MaxJobs + 2 of its steps.
THEOREM LockHoldsAreShort ==
  Spec => [](HolderCanGoOn /\ StepsLeft \in 0..(4 * MaxJobs + 2))
<1>1. IInv => HolderCanGoOn
  <2> SUFFICES ASSUME IInv PROVE HolderCanGoOn
    OBVIOUS
  <2>1. todo \subseteq Nat
    <3>1. JobId \subseteq Nat
      BY ConstantsAssumption DEF JobId
    <3> QED BY <3>1 DEF IInv, TypeOK
  <2>2. PassOver \/ \E j \in todo : Startable(j) /\ \A i \in todo : Before(i, j) => ~Startable(i)
    <3> DEFINE T == {j \in todo : Startable(j)}
    <3>1. CASE T = {}
      BY <3>1 DEF PassOver
    <3>2. CASE T # {}
      <4>1. PICK j \in T : \A i \in T : j <= i
        <5>1. T \subseteq Nat
          BY <2>1
        <5> HIDE DEF T
        <5> QED BY <3>2, <5>1, LeastElement
      <4> QED BY <2>1, <4>1 DEF Before
    <3> QED BY <3>1, <3>2
  <2>3. todo # {} => \E j \in todo : First(j)
    BY <2>1, LeastElement DEF First
  <2> QED BY <2>2, <2>3 DEF HolderCanGoOn, IInv, RowsInv, LaunchInHand
<1>2. IInv => StepsLeft \in 0..(4 * MaxJobs + 2)
  <2> SUFFICES ASSUME IInv PROVE StepsLeft \in 0..(4 * MaxJobs + 2)
    OBVIOUS
  <2> DEFINE n == Cardinality(todo)
  <2>1. n \in 0..MaxJobs /\ MaxJobs \in Nat
    BY ListSizes, ConstantsAssumption DEF IInv, TypeOK
  <2>2. pc = "reserved" => MaxJobs >= 1
    BY <2>1 DEF IInv, RowsInv, LaunchInHand, JobId
  <2>3. StepsLeft = CASE pc = "free" -> 0
                      [] pc = "scan" -> 3 * n + 1
                      [] pc = "spawned" -> 3 * n + 2
                      [] pc = "reserved" -> 3 * n + 3
                      [] OTHER -> 3 * MaxJobs + 2 + n
    BY DEF StepsLeft
  <2> HIDE DEF n
  <2> QED BY <2>1, <2>2, <2>3
<1> QED BY <1>1, <1>2, Invariance, PTL

=============================================================================
