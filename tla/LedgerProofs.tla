---------------------------- MODULE LedgerProofs ----------------------------
(***************************************************************************)
(* The proof that the scheduler implements the ledger, for every value of  *)
(* the constants: its initial states are initial states of the ledger, and *)
(* under the inductive invariant each of its steps is a step of the ledger *)
(* or changes nothing of it.                                               *)
(***************************************************************************)
EXTENDS SchedulerLedger, SchedulerProofs

\* A step of the ledger, or none.
LedgerStep == Ledger!Next \/ UNCHANGED Ledger!ledgerVars

\* The devices a job holds, and whether its processes are known, as the map
\* has them.
Devices(j) == IF Holding(j) THEN rows[j] ELSE {}

-----------------------------------------------------------------------------
(* How the map follows the tables.                                         *)

\* Rows and recorded groups that stay as they are leave the ledger as it is.
LEMMA LedgerFrame ==
  ASSUME UNCHANGED <<request, nextId>>,
         \A j \in JobId : Life(j)' = Life(j) /\ Devices(j)' = Devices(j)
                            /\ (Recorded(j)' <=> Recorded(j))
  PROVE  LedgerStep
BY DEF LedgerStep, Ledger!ledgerVars, Devices, Recorded

\* So does a step that only moves processes nobody recorded.
LEMMA LedgerUntouched ==
  ASSUME UNCHANGED <<request, nextId, state, rows, saved>>,
         \A j \in JobId : saved[j] # None => (Running(j)' <=> Running(j))
  PROVE  LedgerStep
<1>1. \A j \in JobId : Life(j)' = Life(j) /\ Devices(j)' = Devices(j)
                         /\ (Recorded(j)' <=> Recorded(j))
  BY DEF Life, Devices, Holding, Recorded
<1> QED BY <1>1, LedgerFrame

\* Ending a job that has no recorded process is End.
LEMMA LedgerEnd ==
  ASSUME TypeOK, NEW j \in JobId,
         NEW final \in {"DONE", "FAILED", "CANCELLED"},
         state[j] \in {"STARTING", "RUNNING", "CANCELLING"},
         ~Recorded(j),
         state' = [state EXCEPT ![j] = final],
         UNCHANGED <<request, nextId, rows, saved>>,
         \A i \in JobId : saved[i] # None => (Running(i)' <=> Running(i))
  PROVE  LedgerStep
<1>1. \A i \in JobId : /\ Life(i)' = IF i = j THEN "ended" ELSE Life(i)
                       /\ Devices(i)' = IF i = j THEN {} ELSE Devices(i)
                       /\ Recorded(i)' <=> Recorded(i)
  BY DEF TypeOK, Life, Devices, Holding, Recorded, None
<1>2. Life(j) = "holding"
  BY DEF Life, None
<1>3. Ledger!End(j)
  BY <1>1, <1>2 DEF Ledger!End, Devices, Recorded
<1> QED BY <1>3 DEF LedgerStep, Ledger!Next

\* Creating rows at fresh ids is Queue.
LEMMA LedgerQueue ==
  ASSUME TypeOK, RowsInv, NEW new,
         DOMAIN new \subseteq JobId,
         \A n \in JobId : n \in DOMAIN new <=> nextId <= n /\ n < nextId',
         nextId' \in Nat,
         nextId' >= nextId,
         \A n \in DOMAIN new : new[n].gpus \in Nat,
         state' = [j \in JobId |-> IF j \in DOMAIN new THEN "WAITING" ELSE state[j]],
         request' = [j \in JobId |-> IF j \in DOMAIN new THEN new[j] ELSE request[j]],
         UNCHANGED <<rows, saved, grp>>
  PROVE  LedgerStep
<1> DEFINE S == DOMAIN new
<1>n. nextId \in Nat /\ JobId \subseteq Nat
  BY ConstantsAssumption DEF TypeOK, JobId
<1>1. \A n \in S : state[n] = None
  BY DEF RowsInv, FreshIds
<1>2. \A i \in JobId : /\ Life(i)' = IF i \in S THEN "waiting" ELSE Life(i)
                       /\ i \in S => Life(i) = "new"
                       /\ Devices(i)' = Devices(i)
                       /\ Recorded(i)' <=> Recorded(i)
  BY <1>n, <1>1 DEF RowsInv, FreshIds, Life, Devices, Holding, Recorded, Running, None
<1>3. /\ \A i \in JobId : request'[i].gpus \in Nat
      /\ \A i \in JobId \ S : request'[i].gpus = request[i].gpus
  BY DEF TypeOK
<1>4. Ledger!Queue(S)
  BY <1>2, <1>3 DEF Ledger!Queue, Devices, Recorded
<1> QED BY <1>4 DEF LedgerStep, Ledger!Next

-----------------------------------------------------------------------------
(* Each action is a step of the ledger or none.                            *)

LEMMA StepMaps ==
  ASSUME IInv, Next
  PROVE  LedgerStep
<1> USE DEF tableVars, jobVars, machineVars, procVars
<1>i. TypeOK /\ RowsInv /\ ListsInv
  BY DEF IInv
<1>n. JobId \subseteq Nat /\ nextId \in Nat
  BY <1>i, ConstantsAssumption DEF TypeOK, JobId
<1>s. /\ TypeOK /\ RowsInv /\ ListsInv
      /\ {"DONE", "FAILED", "CANCELLED", "ORPHANED"} \subseteq JobStates
  BY <1>i DEF JobStates, TerminalStates
<1>c. pc \in {"reserved", "spawned"} =>
        cur \in JobId /\ state[cur] = "STARTING" /\ saved[cur] = None /\ ~Recorded(cur)
  BY <1>s DEF RowsInv, LaunchInHand, RowsFollowState, Recorded
<1>a. \A j \in JobId : ~Alive(j) => ~Recorded(j)
  BY <1>s DEF TypeOK, RowsInv, RowsFollowState, Alive, Live, Recorded, Running
<1>g. UNCHANGED grp => \A j \in JobId : Running(j)' <=> Running(j)
  BY DEF Running
<1>f. UNCHANGED <<request, nextId, state, rows, saved, grp>> => LedgerStep
  BY <1>g, LedgerUntouched
<1>1. ASSUME NEW s \in Submissions, Submit(s) PROVE LedgerStep
  <2> DEFINE new == [n \in {nextId} |->
                       [gpus |-> s.gpus, group |-> s.group, key |-> s.key, root |-> 0]]
  <2>1. /\ Create(new) /\ nextId \in JobId
        /\ UNCHANGED grp
    BY <1>1 DEF Submit
  <2>2. nextId' = nextId + 1
    BY <2>1, FS_Singleton DEF Create
  <2>3. /\ DOMAIN new = {nextId}
        /\ \A n \in DOMAIN new : new[n].gpus \in Nat
    BY ConstantsAssumption
  <2>4. /\ \A n \in JobId : n \in DOMAIN new <=> nextId <= n /\ n < nextId'
        /\ nextId' \in Nat /\ nextId' >= nextId /\ DOMAIN new \subseteq JobId
    BY <2>1, <2>2, <2>3, <1>n
  <2> HIDE DEF new
  <2> QED BY <2>1, <2>3, <2>4, <1>s, LedgerQueue DEF Create
<1>2. ASSUME NEW S \in SUBSET JobId, Cancel(S) PROVE LedgerStep
  <2> DEFINE W == {j \in S : state[j] = "WAITING"}
  <2>1. /\ \A j \in S : state[j] \in {"WAITING", "STARTING", "RUNNING", "CANCELLING"}
        /\ state' = [j \in JobId |-> IF j \notin S THEN state[j]
                                     ELSE IF state[j] = "WAITING" THEN "CANCELLED"
                                     ELSE "CANCELLING"]
        /\ UNCHANGED <<request, nextId, rows, saved, grp>>
    BY <1>2 DEF Cancel, Cancellable, ActiveStates
  <2>2. \A i \in JobId : /\ Life(i)' = IF i \in W THEN "ended" ELSE Life(i)
                         /\ i \in W => Life(i) = "waiting"
                         /\ Devices(i)' = Devices(i)
                         /\ Recorded(i)' <=> Recorded(i)
    BY <2>1, <1>g DEF Life, Devices, Holding, Recorded, None
  <2>3. Ledger!Withdraw(W)
    BY <2>1, <2>2 DEF Ledger!Withdraw, Devices, Recorded
  <2> QED BY <2>3 DEF LedgerStep, Ledger!Next
<1>3. ASSUME NEW S \in SUBSET JobId, Retry(S) PROVE LedgerStep
  <2>1. /\ Chosen(S) \subseteq JobId
        /\ nextId + Cardinality(Chosen(S)) - 1 <= MaxJobs
        /\ UNCHANGED grp
    BY <1>3 DEF Retry, Chosen
  <2>2. PICK from \in Numberings(Chosen(S)) : Create(Attempts(from))
    BY <1>3 DEF Retry
  <2>3. /\ Cardinality(Chosen(S)) \in Nat
        /\ DOMAIN from = nextId..(nextId + Cardinality(Chosen(S)) - 1)
        /\ Cardinality(DOMAIN from) = Cardinality(Chosen(S))
        /\ DOMAIN from \subseteq JobId
        /\ \A n \in DOMAIN from : from[n] \in JobId
    BY <1>s, <2>1, <2>2, NumberingFacts
  <2> DEFINE new == Attempts(from)
  <2>4. DOMAIN new = DOMAIN from
    BY DEF Attempts
  <2>5. \A n \in DOMAIN new : new[n].gpus \in Nat
    <3>1. \A i \in JobId : request[i] \in [gpus : Nat, group : Group \cup {None},
                                           key : Key \cup {None}, root : Nat]
      BY <1>s DEF TypeOK
    <3>2. \A n \in DOMAIN from : new[n] = [request[from[n]] EXCEPT !.root = Root(from[n])]
      BY DEF Attempts
    <3> QED BY <2>3, <2>4, <3>1, <3>2
  <2>6. nextId' = nextId + Cardinality(Chosen(S))
    BY <2>2, <2>3, <2>4 DEF Create
  <2> HIDE DEF new
  <2>7. Create(new)
    BY <2>2 DEF new
  <2>8. /\ DOMAIN new \subseteq JobId
        /\ \A n \in JobId : n \in DOMAIN new <=> nextId <= n /\ n < nextId'
        /\ nextId' \in Nat /\ nextId' >= nextId
    BY <2>3, <2>4, <2>6, <1>n
  <2> QED BY <2>1, <2>5, <2>7, <2>8, <1>s, LedgerQueue DEF Create
<1>4. ASSUME NEW S \in SUBSET JobId, Delete(S) PROVE LedgerStep
  <2>1. /\ \A j \in S : state[j] \in {"DONE", "FAILED", "CANCELLED", "ORPHANED"}
        /\ state'   = [j \in JobId |-> IF j \in S THEN None ELSE state[j]]
        /\ request' = [j \in JobId |-> IF j \in S THEN NoRequest ELSE request[j]]
        /\ rows'    = [j \in JobId |-> IF j \in S THEN {} ELSE rows[j]]
        /\ saved'   = [j \in JobId |-> IF j \in S THEN None ELSE saved[j]]
        /\ UNCHANGED <<nextId, grp>>
    BY <1>4 DEF Delete, Deletable, TerminalStates
  <2>2. \A j \in S : j < nextId
    BY <2>1, <1>s, <1>n DEF RowsInv, FreshIds, None
  <2>3. \A i \in JobId : /\ Life(i)' = IF i \in S THEN "gone" ELSE Life(i)
                         /\ i \in S => Life(i) \in {"ended", "aside"}
                         /\ Devices(i)' = IF i \in S THEN {} ELSE Devices(i)
                         /\ Recorded(i)' <=> Recorded(i) /\ i \notin S
                         /\ request'[i].gpus = IF i \in S THEN 0 ELSE request[i].gpus
    BY <2>1, <2>2, <1>g DEF Life, Devices, Holding, Recorded, None, NoRequest
  <2>4. Ledger!Remove(S)
    BY <2>3 DEF Ledger!Remove, Devices, Recorded
  <2> QED BY <2>4 DEF LedgerStep, Ledger!Next
<1>5. ASSUME NEW j \in JobId, Reserve(j) PROVE LedgerStep
  <2>1. PICK D \in SelectGpus(FreeGpus, request[j].gpus) : rows' = [rows EXCEPT ![j] = D]
    BY <1>5 DEF Reserve
  <2>2. /\ state' = [state EXCEPT ![j] = "STARTING"]
        /\ UNCHANGED <<request, nextId, saved, grp>>
        /\ state[j] = "WAITING"
    BY <1>5, <1>s DEF Reserve, ListsInv, PassList
  <2>3. /\ D \in SUBSET GPU /\ Cardinality(D) = request[j].gpus
        /\ \A i \in JobId : D \cap Devices(i) = {}
    BY DEF SelectGpus, FreeGpus, Assigned, AssignedStates, ActiveStates, Holding, Devices
  <2>4. \A i \in JobId : /\ Life(i)' = IF i = j THEN "holding" ELSE Life(i)
                         /\ Devices(i)' = IF i = j THEN D ELSE Devices(i)
                         /\ Recorded(i)' <=> Recorded(i)
    BY <2>1, <2>2, <1>s, <1>g DEF TypeOK, Life, Devices, Holding, Recorded, None
  <2>5. Life(j) = "waiting"
    BY <2>2 DEF Life, None
  <2>6. Ledger!Cardinality(D) = Cardinality(D)
    BY DEF Ledger!Cardinality, Cardinality
  <2>7. D \cap Ledger!HeldBy(JobId) = {}
    BY <2>3 DEF Ledger!HeldBy, Devices
  <2>8. Ledger!Take(j, D)
    BY <2>2, <2>3, <2>4, <2>5, <2>6, <2>7 DEF Ledger!Take, Devices, Recorded
  <2> QED BY <2>3, <2>8 DEF LedgerStep, Ledger!Next
<1>6. ASSUME Spawn PROVE LedgerStep
  <2>1. /\ UNCHANGED <<request, nextId, state, rows, saved>>
        /\ \A i \in JobId : saved[i] # None => grp'[i] = grp[i]
    BY <1>6, <1>c, <1>s DEF Spawn, TypeOK
  <2> QED BY <2>1, LedgerUntouched DEF Running
<1>7. ASSUME SpawnFails PROVE LedgerStep
  BY <1>7, <1>c, <1>g, <1>s, LaunchFailedTyped, LedgerEnd DEF SpawnFails
<1>8. ASSUME RecordStart PROVE LedgerStep
  <2>1. PICK c \in JobId : /\ state[c] = "STARTING" /\ ~Recorded(c)
                          /\ state' = [state EXCEPT ![c] = "RUNNING"]
                          /\ saved' = [saved EXCEPT ![c] = "this"]
    BY <1>8, <1>c DEF RecordStart
  <2>2. UNCHANGED <<request, nextId, rows, grp>>
    BY <1>8 DEF RecordStart
  <2>3. \A i \in JobId : /\ Life(i)' = Life(i)
                         /\ Devices(i)' = Devices(i)
                         /\ i # c => (Recorded(i)' <=> Recorded(i))
    BY <2>1, <2>2, <1>s, <1>g DEF TypeOK, Life, Devices, Holding, Recorded, None
  <2>4. Life(c) = "holding"
    BY <2>1 DEF Life, None
  <2>5. CASE Recorded(c)'
    <3>1. Ledger!Run(c)
      BY <2>1, <2>2, <2>3, <2>4, <2>5 DEF Ledger!Run, Devices, Recorded
    <3> QED BY <3>1 DEF LedgerStep, Ledger!Next
  <2>6. CASE ~Recorded(c)'
    BY <2>1, <2>2, <2>3, <2>6, LedgerFrame
  <2> QED BY <2>5, <2>6
<1>9. ASSUME NEW final \in {"DONE", "FAILED"}, ShortExit(final) PROVE LedgerStep
  BY <1>9, <1>c, <1>g, <1>s, FinishTyped, LedgerEnd DEF ShortExit
<1>10. ASSUME RecordFails PROVE LedgerStep
  <2>1. /\ cur \in JobId /\ state[cur] = "STARTING" /\ ~Recorded(cur)
        /\ state' = [state EXCEPT ![cur] = "FAILED"]
        /\ UNCHANGED <<request, nextId, rows, saved>>
    BY <1>10, <1>c, <1>s, LaunchFailedTyped DEF RecordFails
  <2>2. \A i \in JobId : saved[i] # None => grp'[i] = grp[i]
    BY <1>10, <1>c, <1>s, KillSpares DEF RecordFails
  <2>3. \A i \in JobId : saved[i] # None => (Running(i)' <=> Running(i))
    BY <2>2 DEF Running
  <2> QED BY <2>1, <2>3, <1>s, LedgerEnd
<1>11. ASSUME NEW j \in JobId, RecoverJob(j) PROVE LedgerStep
  <2>1. /\ UNCHANGED <<request, nextId, rows, saved, grp>>
        /\ state[j] \in {"STARTING", "RUNNING", "CANCELLING"}
    BY <1>11, <1>s DEF RecoverJob, First, ListsInv, RecoverList
  <2>2. CASE Recovered(j) # state[j]
    <3>1. /\ Recovered(j) \in {"FAILED", "CANCELLED", "ORPHANED"}
          /\ Recovered(j) = "ORPHANED" \/ ~Recorded(j)
      BY <2>1, <2>2, <1>a, <1>s DEF Recovered, RowsInv, RowsFollowState, Recorded
    <3>2. state' = [state EXCEPT ![j] = Recovered(j)]
      BY <1>11, <2>2, <3>1, <1>s, FinishTyped DEF RecoverJob
    <3>3. CASE Recovered(j) = "ORPHANED"
      <4>1. \A i \in JobId : /\ Life(i)' = IF i = j THEN "aside" ELSE Life(i)
                             /\ Devices(i)' = Devices(i)
                             /\ Recorded(i)' <=> Recorded(i)
        BY <2>1, <3>2, <3>3, <1>s, <1>g DEF TypeOK, Life, Devices, Holding, Recorded, None
      <4>2. Life(j) = "holding"
        BY <2>1 DEF Life, None
      <4>3. Ledger!SetAside(j)
        BY <2>1, <4>1, <4>2 DEF Ledger!SetAside, Devices, Recorded
      <4> QED BY <4>3 DEF LedgerStep, Ledger!Next
    <3>4. CASE Recovered(j) # "ORPHANED"
      BY <2>1, <3>1, <3>2, <3>4, <1>s, <1>g, LedgerEnd
    <3> QED BY <3>3, <3>4
  <2>3. CASE Recovered(j) = state[j]
    BY <1>11, <2>1, <2>3, <1>f DEF RecoverJob
  <2> QED BY <2>2, <2>3
<1>12. ASSUME NEW j \in JobId, ReapJob(j) PROVE LedgerStep
  <2>1. /\ UNCHANGED <<request, nextId, rows, saved, grp>>
        /\ state[j] \in {"STARTING", "RUNNING", "CANCELLING"} /\ ~Recorded(j)
    BY <1>12, <1>s DEF ReapJob, First, ListsInv, ReapList
  <2>2. ReapState(j) \in {"FAILED", "CANCELLED"}
    BY DEF ReapState
  <2>3. state' = [state EXCEPT ![j] = ReapState(j)]
    BY <1>12, <2>2, <1>s, FinishTyped DEF ReapJob
  <2> QED BY <2>1, <2>2, <2>3, <1>s, <1>g, LedgerEnd
<1>13. ASSUME NEW j \in JobId, MonitorEnds(j) PROVE LedgerStep
  <2>1. PICK final \in {"DONE", "FAILED", "CANCELLED"} : MonitorExit(j, final)
    BY <1>13 DEF MonitorEnds
  <2>2. /\ state[j] \in {"STARTING", "RUNNING", "CANCELLING"} /\ ~Recorded(j)
        /\ UNCHANGED <<request, nextId, rows, saved, grp>>
    BY <2>1 DEF MonitorExit, ActiveStates, GroupGone, Recorded, Running
  <2>3. state' = [state EXCEPT ![j] = final]
    BY <2>1, <1>s, FinishTyped DEF MonitorExit
  <2> QED BY <2>2, <2>3, <1>s, <1>g, LedgerEnd
<1>14. ASSUME NEW j \in JobId, FinishCancel(j) PROVE LedgerStep
  <2>1. CASE state[j] = "CANCELLING"
    <3>1. /\ ~Recorded(j)
          /\ UNCHANGED <<request, nextId, rows, saved, grp>>
          /\ state' = [state EXCEPT ![j] = "CANCELLED"]
      BY <1>14, <2>1, <1>a, <1>s, FinishTyped DEF FinishCancel
    <3> QED BY <2>1, <3>1, <1>s, <1>g, LedgerEnd
  <2>2. CASE state[j] # "CANCELLING"
    BY <1>14, <2>2, <1>f DEF FinishCancel
  <2> QED BY <2>1, <2>2
<1>15. ASSUME Reboot PROVE LedgerStep
  <2>1. /\ saved' = [j \in JobId |-> IF saved[j] = "this" THEN "earlier" ELSE saved[j]]
        /\ grp' = [j \in JobId |-> IF grp[j] = None THEN None ELSE "dead"]
        /\ UNCHANGED <<request, nextId, state, rows>>
    BY <1>15 DEF Reboot
  <2>2. \A i \in JobId : Life(i)' = Life(i) /\ Devices(i)' = Devices(i) /\ ~Recorded(i)'
    BY <2>1 DEF Life, Devices, Holding, Recorded, Running, None
  <2>3. Ledger!Halt(JobId)
    BY <2>1, <2>2 DEF Ledger!Halt, Devices, Recorded
  <2> QED BY <2>3 DEF LedgerStep, Ledger!Next
<1>16. ASSUME CancelTick PROVE LedgerStep
  <2>1. UNCHANGED <<request, nextId, state, rows, saved>>
    BY <1>16 DEF CancelTick
  <2>2. \A i \in JobId : saved[i] # None => grp'[i] = grp[i]
    <3>1. CASE grp[cur] = "leader"
      BY <1>16, <1>c, <1>s, <3>1 DEF CancelTick, TypeOK
    <3>2. CASE grp[cur] # "leader"
      BY <1>16, <3>2 DEF CancelTick
    <3> QED BY <3>1, <3>2
  <2> QED BY <2>1, <2>2, LedgerUntouched DEF Running
<1>20. ASSUME WriteFails PROVE LedgerStep
  <2>1. UNCHANGED <<request, nextId, state, rows, saved>>
    BY <1>20 DEF WriteFails
  <2>2. \A i \in JobId : saved[i] # None => grp'[i] = grp[i]
    BY <1>20, <1>c, <1>s, KillSpares DEF WriteFails, procVars
  <2> QED BY <2>1, <2>2, LedgerUntouched DEF Running
<1>17. ASSUME NEW j \in JobId, LauncherExits(j) PROVE LedgerStep
  <2>1. /\ UNCHANGED <<request, nextId, state, rows, saved>>
        /\ \A i \in JobId : Running(i)' <=> Running(i)
    BY <1>17, <1>s DEF LauncherExits, UnchangedByMachine, TypeOK, Running
  <2> QED BY <2>1, LedgerUntouched
<1>18. ASSUME NEW j \in JobId, GroupDies(j) PROVE LedgerStep
  <2>1. /\ UNCHANGED <<request, nextId, state, rows, saved>>
        /\ \A i \in JobId : Running(i)' <=> Running(i) /\ i # j
    BY <1>18, <1>s DEF GroupDies, UnchangedByMachine, TypeOK, Running
  <2>2. \A i \in JobId : /\ Life(i)' = Life(i) /\ Devices(i)' = Devices(i)
                         /\ Recorded(i)' <=> Recorded(i) /\ i # j
    BY <2>1 DEF Life, Devices, Holding, Recorded
  <2>3. Ledger!Halt({j})
    BY <2>1, <2>2 DEF Ledger!Halt, Devices, Recorded
  <2> QED BY <2>3 DEF LedgerStep, Ledger!Next
<1>19. CASE UNCHANGED <<request, nextId, state, rows, saved, grp>>
  BY <1>19, <1>f
<1> QED
  BY <1>1, <1>2, <1>3, <1>4, <1>5, <1>6, <1>7, <1>8, <1>9, <1>10, <1>11, <1>12,
     <1>13, <1>14, <1>15, <1>16, <1>17, <1>18, <1>19, <1>20
     DEF Next, ClientRequest, PassStep, RecoverStep, ReapStep, TaskStep, Lifecycle,
         MachineStep, Observe, SetPaused, Hold, Release, Stop, EndPass,
         RecoverDone, ReapDone, MonitorDies, GraceOver, Escalate, Tick, Start, Close,
         Exit, Crash, ExternalStarts, ExternalStops, UnchangedByMachine

-----------------------------------------------------------------------------
(* The refinement.                                                         *)

LEMMA InitMaps == Init => Ledger!Init
BY DEF Init, Ledger!Init, Life, Holding, NoRequest, None

\* Every behaviour of the scheduler is one the ledger allows: no job gets part
\* of its request or a device somebody holds, and none gives devices back while
\* processes gq has on record run, through every failure, crash and recovery.
THEOREM SchedulerImplementsLedger == Spec => ImplementsLedger
<1>1. Init => Ledger!Init
  BY InitMaps
<1>2. IInv /\ [Next]_vars => [Ledger!Next]_(Ledger!ledgerVars)
  <2>1. CASE Next
    BY <2>1, StepMaps DEF LedgerStep
  <2>2. CASE UNCHANGED vars
    <3>1. UNCHANGED <<request, nextId, state, rows, saved, grp>>
      BY <2>2 DEF vars, tableVars, jobVars, machineVars, procVars
    <3>2. LedgerStep
      BY <3>1, LedgerUntouched DEF Running
    <3> QED BY <3>2 DEF LedgerStep
  <2> QED BY <2>1, <2>2
<1>3. QED
  BY <1>1, <1>2, Invariance, PTL DEF Spec, ImplementsLedger, Ledger!Spec
=============================================================================
