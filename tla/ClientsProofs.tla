--------------------------- MODULE ClientsProofs ---------------------------
(***************************************************************************)
(* Proofs about the daemons and their clients, for any number of clients,  *)
(* jobs, programs and faults.                                              *)
(***************************************************************************)
EXTENDS ClientsProperties, TLAPS

Steps == {"unborn", "spawned", "locked", "migrating", "ready", "serving",
          "stopping", "draining", "closed", "unlinked", "dead", "killed"}

\* Where a client is before it has spawned a daemon, and from then on; those
\* that need none or give up go from one to the other.
Before == {"submit", "start", "check", "pause", "wait", "refuse", "resume", "stop",
           "shutdown", "stopping", "install"}
After  == {"starting", "look", "resend", "accepted", "done", "failed"}

Shapes ==
  /\ step \in [Daemon -> Steps]
  /\ pc \in [Client -> Before \cup After]
  /\ sent \in [Client -> Nat]
  /\ inbox \in [Client -> [n : Nat, answer : (SUBSET JobId) \cup {None}]]

\* A client spawns one daemon at most: its name is not in use before.
SpawnsOnce == \A c \in Client : step[c] # "unborn" => pc[c] \in After

\* Only a client that asks waits for an answer.
WaitsForAnswer == \A c \in Client : Waiting(c) => Asking(c)

LifeInv == Shapes /\ SpawnsOnce /\ WaitsForAnswer /\ ServingDaemonIsReached

-----------------------------------------------------------------------------
\* The invariant holds at first.
LEMMA LifeInit == Init => LifeInv
<1> SUFFICES ASSUME Init PROVE LifeInv
  OBVIOUS
<1>1. command \in [Client -> Programs]
  BY CommandsAssumption DEF Init
<1>2. \A c \in Client : FirstLabel(c) \in Before
  BY <1>1 DEF FirstLabel, Updating, Programs, Before
<1>3. step \in [Daemon -> Steps]
  BY DEF Init, DaemonInit, Steps
<1>4. Shapes
  BY <1>2, <1>3 DEF Init, DaemonInit, Shapes, NotWaiting
<1>5. SpawnsOnce /\ WaitsForAnswer
  BY DaemonAssumption DEF Init, DaemonInit, SpawnsOnce, WaitsForAnswer, Waiting, NotWaiting, Daemon
<1>6. ServingDaemonIsReached
  BY DaemonAssumption DEF Init, DaemonInit, ServingDaemonIsReached, Daemon
<1> QED BY <1>4, <1>5, <1>6 DEF LifeInv

\* An answer leaves the number of the request a client waits for.
LEMMA ReplyKeeps ==
  ASSUME Shapes, NEW m, NEW answer \in SUBSET JobId, Reply(m, answer)
  PROVE  /\ inbox' \in [Client -> [n : Nat, answer : (SUBSET JobId) \cup {None}]]
         /\ \A c \in Client : inbox'[c].n = inbox[c].n
BY DEF Shapes, Reply

\* A daemon's step from one stage to another, for all of them that ask nothing
\* of a client.
LEMMA DaemonKeeps ==
  ASSUME LifeInv, NEW d \in Daemon, DaemonStep(d) \/ Crash(d), UNCHANGED clientVars
  PROVE  LifeInv'
<1> USE DEF LifeInv, Shapes, Steps, SpawnsOnce, ServingDaemonIsReached, lifeVars, At, clientVars
<1>0. UNCHANGED inbox => WaitsForAnswer'
  BY DEF WaitsForAnswer, Waiting, Asking
<1>1. CASE TakeLock(d)
  BY <1>0, <1>1, DaemonAssumption DEF TakeLock, Daemon
<1>2. CASE LoseLock(d)
  BY <1>0, <1>2, DaemonAssumption DEF LoseLock, Daemon
<1>3. CASE RemoveStale(d)
  BY <1>0, <1>3, DaemonAssumption DEF RemoveStale, Daemon
<1>4. CASE BeginMigration(d)
  BY <1>0, <1>4, DaemonAssumption DEF BeginMigration, Daemon
<1>5. CASE RunStatement(d)
  BY <1>0, <1>5, DaemonAssumption DEF RunStatement, Daemon
<1>6. CASE CommitMigration(d)
  BY <1>0, <1>6, DaemonAssumption DEF CommitMigration, Daemon
<1>7. CASE RefuseSchema(d)
  BY <1>0, <1>7, DaemonAssumption DEF RefuseSchema, Daemon
<1>8. CASE Recover(d)
  BY <1>0, <1>8, DaemonAssumption DEF Recover, Daemon
<1>9. CASE Listen(d)
  BY <1>0, <1>9, DaemonAssumption DEF Listen, Daemon
<1>10. CASE Handle(d)
  <2>1. PICK m \in conns :
          /\ m.to = d
          /\ \/ HandleSubmit(m) \/ HandlePause(m) \/ HandleList(m)
             \/ HandleResume(m) \/ HandleShutdown(m)
    BY <1>10 DEF Handle
  <2>2. ActiveJobs \in SUBSET JobId
    BY DEF ActiveJobs
  <2>3. /\ inbox' \in [Client -> [n : Nat, answer : (SUBSET JobId) \cup {None}]]
        /\ \A c \in Client : inbox'[c].n = inbox[c].n
    BY <2>1, <2>2, ReplyKeeps DEF HandleSubmit, HandlePause, HandleList, HandleResume,
       HandleShutdown
  <2>4. WaitsForAnswer'
    BY <2>3 DEF WaitsForAnswer, Waiting, Asking
  <2>5. /\ \/ step' = step
           \/ step[d] = "serving" /\ step' = [step EXCEPT ![d] = "stopping"]
        /\ lock' = lock /\ socket' = socket
    BY <1>10, <2>1 DEF Handle, HandleSubmit, HandlePause, HandleList, HandleResume,
       HandleShutdown
  <2> QED BY <2>3, <2>4, <2>5, DaemonAssumption DEF Daemon
<1>11. CASE \E j \in JobId : EndJob(d, j)
  BY <1>0, <1>11, DaemonAssumption DEF EndJob, Daemon
<1>12. CASE CloseServer(d)
  BY <1>0, <1>12, DaemonAssumption DEF CloseServer, Daemon
<1>13. CASE CloseDatabase(d)
  BY <1>0, <1>13, DaemonAssumption DEF CloseDatabase, Daemon
<1>14. CASE RemoveSocket(d)
  BY <1>0, <1>14, DaemonAssumption DEF RemoveSocket, Daemon
<1>15. CASE Unlock(d)
  BY <1>0, <1>15, DaemonAssumption DEF Unlock, Daemon
<1>16. CASE Crash(d)
  BY <1>0, <1>16, DaemonAssumption DEF Crash, Daemon, Ended
<1> QED BY <1>1, <1>2, <1>3, <1>4, <1>5, <1>6, <1>7, <1>8, <1>9, <1>10, <1>11, <1>12, <1>13, <1>14, <1>15, <1>16 DEF DaemonStep

\* What clients do.
LEMMA ClientKeeps ==
  ASSUME LifeInv, NEW c \in Client, ClientStep(c) \/ Interrupt(c)
  PROVE  LifeInv'
<1> USE DEF LifeInv, Shapes, Steps, SpawnsOnce, ServingDaemonIsReached, WaitsForAnswer,
    lifeVars, At, Goto, UnchangedByClient, UnchangedByPing, Waiting, Asking, Before, After
<1>1. CASE Ask(c)
  BY <1>1 DEF Ask
<1>2. CASE Receive(c)
  BY <1>2 DEF Receive, AfterAnswer, NotWaiting
<1>3. CASE RequestFails(c)
  BY <1>3 DEF RequestFails, NotWaiting
<1>4. CASE StartDaemon(c)
  <2>1. /\ c \in Daemon /\ pc[c] = "start" /\ step[c] = "unborn" /\ inbox[c].n = 0
        /\ UNCHANGED <<lock, socket, sent, inbox>>
    BY <1>4 DEF StartDaemon, Daemon
  <2>2. Started(c) \in After
    BY DEF Started
  <2>3. CASE step' = step /\ pc' = [pc EXCEPT ![c] = Started(c)]
    <3>1. Shapes' /\ SpawnsOnce'
      BY <2>1, <2>2, <2>3
    <3>2. WaitsForAnswer' /\ ServingDaemonIsReached'
      BY <2>1, <2>3
    <3> QED BY <3>1, <3>2
  <2>4. CASE pc' = [pc EXCEPT ![c] = "starting"] /\ step' = [step EXCEPT ![c] = "spawned"]
    <3>1. Shapes' /\ SpawnsOnce'
      BY <2>1, <2>4
    <3>2. WaitsForAnswer'
      BY <2>1, <2>4
    <3>3. ServingDaemonIsReached'
      BY <2>1, <2>4
    <3> QED BY <3>1, <3>2, <3>3
  <2> QED BY <1>4, <2>3, <2>4 DEF StartDaemon
<1>5. CASE AwaitDaemon(c)
  BY <1>5 DEF AwaitDaemon, Started
<1>6. CASE LookAtChild(c)
  BY <1>6 DEF LookAtChild
<1>7. CASE StartTimesOut(c)
  BY <1>7 DEF StartTimesOut
<1>8. CASE StopDaemon(c)
  BY <1>8 DEF StopDaemon, Stopped
<1>9. CASE AwaitStop(c)
  BY <1>9 DEF AwaitStop, Stopped
<1>10. CASE CheckDaemon(c)
  BY <1>10 DEF CheckDaemon
<1>11. CASE WaitForJobs(c)
  BY <1>11 DEF WaitForJobs
<1>12. CASE Refuse(c)
  BY <1>12 DEF Refuse
<1>13. CASE Install(c)
  BY <1>13 DEF Install
<1>14. CASE Interrupt(c)
  BY <1>14 DEF Interrupt, Over, NotWaiting
<1> QED BY <1>1, <1>2, <1>3, <1>4, <1>5, <1>6, <1>7, <1>8, <1>9, <1>10, <1>11, <1>12, <1>13,
           <1>14 DEF ClientStep

\* Jobs start and end.
LEMMA JobsKeep ==
  ASSUME LifeInv, UNCHANGED clientVars,
         \/ \E d \in Daemon, j \in JobId : StartJob(d, j)
         \/ \E j \in JobId : ProcessEnds(j)
  PROVE  LifeInv'
<1>1. UNCHANGED <<lifeVars, clientVars, inbox>>
  BY DEF StartJob, ProcessEnds
<1> QED BY <1>1 DEF LifeInv, Shapes, SpawnsOnce, WaitsForAnswer, ServingDaemonIsReached,
           Waiting, Asking, lifeVars, clientVars

LEMMA LifeStep == LifeInv /\ [Next]_vars => LifeInv'
<1> SUFFICES ASSUME LifeInv, [Next]_vars PROVE LifeInv'
  OBVIOUS
<1>1. CASE \E c \in Client : ClientStep(c) \/ Interrupt(c)
  BY <1>1, ClientKeeps
<1>2. CASE DaemonNext /\ UNCHANGED clientVars
  BY <1>2, DaemonKeeps, JobsKeep DEF DaemonNext
<1>3. CASE UNCHANGED vars
  BY <1>3 DEF vars, daemonVars, LifeInv, Shapes, SpawnsOnce, WaitsForAnswer,
     ServingDaemonIsReached, Waiting, Asking, lifeVars, clientVars
<1> QED BY <1>1, <1>2, <1>3 DEF Next

\* Only the holder of the instance lock touches the database, and clients reach
\* the daemon that listens, whatever starts, stops and crashes.
THEOREM DaemonsTakeTurns == Spec => []ServingDaemonIsReached
<1>1. Spec => []LifeInv
  BY LifeInit, LifeStep, PTL DEF Spec
<1> QED BY <1>1, PTL DEF LifeInv

-----------------------------------------------------------------------------
(* Migrations.                                                             *)

\* Only a daemon that migrates has a migration under way: that to the next
\* version.
SchemaInv ==
  /\ schema \in [version : Nat, applied : SUBSET Nat]
  /\ SchemaMatchesVersion
  /\ txn \in [target : Nat, ran : Nat] \cup {None}
  /\ txn # None => /\ txn.target = schema.version + 1
                   /\ schema.version < SchemaVersion
                   /\ \E d \in Daemon : step[d] = "migrating"

LEMMA SchemaInit == Init => SchemaInv
<1>1. Versions \subseteq Nat
  BY DaemonAssumption
<1> QED BY <1>1 DEF Init, DaemonInit, SchemaInv, SchemaMatchesVersion

LEMMA SchemaStep == LifeInv /\ SchemaInv /\ [Next]_vars => SchemaInv'
<1> SUFFICES ASSUME LifeInv, SchemaInv, [Next]_vars PROVE SchemaInv'
  OBVIOUS
<1> USE DEF SchemaInv, SchemaMatchesVersion
<1>1. ASSUME NEW d \in Daemon, step[d] = "migrating", NEW e \in Daemon, step[e] = "migrating"
      PROVE  d = e
  BY <1>1 DEF LifeInv, ServingDaemonIsReached
<1>2. ASSUME UNCHANGED tableVars, \A d \in Daemon : step[d] = "migrating" => step'[d] = "migrating"
      PROVE  SchemaInv'
  BY <1>2 DEF tableVars
<1>3. ASSUME NEW c \in Client, ClientStep(c) \/ Interrupt(c) PROVE SchemaInv'
  <2>1. /\ UNCHANGED tableVars
        /\ \/ UNCHANGED step
           \/ step[c] = "unborn" /\ step' = [step EXCEPT ![c] = "spawned"]
    <3>1. CASE StartDaemon(c)
      BY <3>1 DEF StartDaemon, LifeInv, SpawnsOnce, Before, After, Shapes, At, UnchangedByPing,
         UnchangedByClient
    <3>2. CASE ~StartDaemon(c)
      BY <1>3, <3>2 DEF ClientStep, Ask, Receive, RequestFails, AwaitDaemon, LookAtChild,
         StartTimesOut, StopDaemon, AwaitStop, CheckDaemon, WaitForJobs, Refuse, Install,
         Interrupt, UnchangedByPing, UnchangedByClient
    <3> QED BY <3>1, <3>2
  <2> QED BY <1>2, <2>1 DEF LifeInv, Shapes
<1>4. ASSUME NEW d \in Daemon, DaemonStep(d) PROVE SchemaInv'
  <2>1. CASE BeginMigration(d)
    BY <2>1 DEF BeginMigration, lifeVars
  <2>2. CASE RunStatement(d)
    BY <2>2 DEF RunStatement, lifeVars
  <2>3. CASE CommitMigration(d)
    <3> DEFINE t == schema.version + 1
    <3>1. txn' = None /\ schema' = [version |-> t, applied |-> schema.applied \cup {t}]
      BY <2>3 DEF CommitMigration, Committed
    <3>2. schema.applied \cup {t} = 1..t
      <4>1. 1..schema.version \cup {t} = 1..t
        OBVIOUS
      <4>2. schema.version = 0 => {1} \cup {t} = 1..t
        OBVIOUS
      <4> QED BY <4>1, <4>2
    <3> QED BY <3>1, <3>2
  <2>4. CASE RefuseSchema(d) \/ Recover(d)
    BY <2>4, <1>1 DEF RefuseSchema, Recover, SchemaVersion, tableVars, At, LifeInv, Shapes
  <2>5. CASE TakeLock(d) \/ LoseLock(d) \/ RemoveStale(d) \/ Listen(d)
             \/ CloseServer(d) \/ CloseDatabase(d) \/ RemoveSocket(d) \/ Unlock(d)
    BY <2>5, <1>2 DEF TakeLock, LoseLock, RemoveStale, Listen, CloseServer, CloseDatabase,
       RemoveSocket, Unlock, At, LifeInv, Shapes
  <2>6. CASE Handle(d)
    BY <2>6, <1>2 DEF Handle, HandleSubmit, HandlePause, HandleList, HandleResume, HandleShutdown,
       LifeInv, Shapes
  <2>7. CASE \E j \in JobId : EndJob(d, j)
    BY <2>7, <1>2 DEF EndJob, lifeVars
  <2> QED BY <1>4, <2>1, <2>2, <2>3, <2>4, <2>5, <2>6, <2>7 DEF DaemonStep
<1>5. ASSUME NEW d \in Daemon, Crash(d) PROVE SchemaInv'
  BY <1>1, <1>5 DEF Crash, At, LifeInv, Shapes
<1>6. ASSUME \/ \E d \in Daemon, j \in JobId : StartJob(d, j)
             \/ \E j \in JobId : ProcessEnds(j)
      PROVE  SchemaInv'
  BY <1>2, <1>6 DEF StartJob, ProcessEnds, lifeVars
<1>7. CASE UNCHANGED vars
  BY <1>7, <1>2 DEF vars, daemonVars, lifeVars
<1> QED BY <1>3, <1>4, <1>5, <1>6, <1>7 DEF Next, DaemonNext

\* user_version tells which statements the tables have seen, through crashes
\* between any two statements of any migration.
THEOREM MigrationsAreWhole == Spec => []SchemaMatchesVersion
<1>1. Spec => [](LifeInv /\ SchemaInv)
  BY LifeInit, LifeStep, SchemaInit, SchemaStep, PTL DEF Spec
<1> QED BY <1>1, PTL DEF SchemaInv

-----------------------------------------------------------------------------
(* Types.                                                                  *)

\* What LifeInv leaves open of the types.
OtherTypes ==
  /\ lock \in Daemon \cup {None} /\ socket \in Daemon \cup {None}
  /\ schema.version \in Nat /\ schema.applied \subseteq Nat
  /\ txn \in [target : Nat, ran : Nat] \cup {None}
  /\ job \in [JobId -> Row \cup {None}]
  /\ alive \subseteq JobId
  /\ watcher \in [JobId -> Daemon \cup {None}]
  /\ paused \in BOOLEAN
  /\ conns \subseteq [from : Client, to : Daemon, n : Nat,
                      kind : {"submit", "pause", "list", "resume", "shutdown"}]

LEMMA LabelsTogether ==
  Before \cup After = {"submit", "resend", "start", "starting", "look", "check", "pause",
                       "refuse", "wait", "resume", "stop", "shutdown", "stopping",
                       "install", "accepted", "done", "failed"}
BY DEF Before, After

LEMMA TypeInit == Init => TypeOK
<1> SUFFICES ASSUME Init PROVE TypeOK
  OBVIOUS
<1>1. \E serving, legacy \in BOOLEAN, version \in Nat :
        /\ step = [d \in Daemon |-> IF d # First THEN "unborn"
                                   ELSE IF serving THEN "serving" ELSE "dead"]
        /\ lock = IF serving THEN First ELSE None
        /\ socket \in {First, None}
        /\ schema = [version |-> version,
                     applied |-> IF version = 0 /\ legacy THEN {1} ELSE 1..version]
  BY DaemonAssumption DEF Init, DaemonInit
<1>2. schema.version \in Nat /\ schema.applied \subseteq Nat
  BY <1>1
<1>3. /\ lock \in Daemon \cup {None} /\ socket \in Daemon \cup {None}
      /\ step \in [Daemon -> {"unborn", "serving", "dead"}]
  BY <1>1 DEF Daemon
<1>4. command \in [Client -> Programs] /\ Shapes
  BY LifeInit, CommandsAssumption DEF Init, LifeInv
<1>5. OtherTypes
  BY <1>2, <1>3 DEF Init, DaemonInit, OtherTypes, Row
<1> QED BY <1>4, <1>5, LabelsTogether DEF TypeOK, OtherTypes, Shapes, Steps

LEMMA OtherTypesStep == LifeInv /\ OtherTypes /\ [Next]_vars => OtherTypes'
<1> SUFFICES ASSUME LifeInv, OtherTypes, [Next]_vars PROVE OtherTypes'
  OBVIOUS
<1> USE DEF OtherTypes, Row, lifeVars, tableVars, jobVars, At
<1>1. ASSUME NEW c \in Client, ClientStep(c) \/ Interrupt(c) PROVE OtherTypes'
  <2>1. CASE Ask(c)
    <3>1. socket \in Daemon /\ sent[c] + 1 \in Nat
      BY <2>1 DEF Ask, Listening, LifeInv, Shapes
    <3>2. Kind(pc[c]) \in {"submit", "pause", "list", "resume", "shutdown"}
      BY <2>1 DEF Ask, Asking, Kind
    <3> QED BY <2>1, <3>1, <3>2 DEF Ask, UnchangedByClient
  <2>2. CASE StartDaemon(c)
    BY <2>2 DEF StartDaemon, UnchangedByPing, UnchangedByClient
  <2>3. CASE ~Ask(c) /\ ~StartDaemon(c)
    BY <1>1, <2>3 DEF ClientStep, Receive, RequestFails, AwaitDaemon, LookAtChild,
       StartTimesOut, StopDaemon, AwaitStop, CheckDaemon, WaitForJobs, Refuse, Install,
       Interrupt, UnchangedByPing, UnchangedByClient
  <2> QED BY <2>1, <2>2, <2>3
<1>2. ASSUME NEW d \in Daemon, DaemonStep(d) PROVE OtherTypes'
  <2>1. CASE BeginMigration(d)
    BY <2>1 DEF BeginMigration
  <2>2. CASE RunStatement(d)
    BY <2>2 DEF RunStatement
  <2>3. CASE CommitMigration(d)
    BY <2>3 DEF CommitMigration, Committed
  <2>4. CASE Recover(d)
    BY <2>4 DEF Recover
  <2>5. CASE TakeLock(d) \/ LoseLock(d) \/ RemoveStale(d) \/ Listen(d) \/ RefuseSchema(d)
             \/ CloseServer(d) \/ CloseDatabase(d) \/ RemoveSocket(d) \/ Unlock(d)
    BY <2>5 DEF TakeLock, LoseLock, RemoveStale, Listen, RefuseSchema, CloseServer,
       CloseDatabase, RemoveSocket, Unlock
  <2>6. CASE Handle(d)
    <3> PICK m \in conns :
          \/ HandleSubmit(m) \/ HandlePause(m) \/ HandleList(m)
          \/ HandleResume(m) \/ HandleShutdown(m)
      BY <2>6 DEF Handle
    <3>0. UNCHANGED <<lock, socket, tableVars, alive, watcher>>
      BY <2>6 DEF Handle
    <3>1. CASE HandleSubmit(m)
      BY <3>0, <3>1 DEF HandleSubmit
    <3>2. CASE HandlePause(m)
      BY <3>0, <3>2 DEF HandlePause
    <3>3. CASE HandleList(m)
      BY <3>0, <3>3 DEF HandleList
    <3>4. CASE HandleResume(m)
      BY <3>0, <3>4 DEF HandleResume
    <3>5. CASE HandleShutdown(m)
      BY <3>0, <3>5 DEF HandleShutdown
    <3> QED BY <3>1, <3>2, <3>3, <3>4, <3>5
  <2>7. CASE \E j \in JobId : EndJob(d, j)
    BY <2>7 DEF EndJob, HasState
  <2> QED BY <1>2, <2>1, <2>2, <2>3, <2>4, <2>5, <2>6, <2>7 DEF DaemonStep
<1>3. ASSUME NEW d \in Daemon, Crash(d) PROVE OtherTypes'
  BY <1>3 DEF Crash
<1>4. ASSUME NEW d \in Daemon, NEW j \in JobId, StartJob(d, j) PROVE OtherTypes'
  BY <1>4 DEF StartJob, HasState
<1>5. ASSUME NEW j \in JobId, ProcessEnds(j) PROVE OtherTypes'
  BY <1>5 DEF ProcessEnds
<1>6. CASE UNCHANGED vars
  BY <1>6 DEF vars, daemonVars
<1> QED BY <1>1, <1>2, <1>3, <1>4, <1>5, <1>6 DEF Next, DaemonNext

\* What the clients run never changes.
LEMMA CommandsStay == [Next]_vars => command' = command
BY DEF vars, clientVars, Next, ClientStep, Ask, Receive, RequestFails, StartDaemon,
   AwaitDaemon, LookAtChild, StartTimesOut, StopDaemon, AwaitStop, CheckDaemon, WaitForJobs,
   Refuse, Install, Interrupt, Goto

LEMMA TypeStep == LifeInv /\ TypeOK /\ [Next]_vars => TypeOK'
<1> SUFFICES ASSUME LifeInv, TypeOK, [Next]_vars PROVE TypeOK'
  OBVIOUS
<1>1. OtherTypes'
  BY OtherTypesStep DEF TypeOK, OtherTypes
<1>2. LifeInv' /\ command' \in [Client -> Programs]
  BY LifeStep, CommandsStay DEF TypeOK
<1> QED BY <1>1, <1>2, LabelsTogether DEF LifeInv, TypeOK, OtherTypes, Shapes, Steps

\* Every variable keeps its type.
THEOREM TypeCorrect == Spec => []TypeOK
<1>1. Spec => [](LifeInv /\ TypeOK)
  BY LifeInit, LifeStep, TypeInit, TypeStep, PTL DEF Spec
<1> QED BY <1>1, PTL

-----------------------------------------------------------------------------
(* Keys.                                                                   *)

\* What happens to the rows that are there frees no key but by failure.
RowsStay ==
  \A j \in JobId :
    /\ job'[j] = None <=> job[j] = None
    /\ job[j] # None => /\ job'[j].from = job[j].from
                        /\ job[j].state = "FAILED" => job'[j].state = "FAILED"

LEMMA RowsStayOnce == SubmittedOnce /\ RowsStay => SubmittedOnce'
BY DEF SubmittedOnce, RowsStay

\* A submission adds a row only when no other keeps its key.
LEMMA SubmitOnce ==
  ASSUME TypeOK, SubmittedOnce, NEW m \in conns, HandleSubmit(m)
  PROVE  SubmittedOnce'
<1>1. CASE KeyTaken(m.from)
  BY <1>1 DEF HandleSubmit, SubmittedOnce
<1>2. CASE ~KeyTaken(m.from)
  <2> PICK j \in JobId : /\ NewId(j)
                         /\ job' = [job EXCEPT ![j] = [state |-> "WAITING", from |-> m.from]]
    BY <1>2 DEF HandleSubmit
  <2>1. job'[j].from = m.from /\ \A i \in JobId \ {j} : job'[i] = job[i]
    BY DEF TypeOK
  <2>2. \A i \in JobId :
          job[i] # None /\ KeyOf[m.from] # None /\ KeyOf[job[i].from] = KeyOf[m.from]
            => job[i].state = "FAILED"
    BY <1>2 DEF KeyTaken, HasState, TypeOK, Row
  <2> QED BY <2>1, <2>2 DEF SubmittedOnce
<1> QED BY <1>1, <1>2

\* Only a submission adds a row; nothing removes one.
LEMMA RowSteps ==
  ASSUME TypeOK, [Next]_vars
  PROVE  RowsStay \/ \E d \in Daemon, m \in conns : Handle(d) /\ HandleSubmit(m)
<1>1. ASSUME UNCHANGED job PROVE RowsStay
  BY <1>1 DEF RowsStay
<1>2. ASSUME NEW c \in Client, ClientStep(c) \/ Interrupt(c) PROVE UNCHANGED job
  BY <1>2 DEF ClientStep, Ask, Receive, RequestFails, StartDaemon, AwaitDaemon, LookAtChild,
     StartTimesOut, StopDaemon, AwaitStop, CheckDaemon, WaitForJobs, Refuse, Install,
     Interrupt, UnchangedByPing, UnchangedByClient, jobVars
<1>3. ASSUME NEW d \in Daemon, DaemonStep(d)
      PROVE  RowsStay \/ \E m \in conns : Handle(d) /\ HandleSubmit(m)
  <2>1. CASE Recover(d)
    <3>1. ASSUME NEW j \in JobId, job[j] # None
          PROVE  /\ job'[j] \in Row /\ job'[j].from = job[j].from
                 /\ job[j].state = "FAILED" => job'[j].state = "FAILED"
      BY <2>1, <3>1 DEF Recover, TypeOK, Row
    <3>2. ASSUME NEW j \in JobId, job[j] = None PROVE job'[j] = None
      BY <2>1, <3>2 DEF Recover
    <3> QED BY <3>1, <3>2, DaemonAssumption DEF RowsStay
  <2>2. CASE Handle(d)
    BY <2>2, <1>1 DEF Handle, HandlePause, HandleList, HandleResume, HandleShutdown
  <2>3. CASE \E j \in JobId : EndJob(d, j)
    <3> PICK j \in JobId : EndJob(d, j)
      BY <2>3
    <3>1. job[j] \in Row /\ job[j].state = "RUNNING"
      BY DEF EndJob, HasState, TypeOK
    <3>2. /\ \A i \in JobId : i # j => job'[i] = job[i]
          /\ job'[j] \in Row /\ job'[j].from = job[j].from
      BY <3>1 DEF EndJob, TypeOK, Row
    <3> QED BY <3>1, <3>2, DaemonAssumption DEF RowsStay
  <2>4. CASE TakeLock(d) \/ LoseLock(d) \/ RemoveStale(d) \/ BeginMigration(d)
             \/ RunStatement(d) \/ CommitMigration(d) \/ RefuseSchema(d) \/ Listen(d)
             \/ CloseServer(d) \/ CloseDatabase(d) \/ RemoveSocket(d) \/ Unlock(d)
    BY <2>4, <1>1 DEF TakeLock, LoseLock, RemoveStale, BeginMigration, RunStatement,
       CommitMigration, RefuseSchema, Listen, CloseServer, CloseDatabase, RemoveSocket, Unlock,
       jobVars
  <2> QED BY <1>3, <2>1, <2>2, <2>3, <2>4 DEF DaemonStep
<1>4. ASSUME NEW d \in Daemon, Crash(d) PROVE UNCHANGED job
  BY <1>4 DEF Crash, jobVars
<1>5. ASSUME NEW d \in Daemon, NEW j \in JobId, StartJob(d, j) PROVE RowsStay
  <2>1. job[j] \in Row /\ job[j].state = "WAITING"
    BY <1>5 DEF StartJob, HasState, TypeOK
  <2>2. /\ \A i \in JobId : i # j => job'[i] = job[i]
        /\ job'[j] \in Row /\ job'[j].from = job[j].from
    BY <1>5, <2>1 DEF StartJob, TypeOK, Row
  <2> QED BY <2>1, <2>2, DaemonAssumption DEF RowsStay
<1>6. ASSUME NEW j \in JobId, ProcessEnds(j) PROVE UNCHANGED job
  BY <1>6 DEF ProcessEnds
<1>7. CASE UNCHANGED vars
  BY <1>7, <1>1 DEF vars, daemonVars, jobVars
<1> QED BY <1>1, <1>2, <1>3, <1>4, <1>5, <1>6, <1>7 DEF Next, DaemonNext

LEMMA OnceStep == TypeOK /\ SubmittedOnce /\ [Next]_vars => SubmittedOnce'
BY RowSteps, RowsStayOnce, SubmitOnce

\* A submission with a key takes effect once, however often it is sent.
THEOREM KeysTakeEffectOnce == Spec => []SubmittedOnce
<1>1. Init => SubmittedOnce
  BY DEF Init, DaemonInit, SubmittedOnce
<1>2. Spec => [](LifeInv /\ TypeOK /\ SubmittedOnce)
  BY <1>1, LifeInit, LifeStep, TypeInit, TypeStep, OnceStep, PTL DEF Spec
<1> QED BY <1>2, PTL

-----------------------------------------------------------------------------
(* What submitters are told.                                               *)

\* A message answers the request it was sent as, and a submission that has an
\* answer is stored.
AnswersInv ==
  /\ \A m \in conns : /\ m.n # 0 /\ m.n <= sent[m.from]
                      /\ m.n = inbox[m.from].n =>
                           (m.kind = "submit" <=> pc[m.from] \in {"submit", "resend"})
  /\ \A c \in Client :
       /\ inbox[c].n <= sent[c]
       /\ pc[c] \in {"submit", "resend"} /\ Waiting(c) /\ inbox[c].answer # None =>
            Promise!Stored(c)

LEMMA AnswersInit == Init => AnswersInv
BY DEF Init, DaemonInit, AnswersInv, NotWaiting

\* What is stored stays stored.
LEMMA StoredStays ==
  ASSUME RowsStay, NEW c \in Client, Promise!Stored(c)
  PROVE  Promise!Stored(c)'
<1>1. PICK j \in JobId : /\ job[j] # None /\ job[j].from # None
                         /\ \/ job[j].from = c
                            \/ KeyOf[c] # None /\ KeyOf[job[j].from] = KeyOf[c]
  BY DaemonAssumption DEF Promise!Stored, Promise!SameKey, Daemon
<1>2. job'[j] # None /\ job'[j].from = job[j].from
  BY <1>1 DEF RowsStay
<1> QED BY <1>1, <1>2 DEF Promise!Stored, Promise!SameKey

\* A submission is stored when it has been handled: now, or under its key before.
LEMMA StoresIt ==
  ASSUME TypeOK, NEW m \in conns, HandleSubmit(m)
  PROVE  /\ Promise!Stored(m.from)'
         /\ \A c \in Client : Promise!Stored(c) => Promise!Stored(c)'
<1>0. m.from \in Client /\ m.from # None
  BY DaemonAssumption DEF TypeOK, Daemon
<1>1. CASE KeyTaken(m.from)
  <2>1. RowsStay
    BY <1>1 DEF HandleSubmit, RowsStay
  <2>2. Promise!Stored(m.from)
    <3> PICK j \in JobId : /\ HasState(j, {"WAITING", "RUNNING", "DONE"})
                           /\ KeyOf[m.from] # None /\ KeyOf[job[j].from] = KeyOf[m.from]
      BY <1>1 DEF KeyTaken
    <3>1. job[j] # None /\ job[j].from \in Client
      BY DEF HasState, TypeOK, Row
    <3>2. job[j].from # None
      BY <3>1, DaemonAssumption DEF Daemon
    <3> QED BY <3>1, <3>2 DEF Promise!Stored, Promise!SameKey
  <2> QED BY <1>0, <2>1, <2>2, StoredStays
<1>2. CASE ~KeyTaken(m.from)
  <2> PICK j \in JobId : /\ NewId(j)
                         /\ job' = [job EXCEPT ![j] = [state |-> "WAITING", from |-> m.from]]
    BY <1>2 DEF HandleSubmit
  <2>1. /\ job'[j] # None /\ job'[j].from = m.from
        /\ \A i \in JobId \ {j} : job'[i] = job[i]
    BY <1>0, DaemonAssumption DEF TypeOK, Row
  <2>2. job[j] = None
    BY DEF NewId
  <2>3. Promise!Stored(m.from)'
    BY <2>1 DEF Promise!Stored
  <2>4. ASSUME NEW c \in Client, Promise!Stored(c) PROVE Promise!Stored(c)'
    <3>1. PICK i \in JobId : /\ job[i] # None
                             /\ \/ job[i].from = c
                                \/ KeyOf[c] # None /\ KeyOf[job[i].from] = KeyOf[c]
      BY <2>4, DaemonAssumption DEF Promise!Stored, Promise!SameKey, Daemon
    <3>2. i # j /\ job'[i] = job[i] /\ job[i].from # None
      BY <2>1, <2>2, <3>1, DaemonAssumption DEF TypeOK, Row, Daemon
    <3> QED BY <3>1, <3>2 DEF Promise!Stored, Promise!SameKey
  <2> QED BY <2>3, <2>4
<1> QED BY <1>1, <1>2

\* A client's move to another label: it waits for nothing, or leaves its request.
LEMMA AnswersMove ==
  ASSUME LifeInv, TypeOK, AnswersInv, NEW c \in Client, NEW label,
         UNCHANGED <<job, conns, sent>>, pc' = [pc EXCEPT ![c] = label],
         \/ UNCHANGED inbox /\ ~Asking(c)
         \/ inbox' = [inbox EXCEPT ![c] = NotWaiting]
  PROVE  AnswersInv'
<1>1. /\ inbox'[c].n = 0
      /\ \A e \in Client : e # c => pc'[e] = pc[e] /\ inbox'[e] = inbox[e]
  BY DEF LifeInv, Shapes, WaitsForAnswer, Waiting, NotWaiting
<1>2. \A e \in Client : Promise!Stored(e)' <=> Promise!Stored(e)
  BY DEF Promise!Stored, Promise!SameKey
<1>3. \A m \in conns : m.from \in Client
  BY DEF TypeOK
<1>4. sent[c] \in Nat
  BY DEF LifeInv, Shapes
<1>5. ASSUME NEW m \in conns'
      PROVE  /\ m.n # 0 /\ m.n <= sent'[m.from]
             /\ m.n = inbox'[m.from].n =>
                  (m.kind = "submit" <=> pc'[m.from] \in {"submit", "resend"})
  BY <1>1, <1>3 DEF AnswersInv
<1>6. ASSUME NEW e \in Client
      PROVE  /\ inbox'[e].n <= sent'[e]
             /\ pc'[e] \in {"submit", "resend"} /\ inbox'[e].n # 0 /\ inbox'[e].answer # None =>
                  Promise!Stored(e)'
  BY <1>1, <1>2, <1>4 DEF AnswersInv, Waiting
<1> QED BY <1>5, <1>6 DEF AnswersInv, Waiting

LEMMA AnswersAsk ==
  ASSUME LifeInv, TypeOK, AnswersInv, NEW c \in Client, Ask(c)
  PROVE  AnswersInv'
<1> DEFINE r == [from |-> c, to |-> socket, kind |-> Kind(pc[c]), n |-> sent[c] + 1]
<1>1. /\ UNCHANGED <<job, pc>> /\ conns' = conns \cup {r}
      /\ inbox' = [inbox EXCEPT ![c] = [n |-> sent[c] + 1, answer |-> None]]
      /\ sent' = [sent EXCEPT ![c] = @ + 1]
      /\ pc[c] \in {"submit", "resend", "pause", "resume", "shutdown"}
  BY DEF Ask, Asking, UnchangedByClient, jobVars
<1>2. /\ sent[c] \in Nat /\ sent'[c] = sent[c] + 1
      /\ inbox'[c].n = sent[c] + 1 /\ inbox'[c].answer = None
      /\ \A e \in Client : e # c => sent'[e] = sent[e] /\ inbox'[e] = inbox[e]
  BY <1>1 DEF LifeInv, Shapes
<1>3. /\ r.from = c /\ r.n = sent[c] + 1
      /\ r.kind = "submit" <=> pc[c] \in {"submit", "resend"}
  BY <1>1 DEF Kind
<1> HIDE DEF r
<1>4. \A m \in conns : m.from \in Client /\ m.n \in Nat
  BY DEF TypeOK
<1>5. \A e \in Client : Promise!Stored(e)' <=> Promise!Stored(e)
  BY <1>1 DEF Promise!Stored, Promise!SameKey
<1>6. ASSUME NEW m \in conns'
      PROVE  /\ m.n # 0 /\ m.n <= sent'[m.from]
             /\ m.n = inbox'[m.from].n =>
                  (m.kind = "submit" <=> pc'[m.from] \in {"submit", "resend"})
  <2>1. CASE m = r
    BY <1>1, <1>2, <1>3, <2>1
  <2>2. CASE m \in conns /\ m.from = c
    BY <1>2, <1>4, <2>2 DEF AnswersInv
  <2>3. CASE m \in conns /\ m.from # c
    BY <1>1, <1>2, <1>4, <2>3 DEF AnswersInv
  <2> QED BY <1>1, <2>1, <2>2, <2>3
<1>7. ASSUME NEW e \in Client
      PROVE  /\ inbox'[e].n <= sent'[e]
             /\ pc'[e] \in {"submit", "resend"} /\ inbox'[e].n # 0 /\ inbox'[e].answer # None =>
                  Promise!Stored(e)'
  BY <1>1, <1>2, <1>5 DEF AnswersInv, Waiting
<1> QED BY <1>6, <1>7 DEF AnswersInv, Waiting

\* A daemon's answer, and all that takes requests away.
LEMMA AnswersHandle ==
  ASSUME LifeInv, TypeOK, AnswersInv, NEW d \in Daemon, Handle(d), UNCHANGED clientVars
  PROVE  AnswersInv'
<1> USE DEF clientVars
<1>1. PICK m \in conns :
        /\ m.to = d
        /\ \/ HandleSubmit(m) \/ HandlePause(m) \/ HandleList(m)
           \/ HandleResume(m) \/ HandleShutdown(m)
  BY DEF Handle
<1>2. /\ m.from \in Client /\ m.n \in Nat
      /\ \A o \in conns : o.from \in Client
  BY DEF TypeOK
<1>3. /\ ActiveJobs \in SUBSET JobId /\ {} \in SUBSET JobId
      /\ UNCHANGED <<pc, sent>>
  BY DEF ActiveJobs
<1>4. /\ \A c \in Client : inbox'[c].n = inbox[c].n
      /\ \A c \in Client : c # m.from => inbox'[c] = inbox[c]
      /\ inbox[m.from].n # m.n \/ m.kind = "pause" => inbox'[m.from] = inbox[m.from]
  BY <1>1, <1>2, <1>3 DEF LifeInv, Shapes, Reply, HandleSubmit, HandlePause, HandleList,
     HandleResume, HandleShutdown
<1>5. /\ conns' \subseteq conns \cup {[m EXCEPT !.kind = "list"]}
      /\ m.kind # "pause" => conns' \subseteq conns
  BY <1>1 DEF HandleSubmit, HandlePause, HandleList, HandleResume, HandleShutdown
<1>6. \A c \in Client : Promise!Stored(c) => Promise!Stored(c)'
  <2>1. CASE HandleSubmit(m)
    BY <2>1, StoresIt
  <2>2. CASE ~HandleSubmit(m)
    BY <1>1, <2>2 DEF HandlePause, HandleList, HandleResume, HandleShutdown,
       Promise!Stored, Promise!SameKey
  <2> QED BY <2>1, <2>2
<1>7. ASSUME NEW o \in conns'
      PROVE  /\ o.n # 0 /\ o.n <= sent[o.from]
             /\ o.n = inbox'[o.from].n =>
                  (o.kind = "submit" <=> pc[o.from] \in {"submit", "resend"})
  <2>1. CASE o \in conns
    BY <1>2, <1>4, <2>1 DEF AnswersInv
  <2>2. CASE o \notin conns
    <3>1. m.kind = "pause" /\ o.from = m.from /\ o.n = m.n /\ o.kind = "list"
      BY <1>5, <2>2 DEF TypeOK
    <3> QED BY <1>2, <1>4, <3>1 DEF AnswersInv
  <2> QED BY <2>1, <2>2
<1>8. ASSUME NEW c \in Client
      PROVE  /\ inbox'[c].n <= sent[c]
             /\ pc[c] \in {"submit", "resend"} /\ inbox'[c].n # 0 /\ inbox'[c].answer # None =>
                  Promise!Stored(c)'
  <2>1. CASE c = m.from /\ inbox[c].n = m.n /\ m.kind # "pause" /\ pc[c] \in {"submit", "resend"}
    <3>1. m.kind = "submit"
      BY <2>1 DEF AnswersInv
    <3>2. HandleSubmit(m)
      BY <1>1, <3>1 DEF HandlePause, HandleList, HandleResume, HandleShutdown
    <3>3. Promise!Stored(m.from)'
      BY <3>2, StoresIt
    <3> QED BY <1>4, <2>1, <3>3 DEF AnswersInv
  <2>2. CASE c # m.from \/ inbox[c].n # m.n \/ m.kind = "pause"
    BY <1>4, <1>6, <2>2 DEF AnswersInv, Waiting
  <2>3. CASE pc[c] \notin {"submit", "resend"}
    BY <1>4, <2>3 DEF AnswersInv
  <2> QED BY <2>1, <2>2, <2>3
<1> QED BY <1>3, <1>7, <1>8 DEF AnswersInv, Waiting

LEMMA AnswersStep == LifeInv /\ TypeOK /\ AnswersInv /\ [Next]_vars => AnswersInv'
<1> SUFFICES ASSUME LifeInv, TypeOK, AnswersInv, [Next]_vars PROVE AnswersInv'
  OBVIOUS
<1>1. ASSUME NEW c \in Client, ClientStep(c) \/ Interrupt(c) PROVE AnswersInv'
  <2>1. CASE Ask(c)
    BY <2>1, AnswersAsk
  <2>2. CASE ~Ask(c)
    <3>1. /\ UNCHANGED <<job, conns, sent>>
          /\ \/ UNCHANGED inbox /\ ~Asking(c)
             \/ inbox' = [inbox EXCEPT ![c] = NotWaiting]
      BY <1>1, <2>2 DEF ClientStep, Receive, RequestFails, StartDaemon, AwaitDaemon,
         LookAtChild, StartTimesOut, StopDaemon, AwaitStop, CheckDaemon, WaitForJobs, Refuse,
         Install, Interrupt, UnchangedByPing, UnchangedByClient, jobVars, Asking
    <3>2. PICK label : pc' = [pc EXCEPT ![c] = label]
      BY <1>1, <2>2 DEF ClientStep, Receive, RequestFails, StartDaemon, AwaitDaemon,
         LookAtChild, StartTimesOut, StopDaemon, AwaitStop, CheckDaemon, WaitForJobs, Refuse,
         Install, Interrupt, Goto
    <3> QED BY <3>1, <3>2, AnswersMove
  <2> QED BY <2>1, <2>2
<1>2. ASSUME UNCHANGED <<inbox, clientVars>>, conns' \subseteq conns, RowsStay
      PROVE  AnswersInv'
  <2>1. UNCHANGED <<inbox, pc, sent>>
    BY <1>2 DEF clientVars
  <2> QED BY <1>2, <2>1, StoredStays DEF AnswersInv, Waiting
<1>3. CASE DaemonNext /\ UNCHANGED clientVars
  <2>1. CASE \E d \in Daemon : Handle(d)
    BY <1>3, <2>1, AnswersHandle
  <2>2. CASE ~\E d \in Daemon : Handle(d)
    <3>1. UNCHANGED inbox /\ conns' \subseteq conns
      BY <1>3, <2>2 DEF DaemonNext, DaemonStep, TakeLock, LoseLock, RemoveStale,
         BeginMigration, RunStatement, CommitMigration, RefuseSchema, Recover, Listen, EndJob,
         CloseServer, CloseDatabase, RemoveSocket, Unlock, Crash, StartJob, ProcessEnds
    <3>2. RowsStay
      BY <2>2, RowSteps
    <3> QED BY <1>2, <1>3, <3>1, <3>2
  <2> QED BY <2>1, <2>2
<1>4. CASE UNCHANGED vars
  <2>1. RowsStay
    BY <1>4 DEF vars, daemonVars, jobVars, RowsStay
  <2> QED BY <1>2, <1>4, <2>1 DEF vars, daemonVars
<1> QED BY <1>1, <1>3, <1>4 DEF Next

\* A step that changes neither rows nor who was told something.
PromiseStep == Promise!Next \/ UNCHANGED Promise!submissionVars

LEMMA PromiseFrame ==
  ASSUME UNCHANGED job, {c \in Client : pc'[c] = "accepted"} = {c \in Client : pc[c] = "accepted"}
  PROVE  PromiseStep
BY DEF PromiseStep, Promise!submissionVars, HasState

\* Rows that stay may fail.
LEMMA PromiseFails ==
  ASSUME TypeOK, RowsStay, UNCHANGED pc PROVE PromiseStep
<1> DEFINE R == {j \in JobId : HasState(j, {"FAILED"})'}
<1>1. \A j \in R : job[j] # None /\ job[j].from # None
  BY DaemonAssumption DEF RowsStay, HasState, TypeOK, Row, Daemon
<1>2. {j \in JobId : HasState(j, {"FAILED"})} \subseteq R
  BY DEF RowsStay, HasState
<1>3. \A j \in JobId : (IF job'[j] = None THEN None ELSE job'[j].from)
                         = (IF job[j] = None THEN None ELSE job[j].from)
  BY DEF RowsStay
<1>4. R = {j \in JobId : HasState(j, {"FAILED"})} \cup R
  BY <1>2
<1>5. Promise!Fail(R)
  <2>1. \A j \in R : (IF job[j] = None THEN None ELSE job[j].from) # None
    BY <1>1
  <2> QED BY <1>3, <1>4, <2>1 DEF Promise!Fail
<1> QED BY <1>5 DEF PromiseStep, Promise!Next

LEMMA PromiseStores ==
  ASSUME TypeOK, NEW m \in conns, HandleSubmit(m), UNCHANGED pc PROVE PromiseStep
<1>1. m.from \in Client /\ m.from # None
  BY DaemonAssumption DEF TypeOK, Daemon
<1>2. CASE KeyTaken(m.from)
  BY <1>2, PromiseFrame DEF HandleSubmit
<1>3. CASE ~KeyTaken(m.from)
  <2> PICK j \in JobId : /\ NewId(j)
                         /\ job' = [job EXCEPT ![j] = [state |-> "WAITING", from |-> m.from]]
    BY <1>3 DEF HandleSubmit
  <2>1. /\ job[j] = None /\ job'[j] # None /\ job'[j].from = m.from
        /\ job'[j].state = "WAITING" /\ \A i \in JobId \ {j} : job'[i] = job[i]
    BY <1>1, DaemonAssumption DEF TypeOK, Row, NewId
  <2>2. \A i \in JobId : (IF job'[i] = None THEN None ELSE job'[i].from)
                           = IF i = j THEN m.from
                             ELSE IF job[i] = None THEN None ELSE job[i].from
    BY <2>1
  <2>3. \A i \in JobId : HasState(i, {"FAILED"})' <=> HasState(i, {"FAILED"})
    BY <2>1 DEF HasState
  <2>4. ASSUME NEW i \in JobId, job[i] # None, KeyOf[m.from] # None,
               KeyOf[job[i].from] = KeyOf[m.from]
        PROVE  HasState(i, {"FAILED"})
    BY <1>3, <2>4 DEF KeyTaken, HasState, TypeOK, Row
  <2>5. \A i \in JobId : Promise!SameKey(m.from, i) => HasState(i, {"FAILED"})
    BY <2>4 DEF Promise!SameKey
  <2>6. Promise!Store(m.from, j)
    BY <2>1, <2>2, <2>3, <2>5 DEF Promise!Store
  <2> QED BY <1>1, <2>6 DEF PromiseStep, Promise!Next
<1> QED BY <1>2, <1>3

\* Only the answer to a submission makes a client believe that it is accepted.
LEMMA PromiseClients ==
  ASSUME LifeInv, AnswersInv, NEW c \in Client, ClientStep(c) \/ Interrupt(c)
  PROVE  PromiseStep
<1>1. (UNCHANGED job /\ pc[c] # "accepted") \/ UNCHANGED <<job, pc>>
  BY DEF ClientStep, Ask, Receive, RequestFails, StartDaemon, AwaitDaemon, LookAtChild,
     StartTimesOut, StopDaemon, AwaitStop, CheckDaemon, WaitForJobs, Refuse, Install,
     Interrupt, UnchangedByPing, UnchangedByClient, jobVars, LifeInv, WaitsForAnswer, Asking, Over
<1>2. CASE Receive(c) /\ pc[c] \in {"submit", "resend"}
  <2>1. /\ pc' = [pc EXCEPT ![c] = "accepted"]
        /\ Promise!Stored(c)
    BY <1>2 DEF Receive, AfterAnswer, Goto, AnswersInv
  <2>2. {e \in Client : pc'[e] = "accepted"} = {e \in Client : pc[e] = "accepted"} \cup {c}
    BY <2>1 DEF LifeInv, Shapes
  <2>3. Promise!Accept(c)
    BY <1>1, <2>1, <2>2 DEF Promise!Accept, HasState
  <2> QED BY <2>3 DEF PromiseStep, Promise!Next
<1>3. CASE ~(Receive(c) /\ pc[c] \in {"submit", "resend"})
  <2>1. UNCHANGED pc \/ \E label : label # "accepted" /\ pc' = [pc EXCEPT ![c] = label]
    <3>1. CASE Receive(c)
      <4>1. pc[c] \in {"pause", "resume", "shutdown"}
        BY <1>3, <3>1 DEF Receive, LifeInv, WaitsForAnswer, Asking
      <4>2. AfterAnswer(c) # "accepted"
        BY <4>1 DEF AfterAnswer
      <4> QED BY <3>1, <4>2 DEF Receive, Goto
    <3>2. CASE ~Receive(c)
      BY <3>2 DEF ClientStep, Ask, RequestFails, StartDaemon, AwaitDaemon, LookAtChild,
         StartTimesOut, StopDaemon, AwaitStop, CheckDaemon, WaitForJobs, Refuse, Install,
         Interrupt, Goto, Started, Stopped
    <3> QED BY <3>1, <3>2
  <2>2. {e \in Client : pc'[e] = "accepted"} = {e \in Client : pc[e] = "accepted"}
    BY <1>1, <2>1 DEF LifeInv, Shapes
  <2> QED BY <1>1, <2>2, PromiseFrame
<1> QED BY <1>2, <1>3

\* Every behaviour of daemons and clients is one Submissions allows: a client
\* hears that its job is accepted only once it is stored, rows stay, and no key
\* has two, through late answers, second attempts, crashes, shutdowns and updates.
THEOREM ClientsImplementSubmissions == Spec => ImplementsSubmissions
<1>1. Init => Promise!Init
  <2> SUFFICES ASSUME Init PROVE Promise!Init
    OBVIOUS
  <2>1. \A c \in Client : pc[c] # "accepted"
    <3>1. command \in [Client -> Programs]
      BY CommandsAssumption DEF Init
    <3> QED BY <3>1 DEF Init, FirstLabel, Updating, Programs
  <2> QED BY <2>1 DEF Init, DaemonInit, Promise!Init, HasState
<1>2. LifeInv /\ TypeOK /\ AnswersInv /\ [Next]_vars
        => [Promise!Next]_(Promise!submissionVars)
  <2> SUFFICES ASSUME LifeInv, TypeOK, AnswersInv, [Next]_vars PROVE PromiseStep
    BY DEF PromiseStep
  <2>1. CASE \E c \in Client : ClientStep(c) \/ Interrupt(c)
    BY <2>1, PromiseClients
  <2>2. CASE UNCHANGED clientVars
    BY <2>2, RowSteps, PromiseFails, PromiseStores DEF clientVars
  <2> QED BY <2>1, <2>2 DEF Next, vars
<1>3. Spec => [](LifeInv /\ TypeOK /\ AnswersInv)
  BY LifeInit, LifeStep, TypeInit, TypeStep, AnswersInit, AnswersStep, PTL DEF Spec
<1> QED BY <1>1, <1>2, <1>3, PTL DEF Spec, ImplementsSubmissions, Promise!Spec
=============================================================================
