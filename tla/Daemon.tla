------------------------------- MODULE Daemon -------------------------------
(***************************************************************************)
(* The life of gq's daemon processes (daemon.py): the instance lock, the   *)
(* socket, the migration of the database (database.py), serving requests,  *)
(* shutdown and crash. Of the scheduler it keeps what outlives a request:  *)
(* the rows, the pause, and which daemon can learn a job's exit status.    *)
(***************************************************************************)
EXTENDS Integers, FiniteSets

CONSTANTS
  Client,    \* client programs; a daemon is named after the one that starts it
  First,     \* a daemon started before the clients
  KeyOf,     \* the key of each client's submission, or None
  MaxJobs,   \* bound: rows of the table
  Versions,  \* the schema versions the database may have at first
  Faults,    \* the kinds of failure that happen
  None

Daemon == Client \cup {First}
JobId  == 1..MaxJobs
Row    == [state : {"WAITING", "RUNNING", "DONE", "FAILED"}, from : Client]
FaultKinds == {"crash", "slow", "interrupt"}

ASSUME DaemonAssumption ==
  /\ First \notin Client /\ None \notin Daemon
  /\ \A S \in SUBSET JobId : None # S
  /\ \A r \in Row : None # r
  /\ MaxJobs \in Nat /\ Versions \subseteq Nat
  /\ Faults \subseteq FaultKinds

VARIABLES
  step,     \* how far each daemon process is
  lock,     \* the process that has the instance lock, or None
  socket,   \* whose socket the socket path names, or None
  schema,   \* the committed schema: user_version, and the versions whose
            \* statements have been applied
  txn,      \* the migration under way, not committed: its target and how many
            \* of its statements have run
  job,      \* the table: state and submitter of each row, or None
  alive,    \* the jobs whose processes live
  watcher,  \* the daemon whose child each job's process is, or None
  paused,   \* _paused
  conns,    \* requests sent to a daemon and not answered yet
  inbox     \* the request a client waits for (0: none), and its answer

lifeVars  == <<step, lock, socket>>
tableVars == <<schema, txn>>
jobVars   == <<job, alive, watcher, paused>>
daemonVars == <<lifeVars, tableVars, jobVars, conns, inbox>>

At(d, s) == step' = [step EXCEPT ![d] = s]

-----------------------------------------------------------------------------
(* Start: lock, socket, database, recovery, listening.                     *)

(* acquire_instance_lock.                                                  *)
TakeLock(d) ==
  /\ step[d] = "spawned" /\ lock = None
  /\ lock' = d
  /\ At(d, "locked")
  /\ UNCHANGED <<socket, tableVars, jobVars, conns, inbox>>

LoseLock_cleansUp(d) ==
  /\ step[d] = "spawned" /\ lock # None
  /\ At(d, "dead")
  /\ socket' = None
  /\ UNCHANGED <<lock, tableVars, jobVars, conns, inbox>>
LoseLock(d) ==
  /\ step[d] = "spawned" /\ lock # None
  /\ At(d, "dead")
  /\ UNCHANGED <<lock, socket, tableVars, jobVars, conns, inbox>>

(* The stale socket is removed, the database opened.                       *)
RemoveStale(d) ==
  /\ step[d] = "locked"
  /\ socket' = None
  /\ At(d, "migrating")
  /\ UNCHANGED <<lock, tableVars, jobVars, conns, inbox>>

SchemaVersion == 2
Statements == 2  \* of each migration; more would only repeat

(* migrate: one transaction for each version on the way.                   *)
BeginMigration(d) ==
  /\ step[d] = "migrating" /\ txn = None
  /\ schema.version < SchemaVersion
  /\ txn' = [target |-> schema.version + 1, ran |-> 0]
  /\ UNCHANGED <<lifeVars, schema, jobVars, conns, inbox>>

(* ALTER TABLE fails where the column is there already; the statements of  *)
(* the baseline are IF NOT EXISTS. The daemon ends on the error.           *)
Applies(target) == target = 1 \/ target \notin schema.applied

RunStatement(d) ==
  /\ step[d] = "migrating" /\ txn # None /\ txn.ran < Statements
  /\ IF Applies(txn.target)
     THEN /\ txn' = [txn EXCEPT !.ran = @ + 1]
          /\ UNCHANGED lifeVars
     ELSE /\ txn' = None
          /\ lock' = None
          /\ At(d, "dead")
          /\ UNCHANGED socket
  /\ UNCHANGED <<schema, jobVars, conns, inbox>>

(* user_version is part of the transaction.                                *)
Committed_bumpLater(t) ==
  [schema EXCEPT !.applied = @ \cup {t},
                 !.version = IF t \in schema.applied THEN t ELSE @]
Committed(t) == [version |-> t, applied |-> schema.applied \cup {t}]

CommitMigration(d) ==
  /\ step[d] = "migrating" /\ txn # None /\ txn.ran = Statements
  /\ schema' = Committed(txn.target)
  /\ txn' = None
  /\ UNCHANGED <<lifeVars, jobVars, conns, inbox>>

(* SchemaTooNew: the process ends, which frees its lock.                   *)
RefuseSchema(d) ==
  /\ step[d] = "migrating" /\ schema.version > SchemaVersion
  /\ At(d, "dead")
  /\ lock' = None
  /\ UNCHANGED <<socket, tableVars, jobVars, conns, inbox>>

(* initialize: a job that ended while no daemon watched it is FAILED.      *)
Recover(d) ==
  /\ step[d] = "migrating" /\ txn = None
  /\ schema.version = SchemaVersion
  /\ job' = [j \in JobId |->
               IF job[j] # None /\ job[j].state = "RUNNING" /\ j \notin alive
               THEN [job[j] EXCEPT !.state = "FAILED"] ELSE job[j]]
  /\ paused' = FALSE
  /\ At(d, "ready")
  /\ UNCHANGED <<lock, socket, tableVars, alive, watcher, conns, inbox>>

Listen(d) ==
  /\ step[d] = "ready"
  /\ socket' = d
  /\ At(d, "serving")
  /\ UNCHANGED <<lock, tableVars, jobVars, conns, inbox>>

-----------------------------------------------------------------------------
(* Serving.                                                                *)

(* A client can connect: the path names a socket somebody listens on.      *)
Listening_unasked == TRUE
Listening == \E d \in Daemon : socket = d /\ step[d] \in {"serving", "stopping"}

(* Handlers run until the database is closed.                              *)
Handles(d) == step[d] \in {"serving", "stopping", "draining"}

HasState(j, S) == job[j] # None /\ job[j].state \in S
ActiveJobs == {j \in JobId : HasState(j, {"RUNNING"})}

(* The answer reaches a client that still waits for this request.          *)
Reply(m, answer) ==
  inbox' = [inbox EXCEPT ![m.from] = IF @.n = m.n THEN [@ EXCEPT !.answer = answer]
                                     ELSE @]

KeyTaken_ifActive(c) ==
  KeyOf[c] # None /\ \E j \in JobId :
    HasState(j, {"WAITING", "RUNNING"}) /\ KeyOf[job[j].from] = KeyOf[c]
KeyTaken_orPaused(c) ==
  \/ paused
  \/ KeyOf[c] # None /\ \E j \in JobId :
       HasState(j, {"WAITING", "RUNNING", "DONE"}) /\ KeyOf[job[j].from] = KeyOf[c]
KeyTaken(c) ==
  KeyOf[c] # None /\ \E j \in JobId :
    HasState(j, {"WAITING", "RUNNING", "DONE"}) /\ KeyOf[job[j].from] = KeyOf[c]

NewId(j) == job[j] = None /\ \A i \in JobId : i < j => job[i] # None

(* submit: the row is committed before the answer. A duplicate is answered *)
(* too, with the job that has the key.                                     *)
HandleSubmit(m) ==
  /\ m.kind = "submit"
  /\ IF KeyTaken(m.from)
     THEN UNCHANGED job
     ELSE \E j \in JobId :
            /\ NewId(j)
            /\ job' = [job EXCEPT ![j] = [state |-> "WAITING", from |-> m.from]]
  /\ Reply(m, {})
  /\ conns' = conns \ {m}
  /\ UNCHANGED <<step, paused>>

(* pause_queue: pause; then take the lock again and list the active jobs.  *)
HandlePause(m) ==
  /\ m.kind = "pause"
  /\ paused' = TRUE
  /\ conns' = (conns \ {m}) \cup {[m EXCEPT !.kind = "list"]}
  /\ UNCHANGED <<step, job, inbox>>

HandleList(m) ==
  /\ m.kind = "list"
  /\ Reply(m, ActiveJobs)
  /\ conns' = conns \ {m}
  /\ UNCHANGED <<step, job, paused>>

HandleResume(m) ==
  /\ m.kind = "resume"
  /\ paused' = FALSE
  /\ Reply(m, {})
  /\ conns' = conns \ {m}
  /\ UNCHANGED <<step, job>>

HandleShutdown(m) ==
  /\ m.kind = "shutdown"
  /\ step' = [step EXCEPT ![m.to] = IF @ = "serving" THEN "stopping" ELSE @]
  /\ Reply(m, {})
  /\ conns' = conns \ {m}
  /\ UNCHANGED <<job, paused>>

Handle(d) ==
  /\ Handles(d)
  /\ \E m \in conns :
       /\ m.to = d
       /\ \/ HandleSubmit(m) \/ HandlePause(m) \/ HandleList(m)
          \/ HandleResume(m) \/ HandleShutdown(m)
  /\ UNCHANGED <<lock, socket, tableVars, alive, watcher>>

(* The scheduler works from the pass that ends initialize until it closes. *)
Schedules(d) == step[d] = "ready" \/ Handles(d)

(* A pass: the job's process is this daemon's child.                       *)
MayStart_always == TRUE
MayStart == ~paused

StartJob(d, j) ==
  /\ Schedules(d) /\ MayStart
  /\ HasState(j, {"WAITING"})
  /\ job' = [job EXCEPT ![j].state = "RUNNING"]
  /\ alive' = alive \cup {j}
  /\ watcher' = [watcher EXCEPT ![j] = d]
  /\ UNCHANGED <<lifeVars, tableVars, paused, conns, inbox>>

(* The monitor of the daemon that started the job has its exit status; any *)
(* other daemon can only tell that the process is gone. All commands of    *)
(* the model succeed: FAILED means that the exit status was lost.          *)
EndJob(d, j) ==
  /\ Schedules(d)
  /\ HasState(j, {"RUNNING"}) /\ j \notin alive
  /\ job' = [job EXCEPT ![j].state = IF watcher[j] = d THEN "DONE" ELSE "FAILED"]
  /\ UNCHANGED <<lifeVars, tableVars, alive, watcher, paused, conns, inbox>>

ProcessEnds(j) ==
  /\ j \in alive
  /\ alive' = alive \ {j}
  /\ UNCHANGED <<lifeVars, tableVars, job, watcher, paused, conns, inbox>>

-----------------------------------------------------------------------------
(* Shutdown: the finally clause of run, in its order.                      *)

CloseServer(d) ==
  /\ step[d] = "stopping"
  /\ At(d, "draining")
  /\ UNCHANGED <<lock, socket, tableVars, jobVars, conns, inbox>>

(* scheduler.close and database.close. Python 3.12 waits for the open      *)
(* connections first, 3.11 cuts off those that are left.                   *)
CloseDatabase(d) ==
  /\ step[d] = "draining"
  /\ conns' = {m \in conns : m.to # d}
  /\ At(d, "closed")
  /\ UNCHANGED <<lock, socket, tableVars, jobVars, inbox>>

RemoveSocket(d) ==
  /\ step[d] = "closed"
  /\ socket' = None
  /\ At(d, "unlinked")
  /\ UNCHANGED <<lock, tableVars, jobVars, conns, inbox>>

Unlock(d) ==
  /\ step[d] = "unlinked"
  /\ lock' = None
  /\ At(d, "dead")
  /\ UNCHANGED <<socket, tableVars, jobVars, conns, inbox>>

Ended == {"dead", "killed"}

(* A daemon is killed: the kernel frees its lock, SQLite rolls back, the   *)
(* socket file stays, and its jobs go on without it.                       *)
Crash(d) ==
  /\ "crash" \in Faults
  /\ step[d] \notin Ended \cup {"unborn"}
  /\ At(d, "killed")
  /\ lock' = IF lock = d THEN None ELSE lock
  /\ txn' = IF step[d] = "migrating" THEN None ELSE txn
  /\ conns' = {m \in conns : m.to # d}
  /\ UNCHANGED <<socket, schema, jobVars, inbox>>

-----------------------------------------------------------------------------
DaemonStep(d) ==
  \/ TakeLock(d) \/ LoseLock(d) \/ RemoveStale(d)
  \/ BeginMigration(d) \/ RunStatement(d) \/ CommitMigration(d) \/ RefuseSchema(d)
  \/ Recover(d) \/ Listen(d)
  \/ Handle(d)
  \/ \E j \in JobId : EndJob(d, j)
  \/ CloseServer(d) \/ CloseDatabase(d) \/ RemoveSocket(d) \/ Unlock(d)

NotWaiting == [n |-> 0, answer |-> None]

(* No daemon yet, perhaps a stale socket, or one that serves.              *)
DaemonInit ==
  /\ \E serving \in BOOLEAN, version \in Versions, legacy \in BOOLEAN :
       /\ serving => version = SchemaVersion
       /\ step = [d \in Daemon |-> IF d # First THEN "unborn"
                                   ELSE IF serving THEN "serving" ELSE "dead"]
       /\ lock = IF serving THEN First ELSE None
       /\ socket \in IF serving THEN {First} ELSE {First, None}
       /\ schema = [version |-> version,
                    applied |-> IF version = 0 /\ legacy THEN {1} ELSE 1..version]
  /\ txn = None
  /\ job = [j \in JobId |-> None]
  /\ alive = {}
  /\ watcher = [j \in JobId |-> None]
  /\ paused = FALSE
  /\ conns = {}
  /\ inbox = [c \in Client |-> NotWaiting]
=============================================================================
