------------------------- MODULE ClientsProperties -------------------------
(***************************************************************************)
(* What must hold of the daemons and the commands that use them.           *)
(***************************************************************************)
EXTENDS Clients

\* Every variable has its type.
TypeOK ==
  /\ step \in [Daemon -> {"unborn", "spawned", "locked", "migrating", "ready", "serving",
                          "stopping", "draining", "closed", "unlinked", "dead", "killed"}]
  /\ lock \in Daemon \cup {None} /\ socket \in Daemon \cup {None}
  /\ schema.version \in Nat /\ schema.applied \subseteq Nat
  /\ txn \in [target : Nat, ran : Nat] \cup {None}
  /\ job \in [JobId -> Row \cup {None}]
  /\ alive \subseteq JobId
  /\ watcher \in [JobId -> Daemon \cup {None}]
  /\ paused \in BOOLEAN
  /\ conns \subseteq [from : Client, to : Daemon, n : Nat,
                      kind : {"submit", "pause", "list", "resume", "shutdown"}]
  /\ inbox \in [Client -> [n : Nat, answer : (SUBSET JobId) \cup {None}]]
  /\ command \in [Client -> Programs]
  /\ pc \in [Client -> {"submit", "resend", "start", "starting", "look", "check", "pause",
                        "refuse", "wait", "resume", "stop", "shutdown", "stopping",
                        "install", "accepted", "done", "failed"}]
  /\ sent \in [Client -> Nat]

\* Only the process with the instance lock touches the database, and clients
\* reach it: the socket path names its socket for as long as it listens, whoever
\* else starts, fails to start, stops or crashes meanwhile.
ServingDaemonIsReached ==
  \A d \in Daemon :
    /\ step[d] \in {"locked", "migrating", "ready", "serving", "stopping", "draining",
                    "closed", "unlinked"}
         => lock = d
    /\ step[d] \in {"serving", "stopping"} => socket = d

\* "A partially applied migration cannot survive a crash" (database.py:52):
\* user_version always tells which statements the tables have seen, so a later
\* start neither repeats nor skips one.
SchemaMatchesVersion ==
  \/ schema.applied = 1..schema.version
  \/ schema.version = 0 /\ schema.applied = {1}

\* A submission with a key takes effect once, though it is sent again after a
\* lost or late answer, a crash or a restart, and though another client
\* submits the same key: of the rows with a key at most one has not FAILED.
SubmittedOnce ==
  \A i, j \in JobId :
    /\ i # j /\ job[i] # None /\ job[j] # None
    /\ KeyOf[job[i].from] # None /\ KeyOf[job[i].from] = KeyOf[job[j].from]
    => "FAILED" \in {job[i].state, job[j].state}

Promise == INSTANCE Submissions WITH
  Row <- JobId,
  owner <- [j \in JobId |-> IF job[j] = None THEN None ELSE job[j].from],
  failed <- {j \in JobId : HasState(j, {"FAILED"})},
  accepted <- {c \in Client : pc[c] = "accepted"}

\* What a client is told is so: through late answers, second attempts, shutdowns,
\* crashes, migrations and updates, daemons and clients do only what Submissions
\* allows. A client hears that its job is accepted only once a daemon has stored
\* it, no daemon loses a row, and no second row comes under a key in use.
ImplementsSubmissions == Promise!Spec

\* gq update, with --wait or without, loses no exit status (cli.py:637): however
\* requests and pings are delayed and whoever submits or starts a daemon
\* meanwhile, no job outlives the daemon that started it, unless a daemon was
\* killed (the next one forgets the pause), or somebody ran gq daemon stop,
\* gq update --force or a second gq update.
UpdateLosesNoStatus ==
  (\E j \in JobId : HasState(j, {"FAILED"})) =>
      \/ \E d \in Daemon : step[d] = "killed"
      \/ \E c \in Client : command[c] \in {"stop", "update-force"}
      \/ \E c, e \in Client : c # e /\ Updating(c) /\ Updating(e)

\* All commands come to an end, whatever they were answered, and whether or not
\* the daemon lives.
CommandsEnd == <>(\A c \in Client : Over(c))
=============================================================================
