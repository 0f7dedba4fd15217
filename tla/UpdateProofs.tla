---------------------------- MODULE UpdateProofs ----------------------------
(***************************************************************************)
(* gq update against the daemon it replaces and clients that use and start *)
(* daemons meanwhile: the proofs that it loses no exit status, and that it *)
(* leaves no queue paused where answers come in time, for any number of    *)
(* clients and jobs.                                                       *)
(***************************************************************************)
EXTENDS ClientsClaims, ClientsProofs

-----------------------------------------------------------------------------
(* The invariant.                                                          *)

\* What gq update promises to be careful about: no daemon is killed, nobody else
\* stops or updates, and running jobs are not to be ignored.
Calm ==
  /\ \A d \in Daemon : step[d] # "killed"
  /\ \A c \in Client : command[c] \notin {"stop", "update-force"}
  /\ \A c, e \in Client : Updating(c) /\ Updating(e) => c = e

Idle   == \A j \in JobId : ~HasState(j, {"RUNNING"})
Served == \E d \in Daemon : Handles(d)

\* Every running job is a child of the daemon that schedules.
Watched ==
  \A j \in JobId :
    /\ HasState(j, {"RUNNING"}) => watcher[j] \in Daemon /\ Schedules(watcher[j])
    /\ ~HasState(j, {"FAILED"})

\* Those that update do not submit, and the others do nothing else.
Labels ==
  \A c \in Client :
    IF Updating(c) THEN pc[c] \notin {"submit", "resend"}
    ELSE pc[c] \in {"submit", "start", "starting", "look", "resend", "accepted", "done",
                    "failed"}

\* A request is with a daemon that will handle it. The update has one request
\* out at a time: the one it waits for, or the last one before it gave up.
Messages ==
  \A m \in conns :
    /\ Handles(m.to) /\ m.n # 0
    /\ m.kind = "submit" <=> ~Updating(m.from)
    /\ Updating(m.from) =>
         /\ \A o \in conns : o.from = m.from => o = m
         /\ \/ pc[m.from] = "failed"
            \/ /\ inbox[m.from].n = m.n /\ inbox[m.from].answer = None
               /\ pc[m.from] = IF m.kind = "list" THEN "pause" ELSE m.kind

\* A daemon is stopped only by an update that has found nothing running, and
\* that will not resume the queue any more.
PastStop == {"stopping", "install", "start", "starting", "look", "done", "failed"}

StopsQuietly ==
  \A d \in Daemon : step[d] \in {"stopping", "draining"} =>
    /\ paused /\ Idle
    /\ \A m \in conns : m.kind # "resume"
    /\ \A c \in Client : Updating(c) =>
         pc[c] \in PastStop \/ (pc[c] = "shutdown" /\ Waiting(c))

\* What is on its way was sent to a queue that is still as it was.
PauseHolds ==
  /\ \A m \in conns : /\ m.kind = "shutdown" => paused /\ Idle
                      /\ m.kind = "list" => paused
  /\ \A c \in Client : Updating(c) =>
       /\ pc[c] = "stop" \/ (pc[c] = "shutdown" /\ ~Waiting(c)) => paused /\ Idle /\ Served
       /\ pc[c] = "wait" => paused /\ Served
       /\ pc[c] = "pause" /\ Waiting(c) /\ inbox[c].answer # None =>
            paused /\ Served /\ (inbox[c].answer = {} => Idle)

CalmInv == Watched /\ Labels /\ Messages /\ StopsQuietly /\ PauseHolds

UpdateInv == Calm => CalmInv

\* Nothing is under way at first.
LEMMA UpdateInit == Init => UpdateInv
<1> SUFFICES ASSUME Init, Calm PROVE CalmInv
  BY DEF UpdateInv
<1>1. command \in [Client -> Programs]
  BY CommandsAssumption DEF Init
<1>2. Labels
  BY <1>1 DEF Init, Labels, FirstLabel, Updating, Programs, Calm
<1>3. \A d \in Daemon : step[d] \in {"unborn", "serving", "dead"}
  BY DEF Init, DaemonInit
<1>4. Watched /\ Messages /\ StopsQuietly
  BY <1>3 DEF Init, DaemonInit, Watched, Messages, StopsQuietly, HasState
<1>5. PauseHolds
  <2>1. conns = {} /\ \A c \in Client : Updating(c) => pc[c] = "check"
    BY DEF Init, DaemonInit, FirstLabel
  <2> QED BY <2>1 DEF PauseHolds
<1> QED BY <1>2, <1>4, <1>5 DEF CalmInv

-----------------------------------------------------------------------------
(* Steps that a lemma covers together.                                     *)

\* Nobody forgets that a daemon was killed, or what the clients run.
LEMMA CalmBefore ==
  ASSUME LifeInv, Next, Calm'
  PROVE  Calm /\ command' = command
<1> USE DEF LifeInv, Shapes, Steps, lifeVars, At, UnchangedByClient, UnchangedByPing, Goto
<1>1. command' = command
  BY CommandsStay
<1>2. ASSUME NEW d \in Daemon, step[d] = "killed" PROVE step'[d] = "killed"
  <2>1. ASSUME NEW c \in Client, ClientStep(c) \/ Interrupt(c) PROVE step'[d] = "killed"
    <3>1. CASE StartDaemon(c)
      <4>1. pc[c] = "start" /\ (step' = step \/ step' = [step EXCEPT ![c] = "spawned"])
        BY <3>1 DEF StartDaemon
      <4>2. step[c] = "unborn"
        BY <4>1 DEF SpawnsOnce, After, Daemon
      <4> QED BY <1>2, <4>1, <4>2
    <3>2. CASE ~StartDaemon(c)
      BY <1>2, <2>1, <3>2 DEF ClientStep, Ask, Receive, RequestFails, AwaitDaemon,
         LookAtChild, StartTimesOut, StopDaemon, AwaitStop, CheckDaemon, WaitForJobs,
         Refuse, Install, Interrupt
    <3> QED BY <3>1, <3>2
  <2>2. ASSUME NEW e \in Daemon, DaemonStep(e) PROVE step'[d] = "killed"
    <3>1. CASE Handle(e)
      BY <1>2, <3>1 DEF Handle, HandleSubmit, HandlePause, HandleList, HandleResume,
         HandleShutdown
    <3>2. CASE \E j \in JobId : EndJob(e, j)
      BY <1>2, <3>2 DEF EndJob
    <3>3. CASE ~Handle(e) /\ ~\E j \in JobId : EndJob(e, j)
      BY <1>2, <2>2, <3>3 DEF DaemonStep, TakeLock, LoseLock, RemoveStale, BeginMigration,
         RunStatement, CommitMigration, RefuseSchema, Recover, Listen, CloseServer,
         CloseDatabase, RemoveSocket, Unlock
    <3> QED BY <3>1, <3>2, <3>3
  <2>3. ASSUME NEW e \in Daemon, Crash(e) PROVE step'[d] = "killed"
    BY <1>2, <2>3 DEF Crash, Ended
  <2>4. CASE \/ \E e \in Daemon, j \in JobId : StartJob(e, j)
             \/ \E j \in JobId : ProcessEnds(j)
    BY <1>2, <2>4 DEF StartJob, ProcessEnds
  <2> QED BY <2>1, <2>2, <2>3, <2>4 DEF Next, DaemonNext
<1> QED BY <1>1, <1>2 DEF Calm, Updating

\* The lock makes the daemon that handles, schedules or migrates the only one.
LEMMA OneAtWork ==
  ASSUME LifeInv, NEW d \in Daemon, NEW e \in Daemon,
         Schedules(d) \/ step[d] = "migrating", Schedules(e) \/ step[e] = "migrating"
  PROVE  d = e
BY DEF LifeInv, ServingDaemonIsReached, Schedules, Handles

\* A daemon on its way to the lock, the schema, the socket or its end, as long
\* as it handles what it handled.
LEMMA DaemonFrame ==
  ASSUME CalmInv, UNCHANGED <<job, watcher, paused, conns, inbox, command, pc>>,
         \A d \in Daemon : /\ Handles(d) => Handles(d)'
                           /\ Schedules(d) => Schedules(d)'
                           /\ step'[d] \in {"stopping", "draining"} =>
                                step[d] \in {"stopping", "draining"},
         conns \subseteq [from : Client, to : Daemon, n : Nat,
                          kind : {"submit", "pause", "list", "resume", "shutdown"}]
  PROVE  CalmInv'
<1> USE DEF CalmInv, HasState, Updating, Waiting
<1>1. Watched' /\ Labels'
  BY DEF Watched, Labels
<1>2. Messages'
  BY DEF Messages
<1>3. StopsQuietly'
  BY DEF StopsQuietly, Idle
<1>4. Served => Served'
  BY DEF Served
<1>5. PauseHolds'
  BY <1>4 DEF PauseHolds, Idle
<1> QED BY <1>1, <1>2, <1>3, <1>5

\* A client that is not waiting goes to a label that asks nothing of the
\* daemon yet, or only what it may ask for.
LEMMA ClientFrame ==
  ASSUME LifeInv, TypeOK, CalmInv, Calm, NEW c \in Client, ~Asking(c), NEW label,
         UNCHANGED <<job, watcher, paused, conns, command>>,
         inbox' \in {inbox, [inbox EXCEPT ![c] = NotWaiting]},
         pc' = [pc EXCEPT ![c] = label],
         \A d \in Daemon : step'[d] # step[d] => step[d] = "unborn" /\ step'[d] = "spawned",
         Updating(c) => /\ label \notin {"submit", "resend"}
                        /\ pc[c] # "failed"
                        /\ pc[c] \in PastStop => label \in PastStop
                        /\ label \in {"stop", "shutdown"} => paused /\ Idle /\ Served
                        /\ label = "wait" => paused /\ Served,
         ~Updating(c) => label \in {"submit", "start", "starting", "look", "resend",
                                    "accepted", "done", "failed"}
  PROVE  CalmInv'
<1> USE DEF HasState, Updating
<1>1. /\ \A d \in Daemon : Handles(d) <=> Handles(d)'
      /\ \A d \in Daemon : Schedules(d) <=> Schedules(d)'
      /\ \A d \in Daemon : step'[d] \in {"stopping", "draining"} =>
           step[d] \in {"stopping", "draining"}
  BY DEF Handles, Schedules
<1>2. /\ \A e \in Client : e # c => pc'[e] = pc[e] /\ inbox'[e] = inbox[e]
      /\ pc'[c] = label
      /\ \A e \in Client : Waiting(e)' <=> Waiting(e)
      /\ ~Waiting(c)
  BY DEF LifeInv, Shapes, WaitsForAnswer, Waiting, NotWaiting
<1>3. \A m \in conns : m.from \in Client /\ m.to \in Daemon
  BY DEF TypeOK
<1>4. Watched' /\ Labels'
  BY <1>1, <1>2 DEF CalmInv, Watched, Labels
<1>5. Messages'
  <2>1. \A m \in conns : Updating(m.from) => m.from # c
    BY <1>2 DEF CalmInv, Messages, Waiting
  <2> QED BY <1>1, <1>2, <1>3, <2>1 DEF CalmInv, Messages
<1>6. StopsQuietly'
  BY <1>1, <1>2 DEF CalmInv, StopsQuietly, Idle, Asking
<1>7. PauseHolds'
  <2>1. (Served => Served') /\ (Idle => Idle')
    BY <1>1 DEF Served, Idle
  <2>2. \A m \in conns' : /\ m.kind = "shutdown" => paused' /\ Idle'
                          /\ m.kind = "list" => paused'
    BY <2>1 DEF CalmInv, PauseHolds
  <2> SUFFICES ASSUME NEW e \in Client, Updating(e)
               PROVE  /\ pc'[e] = "stop" \/ (pc'[e] = "shutdown" /\ ~Waiting(e)) =>
                           paused /\ Idle' /\ Served'
                      /\ pc'[e] = "wait" => paused /\ Served'
                      /\ pc'[e] = "pause" /\ Waiting(e) /\ inbox[e].answer # None =>
                           paused /\ Served' /\ (inbox[e].answer = {} => Idle')
    BY <1>2, <2>2 DEF PauseHolds
  <2>3. CASE e = c
    BY <1>2, <2>1, <2>3
  <2>4. CASE e # c
    BY <1>2, <2>1, <2>4 DEF CalmInv, PauseHolds
  <2> QED BY <2>3, <2>4
<1> QED BY <1>4, <1>5, <1>6, <1>7 DEF CalmInv

-----------------------------------------------------------------------------
(* The clients.                                                            *)

LEMMA PingsCalm ==
  ASSUME LifeInv, TypeOK, CalmInv, Calm, NEW c \in Client,
         \/ ClientStep(c) /\ ~Ask(c) /\ ~Receive(c) /\ ~RequestFails(c)
         \/ Interrupt(c) /\ ~Asking(c)
  PROVE  CalmInv'
<1> USE DEF Goto, UnchangedByPing, UnchangedByClient, jobVars, Asking, PastStop
<1>u. Updating(c) \/ pc[c] \in {"submit", "start", "starting", "look", "resend", "accepted",
                                "done", "failed"}
  BY DEF CalmInv, Labels
<1>l. Updating(c) => Started(c) = "done" /\ Stopped(c) = "install"
  BY DEF Updating, Started, Stopped
<1>s. Started(c) \in {"resend", "done"}
  BY DEF Started
<1>1. CASE StartDaemon(c)
  <2>1. /\ pc[c] = "start" /\ step[c] = "unborn"
        /\ UNCHANGED <<job, watcher, paused, conns, inbox, command>>
    BY <1>1 DEF StartDaemon, LifeInv, SpawnsOnce, After, Daemon
  <2>2. PICK label \in {Started(c), "starting"} :
          /\ pc' = [pc EXCEPT ![c] = label]
          /\ step' = step \/ step' = [step EXCEPT ![c] = "spawned"]
    BY <1>1 DEF StartDaemon, At
  <2>3. \A d \in Daemon : step'[d] # step[d] => step[d] = "unborn" /\ step'[d] = "spawned"
    BY <2>1, <2>2 DEF LifeInv, Shapes
  <2> QED BY <1>l, <1>s, <2>1, <2>2, <2>3, ClientFrame
<1>2. CASE AwaitDaemon(c)
  <2>1. PICK label \in {Started(c), "look"} : pc' = [pc EXCEPT ![c] = label]
    BY <1>2 DEF AwaitDaemon
  <2> QED BY <1>2, <1>l, <1>s, <2>1, ClientFrame DEF AwaitDaemon
<1>3. CASE LookAtChild(c) \/ StartTimesOut(c)
  <2>1. PICK label \in {"failed", "starting"} : pc' = [pc EXCEPT ![c] = label]
    BY <1>3 DEF LookAtChild, StartTimesOut
  <2> QED BY <1>3, <2>1, ClientFrame DEF LookAtChild, StartTimesOut
<1>4. CASE StopDaemon(c)
  <2>1. Updating(c) /\ paused /\ Idle /\ Served
    BY <1>4, <1>u DEF StopDaemon, CalmInv, PauseHolds
  <2>2. PICK label \in {"shutdown", "install"} : pc' = [pc EXCEPT ![c] = label]
    BY <1>4, <1>l, <2>1 DEF StopDaemon
  <2> QED BY <1>4, <2>1, <2>2, ClientFrame DEF StopDaemon
<1>5. CASE AwaitStop(c)
  <2>1. pc' = [pc EXCEPT ![c] = "install"] /\ Updating(c)
    BY <1>5, <1>u, <1>l DEF AwaitStop
  <2> QED BY <1>5, <2>1, ClientFrame DEF AwaitStop
<1>6. CASE CheckDaemon(c)
  <2>1. PICK label \in {"pause", "done"} : pc' = [pc EXCEPT ![c] = label]
    BY <1>6 DEF CheckDaemon
  <2> QED BY <1>6, <1>u, <2>1, ClientFrame DEF CheckDaemon
<1>7. CASE WaitForJobs(c)
  <2>1. Updating(c) /\ paused /\ Served
    BY <1>7, <1>u DEF WaitForJobs, CalmInv, PauseHolds
  <2>2. \/ pc' = [pc EXCEPT ![c] = "stop"] /\ Idle
        \/ pc' = [pc EXCEPT ![c] = "failed"]
    BY <1>7 DEF WaitForJobs, WaitOver, ActiveJobs, Idle
  <2> QED BY <1>7, <2>1, <2>2, ClientFrame DEF WaitForJobs
<1>8. CASE Refuse(c)
  <2>1. PICK label \in {"resume", "failed"} : pc' = [pc EXCEPT ![c] = label]
    BY <1>8 DEF Refuse
  <2> QED BY <1>8, <1>u, <2>1, ClientFrame DEF Refuse
<1>9. CASE Install(c)
  <2>1. pc' = [pc EXCEPT ![c] = "start"] /\ Updating(c)
    BY <1>9, <1>u DEF Install
  <2> QED BY <1>9, <2>1, ClientFrame DEF Install
<1>10. CASE Interrupt(c) /\ ~Asking(c)
  <2>1. \/ pc' = [pc EXCEPT ![c] = "resume"] /\ pc[c] = "wait" /\ Updating(c)
        \/ pc' = [pc EXCEPT ![c] = "failed"] /\ pc[c] # "failed"
    BY <1>10, <1>u DEF Interrupt, Over
  <2> QED BY <1>10, <2>1, ClientFrame DEF Interrupt
<1> QED BY <1>1, <1>2, <1>3, <1>4, <1>5, <1>6, <1>7, <1>8, <1>9, <1>10 DEF ClientStep

LEMMA AskCalm ==
  ASSUME LifeInv, TypeOK, CalmInv, Calm, NEW c \in Client, Ask(c)
  PROVE  CalmInv'
<1> USE DEF HasState, Updating, UnchangedByClient, jobVars
<1> DEFINE r == [from |-> c, to |-> socket, kind |-> Kind(pc[c]), n |-> sent[c] + 1]
<1>1. /\ UNCHANGED <<job, watcher, paused, pc, command, step>>
      /\ conns' = conns \cup {r}
      /\ inbox' = [inbox EXCEPT ![c] = [n |-> sent[c] + 1, answer |-> None]]
      /\ socket \in Daemon /\ Handles(socket)
      /\ ~Waiting(c) /\ pc[c] \in {"submit", "resend", "pause", "resume", "shutdown"}
      /\ sent[c] \in Nat
  BY DEF Ask, Listening, Handles, Asking, LifeInv, Shapes
<1>2. /\ inbox'[c].n = sent[c] + 1 /\ inbox'[c].answer = None /\ inbox'[c].n # 0
      /\ \A e \in Client : e # c => inbox'[e] = inbox[e]
  BY <1>1 DEF LifeInv, Shapes
<1>3. /\ r.from = c /\ r.to = socket /\ r.n # 0
      /\ Updating(c) => r.kind = pc[c] /\ pc[c] \in {"pause", "resume", "shutdown"}
      /\ ~Updating(c) => r.kind = "submit"
  BY <1>1 DEF Kind, CalmInv, Labels
<1>4. Updating(c) => \A m \in conns : m.from # c
  BY <1>1 DEF CalmInv, Messages, Waiting
<1> HIDE DEF r
<1>5. /\ \A d \in Daemon : Handles(d)' <=> Handles(d)
      /\ \A d \in Daemon : Schedules(d)' <=> Schedules(d)
      /\ Idle' <=> Idle
      /\ Served' <=> Served
  BY <1>1 DEF Handles, Schedules, Idle, Served
<1>6. Watched' /\ Labels'
  BY <1>1, <1>5 DEF CalmInv, Watched, Labels
<1>7. Messages'
  <2> SUFFICES ASSUME NEW m \in conns \cup {r}
               PROVE  /\ Handles(m.to) /\ m.n # 0
                      /\ m.kind = "submit" <=> ~Updating(m.from)
                      /\ Updating(m.from) =>
                           /\ \A o \in conns \cup {r} : o.from = m.from => o = m
                           /\ \/ pc[m.from] = "failed"
                              \/ /\ inbox'[m.from].n = m.n /\ inbox'[m.from].answer = None
                                 /\ pc[m.from] = IF m.kind = "list" THEN "pause" ELSE m.kind
    <3>1. \A m \in conns \cup {r} : m.to \in Daemon
      BY <1>1, <1>3 DEF TypeOK
    <3> QED BY <1>1, <1>5, <3>1 DEF Messages
  <2>1. CASE m = r
    <3>1. r.n = sent[c] + 1
      BY DEF r
    <3> QED BY <1>1, <1>2, <1>3, <1>4, <2>1, <3>1
  <2>2. CASE m \in conns
    <3>1. m.from \in Client
      BY <2>2 DEF TypeOK
    <3> QED BY <1>2, <1>3, <1>4, <2>2, <3>1 DEF CalmInv, Messages
  <2> QED BY <2>1, <2>2
<1>8. StopsQuietly'
  <2> SUFFICES ASSUME NEW d \in Daemon, step[d] \in {"stopping", "draining"}
               PROVE  /\ paused /\ Idle
                      /\ \A m \in conns \cup {r} : m.kind # "resume"
                      /\ \A e \in Client : Updating(e) =>
                           pc[e] \in PastStop \/ (pc[e] = "shutdown" /\ Waiting(e)')
    BY <1>1, <1>5 DEF StopsQuietly
  <2>1. /\ paused /\ Idle /\ \A m \in conns : m.kind # "resume"
        /\ \A e \in Client : Updating(e) =>
             pc[e] \in PastStop \/ (pc[e] = "shutdown" /\ Waiting(e))
    BY DEF CalmInv, StopsQuietly
  <2>2. Updating(c) => FALSE
    BY <1>1, <1>3, <2>1 DEF PastStop
  <2> QED BY <1>2, <1>3, <2>1, <2>2 DEF Waiting
<1>9. PauseHolds'
  <2>1. r.kind = "shutdown" => paused /\ Idle
    BY <1>1, <1>3 DEF CalmInv, PauseHolds
  <2>2. r.kind # "list"
    BY <1>3
  <2>3. \A e \in Client : Updating(e) =>
          /\ pc[e] = "stop" \/ (pc[e] = "shutdown" /\ ~Waiting(e)') =>
               paused /\ Idle /\ Served
          /\ pc[e] = "wait" => paused /\ Served
          /\ pc[e] = "pause" /\ Waiting(e)' /\ inbox'[e].answer # None =>
               paused /\ Served /\ (inbox'[e].answer = {} => Idle)
    BY <1>1, <1>2 DEF CalmInv, PauseHolds, Waiting
  <2> QED BY <1>1, <1>5, <2>1, <2>2, <2>3 DEF CalmInv, PauseHolds
<1> QED BY <1>6, <1>7, <1>8, <1>9 DEF CalmInv

\* An answer, none, or Ctrl-C: the client leaves the request.
LEMMA LeavesCalm ==
  ASSUME LifeInv, TypeOK, CalmInv, Calm, NEW c \in Client,
         Receive(c) \/ RequestFails(c) \/ (Interrupt(c) /\ Asking(c))
  PROVE  CalmInv'
<1> USE DEF HasState, Updating, UnchangedByClient, jobVars, Goto
<1>1. PICK label : /\ pc' = [pc EXCEPT ![c] = label]
                   /\ \/ label = AfterAnswer(c) /\ Waiting(c) /\ inbox[c].answer # None
                      \/ label = "failed"
                      \/ label = "start" /\ pc[c] = "submit"
  BY DEF Receive, RequestFails, Interrupt, Asking
<1>2. /\ UNCHANGED <<job, watcher, paused, command, conns, step>>
      /\ inbox' = [inbox EXCEPT ![c] = NotWaiting]
      /\ pc[c] \in {"submit", "resend", "pause", "resume", "shutdown"}
  BY DEF Receive, RequestFails, Interrupt, LifeInv, WaitsForAnswer, Asking
<1>3. /\ \A e \in Client : e # c => pc'[e] = pc[e] /\ inbox'[e] = inbox[e]
      /\ pc'[c] = label /\ inbox'[c].n = 0
  BY <1>1, <1>2 DEF LifeInv, Shapes, NotWaiting
<1>4. /\ ~Updating(c) => label \in {"accepted", "start", "failed"}
      /\ Updating(c) => /\ pc[c] \in {"pause", "resume", "shutdown"}
                        /\ label \in {"failed", "stopping", "stop", "wait", "refuse"}
                        /\ label = "stopping" => pc[c] = "shutdown"
                        /\ label \in {"stop", "wait"} => paused /\ Served
                        /\ label = "stop" => Idle
                        /\ label = "failed" \/ \A m \in conns : m.from # c
                        /\ pc[c] # "pause" => label \in PastStop
  <2>1. CASE ~Updating(c)
    BY <1>1, <1>2, <2>1 DEF AfterAnswer, CalmInv, Labels
  <2>2. CASE Updating(c) /\ label = "failed"
    BY <1>2, <2>2 DEF CalmInv, Labels, PastStop
  <2>3. CASE Updating(c) /\ label = AfterAnswer(c) /\ Waiting(c) /\ inbox[c].answer # None
    <3>1. pc[c] \in {"pause", "resume", "shutdown"}
      BY <1>2, <2>3 DEF CalmInv, Labels
    <3>2. \A m \in conns : m.from # c
      BY <2>3, <3>1 DEF CalmInv, Messages
    <3>3. CASE pc[c] = "pause"
      <4>1. paused /\ Served /\ (inbox[c].answer = {} => Idle)
        BY <2>3, <3>3 DEF CalmInv, PauseHolds
      <4>2. label = IF inbox[c].answer = {} THEN "stop"
                    ELSE IF command[c] = "update-wait" THEN "wait" ELSE "refuse"
        BY <2>3, <3>3 DEF AfterAnswer, Calm
      <4> QED BY <2>3, <3>2, <3>3, <4>1, <4>2
    <3>4. CASE pc[c] # "pause"
      BY <2>3, <3>1, <3>2, <3>4 DEF AfterAnswer, PastStop
    <3> QED BY <3>3, <3>4
  <2> QED BY <1>1, <1>2, <2>1, <2>2, <2>3 DEF CalmInv, Labels
<1>5. /\ \A d \in Daemon : Handles(d)' <=> Handles(d)
      /\ \A d \in Daemon : Schedules(d)' <=> Schedules(d)
      /\ Idle' <=> Idle
      /\ Served' <=> Served
  BY <1>2 DEF Handles, Schedules, Idle, Served
<1>6. Watched' /\ Labels'
  BY <1>2, <1>3, <1>4, <1>5 DEF CalmInv, Watched, Labels
<1>7. Messages'
  <2>1. \A m \in conns : m.from \in Client /\ m.to \in Daemon
    BY DEF TypeOK
  <2>2. \A m \in conns : m.from = c /\ Updating(c) => pc'[c] = "failed"
    BY <1>3, <1>4
  <2> QED BY <1>2, <1>3, <1>5, <2>1, <2>2 DEF CalmInv, Messages
<1>8. StopsQuietly'
  <2> SUFFICES ASSUME NEW d \in Daemon, step[d] \in {"stopping", "draining"},
                      NEW e \in Client, Updating(e)
               PROVE  pc'[e] \in PastStop \/ (pc'[e] = "shutdown" /\ Waiting(e)')
    BY <1>2, <1>5 DEF CalmInv, StopsQuietly
  <2>1. pc[e] \in PastStop \/ (pc[e] = "shutdown" /\ Waiting(e))
    BY DEF CalmInv, StopsQuietly
  <2>2. CASE e = c
    BY <1>3, <1>4, <2>1, <2>2 DEF PastStop
  <2>3. CASE e # c
    BY <1>3, <2>1, <2>3 DEF Waiting
  <2> QED BY <2>2, <2>3
<1>9. PauseHolds'
  <2> SUFFICES ASSUME NEW e \in Client, Updating(e)
               PROVE  /\ pc'[e] = "stop" \/ (pc'[e] = "shutdown" /\ ~Waiting(e)') =>
                           paused /\ Idle /\ Served
                      /\ pc'[e] = "wait" => paused /\ Served
                      /\ pc'[e] = "pause" /\ Waiting(e)' /\ inbox'[e].answer # None =>
                           paused /\ Served /\ (inbox'[e].answer = {} => Idle)
    BY <1>2, <1>5 DEF CalmInv, PauseHolds
  <2>1. CASE e = c
    BY <1>3, <1>4, <2>1
  <2>2. CASE e # c
    BY <1>3, <2>2 DEF CalmInv, PauseHolds, Waiting
  <2> QED BY <2>1, <2>2
<1> QED BY <1>6, <1>7, <1>8, <1>9 DEF CalmInv

-----------------------------------------------------------------------------
(* The daemons.                                                            *)

\* What an answer changes: the answer of the client that waits for it.
LEMMA ReplyFacts ==
  ASSUME LifeInv, NEW m, NEW answer, Reply(m, answer)
  PROVE  /\ \A c \in Client : inbox'[c].n = inbox[c].n
         /\ \A c \in Client : c # m.from => inbox'[c] = inbox[c]
         /\ m.from \in Client /\ inbox[m.from].n = m.n => inbox'[m.from].answer = answer
         /\ m.from \in Client /\ inbox[m.from].n # m.n => inbox'[m.from] = inbox[m.from]
BY DEF LifeInv, Shapes, Reply

LEMMA HandleCalm ==
  ASSUME LifeInv, TypeOK, CalmInv, Calm, NEW d \in Daemon, Handle(d), UNCHANGED clientVars
  PROVE  CalmInv'
<1> USE DEF Updating, clientVars
<1>0. UNCHANGED <<watcher, alive, command, pc>> /\ Handles(d)
  BY DEF Handle
<1>1. PICK m \in conns :
        /\ m.to = d
        /\ \/ HandleSubmit(m) \/ HandlePause(m) \/ HandleList(m)
           \/ HandleResume(m) \/ HandleShutdown(m)
  BY DEF Handle
<1>t. /\ m.from \in Client /\ m.n # 0
      /\ \A o \in conns : o.from \in Client /\ o.to \in Daemon
  BY DEF TypeOK, CalmInv, Messages
<1>s. Served
  BY <1>0 DEF Served
<1>2. CASE HandleSubmit(m)
  <2>1. UNCHANGED <<step, paused>> /\ conns' = conns \ {m} /\ ~Updating(m.from)
    BY <1>2 DEF HandleSubmit, CalmInv, Messages
  <2>2. \A c \in Client : Updating(c) => inbox'[c] = inbox[c]
    BY <1>2, <2>1, ReplyFacts DEF HandleSubmit
  <2>3. \A c \in Client : inbox'[c].n = inbox[c].n
    BY <1>2, ReplyFacts DEF HandleSubmit
  <2>4. \A j \in JobId : /\ HasState(j, {"RUNNING"})' <=> HasState(j, {"RUNNING"})
                         /\ HasState(j, {"FAILED"})' <=> HasState(j, {"FAILED"})
    <3>1. CASE UNCHANGED job
      BY <3>1 DEF HasState
    <3>2. CASE ~UNCHANGED job
      <4> PICK i \in JobId :
            /\ job[i] = None
            /\ job' = [job EXCEPT ![i] = [state |-> "WAITING", from |-> m.from]]
        BY <1>2, <3>2 DEF HandleSubmit, NewId
      <4>1. job'[i].state = "WAITING" /\ \A j \in JobId : j # i => job'[j] = job[j]
        BY DEF TypeOK
      <4> QED BY <4>1 DEF HasState
    <3> QED BY <3>1, <3>2
  <2>5. /\ \A e \in Daemon : Handles(e)' <=> Handles(e)
        /\ \A e \in Daemon : Schedules(e)' <=> Schedules(e)
        /\ Idle' <=> Idle
        /\ Served' <=> Served
    BY <2>1, <2>4 DEF Handles, Schedules, Idle, Served
  <2>6. Watched' /\ Labels'
    BY <1>0, <2>4, <2>5 DEF CalmInv, Watched, Labels
  <2>7. Messages'
    BY <1>0, <1>t, <2>1, <2>2, <2>5 DEF CalmInv, Messages
  <2>8. StopsQuietly'
    BY <1>0, <2>1, <2>3, <2>5 DEF CalmInv, StopsQuietly, Waiting
  <2>9. PauseHolds'
    BY <1>0, <2>1, <2>2, <2>5 DEF CalmInv, PauseHolds, Waiting
  <2> QED BY <2>6, <2>7, <2>8, <2>9 DEF CalmInv
\* Any other request is the only one of the only update.
<1>3. CASE ~HandleSubmit(m)
  <2>1. /\ m.kind # "submit" /\ Updating(m.from) /\ job' = job
        /\ \A o \in conns : Updating(o.from) => o = m
        /\ \A c \in Client : Updating(c) => c = m.from
    <3>1. m.kind # "submit" /\ Updating(m.from) /\ job' = job
      BY <1>1, <1>3 DEF HandlePause, HandleList, HandleResume, HandleShutdown, CalmInv,
         Messages
    <3>2. \A c \in Client : Updating(c) => c = m.from
      BY <1>t, <3>1 DEF Calm
    <3> QED BY <1>t, <3>1, <3>2 DEF CalmInv, Messages
  <2>u. \A o \in conns : o # m => o.kind = "submit"
    BY <1>t, <2>1 DEF CalmInv, Messages
  <2>i. \A c \in Client : inbox'[c].n = inbox[c].n
    BY <1>1, <1>3, ReplyFacts DEF HandlePause, HandleList, HandleResume, HandleShutdown
  <2>p. \/ pc[m.from] = "failed"
        \/ /\ inbox[m.from].n = m.n /\ inbox[m.from].answer = None
           /\ pc[m.from] = IF m.kind = "list" THEN "pause" ELSE m.kind
    BY <1>t, <2>1 DEF CalmInv, Messages
  <2>4. /\ step' = step \/ (m.kind = "shutdown"
                             /\ step' = [step EXCEPT ![d] = IF @ = "serving" THEN "stopping"
                                                            ELSE @])
        /\ conns' = (conns \ {m}) \cup
                      (IF m.kind = "pause" THEN {[m EXCEPT !.kind = "list"]} ELSE {})
        /\ paused' = IF m.kind = "pause" THEN TRUE
                     ELSE IF m.kind = "resume" THEN FALSE ELSE paused
        /\ m.kind = "pause" => inbox' = inbox
    BY <1>1, <1>3 DEF HandlePause, HandleList, HandleResume, HandleShutdown
  <2>5. /\ \A e \in Daemon : Handles(e)' <=> Handles(e)
        /\ \A e \in Daemon : Schedules(e)' <=> Schedules(e)
        /\ Idle' <=> Idle
        /\ Served'
    <3>1. \A e \in Daemon : Handles(e)' <=> Handles(e)
      BY <2>4 DEF Handles, LifeInv, Shapes
    <3>2. \A e \in Daemon : Schedules(e)' <=> Schedules(e)
      BY <2>4, <3>1 DEF Schedules, Handles, LifeInv, Shapes
    <3> QED BY <1>s, <2>1, <3>1, <3>2 DEF Idle, HasState, Served
  <2>6. Watched' /\ Labels'
    BY <1>0, <2>1, <2>5 DEF CalmInv, Watched, Labels, HasState
  <2>7. Messages'
    <3>1. CASE m.kind = "pause"
      <4> DEFINE l == [m EXCEPT !.kind = "list"]
      <4>1. l.from = m.from /\ l.to = m.to /\ l.n = m.n /\ l.kind = "list"
        BY DEF TypeOK
      <4> HIDE DEF l
      <4>2. conns' = (conns \ {m}) \cup {l}
        BY <2>4, <3>1 DEF l
      <4>3. pc[m.from] = "failed" \/ (inbox'[m.from].n = m.n
                 /\ inbox'[m.from].answer = None /\ pc[m.from] = "pause")
        BY <2>4, <2>p, <3>1
      <4>4. \A o \in conns' : o = l \/ (o \in conns /\ o.kind = "submit" /\ ~Updating(o.from))
        BY <2>1, <2>u, <4>2
      <4> SUFFICES ASSUME NEW o \in conns'
                   PROVE  /\ Handles(o.to)' /\ o.n # 0
                          /\ o.kind = "submit" <=> ~Updating(o.from)
                          /\ Updating(o.from) =>
                               /\ \A q \in conns' : q.from = o.from => q = o
                               /\ \/ pc[o.from] = "failed"
                                  \/ /\ inbox'[o.from].n = o.n
                                     /\ inbox'[o.from].answer = None
                                     /\ pc[o.from] = IF o.kind = "list" THEN "pause"
                                                     ELSE o.kind
        BY <1>0 DEF Messages
      <4>5. CASE o = l
        BY <1>0, <1>1, <1>t, <2>1, <2>5, <4>1, <4>3, <4>4, <4>5
      <4>6. CASE o # l
        BY <1>t, <2>5, <4>4, <4>6 DEF CalmInv, Messages
      <4> QED BY <4>5, <4>6
    <3>2. CASE m.kind # "pause"
      BY <1>0, <1>t, <2>1, <2>4, <2>5, <3>2 DEF CalmInv, Messages
    <3> QED BY <3>1, <3>2
  <2>8. StopsQuietly'
    <3>1. CASE m.kind = "shutdown"
      <4>1. /\ paused' /\ Idle' /\ \A o \in conns' : o.kind # "resume"
        BY <2>4, <2>5, <2>u, <3>1 DEF CalmInv, PauseHolds
      <4>2. \A c \in Client : Updating(c) =>
              pc[c] \in PastStop \/ (pc[c] = "shutdown" /\ Waiting(c)')
        BY <1>t, <2>1, <2>i, <2>p, <3>1 DEF PastStop, Waiting
      <4> QED BY <1>0, <4>1, <4>2 DEF StopsQuietly
    <3>2. CASE m.kind # "shutdown"
      <4>1. step' = step
        BY <2>4, <3>2
      <4>2. \A o \in conns' : o.kind = "resume" => o \in conns
        <5>1. [m EXCEPT !.kind = "list"].kind = "list"
          BY DEF TypeOK
        <5> QED BY <2>4, <5>1
      <4> QED BY <1>0, <2>4, <2>5, <2>i, <4>1, <4>2 DEF CalmInv, StopsQuietly, Waiting
    <3> QED BY <3>1, <3>2
  <2>9. PauseHolds'
    <3>1. ASSUME NEW o \in conns'
          PROVE  /\ o.kind = "shutdown" => paused' /\ Idle'
                 /\ o.kind = "list" => paused'
      <4>1. CASE m.kind = "pause"
        <5>1. [m EXCEPT !.kind = "list"].kind = "list"
          BY DEF TypeOK
        <5> QED BY <2>4, <2>u, <4>1, <5>1
      <4>2. CASE m.kind # "pause"
        BY <2>4, <2>u, <4>2
      <4> QED BY <4>1, <4>2
    <3>2. ASSUME NEW c \in Client, Updating(c)
          PROVE  /\ pc[c] = "stop" \/ (pc[c] = "shutdown" /\ ~Waiting(c)') =>
                      paused' /\ Idle' /\ Served'
                 /\ pc[c] = "wait" => paused' /\ Served'
                 /\ pc[c] = "pause" /\ Waiting(c)' /\ inbox'[c].answer # None =>
                      paused' /\ Served' /\ (inbox'[c].answer = {} => Idle')
      <4>1. c = m.from /\ (Waiting(c)' <=> Waiting(c))
        BY <2>1, <2>i, <3>2 DEF Waiting
      <4>2. CASE m.kind = "list" /\ pc[c] = "pause"
        <5>1. paused /\ inbox'[c].answer = ActiveJobs
          BY <1>1, <1>3, <1>t, <2>p, <4>1, <4>2, ReplyFacts
             DEF CalmInv, PauseHolds, HandlePause, HandleList, HandleResume, HandleShutdown
        <5>2. ActiveJobs = {} => Idle
          BY DEF ActiveJobs, Idle
        <5> QED BY <2>4, <2>5, <4>2, <5>1, <5>2
      <4>3. CASE m.kind # "list" \/ pc[c] # "pause"
        <5>1. CASE pc[c] = "failed"
          BY <5>1
        <5>2. CASE pc[c] # "failed"
          <6>1. /\ inbox[c].n = m.n /\ inbox[c].answer = None
                /\ pc[c] = IF m.kind = "list" THEN "pause" ELSE m.kind
            BY <2>p, <4>1, <5>2
          <6>2. Waiting(c)'
            BY <1>t, <4>1, <6>1 DEF Waiting
          <6>3. pc[c] = m.kind /\ pc[c] \in {"pause", "resume", "shutdown"}
            BY <1>1, <1>3, <4>3, <6>1 DEF HandlePause, HandleList, HandleResume,
               HandleShutdown
          <6>4. pc[c] = "pause" => inbox'[c].answer = None
            BY <2>4, <6>1, <6>3
          <6> QED BY <6>2, <6>3, <6>4
        <5> QED BY <5>1, <5>2
      <4> QED BY <4>2, <4>3
    <3> QED BY <1>0, <3>1, <3>2 DEF PauseHolds
  <2> QED BY <2>6, <2>7, <2>8, <2>9 DEF CalmInv
<1> QED BY <1>2, <1>3

\* A daemon that recovers is alone: no job is running, and no update is at work.
LEMMA RecoverCalm ==
  ASSUME LifeInv, TypeOK, CalmInv, NEW d \in Daemon, Recover(d), UNCHANGED clientVars
  PROVE  CalmInv'
<1> USE DEF clientVars, Updating
<1>1. /\ step[d] = "migrating" /\ step' = [step EXCEPT ![d] = "ready"]
      /\ step \in [Daemon -> Steps]
      /\ UNCHANGED <<conns, inbox, pc, command, watcher>>
  BY DEF Recover, At, LifeInv, Shapes
<1>2. \A e \in Daemon : ~Schedules(e) /\ ~Handles(e)
  <2> SUFFICES ASSUME NEW e \in Daemon, Schedules(e) PROVE FALSE
    BY DEF Schedules
  <2>1. e = d
    BY <1>1, OneAtWork
  <2> QED BY <1>1, <2>1 DEF Schedules, Handles
<1>3. Idle
  BY <1>2 DEF CalmInv, Watched, Idle
<1>4. conns = {}
  BY <1>2 DEF CalmInv, Messages, TypeOK
<1>5. job' = job
  BY <1>3, DaemonAssumption DEF Recover, Idle, HasState, TypeOK
<1>6. Watched' /\ Labels'
  BY <1>1, <1>3, <1>5 DEF CalmInv, Watched, Labels, HasState, Idle
<1>7. Messages'
  BY <1>1, <1>4 DEF Messages
<1>8. StopsQuietly'
  BY <1>1, <1>2 DEF StopsQuietly, Handles
<1>9. PauseHolds'
  <2>1. ~Served
    BY <1>2 DEF Served
  <2> QED BY <1>1, <1>4, <2>1 DEF CalmInv, PauseHolds, Waiting
<1> QED BY <1>6, <1>7, <1>8, <1>9 DEF CalmInv

\* A job ends where it was started, or starts where nothing is stopped.
LEMMA JobsCalm ==
  ASSUME LifeInv, TypeOK, CalmInv, NEW d \in Daemon, NEW j \in JobId,
         EndJob(d, j) \/ StartJob(d, j), UNCHANGED clientVars
  PROVE  CalmInv'
<1> USE DEF clientVars, Updating, lifeVars
<1>1. UNCHANGED <<conns, inbox, pc, command, paused, step>> /\ Schedules(d)
  BY DEF EndJob, StartJob
<1>2. /\ \A e \in Daemon : Handles(e)' <=> Handles(e)
      /\ \A e \in Daemon : Schedules(e)' <=> Schedules(e)
      /\ Served' <=> Served
  BY <1>1 DEF Handles, Schedules, Served
<1>3. Watched' /\ (paused => (Idle => Idle'))
  <2>1. CASE StartJob(d, j)
    <3>1. /\ ~paused /\ watcher' = [watcher EXCEPT ![j] = d]
          /\ job[j] # None /\ job' = [job EXCEPT ![j].state = "RUNNING"]
      BY <2>1 DEF StartJob, MayStart, HasState
    <3>2. job'[j] = [job[j] EXCEPT !.state = "RUNNING"] /\ job'[j].state = "RUNNING"
      BY <3>1 DEF TypeOK
    <3>3. watcher'[j] = d /\ \A i \in JobId : i # j => watcher'[i] = watcher[i]
                                                       /\ job'[i] = job[i]
      BY <3>1 DEF TypeOK
    <3> QED BY <1>1, <1>2, <3>1, <3>2, <3>3 DEF CalmInv, Watched, HasState
  <2>2. CASE EndJob(d, j)
    <3>1. watcher[j] = d
      <4>1. watcher[j] \in Daemon /\ Schedules(watcher[j])
        BY <2>2 DEF EndJob, CalmInv, Watched
      <4> QED BY <1>1, <4>1, OneAtWork
    <3>2. watcher' = watcher /\ job[j] # None /\ job' = [job EXCEPT ![j].state = "DONE"]
      BY <2>2, <3>1 DEF EndJob, HasState
    <3>3. job'[j].state = "DONE" /\ \A i \in JobId : i # j => job'[i] = job[i]
      BY <3>2 DEF TypeOK
    <3> QED BY <1>2, <3>2, <3>3 DEF CalmInv, Watched, HasState, Idle
  <2> QED BY <2>1, <2>2
<1>4. Labels' /\ Messages'
  BY <1>1, <1>2 DEF CalmInv, Labels, Messages, TypeOK
<1>5. StopsQuietly'
  BY <1>1, <1>3 DEF CalmInv, StopsQuietly, Waiting
<1>6. PauseHolds'
  BY <1>1, <1>2, <1>3 DEF CalmInv, PauseHolds, Waiting
<1> QED BY <1>3, <1>4, <1>5, <1>6 DEF CalmInv

\* A daemon closes its database when nothing runs and no update counts on it.
LEMMA CloseCalm ==
  ASSUME LifeInv, TypeOK, CalmInv, NEW d \in Daemon, CloseDatabase(d), UNCHANGED clientVars
  PROVE  CalmInv'
<1> USE DEF clientVars, Updating, jobVars
<1>1. /\ step[d] = "draining" /\ step' = [step EXCEPT ![d] = "closed"]
      /\ step \in [Daemon -> Steps]
      /\ conns' = {m \in conns : m.to # d}
      /\ UNCHANGED <<job, watcher, paused, inbox, pc, command>>
  BY DEF CloseDatabase, At, LifeInv, Shapes
<1>2. /\ \A e \in Daemon : e # d => ~Handles(e)
      /\ \A e \in Daemon : e # d => ~Schedules(e)
  BY <1>1, OneAtWork DEF Schedules, Handles
<1>3. /\ paused /\ Idle /\ Idle'
      /\ \A c \in Client : Updating(c) =>
           pc[c] \in PastStop \/ (pc[c] = "shutdown" /\ Waiting(c))
  BY <1>1 DEF CalmInv, StopsQuietly, Idle, HasState
<1>4. conns' = {}
  BY <1>1, <1>2 DEF CalmInv, Messages, TypeOK
<1>5. Watched' /\ Labels'
  BY <1>1, <1>3 DEF CalmInv, Watched, Labels, HasState, Idle
<1>6. Messages' /\ StopsQuietly'
  BY <1>1, <1>3, <1>4 DEF CalmInv, Messages, StopsQuietly, Waiting
<1>7. PauseHolds'
  BY <1>1, <1>3, <1>4 DEF PauseHolds, PastStop, Waiting
<1> QED BY <1>5, <1>6, <1>7 DEF CalmInv

LEMMA UpdateStep == LifeInv /\ TypeOK /\ UpdateInv /\ [Next]_vars => UpdateInv'
<1> SUFFICES ASSUME LifeInv, TypeOK, UpdateInv, [Next]_vars, Calm' PROVE CalmInv'
  BY DEF UpdateInv
<1>t. conns \subseteq [from : Client, to : Daemon, n : Nat,
                       kind : {"submit", "pause", "list", "resume", "shutdown"}]
  BY DEF TypeOK
<1>1. CASE UNCHANGED vars
  <2>1. UNCHANGED <<job, watcher, paused, conns, inbox, command, pc, step>>
    BY <1>1 DEF vars, daemonVars, lifeVars, jobVars, clientVars
  <2>2. CalmInv
    BY <2>1 DEF UpdateInv, Calm, Updating
  <2> QED BY <2>1, <2>2, <1>t, DaemonFrame DEF Handles, Schedules
<1>2. CASE Next
  <2>1. Calm /\ CalmInv
    BY <1>2, CalmBefore DEF UpdateInv
  <2>2. ASSUME NEW c \in Client, ClientStep(c) \/ Interrupt(c) PROVE CalmInv'
    BY <2>1, <2>2, PingsCalm, AskCalm, LeavesCalm
  <2>3. ASSUME NEW d \in Daemon, DaemonStep(d), UNCHANGED clientVars PROVE CalmInv'
    <3>1. CASE Handle(d)
      BY <2>1, <2>3, <3>1, HandleCalm
    <3>2. CASE Recover(d)
      BY <2>1, <2>3, <3>2, RecoverCalm
    <3>3. CASE \E j \in JobId : EndJob(d, j)
      BY <2>1, <2>3, <3>3, JobsCalm
    <3>4. CASE CloseDatabase(d)
      BY <2>1, <2>3, <3>4, CloseCalm
    <3>5. CASE ~Handle(d) /\ ~Recover(d) /\ ~(\E j \in JobId : EndJob(d, j))
               /\ ~CloseDatabase(d)
      <4>1. /\ UNCHANGED <<job, watcher, paused, conns, inbox, command, pc>>
            /\ \/ step' = step
               \/ /\ step[d] = "ready" /\ step' = [step EXCEPT ![d] = "serving"]
               \/ /\ step[d] = "stopping" /\ step' = [step EXCEPT ![d] = "draining"]
               \/ /\ step[d] \notin {"ready", "serving", "stopping", "draining"}
                  /\ \E s \in {"locked", "dead", "migrating", "unlinked"} :
                       step' = [step EXCEPT ![d] = s]
        BY <2>3, <3>5 DEF DaemonStep, TakeLock, LoseLock, RemoveStale, BeginMigration,
           RunStatement, CommitMigration, RefuseSchema, Listen, CloseServer, RemoveSocket,
           Unlock, At, lifeVars, jobVars, clientVars
      <4>2. step \in [Daemon -> Steps]
        BY DEF LifeInv, Shapes
      <4>3. \A e \in Daemon : /\ Handles(e) => Handles(e)'
                              /\ Schedules(e) => Schedules(e)'
                              /\ step'[e] \in {"stopping", "draining"} =>
                                   step[e] \in {"stopping", "draining"}
        BY <4>1, <4>2 DEF Handles, Schedules
      <4> QED BY <2>1, <4>1, <4>3, <1>t, DaemonFrame
    <3> QED BY <3>1, <3>2, <3>3, <3>4, <3>5
  <2>4. ASSUME NEW d \in Daemon, Crash(d) PROVE CalmInv'
    <3>1. step'[d] = "killed"
      BY <2>4 DEF Crash, At, LifeInv, Shapes
    <3> QED BY <3>1 DEF Calm
  <2>5. ASSUME NEW d \in Daemon, NEW j \in JobId, StartJob(d, j), UNCHANGED clientVars
        PROVE  CalmInv'
    BY <2>1, <2>5, JobsCalm
  <2>6. ASSUME NEW j \in JobId, ProcessEnds(j), UNCHANGED clientVars PROVE CalmInv'
    <3>1. UNCHANGED <<job, watcher, paused, conns, inbox, command, pc, step>>
      BY <2>6 DEF ProcessEnds, lifeVars, clientVars
    <3> QED BY <2>1, <3>1, <1>t, DaemonFrame DEF Handles, Schedules
  <2> QED BY <1>2, <2>2, <2>3, <2>4, <2>5, <2>6 DEF Next, DaemonNext
<1> QED BY <1>1, <1>2

\* gq update loses no exit status, however late its answers come, whoever
\* submits or starts daemons meanwhile and wherever it is interrupted, unless a
\* daemon is killed or somebody else stops or updates.
THEOREM UpdatesLoseNoStatus == Spec => []UpdateLosesNoStatus
<1>1. UpdateInv => UpdateLosesNoStatus
  BY DEF UpdateInv, CalmInv, Watched, Calm, UpdateLosesNoStatus
<1>2. Spec => [](LifeInv /\ TypeOK /\ UpdateInv)
  BY LifeInit, LifeStep, TypeInit, TypeStep, UpdateInit, UpdateStep, PTL DEF Spec
<1> QED BY <1>1, <1>2, PTL
-----------------------------------------------------------------------------
(* No queue is left paused where answers come in time.                     *)

\* The conditions: no answer, ping or start is late, and no two clients update.
\* Daemons crash, and are stopped and started by anybody.
InTime    == "slow" \notin Faults
OneUpdate == \A c, e \in Client : Updating(c) /\ Updating(e) => c = e

\* Where an update has paused the queue, or is about to, and nothing of cli.py
\* catches KeyboardInterrupt: the request that pauses it (703), the refusal (724), the
\* requests that resume it (674, 735) and the stop (731). Ctrl-C ends the update there
\* with the queue as it is. It may come before, in the wait, and once the daemon has
\* agreed to stop; other commands may be interrupted anywhere.
Unguarded == {"pause", "refuse", "resume", "stop", "shutdown"}

CtrlCWhereGuarded ==
  \A c \in Client : Interrupt(c) => ~Updating(c) \/ pc[c] \notin Unguarded \/ ClientStep(c)

\* Only an update pauses, waits for jobs and resumes; it submits nothing.
Roles ==
  \A c \in Client :
    IF Updating(c) THEN pc[c] \notin {"submit", "resend"}
    ELSE pc[c] \notin {"check", "pause", "wait", "refuse", "resume"}

\* The request of an update is with a daemon that will handle it, and the
\* update waits for it.
Exchange ==
  \A m \in conns :
    /\ Handles(m.to) /\ m.n # 0
    /\ m.kind \in {"pause", "list", "resume"} => Updating(m.from)
    /\ Updating(m.from) =>
         /\ inbox[m.from].n = m.n /\ inbox[m.from].answer = None
         /\ pc[m.from] = IF m.kind = "list" THEN "pause" ELSE m.kind
         /\ \A o \in conns : o.from = m.from => o = m

Fresh == \A d \in Daemon : step[d] = "ready" => ~paused

\* An update that has paused a queue still has it in hand: the daemon is yet to
\* send its list, or has, or the update waits, or is about to resume the queue or
\* to stop the daemon, or the daemon has its request for that.
InHand(c) ==
  /\ pc[c] \in Unguarded \cup {"wait"}
  /\ pc[c] = "pause" =>
       /\ Waiting(c)
       /\ inbox[c].answer # None \/ \E m \in conns : m.from = c /\ m.kind = "list"
  /\ pc[c] \in {"resume", "shutdown"} => ~Waiting(c) \/ \E m \in conns : m.from = c

Serves == \E d \in Daemon : step[d] = "serving"
Kept   == paused /\ Serves => \A c \in Client : Updating(c) => InHand(c)

HandsOn == Roles /\ Exchange /\ Fresh /\ Kept
HandInv == InTime /\ OneUpdate => HandsOn

LEMMA HandInit == Init => HandInv
<1> SUFFICES ASSUME Init PROVE HandsOn
  BY DEF HandInv
<1>1. command \in [Client -> Programs]
  BY CommandsAssumption DEF Init
<1>2. Roles
  BY <1>1 DEF Init, Roles, FirstLabel, Updating, Programs
<1> QED BY <1>2 DEF Init, DaemonInit, HandsOn, Exchange, Fresh, Kept

\* A step of a daemon that leaves the pause, the requests and the answers.
LEMMA HandFrame ==
  ASSUME HandsOn, TypeOK, UNCHANGED <<paused, conns, inbox, command, pc>>,
         \A d \in Daemon : /\ Handles(d) => Handles(d)'
                           /\ step'[d] = "ready" => step[d] = "ready"
                           /\ step'[d] = "serving" => step[d] = "serving" \/ ~paused
  PROVE  HandsOn'
<1> USE DEF HandsOn, Updating, Waiting
<1>1. Roles' /\ Fresh'
  BY DEF Roles, Fresh
<1>2. Exchange'
  BY DEF Exchange, TypeOK
<1>3. Kept'
  <2> SUFFICES ASSUME paused, Serves', NEW c \in Client, Updating(c) PROVE InHand(c)'
    BY DEF Kept
  <2>1. InHand(c)
    BY DEF Kept, Serves
  <2> QED BY <2>1 DEF InHand
<1> QED BY <1>1, <1>2, <1>3

\* A client that is not waiting goes on to where the queue is still in its
\* hands; a daemon that serves answers its pings.
LEMMA HandMoves ==
  ASSUME LifeInv, TypeOK, HandsOn, NEW c \in Client, ~Asking(c), NEW label,
         UNCHANGED <<paused, conns, command>>,
         inbox' \in {inbox, [inbox EXCEPT ![c] = NotWaiting]},
         pc' = [pc EXCEPT ![c] = label],
         \A d \in Daemon : step'[d] # step[d] => step[d] = "unborn" /\ step'[d] = "spawned",
         IF Updating(c)
         THEN /\ label \notin {"submit", "resend"}
              /\ \/ pc[c] \notin Unguarded \cup {"wait"}
                 \/ label \in {"wait", "refuse", "resume", "stop", "shutdown"}
                 \/ ~Serves
         ELSE label \notin {"check", "pause", "wait", "refuse", "resume"}
  PROVE  HandsOn'
<1> USE DEF HandsOn, Updating
<1>1. /\ \A e \in Client : e # c => pc'[e] = pc[e] /\ inbox'[e] = inbox[e]
      /\ pc'[c] = label
      /\ \A e \in Client : Waiting(e)' <=> Waiting(e)
      /\ ~Waiting(c)
  BY DEF LifeInv, Shapes, WaitsForAnswer, Waiting, NotWaiting
<1>2. Roles' /\ Fresh'
  BY <1>1 DEF Roles, Fresh
<1>3. Exchange'
  <2>1. \A m \in conns : Updating(m.from) => m.from # c
    BY <1>1 DEF Exchange, Waiting
  <2> QED BY <1>1, <2>1 DEF Exchange, TypeOK, Handles
<1>4. Kept'
  <2> SUFFICES ASSUME paused, Serves', NEW e \in Client, Updating(e) PROVE InHand(e)'
    BY DEF Kept
  <2>1. Serves /\ InHand(e)
    BY DEF Kept, Serves
  <2>2. CASE e = c
    BY <1>1, <2>1, <2>2 DEF InHand, Unguarded
  <2>3. CASE e # c
    BY <1>1, <2>1, <2>3 DEF InHand
  <2> QED BY <2>2, <2>3
<1> QED BY <1>2, <1>3, <1>4

\* A client that talks to nobody: every ping is answered as things are, and an
\* update is interrupted where it may be.
LEMMA HandPings ==
  ASSUME LifeInv, TypeOK, HandsOn, InTime, NEW c \in Client,
         \/ ClientStep(c) /\ ~Ask(c) /\ ~Receive(c) /\ ~RequestFails(c)
         \/ Interrupt(c) /\ ~Asking(c) /\ (Updating(c) => pc[c] \notin Unguarded)
  PROVE  HandsOn'
<1> USE DEF Goto, UnchangedByPing, UnchangedByClient, jobVars, Asking, Unguarded
<1>p. Pings = {Listening}
  BY DEF Pings, InTime
<1>s. Serves => Listening
  BY DEF Serves, Listening, LifeInv, ServingDaemonIsReached
<1>u. IF Updating(c) THEN pc[c] \notin {"submit", "resend"}
      ELSE pc[c] \notin {"check", "pause", "wait", "refuse", "resume"}
  BY DEF HandsOn, Roles
<1>l. /\ Started(c) \in {"resend", "done"} /\ (Updating(c) => Started(c) = "done")
      /\ Stopped(c) \in {"install", "done"}
  BY DEF Started, Stopped, Updating
<1>1. CASE StartDaemon(c)
  <2>1. /\ pc[c] = "start" /\ step[c] = "unborn"
        /\ UNCHANGED <<paused, conns, inbox, command>>
    BY <1>1 DEF StartDaemon, LifeInv, SpawnsOnce, After, Daemon
  <2>2. PICK label \in {Started(c), "starting"} :
          /\ pc' = [pc EXCEPT ![c] = label]
          /\ step' = step \/ step' = [step EXCEPT ![c] = "spawned"]
    BY <1>1 DEF StartDaemon, At
  <2>3. \A d \in Daemon : step'[d] # step[d] => step[d] = "unborn" /\ step'[d] = "spawned"
    BY <2>1, <2>2 DEF LifeInv, Shapes
  <2> QED BY <1>l, <2>1, <2>2, <2>3, HandMoves
<1>2. CASE AwaitDaemon(c)
  <2>1. PICK label \in {Started(c), "look"} : pc' = [pc EXCEPT ![c] = label]
    BY <1>2 DEF AwaitDaemon
  <2> QED BY <1>2, <1>l, <2>1, HandMoves DEF AwaitDaemon
<1>3. CASE LookAtChild(c)
  <2>1. PICK label \in {"failed", "starting"} : pc' = [pc EXCEPT ![c] = label]
    BY <1>3 DEF LookAtChild
  <2> QED BY <1>3, <2>1, HandMoves DEF LookAtChild
<1>4. CASE StopDaemon(c)
  <2>1. \/ pc' = [pc EXCEPT ![c] = "shutdown"]
        \/ pc' = [pc EXCEPT ![c] = Stopped(c)] /\ ~Listening
    BY <1>4, <1>p DEF StopDaemon
  <2> QED BY <1>4, <1>l, <1>s, <2>1, HandMoves DEF StopDaemon
<1>5. CASE AwaitStop(c)
  BY <1>5, <1>l, HandMoves DEF AwaitStop
<1>6. CASE CheckDaemon(c)
  <2>1. PICK label \in {"pause", "done"} : pc' = [pc EXCEPT ![c] = label]
    BY <1>6 DEF CheckDaemon
  <2> QED BY <1>6, <1>u, <2>1, HandMoves DEF CheckDaemon
<1>7. CASE WaitForJobs(c)
  <2>1. \/ pc' = [pc EXCEPT ![c] = "stop"]
        \/ pc' = [pc EXCEPT ![c] = "failed"] /\ ~Listening
    BY <1>7 DEF WaitForJobs, InTime
  <2> QED BY <1>7, <1>s, <1>u, <2>1, HandMoves DEF WaitForJobs
<1>8. CASE Refuse(c)
  <2>1. \/ pc' = [pc EXCEPT ![c] = "resume"]
        \/ pc' = [pc EXCEPT ![c] = "failed"] /\ ~Listening
    BY <1>8, <1>p DEF Refuse
  <2> QED BY <1>8, <1>s, <1>u, <2>1, HandMoves DEF Refuse
<1>9. CASE Install(c)
  BY <1>9, HandMoves DEF Install
<1>10. CASE Interrupt(c) /\ ~Asking(c) /\ (Updating(c) => pc[c] \notin Unguarded)
  <2>1. \/ pc' = [pc EXCEPT ![c] = "resume"] /\ pc[c] = "wait"
        \/ pc' = [pc EXCEPT ![c] = "failed"] /\ pc[c] # "wait"
    BY <1>10 DEF Interrupt
  <2> QED BY <1>10, <1>u, <2>1, HandMoves DEF Interrupt
<1>11. ~StartTimesOut(c)
  BY DEF StartTimesOut, InTime
<1> QED BY <1>1, <1>2, <1>3, <1>4, <1>5, <1>6, <1>7, <1>8, <1>9, <1>10, <1>11 DEF ClientStep

\* A request: nothing else is on its way for an update that sends it.
LEMMA HandAsks ==
  ASSUME LifeInv, TypeOK, HandsOn, NEW c \in Client, Ask(c)
  PROVE  HandsOn'
<1> USE DEF Updating, UnchangedByClient, jobVars
<1> DEFINE r == [from |-> c, to |-> socket, kind |-> Kind(pc[c]), n |-> sent[c] + 1]
<1>1. /\ UNCHANGED <<paused, pc, command, step>>
      /\ conns' = conns \cup {r}
      /\ inbox' = [inbox EXCEPT ![c] = [n |-> sent[c] + 1, answer |-> None]]
      /\ socket \in Daemon /\ Handles(socket)
      /\ ~Waiting(c) /\ pc[c] \in {"submit", "resend", "pause", "resume", "shutdown"}
      /\ sent[c] \in Nat
  BY DEF Ask, Listening, Handles, Asking, LifeInv, Shapes
<1>2. /\ inbox'[c].n = sent[c] + 1 /\ inbox'[c].answer = None /\ inbox'[c].n # 0
      /\ \A e \in Client : e # c => inbox'[e] = inbox[e]
  BY <1>1 DEF LifeInv, Shapes
<1>3. /\ r.from = c /\ r.to = socket /\ r.n # 0 /\ r.n = sent[c] + 1
      /\ r.kind = IF pc[c] = "resend" THEN "submit" ELSE pc[c]
  BY <1>1 DEF Kind
<1>4. Updating(c) => \A m \in conns : m.from # c
  BY <1>1 DEF HandsOn, Exchange, Waiting
<1> HIDE DEF r
<1>5. \A d \in Daemon : Handles(d)' <=> Handles(d)
  BY <1>1 DEF Handles
<1>6. Roles' /\ Fresh'
  BY <1>1 DEF HandsOn, Roles, Fresh
<1>u. IF Updating(c) THEN pc[c] \in {"pause", "resume", "shutdown"}
      ELSE pc[c] \in {"submit", "resend", "shutdown"}
  BY <1>1 DEF HandsOn, Roles
<1>7. Exchange'
  <2> SUFFICES ASSUME NEW m \in conns \cup {r}
               PROVE  /\ Handles(m.to) /\ m.n # 0
                      /\ m.kind \in {"pause", "list", "resume"} => Updating(m.from)
                      /\ Updating(m.from) =>
                           /\ inbox'[m.from].n = m.n /\ inbox'[m.from].answer = None
                           /\ pc[m.from] = IF m.kind = "list" THEN "pause" ELSE m.kind
                           /\ \A o \in conns \cup {r} : o.from = m.from => o = m
    <3>1. \A m \in conns \cup {r} : m.to \in Daemon
      BY <1>1, <1>3 DEF TypeOK
    <3> QED BY <1>1, <1>5, <3>1 DEF Exchange
  <2>1. CASE m = r
    BY <1>1, <1>2, <1>3, <1>4, <1>u, <2>1
  <2>2. CASE m \in conns
    <3>1. m.from \in Client
      BY <2>2 DEF TypeOK
    <3> QED BY <1>2, <1>3, <1>4, <2>2, <3>1 DEF HandsOn, Exchange
  <2> QED BY <2>1, <2>2
<1>8. Kept'
  <2> SUFFICES ASSUME paused, Serves, NEW e \in Client, Updating(e) PROVE InHand(e)'
    BY <1>1 DEF Kept, Serves
  <2>1. InHand(e)
    BY DEF HandsOn, Kept
  <2>2. CASE e = c
    <3>1. pc[c] \in {"resume", "shutdown"}
      BY <1>1, <1>u, <2>1, <2>2 DEF InHand
    <3> QED BY <1>1, <1>3, <2>2, <3>1 DEF InHand, Unguarded
  <2>3. CASE e # c
    BY <1>1, <1>2, <2>1, <2>3 DEF InHand, Waiting
  <2> QED BY <2>2, <2>3
<1> QED BY <1>6, <1>7, <1>8 DEF HandsOn

\* An answer, none because the daemon is gone, or Ctrl-C in another command.
LEMMA HandLeaves ==
  ASSUME LifeInv, TypeOK, HandsOn, InTime, NEW c \in Client,
         Receive(c) \/ RequestFails(c) \/ (Interrupt(c) /\ Asking(c) /\ ~Updating(c))
  PROVE  HandsOn'
<1> USE DEF Updating, UnchangedByClient, jobVars, Goto
<1>1. PICK label :
        /\ pc' = [pc EXCEPT ![c] = label]
        /\ \/ label = AfterAnswer(c) /\ Waiting(c) /\ inbox[c].answer # None
           \/ /\ label = IF pc[c] = "submit" THEN "start" ELSE "failed"
              /\ Refused(c) \/ CutOff(c)
           \/ label = "failed" /\ ~Updating(c)
  BY DEF Receive, RequestFails, NoAnswer, Late, InTime, Interrupt, Asking
<1>2. /\ UNCHANGED <<paused, command, conns, step>>
      /\ inbox' = [inbox EXCEPT ![c] = NotWaiting]
      /\ pc[c] \in {"submit", "resend", "pause", "resume", "shutdown"}
  BY DEF Receive, RequestFails, Interrupt, LifeInv, WaitsForAnswer, Asking
<1>3. /\ \A e \in Client : e # c => pc'[e] = pc[e] /\ inbox'[e] = inbox[e]
      /\ pc'[c] = label /\ inbox'[c].n = 0
  BY <1>1, <1>2 DEF LifeInv, Shapes, NotWaiting
<1>4. Updating(c) => \A m \in conns : m.from # c
  BY <1>1 DEF HandsOn, Exchange, Waiting, CutOff, Refused
<1>u. IF Updating(c) THEN pc[c] \in {"pause", "resume", "shutdown"}
      ELSE pc[c] \in {"submit", "resend", "shutdown"}
  BY <1>2 DEF HandsOn, Roles
<1>l. IF Updating(c)
      THEN label \in {"failed", "stopping", "stop", "wait", "refuse"}
      ELSE label \in {"failed", "accepted", "start", "stopping"}
  BY <1>1, <1>u DEF AfterAnswer
<1>5. Roles' /\ Fresh'
  BY <1>2, <1>3, <1>l DEF HandsOn, Roles, Fresh
<1>6. Exchange'
  BY <1>2, <1>3, <1>4 DEF HandsOn, Exchange, TypeOK, Handles
<1>7. Kept'
  <2> SUFFICES ASSUME paused, Serves, NEW e \in Client, Updating(e) PROVE InHand(e)'
    BY <1>2 DEF Kept, Serves
  <2>1. InHand(e)
    BY DEF HandsOn, Kept
  <2>2. CASE e = c
    <3>1. Listening
      BY DEF Serves, Listening, LifeInv, ServingDaemonIsReached
    <3>2. label # "failed"
      <4>1. CASE label = AfterAnswer(c) /\ Waiting(c) /\ inbox[c].answer # None
        <5>1. pc[c] # "resume"
          BY <1>4, <2>1, <2>2, <4>1 DEF InHand
        <5> QED BY <1>u, <2>2, <4>1, <5>1 DEF AfterAnswer
      <4>2. CASE Refused(c)
        BY <3>1, <4>2 DEF Refused
      <4>3. CASE CutOff(c)
        BY <1>4, <1>u, <2>1, <2>2, <4>3 DEF InHand, CutOff
      <4> QED BY <1>1, <2>2, <4>1, <4>2, <4>3
    <3>3. label # "stopping"
      <4>1. CASE pc[c] = "shutdown" /\ Waiting(c) /\ inbox[c].answer # None
        BY <1>4, <2>1, <2>2, <4>1 DEF InHand
      <4> QED BY <1>1, <1>u, <2>2, <4>1 DEF AfterAnswer
    <3> QED BY <1>3, <1>l, <2>2, <3>2, <3>3 DEF InHand, Unguarded
  <2>3. CASE e # c
    BY <1>2, <1>3, <2>1, <2>3 DEF InHand, Waiting
  <2> QED BY <2>2, <2>3
<1> QED BY <1>5, <1>6, <1>7 DEF HandsOn

\* What a daemon handles. Whoever handles a request serves alone.
LEMMA HandHandles ==
  ASSUME LifeInv, TypeOK, HandsOn, OneUpdate, NEW d \in Daemon, Handle(d),
         UNCHANGED clientVars
  PROVE  HandsOn'
<1> USE DEF Updating, clientVars
<1>0. UNCHANGED <<command, pc>> /\ Handles(d)
  BY DEF Handle
<1>1. PICK m \in conns :
        /\ m.to = d
        /\ \/ HandleSubmit(m) \/ HandlePause(m) \/ HandleList(m)
           \/ HandleResume(m) \/ HandleShutdown(m)
  BY DEF Handle
<1>t. /\ m.from \in Client /\ m.n # 0 /\ m.n \in Nat
      /\ \A o \in conns : o.from \in Client /\ o.to \in Daemon
  BY DEF TypeOK, HandsOn, Exchange
<1>i. \A c \in Client : inbox'[c].n = inbox[c].n
  BY <1>1, ReplyFacts DEF HandleSubmit, HandlePause, HandleList, HandleResume, HandleShutdown
<1>o. \A c \in Client : c # m.from => inbox'[c] = inbox[c]
  BY <1>1, ReplyFacts DEF HandleSubmit, HandlePause, HandleList, HandleResume, HandleShutdown
<1>c. conns' = (conns \ {m}) \cup
                 (IF m.kind = "pause" THEN {[m EXCEPT !.kind = "list"]} ELSE {})
  BY <1>1 DEF HandleSubmit, HandlePause, HandleList, HandleResume, HandleShutdown
<1>l. LET l == [m EXCEPT !.kind = "list"]
      IN  l.from = m.from /\ l.to = m.to /\ l.n = m.n /\ l.kind = "list"
  BY DEF TypeOK
<1>e. \/ step' = step
      \/ m.kind = "shutdown"
         /\ step' = [step EXCEPT ![d] = IF @ = "serving" THEN "stopping" ELSE @]
  BY <1>1 DEF HandleSubmit, HandlePause, HandleList, HandleResume, HandleShutdown
<1>2. /\ \A e \in Daemon : Handles(e)' <=> Handles(e)
      /\ \A e \in Daemon : step'[e] \in {"ready", "serving"} => step[e] = step'[e]
  BY <1>e DEF Handles, LifeInv, Shapes, Daemon
<1>3. \A e \in Daemon : step[e] # "ready"
  BY <1>0, OneAtWork DEF Schedules, Handles
<1>4. Roles' /\ Fresh'
  BY <1>0, <1>2, <1>3 DEF HandsOn, Roles, Fresh
<1>5. Exchange'
  <2>1. \A o \in conns : Updating(m.from) /\ o.from = m.from => o = m
    BY <1>t DEF HandsOn, Exchange
  <2>2. CASE m.kind = "pause"
    <3>1. inbox' = inbox
      BY <1>1, <2>2 DEF HandleSubmit, HandlePause, HandleList, HandleResume, HandleShutdown
    <3> DEFINE l == [m EXCEPT !.kind = "list"]
    <3>2. conns' = (conns \ {m}) \cup {l}
      BY <1>c, <2>2
    <3>3. l.from = m.from /\ l.to = m.to /\ l.n = m.n /\ l.kind = "list"
      BY <1>l
    <3> HIDE DEF l
    <3>4. /\ Updating(m.from) /\ pc[m.from] = "pause"
          /\ inbox[m.from].n = m.n /\ inbox[m.from].answer = None
      BY <2>2 DEF HandsOn, Exchange
    <3> SUFFICES ASSUME NEW o \in conns'
                 PROVE  /\ Handles(o.to)' /\ o.n # 0
                        /\ o.kind \in {"pause", "list", "resume"} => Updating(o.from)
                        /\ Updating(o.from) =>
                             /\ inbox[o.from].n = o.n /\ inbox[o.from].answer = None
                             /\ pc[o.from] = IF o.kind = "list" THEN "pause" ELSE o.kind
                             /\ \A q \in conns' : q.from = o.from => q = o
      BY <1>0, <3>1 DEF Exchange
    <3>5. CASE o = l
      BY <1>0, <1>1, <1>2, <1>t, <2>1, <3>2, <3>3, <3>4, <3>5
    <3>6. CASE o # l
      BY <1>2, <1>t, <2>1, <3>2, <3>3, <3>4, <3>6 DEF HandsOn, Exchange
    <3> QED BY <3>5, <3>6
  <2>3. CASE m.kind # "pause"
    <3>1. \A o \in conns' : o \in conns /\ (Updating(o.from) => o.from # m.from)
      BY <1>c, <2>1, <2>3
    <3> QED BY <1>0, <1>2, <1>c, <1>o, <1>t, <2>3, <3>1 DEF HandsOn, Exchange
  <2> QED BY <2>2, <2>3
<1>6. Kept'
  <2> SUFFICES ASSUME paused', Serves', NEW c \in Client, Updating(c) PROVE InHand(c)'
    BY <1>0 DEF Kept
  <2>1. Serves /\ step[d] = "serving" /\ step'[d] = "serving" /\ m.kind # "shutdown"
    <3> PICK e \in Daemon : step'[e] = "serving"
      BY DEF Serves
    <3>1. step[e] = "serving"
      BY <1>2
    <3>2. e = d
      BY <1>0, <3>1, OneAtWork DEF Schedules, Handles
    <3> QED BY <1>1, <3>1, <3>2 DEF Serves, HandleSubmit, HandlePause, HandleList,
               HandleResume, HandleShutdown, LifeInv, Shapes
  <2>2. CASE m.from = c
    <3>1. m.kind \notin {"submit", "resume"}
      <4>1. m.kind # "submit"
        BY <2>2 DEF HandsOn, Exchange, Roles
      <4>2. m.kind # "resume"
        BY <1>1 DEF HandleSubmit, HandlePause, HandleList, HandleResume, HandleShutdown
      <4> QED BY <4>1, <4>2
    <3>2. m.kind \in {"pause", "list"} /\ pc[c] = "pause" /\ inbox[c].n = m.n
      BY <1>1, <2>1, <2>2, <3>1 DEF HandsOn, Exchange, HandleSubmit, HandlePause, HandleList,
         HandleResume, HandleShutdown
    <3>3. Waiting(c)'
      BY <1>i, <1>t, <3>2 DEF Waiting
    <3>4. CASE m.kind = "pause"
      BY <1>0, <1>c, <1>l, <2>2, <3>2, <3>3, <3>4 DEF InHand, Unguarded
    <3>5. CASE m.kind = "list"
      <4>1. ActiveJobs \in SUBSET JobId
        BY DEF ActiveJobs
      <4>2. ActiveJobs # None
        BY <4>1, DaemonAssumption
      <4>3. inbox'[c].answer = ActiveJobs
        BY <1>1, <1>t, <2>2, <3>2, <3>5, ReplyFacts DEF HandleSubmit, HandlePause,
           HandleList, HandleResume, HandleShutdown
      <4> QED BY <1>0, <3>2, <3>3, <4>2, <4>3 DEF InHand, Unguarded
    <3> QED BY <3>2, <3>4, <3>5
  <2>3. CASE m.from # c
    <3>1. m.kind # "pause"
      BY <1>t, <2>3 DEF HandsOn, Exchange, OneUpdate
    <3>2. paused
      BY <1>1, <3>1 DEF HandleSubmit, HandlePause, HandleList, HandleResume, HandleShutdown
    <3>3. InHand(c)
      BY <2>1, <3>2 DEF HandsOn, Kept
    <3> QED BY <1>0, <1>2, <1>c, <1>o, <2>3, <3>1, <3>3 DEF InHand, Waiting
  <2> QED BY <2>2, <2>3
<1> QED BY <1>4, <1>5, <1>6 DEF HandsOn

\* A daemon that recovers forgets the pause, one that starts to serve has none,
\* and one that goes away takes no request along that another should have.
LEMMA HandDaemons ==
  ASSUME LifeInv, TypeOK, HandsOn, NEW d \in Daemon,
         Recover(d) \/ CloseDatabase(d) \/ Crash(d), UNCHANGED clientVars
  PROVE  HandsOn'
<1> USE DEF Updating, clientVars, jobVars, lifeVars
<1>1. UNCHANGED <<command, pc, inbox>>
  BY DEF Recover, CloseDatabase, Crash
<1>2. Roles'
  BY <1>1 DEF HandsOn, Roles
<1>3. CASE Recover(d)
  <2>1. /\ step[d] = "migrating" /\ step' = [step EXCEPT ![d] = "ready"]
        /\ step \in [Daemon -> Steps] /\ conns' = conns /\ ~paused'
    BY <1>3 DEF Recover, At, LifeInv, Shapes
  <2>2. \A e \in Daemon : Handles(e) => Handles(e)'
    BY <2>1 DEF Handles
  <2>3. Exchange'
    BY <1>1, <2>1, <2>2 DEF HandsOn, Exchange, TypeOK
  <2> QED BY <1>2, <2>1, <2>3 DEF HandsOn, Fresh, Kept
<1>4. CASE CloseDatabase(d) \/ Crash(d)
  <2>1. /\ step \in [Daemon -> Steps] /\ paused' = paused
        /\ conns' = {m \in conns : m.to # d}
        /\ \/ step' = [step EXCEPT ![d] = "closed"] /\ Handles(d)
           \/ step' = [step EXCEPT ![d] = "killed"] /\ step[d] # "unborn"
    BY <1>4 DEF CloseDatabase, Crash, At, LifeInv, Shapes, Ended, Handles
  <2>2. \A e \in Daemon : e # d => step'[e] = step[e] /\ (Handles(e)' <=> Handles(e))
    BY <2>1 DEF Handles
  <2>3. step'[d] \in {"closed", "killed"}
    BY <2>1
  <2>4. Fresh'
    BY <2>1, <2>2, <2>3 DEF HandsOn, Fresh
  <2>5. Exchange'
    BY <1>1, <2>1, <2>2 DEF HandsOn, Exchange, TypeOK
  <2>6. Kept'
    <3> SUFFICES ASSUME paused, Serves', NEW c \in Client, Updating(c) PROVE InHand(c)'
      BY <1>1, <2>1 DEF Kept
    <3> PICK e \in Daemon : step'[e] = "serving"
      BY DEF Serves
    <3>1. step[e] = "serving" /\ e # d
      BY <2>2, <2>3
    <3>2. ~Handles(d)
      BY <3>1, OneAtWork DEF Schedules, Handles
    <3>3. conns' = conns
      BY <2>1, <3>2 DEF HandsOn, Exchange
    <3>4. InHand(c)
      BY <3>1 DEF HandsOn, Kept, Serves
    <3> QED BY <1>1, <3>3, <3>4 DEF InHand, Waiting
  <2> QED BY <1>2, <2>4, <2>5, <2>6 DEF HandsOn
<1> QED BY <1>3, <1>4

LEMMA HandStep ==
  LifeInv /\ TypeOK /\ HandInv /\ [Next]_vars /\ [CtrlCWhereGuarded]_vars => HandInv'
<1> SUFFICES ASSUME LifeInv, TypeOK, HandInv, [Next]_vars, [CtrlCWhereGuarded]_vars,
                    InTime, OneUpdate'
             PROVE  HandsOn'
  BY DEF HandInv, InTime
<1>1. CASE UNCHANGED vars
  <2>1. UNCHANGED <<paused, conns, inbox, command, pc, step>>
    BY <1>1 DEF vars, daemonVars, lifeVars, jobVars, clientVars
  <2>2. HandsOn
    BY <2>1 DEF HandInv, OneUpdate, Updating
  <2> QED BY <2>1, <2>2, HandFrame DEF Handles
<1>2. CASE Next /\ CtrlCWhereGuarded
  <2>1. command' = command
    BY CommandsStay
  <2>2. OneUpdate /\ HandsOn
    BY <2>1 DEF HandInv, OneUpdate, Updating
  <2>3. ASSUME NEW c \in Client, ClientStep(c) \/ Interrupt(c) PROVE HandsOn'
    <3>1. CASE ClientStep(c)
      BY <2>2, <3>1, HandPings, HandAsks, HandLeaves
    <3>2. CASE Interrupt(c) /\ ~ClientStep(c)
      <4>1. Updating(c) => pc[c] \notin Unguarded /\ ~Asking(c)
        <5>1. Updating(c) => pc[c] \notin Unguarded
          BY <1>2, <3>2 DEF CtrlCWhereGuarded
        <5> QED BY <2>2, <5>1 DEF HandsOn, Roles, Asking, Unguarded
      <4> QED BY <2>2, <3>2, <4>1, HandPings, HandLeaves
    <3> QED BY <2>3, <3>1, <3>2
  <2>4. ASSUME NEW d \in Daemon, DaemonStep(d), UNCHANGED clientVars PROVE HandsOn'
    <3>1. CASE Handle(d)
      BY <2>2, <2>4, <3>1, HandHandles
    <3>2. CASE Recover(d) \/ CloseDatabase(d)
      BY <2>2, <2>4, <3>2, HandDaemons
    <3>3. CASE ~Handle(d) /\ ~Recover(d) /\ ~CloseDatabase(d)
      <4>1. /\ UNCHANGED <<paused, conns, inbox, command, pc>>
            /\ \/ step' = step
               \/ /\ step[d] = "ready" /\ step' = [step EXCEPT ![d] = "serving"]
               \/ /\ step[d] = "stopping" /\ step' = [step EXCEPT ![d] = "draining"]
               \/ /\ step[d] \notin {"ready", "serving", "stopping", "draining"}
                  /\ \E s \in {"locked", "dead", "migrating", "unlinked"} :
                       step' = [step EXCEPT ![d] = s]
        BY <2>4, <3>3 DEF DaemonStep, TakeLock, LoseLock, RemoveStale, BeginMigration,
           RunStatement, CommitMigration, RefuseSchema, Listen, EndJob, CloseServer,
           RemoveSocket, Unlock, At, lifeVars, jobVars, clientVars
      <4>2. step \in [Daemon -> Steps] /\ (step[d] = "ready" => ~paused)
        BY <2>2 DEF LifeInv, Shapes, HandsOn, Fresh
      <4>3. \A e \in Daemon : /\ Handles(e) => Handles(e)'
                              /\ step'[e] = "ready" => step[e] = "ready"
                              /\ step'[e] = "serving" => step[e] = "serving" \/ ~paused
        BY <4>1, <4>2 DEF Handles
      <4> QED BY <2>2, <4>1, <4>3, HandFrame
    <3> QED BY <3>1, <3>2, <3>3
  <2>5. ASSUME NEW d \in Daemon, Crash(d), UNCHANGED clientVars PROVE HandsOn'
    BY <2>2, <2>5, HandDaemons
  <2>6. ASSUME NEW j \in JobId, UNCHANGED clientVars,
               ProcessEnds(j) \/ \E d \in Daemon : StartJob(d, j)
        PROVE  HandsOn'
    <3>1. UNCHANGED <<paused, conns, inbox, command, pc, step>>
      BY <2>6 DEF ProcessEnds, StartJob, lifeVars, clientVars
    <3> QED BY <2>2, <3>1, HandFrame DEF Handles
  <2> QED BY <1>2, <2>3, <2>4, <2>5, <2>6 DEF Next, DaemonNext
<1> QED BY <1>1, <1>2

\* Where no answer, ping or start is late, nobody else updates, and Ctrl-C does not
\* come where cli.py lets it through, an update that did not go ahead leaves no
\* daemon paused that serves: through crashes, stops and starts of daemons, Ctrl-C
\* in the wait for jobs, which resumes the queue as usage.md:375 promises, and
\* Ctrl-C in any other command. Each of the conditions is needed.
THEOREM UpdatesLeaveNoPause ==
  Spec /\ [][CtrlCWhereGuarded]_vars => [](InTime /\ OneUpdate => NotLeftPaused)
<1>1. HandInv => (InTime /\ OneUpdate => NotLeftPaused)
  BY DEF HandInv, HandsOn, Kept, Serves, InHand, Unguarded, NotLeftPaused
<1>2. Spec => [](LifeInv /\ TypeOK)
  BY LifeInit, LifeStep, TypeInit, TypeStep, PTL DEF Spec
<1>3. Spec /\ [][CtrlCWhereGuarded]_vars => []HandInv
  BY <1>2, HandInit, HandStep, PTL DEF Spec
<1> QED BY <1>1, <1>3, PTL
=============================================================================
