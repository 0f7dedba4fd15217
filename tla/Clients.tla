------------------------------ MODULE Clients ------------------------------
(***************************************************************************)
(* The gq commands that take several requests (cli.py): a submission that  *)
(* starts the daemon and is sent again, gq daemon start and stop, and      *)
(* gq update, against the daemons they talk to and spawn. A client and the *)
(* daemon it starts have the same name. Any request may time out although  *)
(* the daemon gets it.                                                     *)
(***************************************************************************)
EXTENDS Daemon

CONSTANT Commands  \* what the clients may run, together

Programs == {"submit", "start", "stop", "update", "update-wait", "update-force"}

ASSUME CommandsAssumption == Commands \subseteq [Client -> Programs]

VARIABLES
  command,  \* what each client runs
  pc,       \* the request, ping or wait it is at
  sent      \* how many requests it has sent

clientVars == <<command, pc, sent>>
vars == <<daemonVars, clientVars>>

Goto(c, label) == pc' = [pc EXCEPT ![c] = label] /\ UNCHANGED command

UnchangedByClient == UNCHANGED <<lock, socket, tableVars, jobVars>>

-----------------------------------------------------------------------------
(* request: connect, send a line, wait for a line (protocol.py).           *)

Updating(c) == command[c] \in {"update", "update-wait", "update-force"}

Kind(label) == IF label \in {"submit", "resend"} THEN "submit" ELSE label
Asking(c) == pc[c] \in {"submit", "resend", "pause", "resume", "shutdown"}
Waiting(c) == inbox[c].n # 0

Ask(c) ==
  /\ Asking(c) /\ ~Waiting(c)
  /\ Listening
  /\ conns' = conns \cup {[from |-> c, to |-> socket, kind |-> Kind(pc[c]),
                           n |-> sent[c] + 1]}
  /\ inbox' = [inbox EXCEPT ![c] = [n |-> sent[c] + 1, answer |-> None]]
  /\ sent' = [sent EXCEPT ![c] = @ + 1]
  /\ UnchangedByClient
  /\ UNCHANGED <<step, command, pc>>

(* What each command does with an answer.                                  *)
AfterAnswer(c) ==
  CASE pc[c] \in {"submit", "resend"} -> "accepted"
    [] pc[c] = "resume"               -> "failed"
    [] pc[c] = "shutdown"             -> "stopping"
    [] pc[c] = "pause"                ->
         IF inbox[c].answer = {} \/ command[c] = "update-force" THEN "stop"
         ELSE IF command[c] = "update-wait" THEN "wait" ELSE "refuse"

Receive(c) ==
  /\ Waiting(c) /\ inbox[c].answer # None
  /\ Goto(c, AfterAnswer(c))
  /\ inbox' = [inbox EXCEPT ![c] = NotWaiting]
  /\ UnchangedByClient
  /\ UNCHANGED <<step, conns, sent>>

(* ProtocolError: nobody listens, the daemon went away, or the answer does *)
(* not come in time. A request that was sent stays with the daemon.        *)
Refused(c) == ~Waiting(c) /\ ~Listening
CutOff(c)  == /\ Waiting(c) /\ inbox[c].answer = None
              /\ \A m \in conns : m.from = c => m.n # inbox[c].n
Late(c)    == "slow" \in Faults /\ Waiting(c) /\ inbox[c].answer = None

NoAnswer_refusedOnly(c) == Refused(c)
NoAnswer(c) == Refused(c) \/ CutOff(c) \/ Late(c)

(* _daemon_request starts a daemon and sends the request again; only a     *)
(* submission asks for that.                                               *)
RequestFails(c) ==
  /\ Asking(c) /\ NoAnswer(c)
  /\ Goto(c, IF pc[c] = "submit" THEN "start" ELSE "failed")
  /\ inbox' = [inbox EXCEPT ![c] = NotWaiting]
  /\ UnchangedByClient
  /\ UNCHANGED <<step, conns, sent>>

(* _ping: no answer within its half second counts as no daemon.            *)
Pings == {Listening} \cup (IF "slow" \in Faults THEN {FALSE} ELSE {})

UnchangedByPing == UnchangedByClient /\ UNCHANGED <<conns, inbox, sent>>

-----------------------------------------------------------------------------
(* _start_daemon, for submit, start and the end of update.                 *)

Started(c) == IF command[c] = "submit" THEN "resend" ELSE "done"

StartDaemon(c) ==
  /\ pc[c] = "start"
  /\ \E up \in Pings :
       IF up
       THEN Goto(c, Started(c)) /\ UNCHANGED step
       ELSE Goto(c, "starting") /\ At(c, "spawned")
  /\ UnchangedByPing

(* The loop: a ping, then a look whether the child has ended.              *)
AwaitDaemon(c) ==
  /\ pc[c] = "starting"
  /\ \E up \in Pings : Goto(c, IF up THEN Started(c) ELSE "look")
  /\ UnchangedByPing
  /\ UNCHANGED step

ChildEnded(c) == step[c] \in Ended

LookAtChild(c) ==
  /\ pc[c] = "look"
  /\ \/ ChildEnded(c) /\ Goto(c, "failed")
     \/ ~ChildEnded(c) /\ Goto(c, "starting")
  /\ UnchangedByPing
  /\ UNCHANGED step

(* Its deadline of eight seconds may pass at any point.                    *)
StartTimesOut(c) ==
  /\ "slow" \in Faults
  /\ pc[c] \in {"starting", "look"}
  /\ Goto(c, "failed")
  /\ UnchangedByPing
  /\ UNCHANGED step

-----------------------------------------------------------------------------
(* _stop_daemon, for stop and update.                                      *)

Stopped(c) == IF Updating(c) THEN "install" ELSE "done"

StopDaemon(c) ==
  /\ pc[c] = "stop"
  /\ \E up \in Pings : Goto(c, IF up THEN "shutdown" ELSE Stopped(c))
  /\ UnchangedByPing
  /\ UNCHANGED step

(* It polls until nobody answers, for five seconds at most.                *)
AwaitStop(c) ==
  /\ pc[c] = "stopping"
  /\ FALSE \in Pings
  /\ Goto(c, Stopped(c))
  /\ UnchangedByPing
  /\ UNCHANGED step

-----------------------------------------------------------------------------
(* gq update.                                                              *)

(* Without a daemon there is nothing to stop, and none is started after.   *)
CheckDaemon(c) ==
  /\ pc[c] = "check"
  /\ \E up \in Pings : Goto(c, IF up THEN "pause" ELSE "done")
  /\ UnchangedByPing
  /\ UNCHANGED step

(* _wait_for_running_jobs: the list is asked for until it is empty.        *)
WaitOver_once == TRUE
WaitOver == ActiveJobs = {}

WaitForJobs(c) ==
  /\ pc[c] = "wait"
  /\ \/ Listening /\ WaitOver /\ Goto(c, "stop")
     \/ (~Listening \/ "slow" \in Faults) /\ Goto(c, "failed")
  /\ UnchangedByPing
  /\ UNCHANGED step

(* The CLIError for running jobs: resume the queue if the daemon answers.  *)
Refuse(c) ==
  /\ pc[c] = "refuse"
  /\ \E up \in Pings : Goto(c, IF up THEN "resume" ELSE "failed")
  /\ UnchangedByPing
  /\ UNCHANGED step

(* The installer, and the restart whatever came of it.                     *)
Install(c) ==
  /\ pc[c] = "install"
  /\ Goto(c, "start")
  /\ UnchangedByPing
  /\ UNCHANGED step

-----------------------------------------------------------------------------
(* Ctrl-C, in any command and at any point.                                *)

Over(c) == pc[c] \in {"accepted", "done", "failed"}

(* A request that was sent stays with the daemon, and a daemon that was    *)
(* started leads a session of its own. The wait resumes the queue; nobody  *)
(* else on the way to the installer catches KeyboardInterrupt. Stopping    *)
(* the installer is no more than its end: the finally clause restarts.     *)
Interrupt(c) ==
  /\ "interrupt" \in Faults
  /\ ~Over(c) /\ pc[c] # "install"
  /\ Goto(c, IF pc[c] = "wait" THEN "resume" ELSE "failed")
  /\ inbox' = [inbox EXCEPT ![c] = NotWaiting]
  /\ UnchangedByClient
  /\ UNCHANGED <<step, conns, sent>>

-----------------------------------------------------------------------------
(* The specification.                                                      *)

FirstLabel(c) == IF Updating(c) THEN "check" ELSE command[c]

Init ==
  /\ DaemonInit
  /\ command \in Commands
  /\ pc = [c \in Client |-> FirstLabel(c)]
  /\ sent = [c \in Client |-> 0]

ClientStep(c) ==
  \/ Ask(c) \/ Receive(c) \/ RequestFails(c)
  \/ StartDaemon(c) \/ AwaitDaemon(c) \/ LookAtChild(c) \/ StartTimesOut(c)
  \/ StopDaemon(c) \/ AwaitStop(c)
  \/ CheckDaemon(c) \/ WaitForJobs(c) \/ Refuse(c) \/ Install(c)

DaemonNext ==
  \/ \E d \in Daemon : DaemonStep(d) \/ Crash(d)
  \/ \E d \in Daemon, j \in JobId : StartJob(d, j)
  \/ \E j \in JobId : ProcessEnds(j)

Next ==
  \/ \E c \in Client : ClientStep(c) \/ Interrupt(c)
  \/ DaemonNext /\ UNCHANGED clientVars

Spec == Init /\ [][Next]_vars

(* A daemon goes on with what it is doing, a client too, and the loop of   *)
(* _start_daemon reaches its deadline. Jobs end.                           *)
Fairness ==
  /\ WF_vars((\E d \in Daemon : DaemonStep(d)) /\ UNCHANGED clientVars)
  /\ \A c \in Client : WF_vars(ClientStep(c)) /\ WF_vars(StartTimesOut(c))
  /\ WF_vars((\E j \in JobId : ProcessEnds(j)) /\ UNCHANGED clientVars)

FairSpec == Spec /\ Fairness
=============================================================================
