------------------------ MODULE SchedulerProperties ------------------------
(***************************************************************************)
(* What must hold of the scheduler. The properties name their own sets of  *)
(* states: they do not use the operators of Scheduler that model its code. *)
(***************************************************************************)
EXTENDS Scheduler

-----------------------------------------------------------------------------
(* Invariants.                                                             *)

\* Every variable has its type: the rows, the daemon's memory, the machine.
TypeOK ==
  /\ state \in [JobId -> JobStates]
  /\ request \in [JobId -> [gpus : Nat, group : Group \cup {None},
                            key : Key \cup {None}, root : Nat]]
  /\ nextId \in 1..(MaxJobs + 1)
  /\ rows \in [JobId -> SUBSET GPU]
  /\ saved \in [JobId -> {None, "this", "earlier"}]
  /\ ended \in Seq(JobId) /\ fast \subseteq JobId
  /\ holds \in [Group -> {"free", "manual", "auto"}]
  /\ held \in [Group -> {"free", "manual", "auto"}]
  /\ since \in [Group -> Nat]
  /\ phase \in {"down", "up", "stopping", "closed"}
  /\ starts \in 0..MaxStarts /\ paused \in BOOLEAN
  /\ obs \in [GPU -> Observation]
  /\ monitored \subseteq JobId
  /\ canceller \in [JobId -> {None, "grace", "wait"}]
  /\ pc \in {"free", "recover", "reap", "scan", "reserved", "spawned"}
  /\ todo \subseteq JobId /\ cur \in 0..MaxJobs /\ byTick \in BOOLEAN
  /\ grp \in [JobId -> {None, "leader", "workers", "dead"}]
  /\ cvd \in [JobId -> SUBSET GPU]
  /\ killed \subseteq JobId
  /\ ext \subseteq GPU

Holding(j) == state[j] \in {"STARTING", "RUNNING", "CANCELLING", "ORPHANED"}
Running(j) == grp[j] \in {"leader", "workers"}

\* "A GPU assigned to a managed job is never simultaneously allocatable"
\* (docs/architecture.md:32): no two jobs that hold GPUs hold the same one,
\* through launches, failures, cancellations, recovery and reaping.
NoDoubleBooking ==
  \A i, j \in JobId :
    i # j /\ Holding(i) /\ Holding(j) => rows[i] \cap rows[j] = {}

\* A job whose process identity is saved keeps its reservation while any
\* process of its group lives, a launcher's workers included, and those
\* processes see exactly the reserved devices (architecture.md:78).
LiveGroupKeepsReservation ==
  \A j \in JobId : saved[j] # None /\ Running(j) => Holding(j) /\ cvd[j] = rows[j]

\* Two live groups gq has recorded never see the same GPU.
RecordedGroupsDisjoint ==
  \A i, j \in JobId :
    /\ i # j
    /\ saved[i] # None /\ Running(i)
    /\ saved[j] # None /\ Running(j)
    => cvd[i] \cap cvd[j] = {}

\* Whole requests only: a job that holds GPUs holds as many as it asked for,
\* and a job that waits has none recorded.
WholeAssignment ==
  \A j \in JobId :
    /\ Holding(j) => Cardinality(rows[j]) = request[j].gpus
    /\ state[j] = "WAITING" => rows[j] = {}

\* While a daemon runs undisturbed a job is STARTING only in the launch that
\* the lock's holder awaits, or on its way through recovery: whatever fails in
\* a launch, its row is not left behind, as long as SQLite can be written.
NoStuckStarting ==
  phase = "up" /\ "write" \notin Faults =>
    \A j \in JobId : state[j] = "STARTING" =>
      \/ pc \in {"reserved", "spawned"} /\ cur = j
      \/ pc = "recover" /\ j \in todo

\* The list a pass read at its start stays true across the awaits of its
\* launches: what it still has to visit is WAITING, and nothing else changed.
PassListStaysTrue ==
  pc \in {"scan", "reserved", "spawned"} =>
    /\ \A j \in todo : state[j] = "WAITING"
    /\ \A j \in JobId : cur # 0 /\ j > cur /\ state[j] = "WAITING" => j \in todo

\* A cancellation of a live group is never forgotten while the daemon is up:
\* its grace period is running, or SIGKILL is on its way, also after a crash
\* or restart between the request and the escalation.
CancelNotForgotten ==
  phase = "up" =>
    \A j \in JobId :
      state[j] = "CANCELLING" /\ saved[j] = "this" /\ Running(j) =>
        \/ canceller[j] = "grace"
        \/ j \in killed
        \/ pc = "recover" /\ j \in todo

\* A key belongs to at most one job that has not FAILED and was not
\* CANCELLED, whatever mix of submissions and retries ran.
KeyExclusive ==
  \A i, j \in JobId :
    /\ i # j
    /\ request[i].key = request[j].key /\ request[i].key # None
    /\ state[i] \notin {None, "FAILED", "CANCELLED"}
    => state[j] \in {None, "FAILED", "CANCELLED"}

\* Retry never makes a lineage run twice at once: of the jobs that share a
\* first attempt at most one is unfinished.
LineageRunsOnce ==
  LET first(j) == IF request[j].root = 0 THEN j ELSE request[j].root
      open(j)  == state[j] \in {"WAITING", "STARTING", "RUNNING", "CANCELLING"}
  IN \A i, j \in JobId : i # j /\ open(i) /\ open(j) => first(i) # first(j)

\* The mirror in memory and the group_holds table agree on which groups are
\* held, across automatic holds, retries that release, and restarts.
HeldMirrorsTable ==
  phase # "down" => \A g \in Group : held[g] = "free" <=> holds[g] = "free"

\* The fail-fast rule misses no streak: in a group that is not held, the last
\* FailFastCount outcomes since its release are not all quick failures, whatever
\* was retried, released, held and cancelled in between. (For outcomes a daemon
\* watched and nobody deleted.)
StreakIsHeld ==
  \A g \in Group :
    LET outcomes == {i \in DOMAIN ended : /\ i > since[g]
                                          /\ request[ended[i]].group = g
                                          /\ state[ended[i]] \in {"DONE", "FAILED"}}
        from(i)  == {k \in outcomes : k >= i}
    IN holds[g] = "free" =>
         \A i \in outcomes : Cardinality(from(i)) = FailFastCount =>
                              \E k \in from(i) : ended[k] \notin fast

-----------------------------------------------------------------------------
(* Action properties.                                                      *)

\* While the queue is paused "the set of running jobs can only shrink"
\* (docs/usage.md:346).
PausedOnlyShrinks ==
  [][paused /\ paused' =>
       {j \in JobId : Holding(j)}' \subseteq {j \in JobId : Holding(j)}]_vars

\* Outside restart recovery a job being cancelled ends CANCELLED, whichever of
\* the monitor, the cancellation task and the reaper gets to it first.
CancelSticks ==
  [][\A j \in JobId :
       state[j] = "CANCELLING" /\ pc # "recover" =>
         state'[j] \in {"CANCELLING", "CANCELLED"}]_vars

\* Waiting jobs are visited oldest first (architecture.md:62): a job takes
\* GPUs only when no older waiting job, its group not held, would fit.
OldestThatFitsFirst ==
  [][\A j \in JobId : state[j] = "WAITING" /\ state'[j] = "STARTING" =>
       \A i \in 1..(j - 1) :
         state[i] = "WAITING" =>
           \/ request[i].group # None /\ held[request[i].group] # "free"
           \/ request[i].gpus >
                Cardinality({g \in GPU : obs[g] = "idle" /\
                               \A k \in JobId : Holding(k) => g \notin rows[k]})]_vars

\* A held group starts nothing until it is released: also not a job that a pass
\* has on its list since before a failed launch of that same pass led to the hold
\* (scheduler.py:490), nor after a crash and restart, when only the table knows.
HeldGroupsDoNotStart ==
  [][\A j \in JobId : state[j] = "WAITING" /\ state'[j] = "STARTING" =>
       request[j].group = None \/ holds[request[j].group] = "free"]_vars

\* A finished job stays as it finished until it is deleted: no late monitor,
\* cancellation task, reaper or recovery rewrites its outcome.
OutcomeIsFinal ==
  [][\A j \in JobId :
       state[j] \in {"DONE", "FAILED", "CANCELLED", "ORPHANED"} =>
         state'[j] \in {state[j], None}]_vars

\* A pass that follows a submission, a retry or the end of a grouped job works
\* on a scan made in that same step, also after scans that failed: no device
\* counted as idle is in use by a program outside gq.
NewScanBeforePass ==
  [][pc = "free" /\ pc' = "scan" /\ (nextId' # nextId \/ ended' # ended) =>
       \A g \in ext : obs'[g] # "idle"]_vars

-----------------------------------------------------------------------------
(* Liveness.                                                               *)

\* A cancelled job whose processes ignore SIGTERM still ends, unless the
\* daemon goes away first.
CancellationEnds ==
  \A j \in JobId :
    state[j] = "CANCELLING" ~> (state[j] # "CANCELLING" \/ phase # "up")

\* Every queued job that fits this machine is started or cancelled in the end,
\* through failed scans, lost monitors, cancellations and reaping, unless the
\* daemon goes away or an ORPHANED job keeps GPUs until it is deleted.
QueueDrains ==
  \A j \in JobId :
    state[j] = "WAITING" ~> \/ state[j] # "WAITING"
                            \/ phase # "up"
                            \/ \E i \in JobId : state[i] = "ORPHANED"

\* Whoever takes the lock gives it back.
LockReleased == pc # "free" ~> pc = "free"
=============================================================================
