------------------------- MODULE SchedulerInvariant -------------------------
(***************************************************************************)
(* The inductive invariant behind the safety properties of the scheduler,  *)
(* in named parts.                                                         *)
(***************************************************************************)
EXTENDS SchedulerProperties

\* A live group that gq has recorded: what a restarted daemon can find again.
Recorded(j) == saved[j] # None /\ Running(j)

\* Ids at or above the AUTOINCREMENT counter have never had a row.
FreshIds == \A j \in JobId : j >= nextId => state[j] = None

\* A job that has not been reserved has no devices, one that has not been
\* recorded as started has no identity, and identities of an earlier boot
\* belong to groups that are gone.
RowsFollowState ==
  \A j \in JobId :
    /\ state[j] \in {None, "WAITING"} => rows[j] = {}
    /\ state[j] \in {None, "WAITING", "STARTING"} => saved[j] = None
    /\ saved[j] = "earlier" => ~Running(j)

\* The launch the lock's holder is in: its job stays STARTING and unrecorded
\* across the awaits, and its processes see the devices reserved for it.
LaunchInHand ==
  pc \in {"reserved", "spawned"} =>
    /\ cur \in JobId
    /\ state[cur] = "STARTING"
    /\ pc = "spawned" /\ Running(cur) => cvd[cur] = rows[cur]

\* The list each loop under the lock still has to visit.
PassList ==
  pc \in {"scan", "reserved", "spawned"} =>
    /\ \A j \in todo : state[j] = "WAITING"
    /\ \A i \in todo, j \in JobId : i < j /\ state[j] = "WAITING" => j \in todo
    /\ \A j \in JobId : cur # 0 /\ cur < j /\ state[j] = "WAITING" => j \in todo

ReapList ==
  pc = "reap" =>
    \A j \in todo : state[j] \in {"STARTING", "RUNNING", "CANCELLING"} /\ ~Recorded(j)

RecoverList ==
  pc = "recover" =>
    \A j \in todo : state[j] \in {"STARTING", "RUNNING", "CANCELLING"}

\* cur is 0 outside a launch, and no lock is held while the daemon is down.
LockMemory ==
  /\ pc \notin {"reserved", "spawned"} => cur = 0
  /\ phase = "down" => pc = "free"

\* The invariant of the rows: what the database and the launches agree on.
RowsInv ==
  /\ FreshIds
  /\ RowsFollowState
  /\ LaunchInHand
  /\ LiveGroupKeepsReservation
  /\ NoDoubleBooking
  /\ WholeAssignment

\* The invariant of the lock: what its holder remembers stays true.
ListsInv ==
  /\ PassList
  /\ ReapList
  /\ RecoverList
  /\ LockMemory
  /\ NoStuckStarting

IInv == TypeOK /\ RowsInv /\ ListsInv
=============================================================================
