-------------------------- MODULE SchedulerLedger --------------------------
(***************************************************************************)
(* The scheduler implements the ledger: the map from its tables, processes *)
(* and memory to what GpuLedger speaks of.                                 *)
(***************************************************************************)
EXTENDS MCScheduler

(* A row that is gone leaves no trace but an id that is never used again.  *)
Life(j) ==
  IF state[j] = None THEN IF j < nextId THEN "gone" ELSE "new"
  ELSE IF state[j] = "WAITING" THEN "waiting"
  ELSE IF state[j] \in {"STARTING", "RUNNING", "CANCELLING"} THEN "holding"
  ELSE IF state[j] = "ORPHANED" THEN "aside"
  ELSE "ended"

Ledger == INSTANCE GpuLedger WITH
  Job <- JobId,
  Device <- GPU,
  life <- [j \in JobId |-> Life(j)],
  need <- [j \in JobId |-> request[j].gpus],
  holds <- [j \in JobId |-> IF Holding(j) THEN rows[j] ELSE {}],
  running <- {j \in JobId : saved[j] # None /\ Running(j)}

\* Every behaviour of the scheduler is one the ledger allows: through passes,
\* failed launches, cancellations, crashes, reboots and recovery no job gets
\* part of its request or a device that is held, and none gives its devices
\* back while processes gq has on record still run.
ImplementsLedger == Ledger!Spec
=============================================================================
