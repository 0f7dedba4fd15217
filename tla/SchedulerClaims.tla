-------------------------- MODULE SchedulerClaims --------------------------
(***************************************************************************)
(* What gq's documents say of the scheduler and its code does not do. Each *)
(* is checked in a run of its own, which finds the counterexample.         *)
(***************************************************************************)
EXTENDS MCScheduler

\* "the worst case is an idle GPU, never a double-booked one" (README.md:38):
\* the live processes of two jobs never see the same GPU. A daemon killed
\* after the fork and before mark_running commits leaves a STARTING row
\* without a process identity; recovery fails the row and frees its devices
\* while the command runs on.
NeverDoubleBooked ==
  \A i, j \in JobId :
    i # j /\ Running(i) /\ Running(j) => cvd[i] \cap cvd[j] = {}

\* "if a launcher exits early, retains resources until the rest of the process
\* group disappears" (docs/architecture.md:79): a job that ended by itself has
\* no process left. The path for a launcher that was already waited for when
\* its identity is read does not look at the group.
EndedJobsAreGone ==
  \A j \in JobId : state[j] \in {"DONE", "FAILED"} => ~Running(j)

\* "Cancellation temporarily uses CANCELLING, then CANCELLED"
\* (docs/usage.md:128). Recovery makes a live CANCELLING job ORPHANED when one
\* of its devices has no UUID in the first scan, and nothing ever signals or
\* reaps it again.
CancellingEndsCancelled ==
  [][\A j \in JobId :
       state[j] = "CANCELLING" => state'[j] \in {"CANCELLING", "CANCELLED"}]_vars
=============================================================================
