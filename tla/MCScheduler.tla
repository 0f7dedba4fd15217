---------------------------- MODULE MCScheduler ----------------------------
(***************************************************************************)
(* Values of Scheduler's constants for TLC.                                *)
(***************************************************************************)
EXTENDS SchedulerInvariant

NoLabels == {}

\* Jobs of one and of two GPUs, without labels.
SizedSubmissions ==
  {[gpus |-> n, group |-> None, key |-> None] : n \in {1, 2}}

\* One GPU each, without labels.
PlainSubmissions == {[gpus |-> 1, group |-> None, key |-> None]}

\* One GPU each, in a group.
GroupSubmissions ==
  {[gpus |-> 1, group |-> g, key |-> None] : g \in Group}

\* One GPU each, in a group or on their own.
GroupOrPlain ==
  {[gpus |-> 1, group |-> g, key |-> None] : g \in Group \cup {None}}

\* One GPU each, one key or none, in a group.
KeyedGroups ==
  {[gpus |-> 1, group |-> g, key |-> k] : g \in Group, k \in Key \cup {None}}
=============================================================================
