-------------------------- MODULE ProcessIdentity --------------------------
(***************************************************************************)
(* How gq knows the process group of a job again (processes.py): by the    *)
(* leader's pid, which is the group's id, its start time and the boot.     *)
(* Linux gives numbers out again, so the saved identity may come to name   *)
(* a stranger; and /proc is read entry by entry while processes come and   *)
(* go. Scheduler's Alive stands for what this module details.              *)
(***************************************************************************)
EXTENDS Integers, FiniteSets

CONSTANTS
  Pid,          \* process numbers, which are also the numbers of groups
  Job,          \* the jobs
  Outside,      \* whose processes do not belong to any job
  MaxForks,     \* bound: processes started since the last boot
  MaxBoots,     \* bound: how often the machine is booted
  Unreadable,   \* whether opening /proc may fail: the daemon is out of descriptors
  LeadersStay,  \* whether a group that got a saved number keeps its leader
  None          \* no process, no saved identity, no job

Process  == [group : Pid, start : Nat, owner : Job \cup {Outside}]
Identity == [pid : Pid, start : Nat, boot : Nat]

ASSUME ProcessAssumption ==
  /\ MaxForks \in Nat /\ MaxBoots \in Nat
  /\ Unreadable \in BOOLEAN /\ LeadersStay \in BOOLEAN
  /\ Outside \notin Job
  /\ None \notin Job \cup Process \cup Identity

VARIABLES
  proc,    \* by number: None, or the process: its group, start time and owner
  clock,   \* start time of the next process, in ticks since the boot
  boot,    \* boot_id
  saved,   \* pid (and pgid, the same number), start time, boot of each job's row
  check    \* the call of managed_process_group_alive under way

kernelVars == <<proc, clock, boot>>
vars == <<kernelVars, saved, check>>

-----------------------------------------------------------------------------
(* The kernel. A number stays in use while it is a process's or a group's. *)

Used(p) == proc[p] # None
Members(g) == {p \in Pid : Used(p) /\ proc[p].group = g}
Unused == {p \in Pid : ~Used(p) /\ Members(p) = {}}

Newborn(g, o) == [group |-> g, start |-> clock, owner |-> o]

(* A process that starts. No two get the same number within one tick.      *)
Starts(p, g, o) ==
  /\ p \in Unused
  /\ clock < MaxForks
  /\ proc' = [proc EXCEPT ![p] = Newborn(g, o)]
  /\ clock' = clock + 1
  /\ UNCHANGED <<boot, check>>

(* What mark_running saves of the child.                                   *)
Saved_noStart(p) == [pid |-> p, start |-> None, boot |-> boot]
Saved(p) == [pid |-> p, start |-> clock, boot |-> boot]

(* _launch_locked: the child leads a session and group of its own; its     *)
(* number, start time and boot are saved. The daemon's one thread is not   *)
(* in a call below then.                                                   *)
Launch(j, p) ==
  /\ saved[j] = None
  /\ check.stage = "idle"
  /\ Starts(p, p, j)
  /\ saved' = [saved EXCEPT ![j] = Saved(p)]

(* A process forks: the child is in the same group.                        *)
Fork(q, p) ==
  /\ Used(q)
  /\ Starts(p, proc[q].group, proc[q].owner)
  /\ UNCHANGED saved

(* A shell outside gq starts a group.                                      *)
OutsideStarts(p) == Starts(p, p, Outside) /\ UNCHANGED saved

(* A process ends and is waited for; a leader may leave its group behind.  *)
Stranger(p) == \E j \in Job : saved[j] # None /\ saved[j].pid = p /\ proc[p].owner # j

Exits(p) ==
  /\ Used(p)
  /\ LeadersStay /\ Stranger(p) => Members(p) \subseteq {p}
  /\ proc' = [proc EXCEPT ![p] = None]
  /\ check' = [check EXCEPT !.stayed = @ \ {p}]
  /\ UNCHANGED <<clock, boot, saved>>

-----------------------------------------------------------------------------
(* managed_process_group_alive, in the steps in which it reads /proc. The  *)
(* call also carries which processes of the job stayed alive since it      *)
(* began; the code has no such memory.                                     *)

NoCheck == [job |-> None, stage |-> "idle", listed |-> {}, members |-> {},
            stayed |-> {}]

Readable == IF Unreadable THEN BOOLEAN ELSE {TRUE}

(* process_identity_alive on the saved pid and start time.                 *)
IdentityAlive_anyStart(j) == Used(saved[j].pid)
IdentityAlive(j) ==
  /\ Used(saved[j].pid)
  /\ proc[saved[j].pid].start = saved[j].start

Answer(yes) == check' = [check EXCEPT !.stage = IF yes THEN "alive" ELSE "dead",
                                      !.listed = {}, !.members = {}]

(* The row is read. Recovery and the reaper compare the boots first.       *)
Begin(j) ==
  /\ check.stage = "idle"
  /\ saved[j] # None /\ saved[j].boot = boot
  /\ check' = [NoCheck EXCEPT !.job = j, !.stage = "identity",
                              !.stayed = {p \in Pid : Used(p) /\ proc[p].owner = j}]
  /\ UNCHANGED <<kernelVars, saved>>

(* An OSError reads like a process that is not there.                      *)
ReadIdentity ==
  /\ check.stage = "identity"
  /\ \E readable \in Readable :
       IF readable /\ IdentityAlive(check.job)
       THEN Answer(TRUE)
       ELSE check' = [check EXCEPT !.stage = "list"]
  /\ UNCHANGED <<kernelVars, saved>>

(* process_group_members: the entries of /proc, then the group of each.    *)
(* When /proc cannot be opened, the call ends by the exception or, from    *)
(* Python 3.13 on, where iterdir opens at once, finds no entries.          *)
ListedAs(entries) == [check EXCEPT !.stage = "members", !.listed = entries]

List ==
  /\ check.stage = "list"
  /\ \E readable \in Readable :
       check' \in IF readable THEN {ListedAs({p \in Pid : Used(p)})}
                 ELSE {NoCheck, ListedAs({})}
  /\ UNCHANGED <<kernelVars, saved>>

ReadGroup(p) ==
  /\ check.stage = "members" /\ p \in check.listed
  /\ check' = [check EXCEPT !.listed = @ \ {p},
                            !.members = IF p \in Members(saved[check.job].pid)
                                        THEN @ \cup {p} ELSE @]
  /\ UNCHANGED <<kernelVars, saved>>

(* No members: gone. Members and no leader: the saved group without its    *)
(* leader. A leader: it has to be the saved one.                           *)
Verdict_leaderOnly == IdentityAlive(check.job)
Verdict ==
  /\ check.members # {}
  /\ saved[check.job].pid \in check.members => IdentityAlive(check.job)

Decide ==
  /\ check.stage = "members" /\ check.listed = {}
  /\ \E readable \in Readable :
       Answer(Verdict /\ (readable \/ saved[check.job].pid \notin check.members))
  /\ UNCHANGED <<kernelVars, saved>>

Return ==
  /\ check.stage \in {"alive", "dead"}
  /\ check' = NoCheck
  /\ UNCHANGED <<kernelVars, saved>>

(* The machine is booted again: start times count from the boot.           *)
Reboot ==
  /\ boot < MaxBoots
  /\ proc' = [p \in Pid |-> None]
  /\ clock' = 0
  /\ boot' = boot + 1
  /\ check' = NoCheck
  /\ UNCHANGED saved

-----------------------------------------------------------------------------
(* What the whole call answers when nothing moves while it reads.          *)

ManagedAlive_leaderOnly(j) == IdentityAlive(j)
ManagedAlive(j) ==
  \/ IdentityAlive(j)
  \/ Members(saved[j].pid) # {} /\ saved[j].pid \notin Members(saved[j].pid)

(* The test of recovery and the reaper.                                    *)
Recognised_anyBoot(j) == saved[j] # None /\ ManagedAlive(j)
Recognised(j) == saved[j] # None /\ saved[j].boot = boot /\ ManagedAlive(j)

-----------------------------------------------------------------------------
(* The specification.                                                      *)

Init ==
  /\ proc = [p \in Pid |-> None]
  /\ clock = 0
  /\ boot = 1
  /\ saved = [j \in Job |-> None]
  /\ check = NoCheck

KernelStep ==
  \/ \E j \in Job, p \in Pid : Launch(j, p)
  \/ \E p, q \in Pid : Fork(q, p)
  \/ \E p \in Pid : OutsideStarts(p)
  \/ \E p \in Pid : Exits(p)
  \/ Reboot

CheckStep ==
  \/ \E j \in Job : Begin(j)
  \/ ReadIdentity
  \/ List
  \/ \E p \in Pid : ReadGroup(p)
  \/ Decide
  \/ Return

Next == KernelStep \/ CheckStep

Spec == Init /\ [][Next]_vars

-----------------------------------------------------------------------------
(* Properties.                                                             *)

Owned(j) == {p \in Pid : Used(p) /\ proc[p].owner = j}

\* Processes have a group and a start time in the past; a call remembers only
\* processes of its job.
TypeOK ==
  /\ proc \in [Pid -> Process \cup {None}]
  /\ clock \in Nat /\ boot \in Nat
  /\ saved \in [Job -> Identity \cup {None}]
  /\ check \in [job : Job \cup {None},
                stage : {"idle", "identity", "list", "members", "alive", "dead"},
                listed : SUBSET Pid, members : SUBSET Pid, stayed : SUBSET Pid]

\* No living group of a job is taken for dead by recovery or the reaper: as
\* long as one of its processes lives, with or without its leader, the saved
\* identity is recognised (processes.py:57).
LiveGroupRecognised == \A j \in Job : Owned(j) # {} => Recognised(j)

\* Nor is a stranger taken for a job: an identity is recognised only while a
\* process of its job lives, whoever uses the number now, another job of gq
\* included, and whichever boot this is; provided that "a newly recycled group
\* necessarily has a new leader" (processes.py:59) for as long as it lives.
OnlyOwnGroupRecognised ==
  LeadersStay => \A j \in Job : Recognised(j) => Owned(j) # {}

\* The call reads /proc while processes come and go. It may miss a group whose
\* processes all hand over to new ones as it reads, but it never answers
\* "dead" when one process of the group lived through the whole call.
StayerIsSeen == check.stage = "dead" => check.stayed = {}
=============================================================================
