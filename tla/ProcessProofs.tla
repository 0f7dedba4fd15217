--------------------------- MODULE ProcessProofs ---------------------------
(***************************************************************************)
(* Proofs about ProcessIdentity: the saved identity names the job's group  *)
(* exactly as long as it lives, and a call that reads /proc step by step   *)
(* does not miss a process that lives through it.                          *)
(***************************************************************************)
EXTENDS ProcessIdentity, TLAPS

\* Everything that runs or was saved in this boot started before now.
Past ==
  /\ \A p \in Pid : Used(p) => proc[p].start < clock
  /\ \A j \in Job : saved[j] # None =>
       /\ saved[j].boot <= boot
       /\ saved[j].boot = boot => saved[j].start < clock

\* The processes of a job are in the group saved for it in this boot; its
\* leader is the one that was saved, and nobody else started in that tick.
OwnGroup ==
  /\ \A p \in Pid, j \in Job : Used(p) /\ proc[p].owner = j =>
       /\ saved[j] # None
       /\ saved[j].boot = boot
       /\ proc[p].group = saved[j].pid
       /\ p = saved[j].pid => proc[p].start = saved[j].start
  /\ \A p \in Pid, j \in Job :
       /\ Used(p) /\ saved[j] # None
       /\ saved[j].boot = boot /\ proc[p].start = saved[j].start
       => proc[p].owner = j

\* A group has one owner, also when its number is a process's.
OneOwner ==
  \A p, q \in Pid :
    /\ Used(p) /\ Used(q) /\ proc[p].group = proc[q].group
         => proc[p].owner = proc[q].owner
    /\ Used(p) /\ Used(q) /\ proc[p].group = q
         => proc[q].group = q /\ proc[q].owner = proc[p].owner

\* A stranger's group under a saved number has its leader.
StrangersLed ==
  LeadersStay =>
    \A p \in Pid, j \in Job :
      /\ Used(p) /\ saved[j] # None
      /\ proc[p].group = saved[j].pid /\ proc[p].owner # j
      => Used(saved[j].pid)

\* What the call under way knows of those that stayed.
CallInv ==
  check.stage # "idle" =>
    /\ check.job \in Job /\ saved[check.job] # None
    /\ \A p \in check.stayed : Used(p) /\ proc[p].owner = check.job
    /\ check.stage \in {"list", "members"} /\ check.stayed # {}
         => ~Used(saved[check.job].pid)
    /\ check.stage \in {"identity", "list"} => check.members = {}
    /\ check.stage = "members" => check.stayed \subseteq check.listed \cup check.members
    /\ check.stage = "members" /\ check.stayed # {}
         => saved[check.job].pid \notin check.members
    /\ check.stage = "dead" => check.stayed = {}

ProcInv == TypeOK /\ Past /\ OwnGroup /\ OneOwner /\ StrangersLed

-----------------------------------------------------------------------------
(* The invariant.                                                          *)

LEMMA ProcInitially == Init => ProcInv /\ CallInv
  BY ProcessAssumption DEF Init, ProcInv, CallInv, TypeOK, Past, OwnGroup, OneOwner,
     StrangersLed, Used, NoCheck

\* A launch: a new group under a number nobody uses.
LEMMA LaunchKeeps ==
  ASSUME ProcInv, NEW j \in Job, NEW p \in Pid, Launch(j, p)
  PROVE  ProcInv'
<1> DEFINE new == Newborn(p, j)
<1>1. /\ new \in Process /\ new # None
      /\ proc' = [proc EXCEPT ![p] = new]
      /\ proc[p] = None /\ Members(p) = {}
  BY ProcessAssumption DEF Launch, Starts, Newborn, Unused, Used, ProcInv, TypeOK, Process
<1>2. LET id == [pid |-> p, start |-> clock, boot |-> boot]
      IN id \in Identity /\ id # None /\ saved' = [saved EXCEPT ![j] = id]
  BY ProcessAssumption DEF Launch, Saved, ProcInv, TypeOK, Identity
<1>3. clock' = clock + 1 /\ boot' = boot /\ check' = check /\ saved[j] = None
  BY DEF Launch, Starts
<1>4. TypeOK'
  BY <1>1, <1>2, <1>3 DEF ProcInv, TypeOK
<1>5. Past'
  BY <1>1, <1>2, <1>3 DEF ProcInv, TypeOK, Past, Used, Process, Identity, Newborn
<1>6. OwnGroup'
  BY <1>1, <1>2, <1>3 DEF ProcInv, TypeOK, Past, OwnGroup, Used, Process, Identity, Newborn
<1>7. OneOwner'
  BY <1>1 DEF ProcInv, TypeOK, OneOwner, Used, Members, Process, Newborn
<1>8. StrangersLed'
  BY <1>1, <1>2, <1>3 DEF ProcInv, TypeOK, StrangersLed, Used, Members, Process, Identity,
     Newborn
<1> QED BY <1>4, <1>5, <1>6, <1>7, <1>8 DEF ProcInv

\* A fork, or a group outside gq: no identity is saved.
LEMMA BirthKeeps ==
  ASSUME ProcInv, NEW p \in Pid, NEW g \in Pid, NEW o \in Job \cup {Outside},
         Starts(p, g, o), UNCHANGED saved,
         \/ g = p /\ o = Outside
         \/ \E q \in Pid : Used(q) /\ proc[q].group = g /\ proc[q].owner = o
  PROVE  ProcInv'
<1> DEFINE new == Newborn(g, o)
<1>1. /\ new \in Process /\ new # None
      /\ proc' = [proc EXCEPT ![p] = new]
      /\ proc[p] = None /\ Members(p) = {}
  BY ProcessAssumption DEF Starts, Newborn, Unused, Used, ProcInv, TypeOK, Process
<1>2. clock' = clock + 1 /\ boot' = boot /\ check' = check
  BY DEF Starts
<1>3. g # p => \E q \in Pid : Used(q) /\ proc[q].group = g /\ proc[q].owner = o
  OBVIOUS
<1>4. g = p => o = Outside
  BY <1>1 DEF Members
<1>5. TypeOK'
  BY <1>1, <1>2 DEF ProcInv, TypeOK
<1>6. Past'
  BY <1>1, <1>2 DEF ProcInv, TypeOK, Past, Used, Process, Identity, Newborn
<1>7. OwnGroup'
  BY <1>1, <1>2, <1>3, <1>4, ProcessAssumption
  DEF ProcInv, TypeOK, Past, OwnGroup, Used, Members, Process, Identity, Newborn
<1>8. OneOwner'
  BY <1>1, <1>3 DEF ProcInv, TypeOK, OneOwner, Used, Members, Process, Newborn
<1>9. StrangersLed'
  BY <1>1, <1>2, <1>3 DEF ProcInv, TypeOK, StrangersLed, Used, Members, Process, Identity,
     Newborn
<1> QED BY <1>5, <1>6, <1>7, <1>8, <1>9 DEF ProcInv

\* An exit: a stranger that leads its group leaves nobody behind.
LEMMA ExitKeeps ==
  ASSUME ProcInv, NEW p \in Pid, Exits(p)
  PROVE  ProcInv'
<1>1. /\ proc' = [proc EXCEPT ![p] = None]
      /\ clock' = clock /\ boot' = boot /\ saved' = saved
      /\ check' = [check EXCEPT !.stayed = @ \ {p}]
  BY DEF Exits
<1>2. TypeOK'
  BY <1>1 DEF ProcInv, TypeOK
<1>3. Past' /\ OwnGroup' /\ OneOwner'
  BY <1>1 DEF ProcInv, TypeOK, Past, OwnGroup, OneOwner, Used, Process
<1>4. StrangersLed'
  <2> SUFFICES ASSUME LeadersStay, NEW q \in Pid, NEW j \in Job,
                      Used(q)', saved[j] # None,
                      proc'[q].group = saved[j].pid, proc'[q].owner # j
               PROVE  Used(saved[j].pid)'
    BY <1>1 DEF StrangersLed
  <2>1. q # p /\ proc'[q] = proc[q] /\ Used(q)
    BY <1>1 DEF ProcInv, TypeOK, Used
  <2>2. saved[j].pid \in Pid /\ Used(saved[j].pid)
    BY <2>1 DEF ProcInv, TypeOK, StrangersLed, Identity
  <2>3. CASE saved[j].pid = p
    <3>1. proc[p].owner = proc[q].owner
      BY <2>1, <2>2, <2>3 DEF ProcInv, OneOwner
    <3>2. Stranger(p) /\ q \in Members(p)
      BY <2>1, <2>3, <3>1 DEF Stranger, Members
    <3> QED BY <2>1, <3>2 DEF Exits
  <2>4. CASE saved[j].pid # p
    BY <1>1, <2>2, <2>4 DEF Used, ProcInv, TypeOK
  <2> QED BY <2>3, <2>4
<1> QED BY <1>2, <1>3, <1>4 DEF ProcInv

\* A boot: nothing runs, and no identity is of the new boot.
LEMMA RebootKeeps == ProcInv /\ Reboot => ProcInv'
  BY ProcessAssumption DEF ProcInv, Reboot, TypeOK, Past, OwnGroup, OneOwner, StrangersLed, Used, NoCheck,
     Identity

\* A step of a call changes neither processes nor identities.
LEMMA CheckKeeps == ProcInv /\ CheckStep => ProcInv'
<1> SUFFICES ASSUME ProcInv, CheckStep PROVE ProcInv'
  OBVIOUS
<1>1. UNCHANGED <<kernelVars, saved>>
  BY DEF CheckStep, Begin, ReadIdentity, List, ReadGroup, Decide, Return
<1>2. TypeOK'
  <2>1. ASSUME NEW j \in Job, Begin(j) PROVE TypeOK'
    BY <1>1, <2>1 DEF Begin, NoCheck, ProcInv, TypeOK, kernelVars
  <2>2. CASE ReadIdentity
    BY <1>1, <2>2 DEF ReadIdentity, Answer, ProcInv, TypeOK, kernelVars
  <2>3. CASE List
    <3> DEFINE Calls == [job : Job \cup {None},
                         stage : {"idle", "identity", "list", "members", "alive", "dead"},
                         listed : SUBSET Pid, members : SUBSET Pid, stayed : SUBSET Pid]
    <3>1. check' = NoCheck \/ \E S \in SUBSET Pid : check' = ListedAs(S)
      BY <2>3 DEF List
    <3>2. check \in Calls
      BY DEF ProcInv, TypeOK
    <3>3. check' \in Calls
      <4>1. CASE check' = NoCheck
        BY <4>1 DEF NoCheck
      <4>2. ASSUME NEW S \in SUBSET Pid, check' = ListedAs(S) PROVE check' \in Calls
        BY <3>2, <4>2 DEF ListedAs
      <4> QED BY <3>1, <4>1, <4>2
    <3> QED BY <1>1, <3>3 DEF ProcInv, TypeOK, kernelVars
  <2>4. ASSUME NEW p \in Pid, ReadGroup(p) PROVE TypeOK'
    BY <1>1, <2>4 DEF ReadGroup, ProcInv, TypeOK, kernelVars
  <2>5. CASE Decide
    BY <1>1, <2>5 DEF Decide, Answer, ProcInv, TypeOK, kernelVars
  <2>6. CASE Return
    BY <1>1, <2>6 DEF Return, NoCheck, ProcInv, TypeOK, kernelVars
  <2> QED BY <2>1, <2>2, <2>3, <2>4, <2>5, <2>6 DEF CheckStep
<1>3. (Past /\ OwnGroup /\ OneOwner /\ StrangersLed)'
  BY <1>1 DEF ProcInv, Past, OwnGroup, OneOwner, StrangersLed, Used, kernelVars
<1> QED BY <1>2, <1>3 DEF ProcInv

LEMMA ProcStep == ProcInv /\ [Next]_vars => ProcInv'
<1> SUFFICES ASSUME ProcInv, [Next]_vars PROVE ProcInv'
  OBVIOUS
<1>1. ASSUME NEW j \in Job, NEW p \in Pid, Launch(j, p) PROVE ProcInv'
  BY <1>1, LaunchKeeps
<1>2. ASSUME NEW p \in Pid, NEW q \in Pid, Fork(q, p) PROVE ProcInv'
  <2>1. proc[q].group \in Pid /\ proc[q].owner \in Job \cup {Outside}
    BY <1>2, ProcessAssumption DEF Fork, Used, ProcInv, TypeOK, Process
  <2> QED BY <1>2, <2>1, BirthKeeps DEF Fork
<1>3. ASSUME NEW p \in Pid, OutsideStarts(p) PROVE ProcInv'
  BY <1>3, BirthKeeps DEF OutsideStarts
<1>4. ASSUME NEW p \in Pid, Exits(p) PROVE ProcInv'
  BY <1>4, ExitKeeps
<1>5. CASE UNCHANGED vars
  BY <1>5 DEF vars, kernelVars, ProcInv, TypeOK, Past, OwnGroup, OneOwner, StrangersLed, Used
<1> QED
  BY <1>1, <1>2, <1>3, <1>4, <1>5, RebootKeeps, CheckKeeps DEF Next, KernelStep

LEMMA ProcInvariance == Spec => []ProcInv
BY ProcInitially, ProcStep, PTL DEF Spec

\* Processes, saved identities and the call under way have their types, through
\* forks, exits, numbers given out again and boots.
THEOREM ProcessTypes == Spec => []TypeOK
<1>1. ProcInv => TypeOK
  BY DEF ProcInv
<1> QED BY <1>1, ProcInvariance, PTL

-----------------------------------------------------------------------------
(* A living group is recognised, and only a living group.                  *)

\* While a process of the job lives, its leader's number is its leader's or
\* nobody's.
LEMMA LivingGroup ==
  ASSUME ProcInv, NEW j \in Job, NEW p \in Pid, Used(p), proc[p].owner = j
  PROVE  /\ saved[j] # None /\ saved[j].boot = boot /\ saved[j].pid \in Pid
         /\ p \in Members(saved[j].pid)
         /\ Used(saved[j].pid) => IdentityAlive(j) /\ proc[saved[j].pid].owner = j
<1>1. saved[j] # None /\ saved[j].boot = boot /\ proc[p].group = saved[j].pid
  BY DEF ProcInv, OwnGroup
<1>2. saved[j].pid \in Pid
  BY <1>1 DEF ProcInv, TypeOK, Identity
<1>3. ASSUME Used(saved[j].pid) PROVE IdentityAlive(j) /\ proc[saved[j].pid].owner = j
  <2>1. proc[saved[j].pid].owner = j
    BY <1>1, <1>2, <1>3 DEF ProcInv, OneOwner
  <2> QED BY <1>2, <1>3, <2>1 DEF ProcInv, OwnGroup, IdentityAlive
<1> QED BY <1>1, <1>2, <1>3 DEF Members

LEMMA RecognisesLiving == ProcInv => LiveGroupRecognised
<1> SUFFICES ASSUME ProcInv, NEW j \in Job, NEW p \in Pid, Used(p), proc[p].owner = j
             PROVE  Recognised(j)
  BY DEF LiveGroupRecognised, Owned
<1> QED BY LivingGroup DEF Recognised, ManagedAlive, Members

LEMMA RecognisesOnlyOwn == ProcInv => OnlyOwnGroupRecognised
<1> SUFFICES ASSUME ProcInv, LeadersStay, NEW j \in Job, Recognised(j)
             PROVE  \E p \in Pid : Used(p) /\ proc[p].owner = j
  BY DEF OnlyOwnGroupRecognised, Owned
<1>1. saved[j] # None /\ saved[j].boot = boot /\ saved[j].pid \in Pid
  BY DEF Recognised, ProcInv, TypeOK, Identity
<1>2. CASE IdentityAlive(j)
  BY <1>1, <1>2 DEF IdentityAlive, ProcInv, OwnGroup
<1>3. CASE Members(saved[j].pid) # {} /\ saved[j].pid \notin Members(saved[j].pid)
  <2>1. PICK p \in Pid : Used(p) /\ proc[p].group = saved[j].pid
    BY <1>3 DEF Members
  <2>2. ~Used(saved[j].pid)
    BY <1>1, <1>3, <2>1 DEF ProcInv, OneOwner, Members
  <2> QED BY <1>1, <2>1, <2>2 DEF ProcInv, StrangersLed
<1> QED BY <1>2, <1>3 DEF Recognised, ManagedAlive

\* No living group of a job is taken for dead (processes.py:57).
THEOREM LiveGroupsRecognised == Spec => []LiveGroupRecognised
BY ProcInvariance, RecognisesLiving, PTL

\* Where recycled groups keep their leader, no stranger is taken for a job.
THEOREM StrangersNotRecognised == Spec => []OnlyOwnGroupRecognised
BY ProcInvariance, RecognisesOnlyOwn, PTL

-----------------------------------------------------------------------------
(* The call.                                                               *)

\* What happens to the processes during a call takes only from those that
\* stayed, and gives the number of a group that lost its leader to nobody.
LEMMA CallSurvives == ProcInv /\ CallInv /\ KernelStep => CallInv'
<1> SUFFICES ASSUME ProcInv, CallInv, KernelStep PROVE CallInv'
  OBVIOUS
<1>1. ASSUME NEW j \in Job, NEW p \in Pid, Launch(j, p) PROVE CallInv'
  BY <1>1 DEF Launch, Starts, CallInv
<1>2. ASSUME NEW p \in Pid, NEW g, NEW o, Starts(p, g, o), UNCHANGED saved
      PROVE  CallInv'
  <2> SUFFICES ASSUME check.stage # "idle" PROVE CallInv'
    BY <1>2 DEF Starts, CallInv
  <2>1. /\ proc' = [proc EXCEPT ![p] = Newborn(g, o)]
        /\ ~Used(p) /\ Members(p) = {}
        /\ check' = check /\ saved' = saved
    BY <1>2 DEF Starts, Unused
  <2>2. check.job \in Job /\ saved[check.job] # None /\ check.stayed \subseteq Pid
    BY DEF CallInv, ProcInv, TypeOK
  <2>3. \A q \in check.stayed : q # p /\ Used(q)' /\ proc'[q].owner = check.job
    BY <2>1, <2>2 DEF CallInv, Used, ProcInv, TypeOK
  <2>4. ASSUME check.stayed # {} PROVE saved[check.job].pid # p
    <3>1. PICK q \in check.stayed : TRUE
      BY <2>4
    <3>2. q \in Pid /\ Used(q) /\ proc[q].owner = check.job
      BY <2>2 DEF CallInv
    <3>3. q \in Members(saved[check.job].pid)
      BY <2>2, <3>2, LivingGroup
    <3> QED BY <2>1, <3>3
  <2> QED BY <2>1, <2>2, <2>3, <2>4 DEF CallInv, Used, ProcInv, TypeOK, Identity
<1>3. ASSUME NEW p \in Pid, Exits(p) PROVE CallInv'
  BY <1>3 DEF Exits, CallInv, Used, ProcInv, TypeOK, Identity
<1>4. CASE Reboot
  BY <1>4 DEF Reboot, NoCheck, CallInv
<1> QED BY <1>1, <1>2, <1>3, <1>4 DEF KernelStep, Fork, OutsideStarts

\* The steps of the call, when /proc can be read.
LEMMA CallSteps == ~Unreadable /\ ProcInv /\ CallInv /\ CheckStep => CallInv'
<1> SUFFICES ASSUME ~Unreadable, ProcInv, CallInv, CheckStep PROVE CallInv'
  OBVIOUS
<1>1. ASSUME NEW j \in Job, Begin(j) PROVE CallInv'
  BY <1>1 DEF Begin, NoCheck, CallInv, Used, kernelVars
<1>2. CASE ReadIdentity
  <2>1. check.job \in Job /\ UNCHANGED <<proc, saved>> /\ check.stage = "identity"
    BY <1>2 DEF ReadIdentity, CallInv, kernelVars
  <2>2. CASE IdentityAlive(check.job)
    BY <1>2, <2>1, <2>2 DEF ReadIdentity, Readable, Answer, CallInv, Used, ProcInv, TypeOK
  <2>3. CASE ~IdentityAlive(check.job)
    <3>1. check.stayed # {} => ~Used(saved[check.job].pid)
      BY <2>1, <2>3, LivingGroup DEF CallInv, ProcInv, TypeOK
    <3> QED BY <1>2, <2>1, <2>3, <3>1
            DEF ReadIdentity, Readable, CallInv, Used, ProcInv, TypeOK
  <2> QED BY <2>2, <2>3
<1>3. CASE List
  <2>1. /\ check' = [check EXCEPT !.stage = "members", !.listed = {p \in Pid : Used(p)}]
        /\ UNCHANGED <<proc, saved>> /\ check.stage = "list"
    BY <1>3 DEF List, ListedAs, Readable, kernelVars
  <2> QED BY <2>1 DEF CallInv, Used, ProcInv, TypeOK
<1>4. ASSUME NEW p \in Pid, ReadGroup(p) PROVE CallInv'
  <2>1. /\ check.job \in Job /\ UNCHANGED <<proc, saved>> /\ check.stage = "members"
        /\ check.stayed \subseteq Pid
    BY <1>4 DEF ReadGroup, CallInv, kernelVars, ProcInv, TypeOK
  <2>2. p \in check.stayed => p \in Members(saved[check.job].pid)
    BY <2>1, LivingGroup DEF CallInv
  <2>3. check.stayed # {} => p # saved[check.job].pid \/ p \notin Members(saved[check.job].pid)
    BY <2>1 DEF CallInv, Members
  <2> QED BY <1>4, <2>1, <2>2, <2>3 DEF ReadGroup, CallInv, Used, ProcInv, TypeOK
<1>5. CASE Decide
  <2>1. check.stayed # {} => Verdict
    BY <1>5 DEF Decide, Verdict, CallInv
  <2> QED BY <1>5, <2>1
          DEF Decide, Readable, Answer, CallInv, Used, ProcInv, TypeOK, kernelVars
<1>6. CASE Return
  BY <1>6 DEF Return, NoCheck, CallInv
<1> QED BY <1>1, <1>2, <1>3, <1>4, <1>5, <1>6 DEF CheckStep

LEMMA CallStep == ~Unreadable /\ ProcInv /\ CallInv /\ [Next]_vars => CallInv'
<1>1. CallInv /\ UNCHANGED vars => CallInv'
  BY DEF vars, kernelVars, CallInv, Used
<1> QED BY <1>1, CallSurvives, CallSteps DEF Next

\* Where /proc can be read, a call does not answer "dead" while a process of
\* the group lives through it.
THEOREM StayersAreSeen ==
  ASSUME ~Unreadable
  PROVE  Spec => []StayerIsSeen
<1>1. Spec => [](ProcInv /\ CallInv)
  BY ProcInitially, ProcStep, CallStep, PTL DEF Spec
<1>2. CallInv => StayerIsSeen
  BY DEF CallInv, StayerIsSeen
<1> QED BY <1>1, <1>2, PTL
=============================================================================
