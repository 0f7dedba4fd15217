----------------------------- MODULE GpuLedger -----------------------------
(***************************************************************************)
(* What gq promises about GPUs, without its daemon: a job waits, takes the *)
(* whole number of devices it asked for at once, from those no other job   *)
(* holds, keeps exactly these while it holds any, and gives all of them    *)
(* back only when no process it is known to run is left. A job whose       *)
(* allocation could not be verified after a restart is kept aside with its *)
(* devices until its owner removes it.                                     *)
(***************************************************************************)
EXTENDS Naturals, FiniteSets

CONSTANTS Job, Device

VARIABLES
  life,     \* "new", "waiting", "holding", "aside", "ended" or "gone"
  need,     \* how many devices a queued job asked for
  holds,    \* the devices each job holds
  running   \* the jobs known to have live processes

ledgerVars == <<life, need, holds, running>>

Init ==
  /\ life = [j \in Job |-> "new"]
  /\ need = [j \in Job |-> 0]
  /\ holds = [j \in Job |-> {}]
  /\ running = {}

HeldBy(S) == UNION {holds[j] : j \in S}

\* Jobs are queued, several at once by a retry.
Queue(S) ==
  /\ \A j \in S : life[j] = "new"
  /\ life' = [j \in Job |-> IF j \in S THEN "waiting" ELSE life[j]]
  /\ need' \in [Job -> Nat]
  /\ \A j \in Job \ S : need'[j] = need[j]
  /\ UNCHANGED <<holds, running>>

\* A waiting job takes its whole request from devices nobody holds.
Take(j, D) ==
  /\ life[j] = "waiting"
  /\ Cardinality(D) = need[j]
  /\ D \cap HeldBy(Job) = {}
  /\ life' = [life EXCEPT ![j] = "holding"]
  /\ holds' = [holds EXCEPT ![j] = D]
  /\ UNCHANGED <<need, running>>

\* The processes of a holder become known, or end.
Run(j) ==
  /\ life[j] = "holding"
  /\ running' = running \cup {j}
  /\ UNCHANGED <<life, need, holds>>

Halt(S) ==
  /\ running' = running \ S
  /\ UNCHANGED <<life, need, holds>>

\* A holder without processes ends and gives everything back.
End(j) ==
  /\ life[j] = "holding" /\ j \notin running
  /\ life' = [life EXCEPT ![j] = "ended"]
  /\ holds' = [holds EXCEPT ![j] = {}]
  /\ UNCHANGED <<need, running>>

SetAside(j) ==
  /\ life[j] = "holding"
  /\ life' = [life EXCEPT ![j] = "aside"]
  /\ UNCHANGED <<need, holds, running>>

\* Waiting jobs are withdrawn.
Withdraw(S) ==
  /\ \A j \in S : life[j] = "waiting"
  /\ life' = [j \in Job |-> IF j \in S THEN "ended" ELSE life[j]]
  /\ UNCHANGED <<need, holds, running>>

\* The records of ended jobs, and of those set aside, are removed for good.
Remove(S) ==
  /\ \A j \in S : life[j] \in {"ended", "aside"}
  /\ life' = [j \in Job |-> IF j \in S THEN "gone" ELSE life[j]]
  /\ need' = [j \in Job |-> IF j \in S THEN 0 ELSE need[j]]
  /\ holds' = [j \in Job |-> IF j \in S THEN {} ELSE holds[j]]
  /\ running' = running \ S

Next ==
  \/ \E S \in SUBSET Job : Queue(S) \/ Halt(S) \/ Withdraw(S) \/ Remove(S)
  \/ \E j \in Job : Run(j) \/ End(j) \/ SetAside(j)
  \/ \E j \in Job : \E D \in SUBSET Device : Take(j, D)

Spec == Init /\ [][Next]_ledgerVars
=============================================================================
