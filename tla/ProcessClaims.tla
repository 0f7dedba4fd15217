--------------------------- MODULE ProcessClaims ---------------------------
(***************************************************************************)
(* What gq's README says of saved process groups and processes.py does not *)
(* do, when the leaders of other groups may exit before their workers.     *)
(***************************************************************************)
EXTENDS MCProcesses

\* "a recycled PID is never mistaken for your job" (README.md:50): an identity
\* that is recognised, and so may be signalled, is of a job that lives. The
\* group that has the number now passes for the saved one as soon as its own
\* leader is gone: no member has the group's number then, and nothing but the
\* number is compared.
NeverMistaken == \A j \in Job : Recognised(j) => Owned(j) # {}
=============================================================================
