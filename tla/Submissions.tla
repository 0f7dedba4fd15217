---------------------------- MODULE Submissions ----------------------------
(***************************************************************************)
(* What gq promises to those who submit jobs, without its daemons: a       *)
(* client is told that its job is accepted only when a row for it is       *)
(* stored, a row is never lost nor given to somebody else, and a           *)
(* submission whose key has a row that did not fail makes no other row.    *)
(***************************************************************************)
CONSTANTS Client, Row, KeyOf, None

VARIABLES
  owner,    \* whose submission each row is, or None
  failed,   \* the rows whose jobs failed
  accepted  \* the clients that were told that their job is accepted

submissionVars == <<owner, failed, accepted>>

SameKey(c, r) == owner[r] # None /\ KeyOf[c] # None /\ KeyOf[owner[r]] = KeyOf[c]
Stored(c) == \E r \in Row : owner[r] = c \/ SameKey(c, r)

Init ==
  /\ owner = [r \in Row |-> None]
  /\ failed = {}
  /\ accepted = {}

\* A submission is stored, at any time: its client may have given up.
Store(c, r) ==
  /\ owner[r] = None
  /\ \A q \in Row : SameKey(c, q) => q \in failed
  /\ owner' = [owner EXCEPT ![r] = c]
  /\ UNCHANGED <<failed, accepted>>

Fail(R) ==
  /\ \A r \in R : owner[r] # None
  /\ failed' = failed \cup R
  /\ UNCHANGED <<owner, accepted>>

Accept(c) ==
  /\ Stored(c)
  /\ accepted' = accepted \cup {c}
  /\ UNCHANGED <<owner, failed>>

Next ==
  \/ \E c \in Client, r \in Row : Store(c, r)
  \/ \E R \in SUBSET Row : Fail(R)
  \/ \E c \in Client : Accept(c)

Spec == Init /\ [][Next]_submissionVars
=============================================================================
