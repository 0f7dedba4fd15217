----------------------------- MODULE MCClients -----------------------------
(***************************************************************************)
(* Values of the constants of Clients for TLC.                             *)
(***************************************************************************)
EXTENDS ClientsProperties, TLC

CONSTANTS a, b

OneKey == [x \in Client |-> "key"]

\* One client submits; the other updates, stops or starts the daemon, or
\* submits too.
Mixes ==
  {(a :> p) @@ (b :> "submit") : p \in Programs}
=============================================================================
