---------------------------- MODULE MCProcesses ----------------------------
(***************************************************************************)
(* Numbers are interchangeable: only which of them are equal matters.      *)
(***************************************************************************)
EXTENDS ProcessIdentity, TLC

NumbersAlike == Permutations(Pid) \cup Permutations(Job)
=============================================================================
