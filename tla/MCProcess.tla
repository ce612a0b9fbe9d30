------------------------------- MODULE MCProcess -------------------------------
(***************************************************************************)
(* The scheduler with three processes.                                     *)
(***************************************************************************)
EXTENDS Process, TLC

Symmetry == Permutations(Procs)
=============================================================================
