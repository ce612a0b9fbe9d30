----------------------------- MODULE MCNativeRdc -----------------------------
(***************************************************************************)
(* NativeRdc on small instances: a table of 2 or 3 slots, so that it fills *)
(* up and is gone round several times.                                     *)
(***************************************************************************)
EXTENDS NativeRdc, TLC

Symmetry == Permutations(Frames)
=============================================================================
