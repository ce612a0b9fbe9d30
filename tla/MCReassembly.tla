------------------------------ MODULE MCReassembly ------------------------------
(***************************************************************************)
(* Two motes, two contexts and two buffers.                                *)
(***************************************************************************)
EXTENDS Reassembly, TLC

Symmetry == Permutations(Motes)
=============================================================================
