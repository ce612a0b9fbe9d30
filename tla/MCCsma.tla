------------------------------- MODULE MCCsma -------------------------------
(***************************************************************************)
(* Csma on small instances.  Requests are p1 .. p3; the sets of sequence   *)
(* numbers are so small that queued packets share them, as the copies of a *)
(* broadcast on several radios and the wrap of the 8-bit counter make them.*)
(***************************************************************************)
EXTENDS Csma, TLC

CONSTANTS p1, p2, p3, i0, i1

MCSlots == 1 .. 2
MCOneSlot == 1 .. 1
MCHandles == 1 .. 2
MCNumTxs == {1, 2}
MCOneTx == {1}
MCMaxTxs == {1, 2}
MCTwoTxs == {2}

Symmetry == Permutations(Packets) \union Permutations(Ifs)
=============================================================================
