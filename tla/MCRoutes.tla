-------------------------------- MODULE MCRoutes --------------------------------
(***************************************************************************)
(* Routes with fewer blocks than destinations.  The address of wide,       *)
(* P::/56, is that of narrow, P::/64, too, and inside them there is a      *)
(* host; beside narrow there is P:0:0:1::/64.                              *)
(***************************************************************************)
EXTENDS Routes, TLC

CONSTANTS host, narrow, beside, wide

MCDests == {host, narrow, beside, wide}
MCCovering(d) == {d, wide} \union IF d = beside THEN {} ELSE {narrow}
MCLength(d) == CASE d = host -> 16 [] d = wide -> 7 [] OTHER -> 8

MCTables == {"neighbors", "routes"}

Symmetry == Permutations(LLAddrs)
=============================================================================
