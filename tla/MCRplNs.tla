-------------------------------- MODULE MCRplNs --------------------------------
(***************************************************************************)
(* Three motes that settle to a chain, and as many blocks as they and the  *)
(* root need.                                                              *)
(***************************************************************************)
EXTENDS RplNs

CONSTANTS m1, m2, m3

MCTree == [m \in {m1, m2, m3} |-> CASE m = m1 -> Root [] m = m2 -> m1 [] m = m3 -> m2]
=============================================================================
