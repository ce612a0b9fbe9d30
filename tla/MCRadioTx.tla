------------------------------ MODULE MCRadioTx ------------------------------
(***************************************************************************)
(* RadioTx on small instances: two neighbors, one radio and a table of two *)
(* callbacks.                                                              *)
(***************************************************************************)
EXTENDS RadioTx

MCSlots == 1 .. 2
MCOneTx == {1}
MCTwoTxs == {2}
MCTwoStatuses == {"OK", "COLLISION"}
MCOkOnly == {"OK"}
=============================================================================
