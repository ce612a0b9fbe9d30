------------------------------ MODULE MCNeighbors ------------------------------
(***************************************************************************)
(* Two motes, one with a link-local and a global address, and two keys.    *)
(***************************************************************************)
EXTENDS Neighbors

CONSTANTS a, a2, b, la, lb

MCLLOf(n) == IF n = b THEN lb ELSE la

MCTables == {"neighbors"}
=============================================================================
