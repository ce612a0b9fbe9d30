------------------------------- MODULE MCTimers -------------------------------
(***************************************************************************)
(* Timers with two callback timers and an event queue that fills up.       *)
(***************************************************************************)
EXTENDS Timers

MCIntervals == {0, 2}
=============================================================================
