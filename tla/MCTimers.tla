------------------------------- MODULE MCTimers -------------------------------
(* Model values of Timers for TLC.                                           *)
EXTENDS Timers

CONSTANTS main, worker, t1, t2, t3
==============================================================================
