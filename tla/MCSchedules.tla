---------------------------- MODULE MCSchedules ----------------------------
(* Schedules with one schedule and two intervals.                            *)
EXTENDS Schedules

CONSTANTS hour, day
=============================================================================
