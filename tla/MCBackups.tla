------------------------------ MODULE MCBackups ------------------------------
(***************************************************************************)
(* Small instances of Backups for TLC.                                      *)
(***************************************************************************)
EXTENDS Backups, TLC

CONSTANTS m1, m2, s1, s2, x1

(* Two schedules of one app with different retentions.                      *)
TwoRetentions == [p \in Runs |-> IF p = s1 THEN 1 ELSE 2]

Interchangeable == Permutations(Manual)
=============================================================================
