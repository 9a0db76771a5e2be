------------------------------ MODULE MCSources ------------------------------
(***************************************************************************)
(* Small instances of Sources for TLC.                                      *)
(***************************************************************************)
EXTENDS Sources, TLC

CONSTANTS u1, u2, r1, r2, w1, d1, b1

(* Requests of one kind are interchangeable.                                *)
Interchangeable == Permutations(Uploads) \cup Permutations(Restores)
=============================================================================
