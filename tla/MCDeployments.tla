---------------------------- MODULE MCDeployments ----------------------------
(***************************************************************************)
(* Small instances of Deployments for TLC.                                  *)
(***************************************************************************)
EXTENDS Deployments, TLC

CONSTANTS a1, p1, p2, p3, d1, d2

(* Requests and rows are interchangeable in every safety property.          *)
Interchangeable == Permutations(Requests) \cup Permutations(Rows)
=============================================================================
