---------------------------- MODULE MCAppDetail ----------------------------
(* AppDetail with two apps for TLC.                                          *)
EXTENDS AppDetail

CONSTANTS a, b
=============================================================================
