----------------------------- MODULE MCUploads -----------------------------
(* Uploads with one app that exists and two that may be made.                *)
EXTENDS Uploads

CONSTANTS a, b, c
=============================================================================
