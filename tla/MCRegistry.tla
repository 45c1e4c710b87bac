----------------------------- MODULE MCRegistry -----------------------------
(* Instances of Registry for TLC.                                           *)
EXTENDS Registry

CONSTANTS r1, r2, j1, j2
=============================================================================
