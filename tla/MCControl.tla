------------------------------ MODULE MCControl ------------------------------
(* Instances of Control for TLC.                                           *)
EXTENDS Control, TLC

\* The handles are interchangeable.  Used by the run without liveness only.
Handles == Permutations(Controllers)
=============================================================================
