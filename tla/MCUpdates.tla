----------------------------- MODULE MCUpdates ------------------------------
(* Instances of Updates for TLC. *)
EXTENDS Updates

CONSTANTS a, b

TwoNodes == <<a, b>>
=============================================================================
