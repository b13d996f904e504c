--------------------------- MODULE MCLimitConfirm ---------------------------
(* Workers of one controller on one chamber each; w2 names a chamber the     *)
(* node lacks.                                                              *)
EXTENDS LimitConfirm

VacuumFloor == -40
OneController  == [w \in Workers |-> "ctrl"]
OwnChamber     == [w \in Workers |-> w]
Config         == [w \in Workers |-> [max |-> 30, min |-> 12]]
Left           == {[max |-> 50, min |-> -5]}
=============================================================================
