---------------------------- MODULE MCCoupledFill ----------------------------
(* Bounded instances of CoupledFill: two chambers, one-digit clocks. *)
EXTENDS CoupledFill

CapsSmall == {2}
=============================================================================
