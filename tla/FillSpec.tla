------------------------------ MODULE FillSpec ------------------------------
(***************************************************************************)
(* What one fill engine promises its board: the untimed engine of           *)
(* FillEngine driven by requests, drops, aborts and control ticks in any    *)
(* order.  CoupledFill implements it.                                       *)
(***************************************************************************)
EXTENDS FillEngine

VARIABLE eng

Init == eng = IdleEngine

Next == \/ \E c \in Chambers : eng' \in {Request(eng, c), Drop(eng, c)}
        \/ eng' = IdleEngine
        \/ eng' \in TickOutcomes(eng)

Spec == Init /\ [][Next]_eng
=============================================================================
