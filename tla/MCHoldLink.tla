----------------------------- MODULE MCHoldLink -----------------------------
(* Any two operations of the GUI thread; three of those that race a claim of *)
(* the bench; or one over two losses of power.                               *)
EXTENDS HoldLink

AnyTwo    == [may |-> GuiOps, ops |-> 2, cycles |-> 0]
BenchRace == [may |-> {"actuate", "claim", "bench", "leave"}, ops |-> 3, cycles |-> 0]
PowerLoss == [may |-> {"actuate"}, ops |-> 1, cycles |-> 2]
OpsOrPower == {AnyTwo, BenchRace, PowerLoss}
=============================================================================
