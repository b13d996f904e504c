--------------------------- MODULE MCActuatorNode ---------------------------
(* Instances of ActuatorNode for TLC: a ring that wraps, fills and empties at *)
(* every offset; on the direct board a running activity on two chambers, the  *)
(* whole bench on one and its overrides on both; on the multiplexed board two *)
(* groups, an activity and the bench on all three chambers, and everything    *)
(* mixed on one.                                                              *)
EXTENDS ActuatorNode

Activity  == [commands |-> {"fill", "limit", "hold_duty", "stop"}, to |-> {0, 1}]
Bench     == [commands |-> {"fill", "limit", "hold_duty", "manual", "pump", "vent", "test", "stop"},
              to |-> {0}]
Overrides == [commands |-> {"manual", "pump", "vent", "stop"}, to |-> {0, 1}]
Released  == [commands |-> {"fill", "hold_duty", "hold_off_all", "manual", "vent", "stop"},
              to |-> {0}]
DirectScenes == {Activity, Bench, Overrides, Released}

TwoManifolds == <<{0, 1}, {2}>>
MuxActivity == [commands |-> {"fill", "hold", "limit", "stop"}, to |-> {0, 1, 2}]
MuxBench    == [commands |-> {"fill", "manual", "stop"}, to |-> {0, 1, 2}]
MuxMixed    == [commands |-> {"fill", "hold", "limit", "manual", "stop"}, to |-> {0, 2}]
MultiplexedScenes == {MuxActivity, MuxBench, MuxMixed}
=============================================================================
