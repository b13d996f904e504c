------------------------------- MODULE Study --------------------------------
(***************************************************************************)
(* A study with children, around the skins of a robot.  Their chambers are  *)
(* calibrated (FillCalibration), their magnets are listened to             *)
(* (TouchSource), and what they feel is recorded for whom it belongs to    *)
(* (Session).  The first happens before the session, and the last two meet  *)
(* in the touches: the panel hears of one, at any moment, as Session says.  *)
(* A behaviour is of one of them.                                          *)
(***************************************************************************)
EXTENDS Session

CONSTANTS Chambers,                                        \* of the node
          Batches, Modes, Clicks, Stops,                   \* see FillCalibration
          Sensors, Top, Step, Field, Fingers, Threshold, Exit, Spike, Moves, Tunings \* TouchSource

VARIABLES part,                                            \* which of the three
          window, job, pending, buttons, honest, asked, clean, node, level, mode, hit, todo,
          tuning, moves, air, said, finger, guard, seen, router, beat

calibration == <<window, job, pending, buttons, honest, asked, clean, node, level, mode, hit, todo>>
touch == <<tuning, moves, air, said, finger, guard, seen, router, beat>>

Calibration == INSTANCE FillCalibration WITH left <- todo
Touch == INSTANCE TouchSource
ASSUME StudyAssumption == Touch!SourceParameters /\ Calibration!BatchParameters

In(p) == part = p
StudyInit ==
  /\ Init /\ Calibration!Init /\ Touch!TouchInit
  /\ part \in {"session", "calibration", "touch"}
  /\ In("session") \/ left = CHOOSE m \in Mixes : TRUE
  /\ In("calibration") \/ /\ mode = CHOOSE m \in Modes : TRUE
                          /\ level = [c \in Chambers |-> 0]
  /\ In("touch") \/ tuning = CHOOSE t \in Tunings : TRUE

StudyNext ==
  /\ UNCHANGED part
  /\ \/ In("session") /\ Next /\ UNCHANGED <<calibration, touch>>
     \/ In("calibration") /\ Calibration!Next /\ UNCHANGED <<vars, touch>>
     \/ In("touch") /\ Touch!TouchNext /\ UNCHANGED <<vars, calibration>>

\* The fairness of each.
CalibrationStep(step) ==
  CASE step = "status"  -> Calibration!Status
    [] step = "deadman" -> Calibration!DeadMan
    [] step = "vent"    -> Calibration!TickVent
    [] step = "ceiling" -> Calibration!TickCeiling
    [] OTHER            -> Calibration!RunQueue
StudySpec ==
  /\ StudyInit /\ [][StudyNext]_<<part, vars, calibration, touch>>
  /\ WF_vars(Writer)
  /\ \A step \in {"status", "deadman", "vent", "ceiling", "queue"} :
       WF_calibration(In("calibration") /\ CalibrationStep(step))

-----------------------------------------------------------------------------
\* What is measured of a skin is what it is taken for: points of a calibration
\* were measured as they are filed, one job at a time (fill_calibration_dialog.py),
\* and inflation is no touch, a press is one, and those who listen follow the
\* stream (touch_source.py, touch_event_router.py, touch_rhythm.py).
MeasuredSound == Calibration!CalibrationSound /\ (In("touch") => Touch!TouchSound)

\* Every job ends, status or not, and the node comes to rest (see FillCalibration).
CalibrationEnds == Calibration!CalibrationEnds /\ Calibration!NodeRests

\* See TouchSource.
MovingIsQuiet == Touch!MovingIsQuiet
=============================================================================
