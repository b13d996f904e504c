---------------------------- MODULE TouchSource -----------------------------
(***************************************************************************)
(* From the magnets to touches.  A magnet over each sensor moves when a     *)
(* finger presses and when a chamber under it fills, so the PC subtracts    *)
(* what the chambers are expected to add (core/touch_compensation.py,       *)
(* hardware/touch_source.py) before it looks for touches                    *)
(* (hardware/touch_event_router.py) and for the compressions that carry a   *)
(* rhythm (activities/touch_rhythm.py).                                     *)
(*                                                                         *)
(* Levels are whole steps of a chamber's range and every Step-th one was    *)
(* measured.  The pressure the PC knows of is that of the last status frame. *)
(* A frame that is lost is a sample nobody sees, so it is no step at all.    *)
(* Everything here runs in the gateway's read thread, a frame at a time.     *)
(***************************************************************************)
EXTENDS Integers, FiniteSetsExt

CONSTANTS Sensors, Chambers,
          Top, Step,     \* the full level; the distance of the measured ones
          Field,         \* levels -> sensor -> what inflation does to the magnet
          Fingers,       \* how strongly a finger presses
          Threshold,     \* act_threshold_ut, and rhythm_enter_ut
          Exit, Spike,   \* rhythm_exit_ut, rhythm_spike_ut
          Moves,         \* bound: how often a chamber or a finger moves
          Tunings        \* touch.compensation, and what the sweep did not measure

Levels == 0 .. Top
SourceParameters ==
  /\ IsFiniteSet(Chambers) /\ {Step, Moves, Threshold} \subseteq Nat \ {0}
  /\ Top \in Nat /\ Top % Step = 0
  /\ Field \in [[Chambers -> Levels] -> [Sensors -> Int]]
  /\ Fingers \subseteq Int /\ 0 \in Fingers
  /\ {Exit, Spike} \subseteq Int /\ Exit < Threshold
  /\ \A t \in Tunings : t.enabled \in BOOLEAN /\ t.guard \in BOOLEAN /\ t.vec \in BOOLEAN

VARIABLES tuning,        \* one of Tunings
          moves,         \* made so far
          air,           \* the level each chamber is at ...
          said,          \* ... and the one its last status frame gave
          finger,        \* per sensor
          guard,         \* TransitionGuard: ref and whether unsettled, per chamber
          seen,          \* the last frame handed on: mag, act, and who was unsettled
          router,        \* TouchEventRouter: active sensors and their peaks
          beat           \* per sensor: compressed (active), and the onset this frame
touchVars == <<tuning, moves, air, said, finger, guard, seen, router, beat>>

Unknown == Top + 1
Abs(x)  == IF x < 0 THEN -x ELSE x
AtRest  == [c \in Chambers |-> 0]

-----------------------------------------------------------------------------
(* GridCompensation.  Weights are counted in Step-ths per chamber, so every  *)
(* offset, and whatever is compared with one, is in units of 1/Unit.         *)

Product(f(_), S) == FoldSet(LAMBDA c, p : f(c) * p, 1, S)
Unit == Product(LAMBDA c : Step, Chambers)

Up(levels) == {c \in Chambers : levels[c] > 0}
Alone(levels, c) == [AtRest EXCEPT ![c] = levels[c]]
\* A vector calibration keeps the direction of an offset, a scalar one its size.
Measured(levels, s) == IF tuning.vec THEN Field[levels][s] ELSE Abs(Field[levels][s])

\* What the sweep measured at these levels; what it did not is the sum of what
\* it measured of each chamber alone.
Corner(levels, s) ==
  IF Up(levels) \in tuning.unmeasured
    THEN MapThenSumSet(LAMBDA c : Measured(Alone(levels, c), s), Up(levels))
    ELSE Measured(levels, s)

\* The measured levels on either side of a level, and their weights: offset_at.
Below(q) == q - (q % Step)
Weight(q, upper) == IF upper THEN q % Step ELSE Step - (q % Step)
Expected(levels, s) ==
  MapThenSumSet(
    LAMBDA upper :
      LET w  == Product(LAMBDA c : Weight(levels[c], upper[c]), Chambers)
          at == [c \in Chambers |-> Below(levels[c]) + (IF upper[c] THEN Step ELSE 0)]
      IN  IF w = 0 THEN 0 ELSE w * Corner(at, s),
    [Chambers -> BOOLEAN])

\* chamber_max_abs: the most a sensor was measured to move with the chamber up.
MaxAbs(c, s) ==
  LET grid == [Chambers -> {q \in Levels : q % Step = 0}]
  IN  Max({0} \cup {Measured(l, s) * (IF Measured(l, s) < 0 THEN -1 ELSE 1) :
                      l \in {l \in grid : l[c] > 0 /\ Up(l) \notin tuning.unmeasured}})

-----------------------------------------------------------------------------
(* TransitionGuard and TouchCompensator, as one frame finds them             *)

Moved == {c \in Chambers : guard.ref[c] # Unknown /\ guard.ref[c] # said[c]}
Unsettled == IF tuning.guard THEN guard.unsettled \cup Moved ELSE {}

Raw(s) == Field[air][s] + finger[s]
Residual(s) ==
  LET off == Expected(said, s)
  IN  IF tuning.vec THEN Abs((Raw(s) * Unit) - off)
      ELSE Max({0, (Abs(Raw(s)) * Unit) - off})
Boost(s) == MapThenSumSet(LAMBDA c : MaxAbs(c, s) * Unit, Unsettled)
Suppressed(s) == \E c \in Chambers : said[c] >= tuning.suppress /\ MaxAbs(c, s) > 0

\* Threshold, margin and guard together say which residuals are a touch.
Hard(s) == (Threshold * Unit) + (tuning.margin * Abs(Expected(said, s))) + Boost(s)
Compensated ==
  LET mag == [s \in Sensors |-> IF Suppressed(s) THEN 0 ELSE Residual(s)]
  IN  [mag |-> mag, act |-> {s \in Sensors : ~Suppressed(s) /\ mag[s] >= Hard(s)}]

\* _derive_active: the threshold alone, on whatever magnitudes the frame has.
DeriveActive(out) == [out EXCEPT !.act = {s \in Sensors : out.mag[s] >= Threshold * Unit}]

\* CompensatedMagnetSource._handle: what a frame sampled now is handed on as.
Heard ==
  DeriveActive(IF tuning.enabled THEN Compensated
               ELSE [mag |-> [s \in Sensors |-> Abs(Raw(s)) * Unit], act |-> {}])

-----------------------------------------------------------------------------
(* What listens to it *)

\* handle_magnet: a press per newly active sensor, a release per departed one,
\* the strongest sample of the press kept in between.
Routed(out) ==
  [active |-> out.act,
   peaks  |-> [s \in Sensors |->
                IF s \notin out.act THEN 0
                ELSE IF s \in router.active THEN Max({out.mag[s], router.peaks[s]})
                ELSE out.mag[s]],
   done   |-> [s \in Sensors |-> IF s \in router.active \ out.act THEN router.peaks[s] ELSE 0]]

\* MagnitudeCompressionTracker.update, with the magnitude of the frame before.
CompressedAnyRise(s, mag) ==
  LET was == beat[s]
      onset == IF was.active THEN mag - seen.mag[s] >= Spike * Unit ELSE mag >= Threshold * Unit
  IN  IF was.active /\ mag <= Exit * Unit THEN [active |-> FALSE, onset |-> FALSE]
      ELSE [active |-> was.active \/ onset, onset |-> onset]
Compressed(s, mag) ==
  LET was == beat[s]
      onset == IF was.active THEN mag >= Threshold * Unit /\ mag - seen.mag[s] >= Spike * Unit
                           ELSE mag >= Threshold * Unit
  IN  IF was.active /\ mag <= Exit * Unit THEN [active |-> FALSE, onset |-> FALSE]
      ELSE [active |-> was.active \/ onset, onset |-> onset]

TouchInit ==
  /\ tuning \in Tunings
  /\ moves = 0 /\ air = AtRest /\ said = AtRest /\ finger = [s \in Sensors |-> 0]
  /\ guard = [ref |-> [c \in Chambers |-> Unknown], unsettled |-> {}]
  /\ seen = [mag |-> [s \in Sensors |-> 0], act |-> {}]
  /\ router = [active |-> {}, peaks |-> [s \in Sensors |-> 0], done |-> [s \in Sensors |-> 0]]
  /\ beat = [s \in Sensors |-> [active |-> FALSE, onset |-> FALSE]]

Frame ==
  /\ seen' = Heard
  /\ guard' = IF tuning.enabled /\ tuning.guard
                THEN [ref |-> said, unsettled |-> Unsettled] ELSE guard
  /\ router' = Routed(Heard)
  /\ beat' = [s \in Sensors |-> Compressed(s, Heard.mag[s])]
  /\ UNCHANGED <<tuning, moves, air, said, finger>>

\* guard_ms later.
Settle ==
  /\ guard.unsettled # {}
  /\ \E c \in guard.unsettled : guard' = [guard EXCEPT !.unsettled = @ \ {c}]
  /\ UNCHANGED <<tuning, moves, air, said, finger, seen, router, beat>>

\* A chamber fills or empties, and the PC hears of it with the next status.
Move == moves < Moves /\ moves' = moves + 1
Pump ==
  /\ Move
  /\ \E c \in Chambers, q \in Levels : Abs(q - air[c]) = 1 /\ air' = [air EXCEPT ![c] = q]
  /\ UNCHANGED <<tuning, said, finger, guard, seen, router, beat>>
Status ==
  /\ \E c \in Chambers : said[c] # air[c] /\ said' = [said EXCEPT ![c] = air[c]]
  /\ UNCHANGED <<tuning, moves, air, finger, guard, seen, router, beat>>
Press ==
  /\ Move
  /\ \E s \in Sensors, f \in Fingers : finger[s] # f /\ finger' = [finger EXCEPT ![s] = f]
  /\ UNCHANGED <<tuning, air, said, guard, seen, router, beat>>

TouchNext == Frame \/ Settle \/ Pump \/ Status \/ Press
TouchSpec == TouchInit /\ [][TouchNext]_touchVars

-----------------------------------------------------------------------------
(* Properties *)

TouchTypeOK ==
  /\ tuning \in Tunings /\ {air, said} \subseteq [Chambers -> Levels]
  /\ finger \in [Sensors -> Fingers] /\ guard.unsettled \subseteq Chambers
  /\ seen.act \subseteq Sensors /\ \A s \in Sensors : seen.mag[s] >= 0

\* "so an inflating chamber can't fake a touch" (skin.py:203): once the status
\* has caught up no level of any chambers, measured or between, is a touch.
SteadyIsQuiet ==
  tuning.enabled /\ said = air =>
    \A s \in Sensors : finger[s] = 0 => s \notin Heard.act

\* "A real press still stands out" (TOUCH_COUPLING.md:84): with a vector
\* calibration a firm one is a touch at any level, unless the sensor is ignored
\* while its chamber is up.  (Magnitudes cannot tell a press against the field.)
PressStandsOut ==
  tuning.enabled /\ tuning.vec /\ said = air =>
    \A s \in Sensors : finger[s] = Max(Fingers) /\ ~Suppressed(s) => s \in Heard.act

\* The router and the rhythm follow the stream: a sensor is pressed while it is
\* active, its peak is no less than what is seen of it, a release carries the
\* peak of a touch, and every compression counted is one of a touch.
ListenersAgree ==
  /\ router.active = seen.act
  /\ \A s \in Sensors :
       /\ s \in router.active <=> router.peaks[s] > 0
       /\ router.peaks[s] >= IF s \in seen.act THEN seen.mag[s] ELSE 0
       /\ router.done[s] = 0 \/ router.done[s] >= Threshold * Unit
       /\ beat[s].onset => s \in seen.act

TouchSound == TouchTypeOK /\ SteadyIsQuiet /\ PressStandsOut /\ ListenersAgree

\* "for guard_ms after a chamber's level moves the compensator hardens the
\* coupled sensors' thresholds" (TOUCH_COUPLING.md:91): while every chamber whose
\* status lags is known to be moving, its inflation is no touch.
MovingIsQuiet ==
  tuning.enabled /\ tuning.guard
    /\ (\A c \in Chambers : said[c] # air[c] => c \in Unsettled) =>
    \A s \in Sensors : finger[s] = 0 => s \notin Heard.act
=============================================================================
