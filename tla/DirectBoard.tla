----------------------------- MODULE DirectBoard -----------------------------
(***************************************************************************)
(* The direct actuator board (firmware/node_actuator/src/direct): two       *)
(* coupled-fill engines, the leak-compensating hold engine, the manual and  *)
(* vent overrides, the bench run and the emergency stop, all driving the    *)
(* same valves and the same pair of pumps.                                  *)
(*                                                                         *)
(* The board is one record and each C++ function an operator on it, so a    *)
(* handler is the composition of the calls it makes.  The node runs one     *)
(* task: loop() drains the command queue, then runs controlTick, holdTick,  *)
(* manualSafetyTick and actuationWatchdog in that order; "at" says which    *)
(* comes next.  Timers and gauges are arbitrary: whatever may have expired  *)
(* or been read is a choice.  Pump duties keep their class, not their PWM.  *)
(***************************************************************************)
EXTENDS Integers, FiniteSetsExt

CONSTANTS NumChambers,   \* NUM_CHAMBERS
          Scenes         \* bounds: which groups of commands the PC sends in a
                         \* behaviour, and to which chambers

Groups == {"fill", "limit", "hold_duty", "hold_off_all", "manual", "pump", "vent", "test",
           "stop"}
Chambers == 0..(NumChambers - 1)
Parameters == /\ NumChambers \in Nat \ {0}
              /\ Scenes \subseteq [commands : SUBSET Groups, to : SUBSET Chambers]

INSTANCE FillEngine

Sides == {"inflate", "deflate"}
Other(s) == IF s = "inflate" THEN "deflate" ELSE "inflate"
Both(S)  == S \X Sides

VARIABLES board, at, scene,
          forgotten    \* history: valves "hold_duty off" for all chambers left
                       \* open, and nothing has closed since
vars == <<board, at, scene, forgotten>>

Duties == {"off", "hold", "floor", "full"}
NoTest == [dir |-> "off", on |-> {}]

Board == [valve    : SUBSET Both(Chambers),      \* valveOpen
          duty     : [Sides -> Duties],          \* ledcRead of each pump
          eng      : [Sides -> Engine],          \* inflateEng, deflateEng
          act      : [Chambers -> {"idle"} \cup Sides],       \* state[i].state
          hold     : [active : SUBSET Chambers, open : SUBSET Chambers,
                      vac : SUBSET Chambers, last : [Sides -> BOOLEAN]],
          holdMask : [Sides -> SUBSET Chambers], \* holdValveMask, holdVacValveMask
          holdDuty : [Sides -> BOOLEAN],         \* holdPumpDuty, holdVacDuty > 0
          manPump  : SUBSET Sides,               \* manualPumpOn
          manValve : SUBSET Both(Chambers),      \* manualValveOn
          vent     : SUBSET Chambers,            \* ventMask
          test     : [dir : Sides \cup {"off"}, on : SUBSET Chambers],
          stopped  : BOOLEAN]

NoHold == [active |-> {}, open |-> {}, vac |-> {}, last |-> [s \in Sides |-> FALSE]]

BootBoard ==
  [valve |-> {}, duty |-> [s \in Sides |-> "off"],
   eng |-> [s \in Sides |-> IdleEngine], act |-> [c \in Chambers |-> "idle"],
   hold |-> NoHold, holdMask |-> [s \in Sides |-> {}],
   holdDuty |-> [s \in Sides |-> FALSE],
   manPump |-> {}, manValve |-> {}, vent |-> {}, test |-> NoTest, stopped |-> FALSE]

-----------------------------------------------------------------------------
(* chambers.h: hardware helpers *)

\* A vented chamber is no flow path for a pump.
FlowPath(b, s) == {c \in Chambers \ b.vent : <<c, s>> \in b.valve}

RecalcDuty(b, s) ==
  LET flow == FlowPath(b, s)
  IN  CASE flow = {} -> "off"
        [] flow # {} /\ flow \subseteq b.holdMask[s] ->
             IF b.holdDuty[s] THEN "hold" ELSE "off"
        [] OTHER -> IF s = "deflate" /\ flow \subseteq b.eng[s].floor
                      THEN "floor" ELSE "full"

RecalcPumps(b) == [b EXCEPT !.duty = [s \in Sides |-> RecalcDuty(b, s)]]
RecalcIf(b, cond) == IF cond THEN RecalcPumps(b) ELSE b

Stop(b, c) == [b EXCEPT !.valve = @ \ Both({c}), !.act[c] = "idle"]

(* hold_duty.h: the hold engine, as the board calls it *)

HoldSide(h, c) == IF c \in h.vac THEN "deflate" ELSE "inflate"
OfSide(h, S, s) == {c \in S : HoldSide(h, c) = s}
OpenHoldValves(h) == {<<c, HoldSide(h, c)>> : c \in h.open}

HoldForget(b, S) == [b EXCEPT !.hold.active = @ \ S, !.hold.open = @ \ S]
HoldDropAll(b, S) ==
  LET h    == b.hold
      left == [h EXCEPT !.active = @ \ S, !.open = @ \ S, !.vac = @ \ S]
  IN  [b EXCEPT
        !.valve = @ \ {v \in OpenHoldValves(h) : v[1] \in S},
        !.hold = [left EXCEPT !.last =
          [s \in Sides |-> h.last[s] /\ (S \cap h.active = {}
                                          \/ OfSide(left, left.active, s) # {})]]]
HoldDrop(b, c) == HoldDropAll(b, {c})

\* holdAbort: forgets the holds; closing the valves is the caller's business.
HoldAbort(b) == [b EXCEPT !.hold = NoHold, !.holdMask = [s \in Sides |-> {}],
                          !.holdDuty = [s \in Sides |-> FALSE]]

\* request: flipping the side of a live hold closes the valve it had open.
HoldFlipOpen(b, c, s) ==
  [b EXCEPT !.hold.active = @ \cup {c},
            !.hold.vac = IF s = "deflate" THEN @ \cup {c} ELSE @ \ {c}]
HoldRequest(b, c, s) ==
  LET h       == b.hold
      flipped == c \in h.active /\ HoldSide(h, c) # s /\ c \in h.open
  IN  [b EXCEPT
        !.valve = IF flipped THEN @ \ {<<c, HoldSide(h, c)>>} ELSE @,
        !.hold = [h EXCEPT !.active = @ \cup {c},
                           !.open = IF flipped THEN @ \ {c} ELSE @,
                           !.vac = IF s = "deflate" THEN @ \cup {c} ELSE @ \ {c}]]

(* chambers.h: the command-facing API *)

\* drop c from the engine of side s; the engine closes it if it was open.
EngDrop(b, s, c) ==
  LET d == [b EXCEPT !.eng[s] = Drop(@, c)]
  IN  IF c \in b.eng[s].open THEN Stop(d, c) ELSE d

\* requestInflate / requestDeflate
RequestSide(b, c, s) ==
  LET held    == HoldDrop(b, c)
      dropped == EngDrop(held, Other(s), c)
      clear   == RecalcIf(dropped, c \in held.eng[Other(s)].open)
  IN  [clear EXCEPT !.eng[s] = Request(@, c)]

HoldChamber(b, c) ==
  RecalcPumps(Stop(EngDrop(EngDrop(HoldDrop(b, c), "inflate", c), "deflate", c), c))

\* VALVE_MANUAL and VENT take the chamber out of both engines.
LeaveEngines(b, c) == EngDrop(EngDrop(b, "inflate", c), "deflate", c)

SetValves(b, V, open) == [b EXCEPT !.valve = IF open THEN @ \cup V ELSE @ \ V]

SetManualValve(b, c, s, open) ==
  LET opposite == {<<c, Other(s)>>} \cap b.manValve
      freed == IF open THEN [SetValves(b, opposite, FALSE) EXCEPT
                               !.manValve = @ \ opposite, !.vent = @ \ {c}]
                       ELSE b
  IN  [SetValves(freed, {<<c, s>>}, open) EXCEPT
         !.manValve = IF open THEN @ \cup {<<c, s>>} ELSE @ \ {<<c, s>>}]

SetManualVent(b, c, open) ==
  RecalcPumps([SetValves(b, Both({c}), open) EXCEPT
    !.manValve = IF open THEN @ \cup Both({c}) ELSE @ \ Both({c}),
    !.vent     = IF open THEN @ \cup {c} ELSE @ \ {c}])

SetManualPump(b, s, on) ==
  [b EXCEPT !.manPump = IF on THEN @ \cup {s} ELSE @ \ {s},
            !.duty[s] = IF on THEN "full" ELSE "off"]

AbortEngines(b) == [b EXCEPT !.eng = [s \in Sides |-> IdleEngine]]

TestStop(b) == [b EXCEPT !.test = NoTest, !.duty = [s \in Sides |-> "off"], !.valve = {}]

\* A repeat of the running test is its keepalive and changes nothing here.
TestRun(b, s, on) ==
  IF b.test = [dir |-> s, on |-> on] THEN b
  ELSE [HoldAbort(b) EXCEPT
          !.test = [dir |-> s, on |-> on],
          !.manPump = {}, !.manValve = {}, !.vent = {},
          !.duty = [t \in Sides |-> IF t = s THEN "full" ELSE "off"],
          !.valve = on \X {s}]

EmergencyStopAll(b) ==
  [AbortEngines(HoldAbort(b)) EXCEPT
     !.test = NoTest, !.duty = [s \in Sides |-> "off"], !.valve = {},
     !.manValve = {}, !.manPump = {}, !.vent = {},
     !.act = [c \in Chambers |-> "idle"]]

-----------------------------------------------------------------------------
(* commands.h: process().  chamber -1 fans out over the chambers in order. *)

\* step[c] is what the command does to chamber c, a function of the board.
ForEach(step, b, S) ==
  MapThenFoldSet(LAMBDA c, x : step[c][x], b, LAMBDA c : c, Max, S)

Targets == {scene.to} \cup {{c} : c \in scene.to}

\* What inflate, deflate, set_pressure and hold do to one chamber.  Whether
\* the chamber needs to move at all is the gauge's business.
ApplyChamberCmd(b, c, what) ==
  CASE what = "none" -> b
    [] what = "hold" -> HoldChamber(b, c)
    [] what \in Sides -> RequestSide(b, c, what)

ApplyEach(b, S, f) ==
  ForEach([c \in S |-> [x \in Board |-> ApplyChamberCmd(x, c, f[c])]], b, S)
HoldEach(b, S) == ForEach([c \in S |-> [x \in Board |-> HoldChamber(x, c)]], b, S)
HoldDutyEach(b, S, s) ==
  ForEach([c \in S |-> [x \in Board |-> HoldRequest(x, c, s)]], b, S)

Vent(b, c, open) == SetManualVent(HoldDrop(LeaveEngines(b, c), c), c, open)
VentEach(b, S, open) == ForEach([c \in S |-> [x \in Board |-> Vent(x, c, open)]], b, S)

Between(b2) == board' = b2 /\ at' = "commands"
AcceptingLatched(group) == at \in {"ready", "commands"} /\ group \in scene.commands
Accepting(group) == /\ at \in {"ready", "commands"}
                    /\ group \in scene.commands /\ ~board.stopped

CmdInflateDeflate ==
  /\ Accepting("fill")
  /\ \E S \in Targets, s \in Sides :
       \E f \in [S -> {s, "none"}] :
         Between(ApplyEach(board, S, f))

CmdSetPressure ==
  /\ Accepting("fill")
  /\ \E S \in Targets :
       \E f \in [S -> Sides \cup {"hold"}] :
         Between(ApplyEach(board, S, f))

CmdHold ==
  /\ Accepting("fill")
  /\ \E S \in Targets : Between(HoldEach(board, S))

\* set_max / set_min store a limit and cut a chamber already past it.
CmdLimit ==
  /\ at \in {"ready", "commands"} /\ "limit" \in scene.commands
  /\ \E c \in scene.to : board.act[c] # "idle" /\ Between(HoldChamber(board, c))

CmdHoldDuty ==
  /\ Accepting("hold_duty")
  /\ \E S \in Targets, s \in Sides : Between(HoldDutyEach(board, S, s))

CmdHoldDutyOff ==
  /\ Accepting("hold_duty")
  /\ \E c \in scene.to : Between(HoldDrop(board, c))

\* Releasing every hold forgets them and closes nothing.  Sent while a valve of
\* theirs is open, or its closing has yet to reach the pumps, it is a group of
\* commands of its own.
CmdHoldDutyOffAll ==
  /\ \/ Accepting("hold_off_all")
     \/ Accepting("hold_duty") /\ board.hold.open = {}
                                 /\ \A s \in Sides : board.holdMask[s] = {}
  /\ Between(HoldAbort(board))

CmdValveManual ==
  /\ Accepting("manual")
  /\ \E c \in scene.to, s \in Sides, open \in BOOLEAN :
       LET closed == \E t \in Sides : c \in board.eng[t].open
       IN  Between(SetManualValve(RecalcIf(LeaveEngines(board, c), closed), c, s, open))

CmdPumpManual ==
  /\ Accepting("pump")
  /\ \E s \in Sides, on \in BOOLEAN : Between(SetManualPump(board, s, on))

CmdVent ==
  /\ Accepting("vent")
  /\ \E S \in Targets, open \in BOOLEAN : Between(VentEach(board, S, open))

CmdTestRun ==
  /\ Accepting("test")
  /\ \E S \in Targets, s \in Sides : Between(TestRun(AbortEngines(board), s, S))

CmdTestStop ==
  /\ at \in {"ready", "commands"} /\ "test" \in scene.commands
  /\ Between(TestStop(board))

CmdStop == /\ at \in {"ready", "commands"} /\ "stop" \in scene.commands
           /\ Between(EmergencyStopAll([board EXCEPT !.stopped = TRUE]))

CmdResume == /\ at \in {"ready", "commands"} /\ board.stopped
             /\ Between([board EXCEPT !.stopped = FALSE])

Command == \/ CmdInflateDeflate \/ CmdSetPressure \/ CmdHold \/ CmdLimit
           \/ CmdHoldDuty \/ CmdHoldDutyOff
           \/ CmdValveManual \/ CmdPumpManual \/ CmdVent
           \/ CmdTestRun \/ CmdTestStop \/ CmdStop \/ CmdResume

-----------------------------------------------------------------------------
(* main.cpp: the rest of loop() *)

\* A latched node, or a bench run whose keepalive is fresh, skips all control.
LatchedPass == /\ at \in {"ready", "commands"} /\ board.stopped
               /\ board' = EmergencyStopAll(board) /\ at' = "ready"

TestPass == /\ at \in {"ready", "commands"} /\ ~board.stopped /\ board.test # NoTest
            /\ board' = board /\ at' = "ready"

\* Valves an engine tick closes and opens; it recalcs after acting on them.
ActOn(b, s, e) ==
  LET closed == b.eng[s].open \ e.open
      opened == e.open \ b.eng[s].open
  IN  [b EXCEPT !.eng[s] = e,
                !.valve = (@ \ Both(closed \cup opened)) \cup (opened \X {s}),
                !.act = [c \in Chambers |-> IF c \in closed THEN "idle"
                                            ELSE IF c \in opened THEN s ELSE @[c]]]
MayBeSilent(old, e) ==   \* ticks that leave without a recalc
  \/ e = old
  \/ old.phase = "settling" /\ e.phase = "idle"
MustBeSilent(old, e) == e = old
EngTicks(b, s) ==
  UNION { LET acted == ActOn(b, s, e)
          IN  (IF MustBeSilent(b.eng[s], e) THEN {} ELSE {RecalcPumps(acted)})
              \cup (IF MayBeSilent(b.eng[s], e) THEN {acted} ELSE {})
          : e \in {x \in TickOutcomes(b.eng[s]) : s = "inflate" => x.floor = {}} }

\* A bench run whose dead-man fired ends here and control resumes.
ControlTick ==
  /\ at \in {"ready", "commands"} /\ ~board.stopped
  /\ LET b == IF board.test = NoTest THEN board ELSE TestStop(board)
     IN  \E b1 \in EngTicks(b, "inflate") : board' \in EngTicks(b1, "deflate")
  /\ at' = "hold"

BusyManualOnly(b) == b.manPump # {} \/ b.manValve # {}
Busy(b) == \/ \E s \in Sides : b.eng[s].phase # "idle"
           \/ b.manPump # {} \/ b.manValve # {}

\* Reconcile the hold valves with the wishes of this control step.
HoldApply(b, want) ==
  LET h    == b.hold
      shut == [h EXCEPT !.open = @ \ want]
      new  == [h EXCEPT !.open = want \ @]
  IN  [b EXCEPT !.valve = (@ \ OpenHoldValves(shut)) \cup OpenHoldValves(new),
                !.hold = [h EXCEPT !.open = want, !.last =
                  [s \in Sides |-> OfSide(h, want, s) # {}]]]

HoldSuspend(b) ==
  [b EXCEPT !.valve = @ \ OpenHoldValves(b.hold),
            !.hold = [@ EXCEPT !.open = {}, !.last = [s \in Sides |-> FALSE]]]

\* The mirrors recalcPumps consults; "retuned" is a side whose PWM moved.
MirrorDutyOnly(b, retuned) ==
  IF b.hold.last = b.holdDuty /\ ~retuned THEN b
  ELSE RecalcPumps([b EXCEPT !.holdDuty = b.hold.last])
HoldMirror(b, retuned) ==
  LET mask == [s \in Sides |-> OfSide(b.hold, b.hold.open, s)]
      on   == b.hold.last
  IN  IF mask = b.holdMask /\ on = b.holdDuty /\ ~retuned THEN b
      ELSE RecalcPumps([b EXCEPT !.holdMask = mask, !.holdDuty = on])

HoldTick ==
  /\ at = "hold" /\ at' = "manual"
  /\ \E expired \in SUBSET board.hold.active, retuned \in BOOLEAN :
       LET b == HoldDropAll(board, expired)
       IN  CASE b.hold.active = {} ->
                  board' = HoldMirror([b EXCEPT !.hold = NoHold], FALSE)
             [] b.hold.active # {} /\ Busy(b) ->
                  board' = HoldMirror(HoldSuspend(b), FALSE)
             [] OTHER -> \* a control step, or the outputs stand
                  \/ board' = HoldMirror(b, FALSE)
                  \/ \E want \in SUBSET b.hold.active :
                       board' = HoldMirror(HoldApply(b, want), retuned /\ want # {})

\* Dead-man of one manual valve: a vented chamber closes on both sides.
DeadmanValve(b, v) ==
  CASE v \notin b.manValve  -> b
    [] v \in b.manValve /\ v[1] \in b.vent -> SetManualVent(b, v[1], FALSE)
    [] OTHER -> SetManualValve(b, v[1], v[2], FALSE)

\* ... of every chamber, its inflate valve first.
DeadmanOf(b, c, valves) ==
  LET i == IF <<c, "inflate">> \in valves THEN DeadmanValve(b, <<c, "inflate">>) ELSE b
  IN  IF <<c, "deflate">> \in valves THEN DeadmanValve(i, <<c, "deflate">>) ELSE i
DeadmanEach(b, valves) ==
  ForEach([c \in Chambers |-> [x \in Board |-> DeadmanOf(x, c, valves)]], b, Chambers)

\* The manual pump of side s is cut when some chamber passed its hard limit.
HardCut(b, s, past) ==
  IF s \notin b.manPump \/ past = {} THEN b
  ELSE LET off == SetManualPump(b, s, FALSE)
           V   == (past \X {s}) \cap b.manValve
       IN  [SetValves(off, V, FALSE) EXCEPT !.manValve = @ \ V]

ManualSafetyTick ==
  /\ at = "manual" /\ at' = "watch"
  /\ \E pumps \in SUBSET board.manPump, valves \in SUBSET board.manValve,
        past \in [Sides -> SUBSET scene.to] :
       /\ \A s \in Sides : s \notin board.manPump => past[s] = {}
       /\ LET b1 == [board EXCEPT
                       !.manPump = @ \ pumps,
                       !.duty = [s \in Sides |-> IF s \in pumps THEN "off" ELSE @[s]]]
              b2 == DeadmanEach(b1, valves)
              b3 == RecalcIf(b2, valves # {} /\ b2.manPump = {})
          IN  board' = HardCut(HardCut(b3, "inflate", past["inflate"]),
                               "deflate", past["deflate"])

ActuationWatchdog ==
  /\ at = "watch" /\ at' = "ready"
  /\ \E S \in SUBSET {c \in Chambers : board.act[c] # "idle"} :
       board' = HoldEach(board, S)

Pass == LatchedPass \/ TestPass \/ ControlTick \/ HoldTick
        \/ ManualSafetyTick \/ ActuationWatchdog

Init == board = BootBoard /\ at = "ready" /\ scene \in Scenes /\ forgotten = {}
Forgets(V) == forgotten' = (forgotten \cup V) \cap board'.valve
Next == /\ UNCHANGED scene
        /\ \/ (Command \/ Pass) /\ Forgets({})
           \/ CmdHoldDutyOffAll /\ Forgets(OpenHoldValves(board.hold))
Spec == Init /\ [][Next]_vars
-----------------------------------------------------------------------------
(* Properties *)

TypeOK == /\ board \in Board /\ scene \in Scenes /\ forgotten \subseteq board.valve
          /\ at \in {"ready", "commands", "hold", "manual", "watch"}

\* A whole control pass has run since the last command.
Settled == at = "ready" /\ ~board.stopped /\ board.test = NoTest

\* An activity is running: nothing of the bench's is sent.
Runtime == scene.commands \subseteq {"fill", "limit", "hold_duty", "stop"}

\* The emergency-stop latch: from the stop to the re-arm nothing is open,
\* spinning, sequenced, held or overridden, whatever else arrives
\* (commands.h process(), emergencyStopAll).
StoppedIsOff ==
  board.stopped =>
    /\ board.valve = {} /\ board.manPump = {} /\ board.manValve = {}
    /\ \A s \in Sides : board.duty[s] = "off" /\ board.eng[s] = IdleEngine
    /\ board.hold.active = {} /\ board.vent = {} /\ board.test = NoTest

\* Two engines, the hold engine, the overrides and the bench run share the
\* valves; no pass leaves both valves of a chamber open unless it is vented or
\* one of them is forgotten.
NoCrossFlow ==
  Settled => \A c \in Chambers : Both({c}) \subseteq board.valve \ forgotten => c \in board.vent

\* A chamber is wanted by one engine at a time (a clean reversal).
OneDirection ==
  board.eng["inflate"].pending \cap board.eng["deflate"].pending = {}

\* Every open valve has somebody who will close it: an engine round, the hold
\* engine or the dead-man of a manual override.  The ones without are exactly
\* those the release of every hold left open.
NoOrphanValve ==
  Settled => \A v \in board.valve \ forgotten : \/ v[1] \in board.eng[v[2]].open
                                                \/ v \in OpenHoldValves(board.hold)
                                                \/ v \in board.manValve

\* What an engine believes open is open, and its chamber is one the actuation
\* watchdog looks at.
EngineSeesValves ==
  Runtime /\ Settled => \A s \in Sides : \A c \in board.eng[s].open :
               <<c, s>> \in board.valve /\ board.act[c] = s

\* commands.h:175: "A pump must never spin without an open valve of its
\* direction".  An operator's own pump is excepted.
NoDryPump ==
  Runtime /\ Settled => \A s \in Sides \ board.manPump :
    board.duty[s] # "off" => \E c \in Chambers : <<c, s>> \in board.valve

\* chambers.h:141: a pump "never drops out from under an open valve" of a round,
\* and only a line wholly past the gauge floor is pulled at reduced duty.
RoundIsPumped ==
  Runtime /\ Settled => \A s \in Sides : board.eng[s].open # {} =>
    board.duty[s] \in (IF s = "deflate" THEN {"full", "floor"} ELSE {"full"})

\* While a round, an override or a bench run owns the manifold the hold engine
\* has no valve of its own open, and it never opens one for a chamber that
\* an actuation has superseded.
HoldYields ==
  /\ Settled /\ Busy(board) => board.hold.open = {}
  /\ \A s \in Sides : board.eng[s].open \cap board.hold.open = {}

\* The masks recalcPumps consults are those of the hold engine, so a valve the
\* hold owns is never pumped at full duty and a round never at hold duty.
HoldMirrored ==
  Runtime /\ Settled => \A s \in Sides :
    /\ board.holdMask[s] = OfSide(board.hold, board.hold.open, s)
    /\ board.duty[s] = "hold" => OfSide(board.hold, board.hold.open, s) # {}

\* Engines, valves, pumps and hold masks are records of one fact that different
\* operations write: under an activity they agree after every control pass.
RecordsAgree == TypeOK /\ EngineSeesValves /\ NoDryPump /\ RoundIsPumped /\ HoldMirrored

\* Nothing moves a chamber both ways.
OneWay == OneDirection /\ NoCrossFlow
=============================================================================
