------------------------------ MODULE MuxBoard ------------------------------
(***************************************************************************)
(* The multiplexed actuator board (firmware/node_actuator/src/multiplexed): *)
(* its chambers hang on pump groups, each with an inflate and a deflate     *)
(* engine and a pump pair of its own, under one manual override for the     *)
(* whole board.                                                             *)
(*                                                                          *)
(* As in DirectBoard the board is a record and a C++ function an operator   *)
(* on it.  A pass of loop() follows a drained queue: between a command and  *)
(* a pass nothing else runs, so each is one action.  Timers and gauges are  *)
(* arbitrary.  Both pumps of a pair know one duty, full.  The PC configures *)
(* the number of chambers of its robot, always the same.                    *)
(***************************************************************************)
EXTENDS Integers, FiniteSetsExt

CONSTANTS Manifolds,   \* PUMP_GROUPS: the chambers of each pump group
          MuxScenes    \* bounds: the groups of commands the PC sends in a
                       \* behaviour, and the chambers it addresses

Chambers == UNION {Manifolds[g] : g \in DOMAIN Manifolds}
CommandGroups == {"fill", "hold", "limit", "manual", "stop"}
Parameters ==
  /\ Chambers \subseteq Nat /\ IsFiniteSet(Chambers)
  /\ DOMAIN Manifolds \subseteq Nat /\ IsFiniteSet(DOMAIN Manifolds)
  /\ \A g, k \in DOMAIN Manifolds : g # k => Manifolds[g] \cap Manifolds[k] = {}
  /\ MuxScenes \subseteq [commands : SUBSET CommandGroups, to : SUBSET Chambers]

INSTANCE FillEngine

Sides == {"inflate", "deflate"}
Other(s) == IF s = "inflate" THEN "deflate" ELSE "inflate"
Both(S)  == S \X Sides

\* A pump, and the engine that works with it: one per group and side.
Lines == (DOMAIN Manifolds) \X Sides
LineOf(c, s) == CHOOSE l \in Lines : c \in Manifolds[l[1]] /\ l[2] = s

VARIABLES mux, muxScene
muxVars == <<mux, muxScene>>

Board == [valve    : SUBSET Both(Chambers),               \* pca_valves::valveOpen
          pump     : SUBSET Lines,                        \* running pumps
          eng      : [Lines -> Engine],                   \* inflateEng, deflateEng
          act      : [Chambers -> {"idle"} \cup Sides],   \* state[i].state
          manual   : BOOLEAN,                             \* manualActive
          manPump  : SUBSET Sides,                        \* manualPumpOn
          manValve : SUBSET Both(Chambers),               \* manualValveOpen
          vent     : SUBSET Chambers,                     \* ventMask
          configured : BOOLEAN, stopped : BOOLEAN]

BootBoard ==
  [valve |-> {}, pump |-> {}, eng |-> [l \in Lines |-> IdleEngine],
   act |-> [c \in Chambers |-> "idle"],
   manual |-> FALSE, manPump |-> {}, manValve |-> {}, vent |-> {},
   configured |-> FALSE, stopped |-> FALSE]

-----------------------------------------------------------------------------
(* chambers.h *)

\* step[i] is what is done for chamber or group i, a function of the board.
ForEach(step, b, S) ==
  MapThenFoldSet(LAMBDA i, x : step[i][x], b, LAMBDA i : i, Max, S)

SetChamberValve(b, c, sides) ==
  [b EXCEPT !.valve = (@ \ Both({c})) \cup ({c} \X sides)]

StopAll(b, S) == [b EXCEPT !.valve = @ \ Both(S),
                           !.act = [c \in Chambers |-> IF c \in S THEN "idle" ELSE @[c]]]
Stop(b, c)  == StopAll(b, {c})
CloseAll(b) == StopAll(b, Chambers)

\* A vented chamber is no flow path for a pump.
Feeds(l, open, vent) == \E c \in Manifolds[l[1]] \ vent : <<c, l[2]>> \in open

RecalcPumps(b) == [b EXCEPT !.pump = {l \in Lines : Feeds(l, b.valve, b.vent)}]

EngDrop(b, c, s) ==
  LET l == LineOf(c, s)
      d == [b EXCEPT !.eng[l] = Drop(@, c)]
  IN  IF c \in b.eng[l].open THEN Stop(d, c) ELSE d

RequestSide(b, c, s) ==
  LET dropped  == EngDrop(b, c, Other(s))
      reversed == c \in b.eng[LineOf(c, Other(s))].open
      clear    == IF reversed THEN RecalcPumps(dropped) ELSE dropped
  IN  [clear EXCEPT !.eng[LineOf(c, s)] = Request(@, c)]

HoldChamber(b, c) ==
  RecalcPumps(Stop(EngDrop(EngDrop(b, c, "inflate"), c, "deflate"), c))
HoldEach(b, S) == ForEach([c \in S |-> [x \in Board |-> HoldChamber(x, c)]], b, S)

AbortSequences(b) == [b EXCEPT !.eng = [l \in Lines |-> IdleEngine]]

\* Engine l ticked into e: its round closed some valves and opened others.
ActOn(b, l, e) ==
  LET closed == b.eng[l].open \ e.open
      opened == e.open \ b.eng[l].open
  IN  [b EXCEPT !.eng[l] = e,
                !.valve = (@ \ Both(closed \cup opened)) \cup (opened \X {l[2]}),
                !.act = [c \in Chambers |-> IF c \in closed THEN "idle"
                                            ELSE IF c \in opened THEN l[2] ELSE @[c]]]

\* The at-floor mask only tunes a duty this board does not have.
LineTicks(b, l) ==
  {ActOn(b, l, e) : e \in {x \in TickOutcomes(b.eng[l]) : x.floor = {}}}

\* Both engines of a group, on any of the boards X; every group, then the pumps.
GroupTicks(X, g) ==
  UNION {LineTicks(y, <<g, "deflate">>) : y \in UNION {LineTicks(x, <<g, "inflate">>) : x \in X}}
Ticks(b) == ForEach([g \in DOMAIN Manifolds |-> [X \in SUBSET Board |-> GroupTicks(X, g)]],
                    {b}, DOMAIN Manifolds)
ControlTick(b) == {RecalcPumps(x) : x \in Ticks(b)}

-----------------------------------------------------------------------------
(* main.cpp: the manual override *)

DriveManualPumps(b) ==
  [b EXCEPT !.pump = {l \in Lines : l[2] \in b.manPump /\ Feeds(l, b.manValve, b.vent)}]

ApplyManualPump(b, s, on) ==
  DriveManualPumps([b EXCEPT !.manPump = IF on THEN @ \cup {s} ELSE @ \ {s}])

\* The valves of chamber c follow its flags, and the pumps follow both.
Manually(b, c, flags, vent) ==
  DriveManualPumps([SetChamberValve(b, c, flags) EXCEPT
    !.manValve = (@ \ Both({c})) \cup ({c} \X flags),
    !.vent = IF vent THEN @ \cup {c} ELSE @ \ {c}])

Flags(b, c) == {s \in Sides : <<c, s>> \in b.manValve}

\* Opening leaves the chamber with that one side and ends its vent.
ApplyManualValve(b, c, s, open) ==
  IF open THEN Manually(b, c, {s}, FALSE)
          ELSE Manually(b, c, Flags(b, c) \ {s}, c \in b.vent)

ApplyManualVent(b, c, open) == Manually(b, c, IF open THEN Sides ELSE {}, open)
VentEach(b, S, open) ==
  ForEach([c \in S |-> [x \in Board |-> ApplyManualVent(x, c, open)]], b, S)

ManualClearAll(b) ==
  DriveManualPumps([b EXCEPT !.valve = @ \ Both({v[1] : v \in b.manValve}),
    !.manPump = {}, !.manValve = {}, !.vent = {}, !.manual = FALSE])

\* Taking the override starts from a clean slate.
ManualEnterBare(b) == [b EXCEPT !.manual = TRUE]
ManualEnter(b) ==
  IF b.manual THEN b
  ELSE [RecalcPumps(CloseAll(AbortSequences(b))) EXCEPT !.manual = TRUE]

ManualLeaveIfIdle(b) ==
  IF b.manual /\ b.manPump = {} /\ b.manValve = {} THEN ManualClearAll(b) ELSE b

EmergencyStopAll(b) ==
  CloseAll(ManualClearAll([AbortSequences(b) EXCEPT !.pump = {}, !.valve = {}]))

-----------------------------------------------------------------------------
(* main.cpp: processCommand().  Chamber -1 fans out over the chambers. *)

Targets == {muxScene.to} \cup {{c} : c \in muxScene.to}

Sent(group) == group \in muxScene.commands
Accepting(group) == Sent(group) /\ mux.configured /\ ~mux.stopped

\* An explicit actuation supersedes the override.
Superseded == IF mux.manual THEN ManualClearAll(mux) ELSE mux

\* What a fill command makes of one chamber is its gauge's business; with
\* nowhere to go it at least stops an opposite actuation.
Actuate(b, c, what) ==
  CASE what = "none" -> b
    [] what = "hold" -> HoldChamber(b, c)
    [] what \in Sides -> RequestSide(b, c, what)
ActuateEach(b, S, f) ==
  ForEach([c \in S |-> [x \in Board |-> Actuate(x, c, f[c])]], b, S)

CmdInflateDeflate ==
  /\ Accepting("fill")
  /\ \E S \in Targets, s \in Sides : \E f \in [S -> {s, "none", "hold"}] :
       /\ \A c \in S : f[c] = "hold" => Superseded.act[c] = Other(s)
       /\ mux' = ActuateEach(Superseded, S, f)

CmdSetPressure ==
  /\ Accepting("fill")
  /\ \E S \in Targets : \E f \in [S -> Sides \cup {"hold"}] :
       mux' = ActuateEach(Superseded, S, f)

CmdHold ==
  /\ Accepting("hold")
  /\ \E S \in Targets : mux' = HoldEach(mux, S)

\* set_max / set_min store a limit and cut a chamber already past it.
CmdLimit ==
  /\ Sent("limit") /\ mux.configured
  /\ \E c \in muxScene.to : mux.act[c] # "idle" /\ mux' = HoldChamber(mux, c)

\* An "off" with no override running releases nothing.
CmdValveManual ==
  /\ Accepting("manual")
  /\ \E c \in muxScene.to, s \in Sides, open \in BOOLEAN :
       /\ open \/ mux.manual
       /\ mux' = ManualLeaveIfIdle(ApplyManualValve(ManualEnter(mux), c, s, open))

CmdPumpManual ==
  /\ Accepting("manual")
  /\ \E s \in Sides, on \in BOOLEAN :
       /\ on \/ mux.manual
       /\ mux' = ManualLeaveIfIdle(ApplyManualPump(ManualEnter(mux), s, on))

CmdVent ==
  /\ Accepting("manual")
  /\ \E S \in Targets, open \in BOOLEAN :
       /\ open \/ mux.manual
       /\ mux' = ManualLeaveIfIdle(VentEach(ManualEnter(mux), S, open))

CmdStop == Sent("stop") /\ mux' = EmergencyStopAll([mux EXCEPT !.stopped = TRUE])
CmdResume == mux.stopped /\ mux' = [mux EXCEPT !.stopped = FALSE]
CmdConfigure == ~mux.configured /\ mux' = [mux EXCEPT !.configured = TRUE]

Command == \/ CmdInflateDeflate \/ CmdSetPressure \/ CmdHold \/ CmdLimit
           \/ CmdValveManual \/ CmdPumpManual \/ CmdVent
           \/ CmdStop \/ CmdResume \/ CmdConfigure

-----------------------------------------------------------------------------
(* main.cpp: the rest of loop() *)

\* A latched or unconfigured node keeps everything off and skips all control.
HaltedPass == /\ mux.stopped \/ ~mux.configured
              /\ mux' = [mux EXCEPT !.pump = {}, !.valve = {}]

\* Manual valves whose chamber passed its limit close; the pressure pump is cut
\* when that leaves it no inflate valve.
CutValves(b, c, V) ==
  LET i == IF <<c, "inflate">> \in V THEN ApplyManualValve(b, c, "inflate", FALSE) ELSE b
  IN  IF <<c, "deflate">> \in V THEN ApplyManualValve(i, c, "deflate", FALSE) ELSE i
CutEach(b, V) ==
  ForEach([c \in Chambers |-> [x \in Board |-> CutValves(x, c, V)]], b, Chambers)
ManualPressureSafety(b, past) ==
  LET cut     == past \cap b.manValve
      closed  == CutEach(b, cut)
      Inflates(V) == {v \in V : v[2] = "inflate"}
      starved == /\ Inflates(cut) # {} /\ Inflates(closed.manValve) = {}
                 /\ "inflate" \in closed.manPump
  IN  ManualLeaveIfIdle(IF starved THEN ApplyManualPump(closed, "inflate", FALSE)
                                   ELSE closed)

\* The dead-man has not fired; the gauges may or may not be due.
OverridePass ==
  /\ mux.manual
  /\ \E past \in SUBSET mux.manValve : mux' = ManualPressureSafety(mux, past)

\* Watchdog, then the engines if they are due.  An override whose dead-man fired
\* hands control back in the same pass.
ControlPass ==
  /\ ~mux.stopped /\ mux.configured
  /\ \E S \in SUBSET {c \in Chambers : Superseded.act[c] # "idle"} :
       LET b == HoldEach(Superseded, S)
       IN  mux' = b \/ mux' \in ControlTick(b)

Pass == HaltedPass \/ OverridePass \/ ControlPass

Init == mux = BootBoard /\ muxScene \in MuxScenes
Next == (Command \/ Pass) /\ UNCHANGED muxScene
Spec == Init /\ [][Next]_muxVars
-----------------------------------------------------------------------------
(* Properties *)

TypeOK == mux \in Board /\ muxScene \in MuxScenes

\* "We SUSPEND the autonomous tank/chamber control" (main.cpp): under the
\* override no engine has a target and no chamber is actuated, and without it
\* no manual flag survives to fight an engine.
OverrideAlone ==
  /\ mux.manual => \A l \in Lines : mux.eng[l] = IdleEngine
  /\ mux.manual => \A c \in Chambers : mux.act[c] = "idle"
  /\ ~mux.manual => mux.manPump = {} /\ mux.manValve = {} /\ mux.vent = {}

\* pumps.h: "a pump only spins while one of its own chambers' valves can take
\* its air".  Not claimed of a hold in the middle of an override, which shuts a
\* valve the override goes on pumping for.
NoDryPump ==
  ~({"hold", "manual"} \subseteq muxScene.commands) =>
    \A l \in mux.pump : Feeds(l, mux.valve, mux.vent)

\* Never both valves of a chamber, unless the bench vents it.
NoCrossFlow ==
  \A c \in Chambers : Both({c}) \subseteq mux.valve => c \in mux.vent

\* What an engine believes open is open, watched and pumped by its own pump.
RoundIsPumped ==
  \A l \in Lines : \A c \in mux.eng[l].open :
    <<c, l[2]>> \in mux.valve /\ mux.act[c] = l[2] /\ l \in mux.pump

\* Engines, valves, pumps and the override agree after every command and pass.
BoardSound == TypeOK /\ OverrideAlone /\ NoDryPump /\ NoCrossFlow /\ RoundIsPumped

\* Every open valve has somebody who will close it: a round of its own line, or
\* the dead-man of the override.
NoOrphanValve ==
  \A v \in mux.valve : \/ v[1] \in mux.eng[LineOf(v[1], v[2])].open
                       \/ mux.manual /\ v \in mux.manValve

\* The emergency latch: nothing open, spinning, sequenced or overridden until
\* the re-arm, whatever else arrives.
StoppedIsOff ==
  mux.stopped => /\ mux.valve = {} /\ mux.pump = {} /\ ~mux.manual
                 /\ \A l \in Lines : mux.eng[l] = IdleEngine
=============================================================================
