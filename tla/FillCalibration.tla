-------------------------- MODULE FillCalibration --------------------------
(***************************************************************************)
(* The calibration window (gui/fill_calibration_dialog.py) and the node it *)
(* drives by bench commands.  A job takes one chamber through phases; each *)
(* phase ends on what the gauge says or on a ceiling of time, and sends    *)
(* the node the commands of the next.  Jobs of a batch follow each other   *)
(* through a single-shot timer of 400 ms.                                  *)
(*                                                                         *)
(* A level is a pressure: 0 the ambient floor, Full where a sweep ends,    *)
(* Over beyond the limit.  Status is the node's report: the air moves for  *)
(* one period, then the window is told.  A command arrives before the next *)
(* Status or is lost.  While nothing has failed no ceiling is reached and  *)
(* no dead-man lapses, for both are several periods long; after a failure  *)
(* they may fire at any moment.                                            *)
(***************************************************************************)
EXTENDS Integers, Sequences, FiniteSets, SequencesExt

CONSTANTS Chambers,   \* chambers of the node
          Batches,    \* what a click may ask for: sequences of specs
          Modes,      \* what goes wrong: "none", "drop", "silent", "slow"
          Clicks,     \* batches the operator asks for in a run
          Stops       \* times the operator presses Stop

Full == 2
Over == 3
Unseen == 4
Duties == 1..2        \* _DUTY_SWEEP
Plateaus == 1..2      \* _HOLD_PLATEAUS, the level being the plateau
Infl == 0
Defl == 1
Off == [dir |-> -1, ch |-> "none", duty |-> 0]
NoJob == [phase |-> "none"]

Kinds == {"duty", "hold", "fill", "deflate"}
BatchParameters ==
  /\ IsFiniteSet(Chambers) /\ Chambers # {}
  /\ \A b \in Batches : b \in Seq([ch : Chambers, kind : Kinds]) /\ b # <<>>

VARIABLES
  window,   \* "open"; "closed" with the program running; "crashed"
  job,      \* self._job: its spec, the queue behind it, phase, duty or plateau
            \* index, the lowest reading of the phase and whether it has settled
  pending,  \* the queue the single-shot timer will start, <<>> for no timer
  buttons,  \* the start buttons are enabled (and the rings do not pulse)
  honest,   \* every point recorded so far measured what it is filed as
  asked,    \* specs asked for and neither done nor stopped
  clean,    \* the recording in progress measures what it is meant to
  node,     \* test run, valves, vents and holds of the node
  level,    \* pressure of each chamber
  mode, hit,  \* what may go wrong in this run; has it
  left      \* clicks and stops left

vars == <<window, job, pending, buttons, honest, asked, clean, node, level,
          mode, hit, left>>

Rest == [test |-> Off, valves |-> [c \in Chambers |-> {}], vents |-> {}, holds |-> {}]

Init ==
  /\ window = "open" /\ job = NoJob /\ pending = <<>> /\ buttons = TRUE
  /\ honest = TRUE /\ asked = <<>> /\ clean = TRUE
  /\ node = Rest /\ level \in [Chambers -> {0, Full}]
  /\ mode \in Modes /\ hit = (mode = "slow")
  /\ left = [click |-> Clicks, stop |-> Stops]

-----------------------------------------------------------------------------
(* The node. *)

VentOpen(c) == [op |-> "vent", ch |-> c]
VentShut(c) == [op |-> "shut", ch |-> c]
TestRun(d, c, duty) == [op |-> "run", run |-> [dir |-> d, ch |-> c, duty |-> duty]]
TestStop == [op |-> "stop"]
HoldDuty(c) == [op |-> "hold_duty", ch |-> c]
HoldOff(c) == [op |-> "hold_off", ch |-> c]
Hold(c) == [op |-> "hold", ch |-> c]

\* A vent also drops a hold of the chamber.
Vented(n, c, open) ==
  [n EXCEPT !.vents = IF open THEN @ \cup {c} ELSE @ \ {c},
            !.valves[c] = IF open THEN {Infl, Defl} ELSE {},
            !.holds = @ \ {c}]

\* A test run of the same side and chamber only refreshes the dead-man: a new
\* duty, or a valve closed meanwhile, is not looked at.
TestRan(n, r) ==
  IF n.test.dir = r.dir /\ n.test.ch = r.ch THEN n
  ELSE [test |-> r, vents |-> {}, holds |-> {},
        valves |-> [c \in Chambers |-> IF c = r.ch THEN {r.dir} ELSE {}]]

TestStopped(n) == [n EXCEPT !.test = Off, !.valves = [c \in Chambers |-> {}]]

Obey(n, cmd) ==
  CASE cmd.op = "vent" -> Vented(n, cmd.ch, TRUE)
    [] cmd.op = "shut" -> Vented(n, cmd.ch, FALSE)
    [] cmd.op = "run" -> TestRan(n, cmd.run)
    [] cmd.op = "stop" -> TestStopped(n)
    [] cmd.op = "hold_duty" -> [n EXCEPT !.holds = @ \cup {cmd.ch}]
    [] cmd.op = "hold_off" -> [n EXCEPT !.holds = @ \ {cmd.ch}]
    [] cmd.op = "hold" -> [n EXCEPT !.holds = @ \ {cmd.ch}, !.valves[cmd.ch] = {}]

\* Commands reach the node in order; one of them may be lost, and all of them
\* once the link has died.
Silent == mode = "silent" /\ hit
Sends(cmds) ==
  \/ ~Silent /\ node' = FoldLeft(Obey, node, cmds) /\ UNCHANGED hit
  \/ Silent /\ UNCHANGED <<node, hit>>
  \/ /\ mode = "drop" /\ ~hit /\ hit' = TRUE
     /\ \E i \in DOMAIN cmds : node' = FoldLeft(Obey, node, RemoveAt(cmds, i))

LinkDies == /\ mode = "silent" /\ ~hit /\ hit' = TRUE
            /\ UNCHANGED <<window, job, pending, buttons, honest, asked, clean, node,
                           level, mode, left>>

\* A test run pumps its chamber, an open vent empties its own; anything slow may
\* also not move.
Moved(c) ==
  LET v == node.valves[c] IN
  CASE node.test # Off /\ v = {node.test.dir} ->
         IF node.test.dir = Infl THEN IF level[c] = Over THEN Over ELSE level[c] + 1
         ELSE IF level[c] = 0 THEN 0 ELSE level[c] - 1
    [] node.test = Off /\ v = {Infl, Defl} /\ level[c] > 0 -> level[c] - 1
    [] OTHER -> level[c]
Air == \/ level' = [c \in Chambers |-> Moved(c)]
       \/ mode = "slow" /\ UNCHANGED level

-----------------------------------------------------------------------------
(* The phases of a job. *)

Duty(j) == IF j.kind = "duty" THEN j.idx ELSE 0
RunOf(j) == TestRun(IF j.phase = "downsweep" THEN Defl ELSE Infl, j.ch, Duty(j))
Enter(j, phase) == [j EXCEPT !.phase = phase, !.seen = Unseen, !.still = FALSE]

\* The node does what the recording takes it to do.
Driven(j) ==
  LET v == node.valves[j.ch] IN
  CASE j.phase \in {"sweep", "downsweep"} ->
         node.test = RunOf(j).run /\ v = {node.test.dir}
    [] j.phase = "hold_servo" -> node.test = Off /\ j.ch \in node.holds
    [] j.phase = "hold_leak" -> node.test = Off /\ j.ch \notin node.holds /\ v = {}
    [] OTHER -> TRUE

Begin(j, phase, before) ==
  /\ job' = Enter(j, phase)
  /\ Sends(Append(before, IF phase = "hold_servo" THEN HoldDuty(j.ch) ELSE RunOf(job')))
  /\ clean' = (phase = "sweep" => level[j.ch] = 0)
  /\ UNCHANGED <<pending, buttons, honest, asked>>

Record(ok) == honest' = (honest /\ ok)

\* The next chamber of the batch waits 400 ms, less than a job takes.
FinishJob(j) ==
  /\ pending = <<>> /\ pending' = j.queue
  /\ job' = NoJob /\ clean' = TRUE
  /\ buttons' = (j.queue = <<>>)
  /\ asked' = IF asked = <<>> THEN asked ELSE Tail(asked)

\* A test run left running is only refreshed by the next.
SweepLeftRunning(j, ok) ==
  /\ Record(ok)
  /\ Sends(<<VentOpen(j.ch)>>)
  /\ IF j.kind = "duty" /\ j.idx + 1 \in Duties
     THEN /\ job' = [Enter(j, "deflate") EXCEPT !.idx = @ + 1]
          /\ clean' = TRUE /\ UNCHANGED <<pending, buttons, asked>>
     ELSE FinishJob(j)

OnSweepDone(j, ok) ==
  /\ Record(ok)
  /\ Sends(<<TestStop, VentOpen(j.ch)>>)
  /\ IF j.kind = "duty" /\ j.idx + 1 \in Duties
     THEN /\ job' = [Enter(j, "deflate") EXCEPT !.idx = @ + 1]
          /\ clean' = TRUE /\ UNCHANGED <<pending, buttons, asked>>
     ELSE FinishJob(j)

FinishHoldPoint(j, ok) ==
  /\ Record(ok)
  /\ Sends(<<HoldOff(j.ch), Hold(j.ch)>>)
  /\ job' = Enter(j, "hold_leak")
  /\ clean' = TRUE /\ UNCHANGED <<pending, buttons, asked>>

\* A window with less than two readings has no rate and no point.
FinishLeakPoint(j, ok) ==
  /\ IF j.still THEN Record(ok) ELSE UNCHANGED honest
  /\ IF j.idx + 1 \in Plateaus
     THEN /\ job' = [Enter(j, "hold_fill") EXCEPT !.idx = @ + 1]
          /\ Sends(<<RunOf(job')>>)
          /\ clean' = TRUE /\ UNCHANGED <<pending, buttons, asked>>
     ELSE Sends(<<VentOpen(j.ch)>>) /\ FinishJob(j)

AfterVent(j) == CASE j.kind = "deflate" -> "prefill"
                  [] j.kind = "hold" -> "hold_fill"
                  [] OTHER -> "sweep"

\* What ends each phase leads to the next, on a reading or on its ceiling.
Advance(j, ok) ==
  \/ j.phase = "deflate" /\ Begin(j, AfterVent(j), <<VentShut(j.ch)>>)
  \/ j.phase = "prefill" /\ Begin(j, "downsweep", <<TestStop>>)
  \/ j.phase = "hold_fill" /\ Begin(j, "hold_servo", <<TestStop>>)
  \/ j.phase \in {"sweep", "downsweep"} /\ OnSweepDone(j, ok)
  \/ j.phase = "hold_servo" /\ FinishHoldPoint(j, ok)
  \/ j.phase = "hold_leak" /\ FinishLeakPoint(j, ok)

-----------------------------------------------------------------------------
(* Readings and ticks. *)

\* PlateauDetector (no new low), HoldStabilityDetector (no excursion) and the
\* samples LeakRateSampler needs.
Settled(j, v) == CASE j.phase \in {"deflate", "downsweep"} -> v >= j.seen
                   [] j.phase = "hold_leak" -> j.seen # Unseen
                   [] OTHER -> v = j.seen

Fed(j, v) == [j EXCEPT !.still = Settled(j, v),
                       !.seen = IF j.phase \in {"deflate", "downsweep"} /\ @ < v
                                THEN @ ELSE v]

\* The vent's floor is acted upon by the tick, every other phase by the reading.
Reached(j, v) ==
  \/ j.phase \in {"prefill", "sweep"} /\ v >= Full
  \/ j.phase = "hold_fill" /\ v >= j.idx
  \/ j.phase \in {"downsweep", "hold_servo", "hold_leak"} /\ j.still

FeedJobPressure(v) ==
  LET j == Fed(job, v)
      ok == clean /\ Driven(job)
  IN IF Reached(j, v) THEN Advance(j, ok)
     ELSE /\ job' = j /\ clean' = ok
          /\ UNCHANGED <<pending, buttons, honest, asked, node, hit>>

Unheard == UNCHANGED <<job, pending, buttons, honest, asked, clean, node>>

Status ==
  /\ Air
  /\ \/ /\ window = "open" /\ job # NoJob /\ ~Silent
        /\ FeedJobPressure(level'[job.ch])
     \/ (window # "open" \/ job = NoJob \/ Silent) /\ Unheard /\ UNCHANGED hit
     \/ mode = "drop" /\ ~hit /\ hit' = TRUE /\ Unheard
  /\ UNCHANGED <<window, mode, left>>

TickVent == /\ job.phase = "deflate" /\ job.still
            /\ Advance(job, clean)
            /\ UNCHANGED <<window, level, mode, left>>

\* Only the readings end a phase.
NoCeiling == FALSE

\* The ceilings of _tick_vent, _tick_prefill, _tick_sweep, _tick_hold_fill,
\* _tick_hold_servo and _tick_hold_leak.  A closed window hears no reading.
TimedOut == hit \/ window # "open"
TickCeiling == /\ TimedOut /\ Advance(job, clean)
               /\ UNCHANGED <<window, level, mode, left>>

KeepaliveOf(j) == CASE j.phase = "deflate" -> <<VentOpen(j.ch)>>
                    [] j.phase = "hold_servo" -> <<HoldDuty(j.ch)>>
                    [] j.phase = "hold_leak" -> <<>>
                    [] OTHER -> <<RunOf(j)>>
Keepalive == /\ job # NoJob /\ Sends(KeepaliveOf(job))
             /\ UNCHANGED <<window, job, pending, buttons, honest, asked, clean,
                            level, mode, left>>

-----------------------------------------------------------------------------
(* The operator, the batch and the end of the window. *)

StartJob(batch) ==
  /\ job' = [ch |-> Head(batch).ch, kind |-> Head(batch).kind, queue |-> Tail(batch),
             phase |-> "deflate", idx |-> 1, seen |-> Unseen, still |-> FALSE]
  /\ buttons' = FALSE /\ clean' = TRUE
  /\ Sends(<<VentOpen(Head(batch).ch)>>)

Calibrate ==
  /\ window = "open" /\ buttons /\ job = NoJob /\ left.click > 0
  /\ \E batch \in Batches : StartJob(batch) /\ asked' = batch
  /\ left' = [left EXCEPT !.click = @ - 1]
  /\ UNCHANGED <<window, pending, honest, level, mode>>

\* The single-shot timer: nothing cancels it, and a job found running keeps the
\* place of the queue it brings.
RunQueue ==
  /\ pending # <<>> /\ pending' = <<>>
  /\ IF job = NoJob THEN StartJob(pending)
                    ELSE UNCHANGED <<job, buttons, clean, node, hit>>
  /\ UNCHANGED <<window, honest, asked, level, mode, left>>

AllRows == SetToSeq(Chambers)
StopRow(c) == <<TestStop, HoldOff(c), VentShut(c), Hold(c)>>
\* Four commands to a row, one row after the other.
Halt == [i \in 1 .. 4 * Len(AllRows) |-> StopRow(AllRows[((i - 1) \div 4) + 1])[((i - 1) % 4) + 1]]

StopAll ==
  /\ job' = NoJob /\ clean' = TRUE /\ buttons' = TRUE /\ asked' = <<>>
  /\ Sends(Halt)
  /\ UNCHANGED <<honest, level, mode, pending>>

Stop == /\ window = "open" /\ left.stop > 0
        /\ left' = [left EXCEPT !.stop = @ - 1]
        /\ StopAll /\ UNCHANGED window

Close == /\ window = "open" /\ left.stop > 0 /\ window' = "closed"
         /\ StopAll /\ UNCHANGED left

Crash == /\ window # "crashed" /\ left.stop > 0 /\ window' = "crashed"
         /\ job' = NoJob /\ pending' = <<>> /\ asked' = <<>>
         /\ UNCHANGED <<buttons, honest, clean, node, level, mode, hit, left>>

-----------------------------------------------------------------------------
(* The node's dead-mans: 3 s for a test run, 5 s for a vent, 6 s for a hold. *)
(* While a test run lasts loop() looks at nothing else.                    *)

Feeding(phases) == ~hit /\ job.phase \in phases

LapseRun ==
  /\ node.test # Off
  /\ ~Feeding({"prefill", "sweep", "downsweep", "hold_fill"})
  /\ node' = TestStopped(node)
LapseVent ==
  /\ node.test = Off
  /\ \E c \in node.vents : /\ ~(Feeding({"deflate"}) /\ job.ch = c)
                           /\ node' = Vented(node, c, FALSE)
LapseHold ==
  /\ node.test = Off /\ node.holds # {} /\ ~Feeding({"hold_servo"})
  /\ node' = [node EXCEPT !.holds = {}]
DeadMan == /\ LapseRun \/ LapseVent \/ LapseHold
           /\ UNCHANGED <<window, job, pending, buttons, honest, asked, clean, level,
                          mode, hit, left>>

Next == \/ Status \/ TickVent \/ TickCeiling \/ Keepalive \/ DeadMan \/ LinkDies
        \/ Calibrate \/ RunQueue \/ Stop \/ Close \/ Crash

\* The node reports and its dead-mans run; timers of a living program fire.
Fairness == /\ WF_vars(Status) /\ WF_vars(DeadMan)
            /\ WF_vars(TickVent) /\ WF_vars(TickCeiling) /\ WF_vars(RunQueue)

Spec == Init /\ [][Next]_vars /\ Fairness

-----------------------------------------------------------------------------
TypeOK ==
  /\ window \in {"open", "closed", "crashed"} /\ buttons \in BOOLEAN
  /\ job = NoJob \/ (job.ch \in Chambers /\ job.idx \in Duties \cup Plateaus)
  /\ node.test.dir \in {-1, Infl, Defl} /\ node.vents \subseteq Chambers
  /\ node.holds \subseteq Chambers /\ level \in [Chambers -> 0..Over]

\* What is recorded was measured: a fill from ambient at the duty under which it
\* is filed, a hold by a node that held, a leak with every valve closed.
PointsHonest == window = "open" => honest \/ hit

\* A batch is carried out whole and in order unless somebody stops it.
NothingSkipped ==
  window = "open" /\ asked # <<>> =>
    IF job = NoJob THEN asked = pending
                   ELSE asked = <<[ch |-> job.ch, kind |-> job.kind]>> \o job.queue

\* The buttons never invite to a second job under a running one.
OneAtATime == job # NoJob => ~buttons

CalibrationSound == TypeOK /\ PointsHonest /\ NothingSkipped /\ OneAtATime

\* Every calibration ends, also one whose frames or readings no longer arrive:
\* "stop rather than hang" (_tick_sweep).
CalibrationEnds == ~buttons ~> buttons \/ window = "crashed"

\* Whatever is lost, closed or crashed, the node comes to rest by itself.
NodeRests == <>[](node = Rest)

\* "Abort any running calibration and halt everything touched" (_stop): a job
\* runs only for somebody who asked for it and has not stopped since.
RunsOnlyWhenAsked == job # NoJob => asked # <<>>
=============================================================================
