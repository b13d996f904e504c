# A TLA+ development of SoftEdIBO

SoftEdIBO drives inflatable robot skins: a PC program (`src/src`) talks through
a USB gateway and ESP-NOW radio to nodes (`src/firmware`) whose pumps and valves
fill silicone chambers that children touch. The modules here follow a touch and
a breath of air all the way: the fill engine, the two boards that arbitrate
everything that may open a valve, the command queue, the holds kept alive from
the PC, the limits confirmed end to end, the calibration that drives a node by
bench commands, the firmware update over either radio and the program's update
of itself, the serial link to the gateway and the radio behind it that drives
Thymios, the magnets that feel a touch through a moving skin, the scripted
activity that answers touches, and the study session that remembers whose touches
they were. TLC checks them on small instances; TLAPS
proves the most important invariants for every instance. Source paths below are
relative to the repository, which is `src/` in `PROJECT.json`.

## The system

| Part | Keeps | Does | Talks to |
|---|---|---|---|
| Fill engine, `firmware/common/coupled_fill.h` | phase, masks of pending, open, at-floor and tail chambers, clocks and budgets | request, drop, abort, tick: group, open a round, fill, close, settle, measure, again | the board, by callbacks open/close/recalc |
| Direct board, `firmware/node_actuator/src/direct` | valves, pump duties, chamber states, two engines, hold engine, manual and vent masks, bench run, stop latch | one handler per command; `loop()` runs control, hold, manual dead-man, watchdog | receives from the gateway, sends status |
| Hold engine, `firmware/common/hold_duty.h` | active and open holds, their sides, servo, dead-man | request, refresh, drop, abort, tick | the direct board |
| Multiplexed board, `.../multiplexed` | valves behind I2C drivers, three pump groups with two engines and two pumps each, one manual override, stop latch | one handler per command; `loop()` runs the override's dead-man, watchdog, gauges, engines | as above |
| Command queue and wire, `cmd_queue.h`, `se_espnow.h` | 16-slot ring between radio task and loop | push, pop, decode | radio task and loop of a node |
| Gateway, `firmware/gateway`, `hardware/gateway.py` | serial port, reader thread, listeners; peers and the OTA store on the gateway | connect, verify, scan, dispatch, notice a loss, disconnect; relay, store and serve an image | PC and nodes |
| Latency monitor, `latency_monitor.py` | pings out, last round trips | ping, pong, sweep | gateway, robot panel |
| Controller, `esp32_controller.py` | one node's state on the PC | commands, receive path, limits, shutdown | gateway, skins |
| Hold keeper, `hold_keeper.py` | the holds to keep alive, bench claim, thread | start, stop, claim, tick every 2 s, forget on reboot or silence | controller, skins |
| Confirmer, `command_confirmer.py` | pending (mac, seq), counter | send, wait, resend, match the ack | gateway |
| Skin, `skin.py`, `air_chamber.py` | chambers' targets and states, automatic holds | apply actions, settle, push limits | controller, activities |
| Bench tools, `test_actuators_dialog.py`, `bench_holds.py` | which hold the bench drives | claim, hold, release, close | keeper, node |
| Calibration window, `fill_calibration_dialog.py` | job with its phase, queue of a batch, timers | vent, sweep, hold, leak; record; stop, close | gateway, one node |
| Node update, `node_ota_updater.py`, `se_ota.h` | window, acks, terminal reply; written, expected, active | begin, data window, end, boot | gateway |
| Wi-Fi update, `wifi_ota_updater.py` | lines sent and acknowledged, the store's answer, the node's | stage, ask, await, next node of the batch | gateway, node |
| Scripted activity, `scripted_activity.py` | phase, body and side programs, handlers, counts, waits | enter a phase, tick, answer touches and buttons, pause, stop | skins, Thymio |
| Session panel, `session_panel.py`, `emergency_stop.py` | session, its children, who owns which skin, pending touches, stop latch | start, resume, assign, pause, stop, re-arm | database, recorder, activity |
| Database and trash, `database.py`, `session_trash.py`, `stream_recorder.py` | tables, bundles, recordings, event queue and its writer thread | upserts, trash, restore, purge | session panel, data panel |
| Program update, `updater.py`, `main_window.py` | download, question, the script that outlives the program, the directories it swaps | fetch, ask, quit; wait, extract, verify, swap or move, start again | file system |
| Thymio link, `thymio_gateway_link.py`, `test_thymio_dialog.py`, `thymio_discovery.py` | what the PC believes of a robot, its test windows, a scan | connect, drive, beep, close; reboot the C6 and look for robots | gateway |
| Thymio radio, `firmware/thymio_rcp` (the gateway's C6) | a slot per robot with its wheel targets, link and discovery modes, parked update | poll ten times a second, load programs, revive the reports, update | gateway by UART, robots by 802.15.4 |
| Touch source, `touch_source.py`, `touch_compensation.py`, `touch_event_router.py` | measured offsets, guard of moving chambers, thresholds; presses and their peaks | subtract what the chambers add, derive touches, route them | node's magnets, skins, activity |
| Group rounds, `touch_rhythm.py` | presses of a group, the open round, outcomes, what was logged | record a press, judge, log, raise events | touch source (read thread), activity (GUI) |
| ML, configuration, the coupling sweep | – | not modelled | – |

What is hard in it:

* **Arbitration.** Engines, holds, manual overrides, vents, a bench run and the
  stop latch share the valves and pumps of a board. Each keeps its own record of
  what is open. Any legal sequence of commands may come between two passes.
* **Time.** Caps per chamber, per round and per sequence accumulate over
  correction rounds, while requests arrive in the middle and the loop stalls.
* **Threads.** The GUI thread, the gateway's read thread, the keepalive thread,
  the event writer and the update and connect workers meet in objects most of
  which have no lock, or call listeners outside it.
* **Radio and cable.** Frames are lost; statuses are old when handled; nodes
  reboot; a robot is rebuilt under way; the gateway is unplugged while its reader
  is reading, its OTA store filling, or its scan under way.
* **Retries.** A limit or an update chunk is sent again while the first answer
  is on its way, to a node that has moved on.
* **Crashes.** The program dies between two transactions, two files, or a row and
  the event that describes it, and asks afterwards whether to resume.

`PROJECT.json` lists the hazards at their lines with the properties that watch
them.

## Modules

| Module | Models | Builds on |
|---|---|---|
| `FillEngine` | the engine as a value: operators on a record, no clocks | – |
| `FillSpec` | the abstract engine: any order of request, drop, abort and tick outcomes | `FillEngine` |
| `CoupledFill` (`MCCoupledFill`, `CoupledFillProofs`) | the engine with its clocks, budgets and gauges | implements `FillSpec` |
| `CommandFifo` | the bounded queue of commands the loop may count on | – |
| `CommandQueue` (`ActuatorNodeProofs`) | the ring between radio task and loop, word by word | implements `CommandFifo` |
| `DirectBoard` | commands, hold engine, overrides, passes of `loop()` | `FillEngine`, twice as a value |
| `MuxBoard` | pump groups, one override, passes of `loop()` | `FillEngine`, twice per group |
| `ActuatorNode` (`MCActuatorNode`, `ActuatorNodeProofs`) | a node: its command ring, or one board or the other, and what the PC expects of both | `CommandQueue`, `DirectBoard`, `MuxBoard` |
| `HoldLink` (`MCHoldLink`, `HoldLinkProofs`) | keeper, skin, GUI and read threads, link, node's holds | – |
| `LimitConfirm` (`MCLimitConfirm`, `LimitConfirmProofs`) | confirm workers, confirmers, link, node's limits | – |
| `FillCalibration` (`MCFillCalibration`) | the calibration window, its node and the air | – |
| `OtaTransfer` | update over ESP-NOW: updater, link, receiver and boot | – |
| `WifiOta` (`MCWifiOta`) | update over Wi-Fi: updater, USB, gateway store, node | – |
| `AppUpdate` | the program's update of itself: download, question, script | – |
| `Updates` (`MCUpdates`, `UpdatesProofs`) | any of the three: the window's choice of transport, or the program | `OtaTransfer`, `WifiOta`, `AppUpdate` |
| `GatewayLink` | serial link, reader and connect threads, robot panel, latency | – |
| `ThymioRadio` | test and discovery windows, workers, C6, the air and the robots | – |
| `Links` (`MCLinks`, `LinksProofs`) | what the PC reaches through the gateway, and what it owes of either link | `GatewayLink`, `ThymioRadio` |
| `ScriptedUnit` | one unit of a scripted activity, GUI thread and read thread | – |
| `TouchRounds` | rounds of a group: two judges, the session log, two threads | – |
| `Play` (`MCPlay`, `PlayProofs`) | an activity being played: its programs, or the rounds of its group | `ScriptedUnit`, `TouchRounds` |
| `SessionStore` | the tables, as functions from a database to the next | – |
| `Session` | session panel, assignment, emergency stop, trash, writer thread, crashes | `SessionStore` |
| `TouchSource` | magnets over chambers that move, compensation, router, compressions | – |
| `Study` (`MCStudy`, `StudyProofs`) | a study around the skins of a robot: their calibration, their touches, the session | `Session`, `FillCalibration`, `TouchSource` |

**CoupledFill.** One action per entry point (`Request`, `Drop`, `Abort`) and one
per branch of `tick` (`SeqCap`, `Group`, `EndRound`, `Progress`, `SettleWait`,
`Measure`). A clock of the code is an age that grows by `dt`, the time since the
last tick: an arbitrary stall up to `MaxStall`. Gauge readings are arbitrary, as
are the chambers that pass their reading. `dir`, the engine's direction, is chosen
by `Init` and never changes: one run covers both. Ages are reset when their phase
ends, which changes nothing the code can observe and keeps the state space finite.
`FillSpec` has no time at all; it says which masks and phases may follow which,
and `ImplementsFillSpec` ties the two, so that the boards may use the abstract
engine without its clocks.

**CommandQueue.** `push` runs in the receive callback on one core of the ESP32,
`pop` in `loop()` on the other. Each is a begin (the test of the two indices), one
step per word of `struct Cmd` in any order, and the store of its own index. An
action per step lets the other task come in between. Stores are taken in program
order. The refinement mapping reads the waiting commands off the slots from `tail`
to `head`; the boards may therefore take commands whole and in order, and
`ActuatorNode` takes the ring or a board, which share nothing else.

**DirectBoard and MuxBoard.** A board is one record and every C++ function an
operator on it, so a handler is the composition of the calls it makes, in the
code's order, and the missing calls of the code are missing here too. Commands
arrive only before the control pass, as the queue is drained there; `at` says which
step of the direct board's `loop()` comes next, while the multiplexed board's pass
is one action. Timers and gauges are free choices: any dead-man may fire at any
pass, any control step may want any set of held chambers. The direct board's pump
duties keep their class (off, hold, floor, full); the multiplexed board knows only
on and off, per group. A *scene* is the groups of commands the PC sends in a
behaviour and the chambers it addresses. `forgotten` is a history variable: valves of
holds that a release of all holds left open, until something closes them.

**HoldLink.** A thread's operation is a script of sections; a section is what
runs under the keeper's lock, or between two such calls. `Begin` writes the
script of a GUI operation, `Receive` that of the read thread; the keepalive
thread is `Wake` (reads the silence, outside the lock), `Tick` (under it) and
`Leave` (the listeners, outside again). The link keeps order and loses nothing
while the node is on; power loss drops what the node has and what is sent to it.
Six seconds of silence and of no refresh are guards: `FallSilent` needs the node
off and nothing in flight, `DeadMan` needs no refresh in flight.
`told` is a history variable: what the wire last said of each hold.

**LimitConfirm.** Each worker confirms the two limits of its chamber in the
order of `_push_limits`; `MayResend` counts transmissions. Links lose frames at
will but keep order; the receiver's matching is by node and sequence number, as
in `_handle`. `applied` is a history variable. Workers may share a confirmer or
have one each, may share a chamber, and may name a chamber the node lacks.

**FillCalibration.** A job is a record with the phase it is in; `Status` is one
report of the node, before which the air moves for one period under whatever
pumps and valves the node has been told to use. Each phase ends by what the gauge
said (`TickVent`, `Status`) or by its ceiling (`TickCeiling`). Which failure may
happen (`mode`: one frame lost, the link dead from some moment on, slow status) is
chosen by `Init`. `honest` is a history variable: what each recorded point was
measured under. `_finish_job`'s single-shot timer is `pending`, and `RunQueue` its
firing.

**OtaTransfer, WifiOta.** The updaters' threads as in `_transfer`,
`_finish`, `_stage`, `_await_start` and `_await_done`, with their timeouts,
retries and cancel; the node as in `tryHandle`, `doWifiUpdate` and
`checkBootDone`; the gateway's store with one image at a time, filled over USB
line by line. An image is the number of the run that sent it. Flash may fail, a
boot may brick, the power may cycle, the gateway may be unplugged.

**AppUpdate, Updates.** The program fetches the release, asks, quits, and leaves a
script behind. Each step of the script is an action: on Windows it waits for the
process to end, unpacks, verifies, parks the old directory, swaps the new one in
and drops the old; on Linux it moves one file over the other, which is a rename
beside it and a copy across file systems, and falls back to `cp`. `Init` chooses
where the download may go (`place`) and what an earlier update, cut short, has
left. Any call may fail and the power may go between any two (`Mishaps`). A removal
with `SilentlyContinue` may leave its directory, half removed, unnoticed (`Left`), and
`Move-Item` moves into a directory that exists: `"nest"` is a leftover with the
installation inside. What stands outside of any `try` ends the script on the spot
(`"dead"`: no message, nothing started). The
operator presses Install, cancels, answers, or starts the program while the
script is at work (`Clicks`). `Updates` chooses one of the three updates, which
share no state, and states what all of them owe.

**GatewayLink.** Three kinds of threads share a `Gateway` object without a lock
around it: the GUI thread, the workers that run `connect()`, and the readers those
start. A reader holds no port: it reads whatever `self._serial` is at that moment.
Signals to the GUI are a queue. The guards named *settled* keep two events
apart that the code does not keep apart (`Hasty` lifts them; see below).

**ThymioRadio, Links.** A robot is its slot. On the PC `tests` are the Test Thymio
windows opened so far, each with its connect task in three steps (first command,
second, result on the GUI thread), and `search` is the Discover window with its
worker. Commands go through `uart` to the C6, one action per command of
`handleLine`. `Poll` is one turn of `thymioLinkPump`: three kinds of frames to each
active slot (a program, its start, the wheel targets), any of which may be lost;
`Poll(TRUE)` is one in which the watchdog fires. Speeds stand for pairs of wheel
targets. `said` is a history variable: the last target the PC accepted. The cable may go at any
moment, under an open window and between any two steps of a worker (`LoseGateway`): the
controls stay enabled, nobody tells the window (`cut` remembers that it happened), and
with the cable may go the power of both chips. It comes back by a click in the main
window, so not under a window: those are modal. A sound
resets the wheels or leaves them, as two comments of the code disagree about it.
Robots are switched on and off, their programs and the receiver die, and the C6
crashes in the middle of a download. `Links` chooses one of the two links, which
share only whether the gateway is connected.

**ScriptedUnit, TouchRounds, Play.** The GUI thread's tick is cut at every call at which the
interpreter may switch threads (`gui.at`), and so is the read thread's callback
(`cb.at`). A program is the sequence of steps it has yet to run; `Expand` is what
a step does. The instance's behaviour has the steps that interact: a wait for
touch, a timed stroke, touch, round and release handlers, a rhythm, an endless
repeat, a conditional, and every way of leaving a phase. In `TouchRounds` every
press goes to two judges: `SyncScoreTracker` closes rounds as they happen, on either
thread, and `GroupTouchSyncTracker` segments all presses again whenever it is asked
(`Segmented`). Time is in whole steps of which the activity's timer misses none.
With `racing` the threads switch inside a press or a tick. The programs hear of
rounds only as events, which `ScriptedUnit` lets happen at any tick, so `Play`
takes one or the other. `tally` is a history variable: programs handed over in the
phase that have not ended, and those of them that were appended to a list which the end
of a pass had just replaced.

**Session, SessionStore.** A GUI handler runs to its end; a question on the
screen (`modal`) keeps the others away, but not the panic key nor the touches.
`Crash` may come at any point, `CrashDuringStart` and a crash inside a trash
operation between its transactions. Ids are those the dialog suggests, and the
operator leaves the running session out of the trash (`careful`).

**TouchSource, Study.** What a chamber does to a magnet is a table (`Field`), of which
the sweep measured every `Step`-th level; `Expected` interpolates between them as
`offset_at` does, in whole numbers, and falls back to a sum where a combination was
not measured. Chambers move, statuses arrive late, fingers press, the guard
settles, and `Frame` hands one sample through compensation, router and the
detector of compressions. `Tunings` says whether compensation, guard and vectors are
on and what was not measured. The session hears of touches at any moment, and
calibration happens before it: `Study` takes one of the three at a time.

## Runs

Bounds are named constants of the modules or fields of a *mix*: `Init` chooses
one of a few records that say how often each thing may happen, so that one run
covers several scenarios without their product. Each instance was chosen so that
the case of interest occurs. The mutants in `PROJECT.json` are the evidence: each
property is broken by a plausible bug within the same bounds.

| Run | Instance | States |
|---|---|---|
| `coupled_fill` | 2 chambers, both directions, stalls of 1–2, caps of 2 and 3, tail of 3, sequence of 10: three rounds, so budgets add up and a tail floor latches twice | 298 k |
| `board` | ring: 4 slots, 2 commands of 2 words, so the indices wrap and it fills and empties at every offset; direct: an activity and overrides on 2 chambers, the bench on 1, releases of all holds under rounds and overrides on 1; multiplexed: 3 chambers in 2 groups, the pair {0, 1} sharing pumps | 108 k |
| `limit_confirm` | 2 workers of 1 confirmer, 2 sends, 1 unconfirmed push, 1 reboot, 2 frames each way | 3.5 M |
| `hold` | 1 chamber: any 2 operations, or 3 around a claim, or 1 over 2 power cycles | 422 k |
| `ota` | ESP-NOW: 3 chunks, window 2, 2 runs, 1 flash fault, 1 power cycle; Wi-Fi: 2 nodes, 6 lines, window 3, 1 reset of the gateway; the program: 3 presses, 2 mishaps, 4 places | 548 k |
| `activity` | one phase graph of three phases with every kind of step; 5 mixes of touches, gestures, an impact, button presses and moves by hand. Rounds: 2 of 3 sensors, 4 presses until time 4, window of 1, beat of 3, least gap of 2; a selected group with and without races, an automatic one without | 358 k |
| `study` | session: 2 sessions, 2 skins, 2 children, 4 kinds of day. Calibration: 2 chambers, 4 batches, 4 failure modes, 2 clicks, 1 stop. Touch: 2 sensors over 2 chambers whose fields add up to less than their sum, 3 levels of which 2 were measured, 4 moves, 4 tunings | 218 k |
| `gateway` | nodes: 1 node, 2 listeners, 2 lines on the wire; 4 mixes of clicks, scans, cable, listeners, power. Thymios: 2 robots, one without an address; 4 plans of test windows, beeps, a scan, 2 updates, 1 lost frame, a fault, a power switch, a gateway that goes under a window and comes back | 240 k |
| `ota_wifi_batch` | 2 nodes, no reset | stops at the violation |
| `calibration_stop` | 2 chambers, 1 click, 1 stop | stops at the violation |
| `touch_guard` | the touch part of `study` with the guard on | stops at the violation |
| `round_log` | the rounds of `activity`, one thread after the other | stops at the violation |

A property that a run lists may be a conjunction; its conjuncts are the
statements below, each defined and explained at its place in the module.

* **coupled_fill.** `FillShape`: phase, open valves and pending work agree.
  `BoundedOpening`: no valve outlives its round's clock, and no round the caps.
  `BlindPullOnce`: a chamber whose gauge has bottomed out is pulled blind for the
  tail time, whole, once. `BudgetEnforced`: no step opens a chamber that has spent
  its cap, over any number of rounds. `AlwaysQuiesces`: every sequence ends under
  a stream of requests that never pauses. `ImplementsFillSpec`.
* **board.** `NoSharedSlot`: the two tasks never touch one slot of the ring.
  `ImplementsFifo`: commands come out whole, once, in order. `Drains`. `BoardSound`: on the direct board the engines see their valves, the
  hold masks mirror them, no pump runs dry and every round is pumped under an
  activity, no chamber is driven both ways or open on both sides unless vented or one of the two forgotten;
  on the multiplexed board an override is alone, no group pumps dry or across,
  and every round is pumped. `NoOrphan`: an open valve has an owner that will
  close it, and the only ones without are those a release of all holds forgot. `Latched`: from a stop to the re-arm all is off. `HoldYields` (direct):
  a hold lets go of whatever else moves its chamber.
* **limit_confirm.** `LimitsSane`: minimum below maximum, both in range.
  `AckMeansApplied`: a limit reported applied was applied. `ConfirmedInForce`: a
  confirmed pair stays in force until the node reboots.
* **hold.** `HoldSound`: well typed, and a claim leaves no hold of the
  application on the node. `BenchExclusive`, `KeptAlive`, `NoLateKeepalive`.
  `HoldsEnd`: silence ends the keeper's holds, the dead-man those of a node that
  nobody refreshes.
* **ota.** `UpdateSound`: the window claims nothing the node has not written; what
  the gateway serves is whole, and staging never waits with nothing on its way;
  what the program is started from is never half a bundle; a script that ends early has
  put the old one back after any one failure and after two may have put a leftover
  there (`InstallWhole`, `OldKept`). `BootedAsReported`: an
  update reported done runs on its node, on sound flash, under steady power and
  without a crash, and a program that says it was replaced was.
  `EveryUpdateEnds`.
* **activity.** `UnitSound`: well typed, and a handler belongs to the phase in force.
  Of the rounds (`RoundsSound`): the judge that closes them as they happen and the
  one that segments them later agree (`VerdictsAgree`, without races); the streak an
  activity waits for was earned (`StreakEarned`); every round that ended is in the
  log (`RoundsLogged`), and a tick leaves none open past its window (`StraysJudged`).
  `ProgramsAccounted`: a program handed over is in the list until it ends, is discarded
  with its phase, or was appended to a list just replaced, the one way to lose it (below);
  a pass keeps every program that has not ended.
  `HaltedIsQuiet`: a stopped unit stands still for good, a paused one is told nothing
  new unless stepped by hand; what it was told before, a stroke of the wheels for one,
  goes on. `KeepsGoing`: programs
  start, a wait for touch ends, a phase meets its timeout, a pressed button whose
  release was lost comes up again.
* **study.** `OpenIsCurrent`: the session the database calls open is the one on
  the screen. `LabelHonest`: the pause button says what it would do. `StoreSound`:
  no row without its session, a bundle can be restored, recordings go where their
  session goes unless the program crashed in between, nothing vanishes but by a purge. `TouchesAttributed`: the map
  of children survives, a child has one skin, and a touch is kept until somebody
  decides about it. `EventsWritten`: what was queued gets written. `MeasuredSound`: of a
  calibration, what is recorded while nothing is lost was
  measured under the duty and valve it is recorded for, no chamber of a batch is
  skipped, one job runs at a time (`CalibrationSound`); of the magnets, once the
  status has caught up no inflation is a touch, a firm press is one, and router and
  compressions follow the stream (`TouchSound`). `CalibrationEnds`: every job ends, status or not,
  and the node comes to rest after the last job, a close or a crash.
* **gateway.** `LinksSound`: a link to the nodes that is up and left alone has one
  running reader and no listener pruned away (`NothingMissed`); a Thymio's controls
  that can be clicked reach it until the gateway goes under their window, no closed window leaves a robot connected, and the
  C6 joins Wi-Fi only on a boot that never used 802.15.4, once per request
  (`RadioSound`). `PanelHonest`: the panel comes to show what the link is.
  `PanelComesRight`: its buttons return, and a node that falls silent does not keep
  its last round trip. `WheelsObey`: once nothing more happens every robot the C6
  drives moves as it was last told, every untested one stands still, those excepted under
  whose window the gateway went (`Obeyed`), and reports that have stopped altogether come back (`StreamRevives`).

One chamber is enough where the chambers do not influence each other: in
`HoldLink` only `chamber = -1` and the thread's life couple them, which the
proofs treat for any set; on the boards the pumps couple them, so the scenes
about pumps have two and three. Two frames on a link are enough for an old
acknowledgement to lie behind a new frame.

Deadlock is checked in `coupled_fill`, `board` and `hold`. The
others end, or rest once their bounds are spent, and say so in their cfg.

## Disagreements with the repository

Four runs expect a violation; `PROJECT.json` lists them under "findings" with the
line they contradict.

| Run | Refutes | What the code does |
|---|---|---|
| `ota_wifi_batch` | `RightImage` | a batch over Wi-Fi replaces the image in the gateway while a node given up for lost is still joining to fetch its own |
| `calibration_stop` | `RunsOnlyWhenAsked` | Stop between two chambers of a batch does not cancel the timer that starts the next |
| `touch_guard` | `MovingIsQuiet` | the compensator raises a sensor's threshold while a chamber moves, and `_derive_active` then judges by the bare threshold |
| `round_log` | `LoggedOnce` | a round rejected by the tick gets another id when a missing child presses after all, and is logged again |

Others were met while modelling. They bound where a property is claimed.

*Boards.* `hold_duty` off for all chambers forgets the holds and leaves their
valves open (`commands.h:403`, `hold_duty.h:397`, whose comment says "The caller has
already slammed everything off"), and the PC sends it when the bench claims a node or
gives it back (`hold_keeper.py:107`, `:154`). Nothing closes such a valve until
something else uses its chamber, and the pump of its side runs on at hold duty, against
`hold_duty.h:80` ("The pumps are OFF whenever no held valve of their side is open").
One scene of the run sends it, and `NoOrphan` and `NoCrossFlow` except what it left open
(`forgotten`), and nothing else. A manual
close does not recalculate the pumps (`commands.h:335` against `:175`), a manual
pump off takes the pump of a round (`chambers.h:406` against `:142`), a fill leaves
a vented chamber vented and a by-hand close takes a vent's dead-man
(`PROTOCOL.md:89`). So the pump properties are claimed for the commands of a
running activity, and `NoCrossFlow` excepts vented chambers. On the multiplexed
board a hold sent during an override closes the valve and leaves
`manualValveOpen` set: the recalculation runs a pump the operator did not switch
on, and a later keepalive of the pump drives it against the closed valve
(`main.cpp:459`), although `chambers.h:157` calls the recalculation "suspended".
Its `NoDryPump` therefore excepts scenes that mix holds and overrides. Its
counterpart on the direct board lacks the branch that stops a chamber which a new
target leaves nowhere to go.

*Holds and skins.* A status handled before its command starts the hold ahead of
the fill, which ends it (`skin.py:617`, `:645`); one handled after a shutdown's
resume can hold again (`:615`); a deflate already at its target never settles
(`:669`); a claim after a late boot announcement releases nothing
(`hold_keeper.py:153`), so `ClaimReleases` is checked without power cycles.

*Limits.* The confirmers of a disposed and of a rebuilt robot share sequence
numbers (`command_confirmer.py:119`): `AckMeansApplied` needs one confirmer per
node, and the theorem assumes it.

*Updates.* After a lost `verify_failed`, `not_active` counts as a boot
(`node_ota_updater.py:254`). A crash while the boot flag is armed makes the old
firmware announce `ota_done`, against `se_ota.h:258`. Neither acknowledgements nor
the terminal reply carry the number of a run. The program's two renames are said to
have "no state in between" (`updater.py:376`); when the power goes there, nothing
lies where the program is started from, and the next start has no program to
repair it with. "The old installation is always left intact when we bail out"
(`updater.py:325`) takes two failures to refute: an old backup that cannot be removed
(`:378`, silently) takes the installation in, and the new bundle does not land; then `:389`
moves that leftover to where the program is started from, or, if the backup does not go
back either, nothing lies there. A stage that cannot be made (`:353`, outside of the
`try`) ends the script with no message and nothing started. On Linux a `mv` from `/tmp` and the fallback `cp -f` write in place, so
`InstallWhole` speaks of a download beside the program and of no failure. Each
press of Install connects another `_on_done` (`main_window.py:485`): after a
cancelled download the question comes once per press.

*Activities.* A handler is "spawned per touch press" (`catalog.py:23`), but
`_on_press`, on the read thread, fetches the list of programs and appends to it
(`scripted_activity.py:2009`), while the end of a pass, on the GUI thread, replaces the
list (`:871`): switched in between, the program of that press never runs.
`ProgramsAccounted` counts these. A press handled while a phase is entered may fire
the handlers fetched before (`:1485` iterates over a copy), which `UnitSound`, a
statement about what is registered, does not see. `pause` stops the timer only (`:305`):
a stroke of the wheels goes on until the activity is resumed or stopped. A gesture count is read and written in two steps
(`scripted_activity.py:1850`) and may survive into the next phase. `tick` and `record`
of `SyncScoreTracker` run on two threads without a lock (`touch_rhythm.py:486`, `:501`):
when they switch in the middle, a round is judged twice, a press is wiped with the
round the tick closes, or `record` subtracts from a start that is `None` and the frame
is dropped. `VerdictsAgree` therefore excepts `racing`; the other properties of the
rounds do not.

*Sessions.* The pause button resumes what the emergency stop paused, although
`session_panel.py:762` leaves that to the re-arm. A resumed session opens its
recordings with mode "w" (`stream_recorder.py:80`) and overwrites what it recorded
before the crash. The running session may be moved to the trash and an id typed
by hand may clash with one in the trash; `careful` excludes both.

*Gateway.* `Hasty = TRUE` lifts the guards that keep two events apart, and then
the panel properties fail: a loss that outruns the result of the connect leaves
"Connected" for good (`robot_panel.py:306`, `:342`), which `:309` says the handling of the
loss is there to prevent; a click during the automatic connect leaves
two readers (`gateway.py:216`), `disconnect` gives up on a reader after two
seconds. `_send_probe` writes outside the lock of the serial port. A list of
listeners pruned by `esp32_controller.py:551` can lose one registered meanwhile.

*Thymios.* When the gateway goes under an open test window its controls stay enabled and
reach nobody (`set_motors` returns `False`, `test_thymio_dialog.py:145` does not look),
and closing it says nothing to the robot, which keeps its last target: `ControlsWork`
and `Obeyed` end there (`cut`). `close` is said to turn the link off
(`thymio_gateway_link.py:13`, `test_thymio_dialog.py:223`) and leaves the C6 polling
(`thymio_gateway_link.py:123`). `Prompt = FALSE` lets the operator open a window only when what was
started last has come to rest; with `TRUE` `RadioSound` and `WheelsObey` fail.
A Discover window closed early is said to put the C6 back "right away"
(`thymio_discover_dialog.py:11`), but its worker still turns discovery on, which ends
a link opened meanwhile (`thymio_discovery.py:191`), and `connect()` has no handshake
that would notice (`thymio_gateway_link.py:97`). A test window reopened while the
connect of the one before is pending finds its link closed by it
(`test_thymio_dialog.py:98`). `thymio_link` without a slot takes slot 0 with address
6a25 (`main.cpp:909`, here of `thymio_rcp`): a robot of that address in another slot is then sent two
targets in each poll, so the model has only slot 0 reach a robot by the default.
The zeros before a discovery, a sniff or an update are sent once
(`main.cpp:812`), a reboot sends none. The watchdog counts the frames of all
robots together and does nothing before the first of a boot (`main.cpp:613`). `main.cpp:479` says
that loading a program leaves the motor targets alone, `:523` that it zeroes them.

*Touches.* The coupling sweep saves its result to the skin that the combo shows when
it ends (`touch_calibration_dialog.py:336`), and its settle guard drops the samples
after the *reported* change of a level (`touch_coupling.py:226`), not those between
the change and the report. Magnitudes without directions cannot tell a press against
the field of a chamber from no press: `PressStandsOut` is claimed of vector
calibrations.

*Calibration.* A lost vent or `test_stop` frame falsifies the point that follows, and
nothing notices: `PointsHonest` ends with the first loss. A `pumps` frame left from the job before may overwrite the seed
of the next, and the vent's plateau is judged on an unchanged reading when a
status is lost. The docstring calls `HARD_MAX` a safety net
(`fill_calibration_dialog.py:8`), which `test_run` bypasses on the node.

## Fairness

* `CoupledFill`: `WF(Tick)`. `loop()` calls `controlTick` forever and every
  command returns. Nothing is assumed of the commands.
* `CommandQueue`, and the ring of `ActuatorNode`: `WF(Pop)`, as `loop()` drains the ring in every pass. Nothing of
  the radio: `Drains` holds while the ring is kept full.
* `HoldLink`: threads run, frames in flight arrive, the two timers come. Nothing
  of the user or the power switch.
* `OtaTransfer`: `WF(Worker)`, and `SF(Expire)`: a chunk that stays without its
  acknowledgement meets its timeout in the end, although answers keep arriving in
  between. `AppUpdate`: Qt closes the windows
  (`WF(Quit)`) and the system runs the script (`WF(Script)`), nothing of the
  operator. `WifiOta`: weak fairness of the worker, whose every wait has a timeout,
  and of the steps of gateway, relay and node taken together. Nothing of what gets
  lost, unplugged or switched off.
* `ScriptedUnit`, and so `Play`: timers tick, a tick or a handler that has begun goes on, weakly;
  strongly that time passes, since touches may come at any time. Nothing of the
  children or the operator.
* `Session`: the writer thread, which has nothing else to do.
* `GatewayLink`: the event loop of the GUI and the connect workers, which both run
  until they have nothing left to do; any reader; the poll of the latency monitor.
  Nothing of the cable or the clicks.
* `ThymioRadio`: workers, the C6's commands and quiet polls, and that a robot that
  reports is heard (`Progress`); the watchdog. Nothing of the operator, of losses or
  of faults, which are bounded: a radio that loses every frame drives no robot.
  `Links` takes the fairness of both as it stands.
* `FillCalibration`: the timers of the window and, unless the mode says
  otherwise, the node's status; the node's own dead-man. Nothing of the operator.
* `Study` takes the fairness of `Session` and of `FillCalibration` as it stands.
* The boards, `LimitConfirm`, `TouchRounds` and `TouchSource` have safety properties
  only.

## Proofs

| Theorem | States, for every value of the constants |
|---|---|
| `CoupledFillProofs!TypeCorrect`, `ShapeCorrect`, `BoundedCorrect` | `TypeOK`, `FillShape`, `BoundedOpening` are invariants |
| `CoupledFillProofs!BudgetCorrect` | `BudgetEnforced`: no tick leaves a valve open past its chamber's budget |
| `CoupledFillProofs!Refinement` | `CoupledFill` implements `FillSpec`, the liveness part of the specification aside, which `FillSpec` does not have |
| `ActuatorNodeProofs!RingTypeCorrect`, `NoSharedSlotCorrect` | `TypeOK`, `NoSharedSlot` |
| `ActuatorNodeProofs!RingRefinement` | `CommandQueue` implements `CommandFifo`, its fairness aside |
| `LimitConfirmProofs!TypeCorrect`, `SaneCorrect` | `TypeOK`, `LimitsSane` |
| `CoupledFillProofs!BlindPullCorrect` | `BlindPullOnce`: a sealed mux-down series pulls blind once and never again |
| `LimitConfirmProofs!AckCorrect` | `AckMeansApplied`, assuming `OneConfirmer` |
| `LimitConfirmProofs!ConfirmedCorrect` | `ConfirmedInForce`, assuming `OneConfirmer`, `SameWish` and `Reachable` |
| `HoldLinkProofs!TypeCorrect`, `KeptAliveCorrect`, `BenchExclusiveCorrect`, `NoLateKeepaliveCorrect` | `TypeOK`, `KeptAlive`, `BenchExclusive`, `NoLateKeepalive` |
| `HoldLinkProofs!HoldSoundCorrect` | `HoldSound`, with its part `ClaimReleases`, assuming `ClaimsUnderPower` |
| `ActuatorNodeProofs!LatchedCorrect`, `HoldYieldsCorrect` | `Latched`, `HoldYields`, of both boards |
| `ActuatorNodeProofs!NoOrphanCorrect` | `NoOrphan`, of both boards, whatever is sent |
| `ActuatorNodeProofs!BoardSoundCorrect` | `BoardSound`: what engines, valves, pumps and overrides of either board agree on, whatever is sent (`Runtime`, for its statements about pumps, is a condition of the state) |
| `UpdatesProofs!UpdatesCorrect`, `BootedCorrect` | `UpdateSound`, `BootedAsReported`, of all three updates |
| `LinksProofs!LinksKeep` | three parts of `LinksSound`, with no assumption: `ListenersKept` of the gateway, `NobodyLeft` and `JoinsClean` of the Thymios |
| `LinksProofs!RadioCorrect` | `RadioSound`, with `ControlsWork`, assuming `~Prompt`, whenever the gateway goes |
| `LinksProofs!LinksCorrect`, `PanelCorrect` | what is left of `LinksSound`, and `PanelHonest`, for the same operator as in the run: assuming `~Hasty` and `~Prompt` |
| `PlayProofs!UnitCorrect` | `UnitSound`: only handlers of the phase in force are armed |
| `PlayProofs!ProgramsCorrect` | `ProgramsAccounted`: a program is in the list until it ends, or was appended to a list just replaced |
| `PlayProofs!HaltedTellsNothing` | `HaltedIsQuiet`: a stopped unit stands still, a paused one is told nothing new but by hand |
| `PlayProofs!StraysStayJudged` | `RoundsTypeOK` and `StraysJudged`, of `RoundsSound` |
| `StudyProofs!ButtonHonest` | `LabelHonest` |
| `StudyProofs!OpenStaysCurrent` | `OpenIsCurrent`, assuming a careful operator |
| `StudyProofs!StoreStaysSound` | `StoreSound`, with `NothingLost`, assuming a careful operator |
| `StudyProofs!TouchesStayAttributed` | `TouchesAttributed`, with `PendingKept`, assuming a careful operator |
| `StudyProofs!CalibrationStaysSound` | `CalibrationSound`, the half of `MeasuredSound` about calibrations |
| `StudyProofs!ListenersFollow` | `TouchTypeOK` and `ListenersAgree`, of the other half, in any field |
| `StudyProofs!ExactCompensation` | where the sweep has measured, `SteadyIsQuiet` in any field, and `PressStandsOut` for any firm press |
| `StudyProofs!StudyIsSession` | `Study` implements `Session`, its fairness included |

Assumptions of the modules: `TuningAssumption` (times are
natural numbers, the caps positive and ordered as in the firmware's constants),
`QueueAssumption` (at least two slots, and a word that was never written is no
command), `LimitsAssumption` (the default limits are sane), `HoldLinkAssumption`
(a node has finitely many chambers), `StudyAssumption` (so has the board that is
calibrated, at least one; a batch is a sequence of jobs of the four kinds and not
empty, as `_run_specs` returns otherwise; fields and fingers are integers, thresholds
and the distance of measured levels positive, and a compression ends below the
threshold it begins at),
`StoreAssumption` (ids are positive numbers, and no participant's id is the absence
of one), `MixesAssumption` (the form of a mix),
`NodeAssumption` (of the boards: chambers are finitely many, groups share none),
`OtaAssumption` (sizes are positive numbers), `UpdatesAssumption` (the same for the
other two updates; the window over USB is smaller than the gateway's buffer, 8 KB
to 16, and at least the distance of two acknowledgements, 4 KB; a batch names each
node once), `BehaviourAssumption` and `BudgetAssumption` (of activities: a
transition leads to a phase, which the code looks up when it takes the jump
(`scripted_activity.py:500`); a program and what its steps stand for are made of
the phase's steps; a program armed as a reply holds no `when`, which the catalogue
asks to be put in the phase's `do`; an input is counted no further than it may
happen), `PlayAssumption` (of rounds: times and tolerances are natural numbers, the
beat and the gap of chatter positive).
Some theorems assume more. Where the code does not see to the assumption itself, the
theorem says less than the code owes, and the section above says what happens without it:

| Assumption | Why |
|---|---|
| `OneConfirmer` | a node is confirmed by one confirmer; while a robot is rebuilt there are two (above) |
| `SameWish` | workers of one chamber want the same limits; otherwise the last one wins, although both were acknowledged |
| `Reachable` | the wanted limits are sane, and the wanted maximum lies above every minimum a chamber may start with: `set_limits` takes the maximum first, which the node would otherwise clamp, and acknowledge |
| `ClaimsUnderPower` | no claim in a behaviour with power cycles: after a late boot announcement it releases nothing (above) |
| `~Hasty` | nothing happens in the milliseconds, or the two seconds of a scan, in which a result is on its way to the panel; the code keeps neither a click nor the cable out of them (above) |
| `~Prompt` | a window is opened when what was started last has come to rest; the dialogs do not see to that (above) |
| every `careful` | the operator trashes no running session and types no id of the trash (above) |

*The fill engine.* `FillShape` is proved in the flat form `Shape`. `BoundedOpening`
is inductive with it: a valve is opened only by `OpenRound`, which resets the
round's clock with the valve's, and `EndRound` comes before a tick can let the
clock pass. `BudgetEnforced` needs `Budgeted`: in the grouping phase nobody has
used any budget, so the first round is within it; later rounds open only what
`Measure` found below its cap. `IInv` is the conjunction. `BlindPullOnce` needs
`TailLedger`: a chamber that owes its tail has either not been latched and keeps its
`tailMs`, or what it has been open beyond its cap and what it has pulled run in step. The refinement maps the
state to its four masks and shows each action to be an outcome of `FillSpec`.

*The queue.* The refinement needs to know what is in the slots. `Stored`: each of
the waiting slots holds a whole command. `Writing` and `Reading`: a copy in
progress agrees, in the words already done, with the command or the slot, and its
slot is not the other task's. The arithmetic of the wrap is in two lemmas,
`AfterPublish` and `AfterReturn`: one index moved adds the last place or takes the
first away, and renumbers nothing else.

*The confirmer.* `AckMeansApplied` is not inductive: an acknowledgement that is
still on its way, and a frame still on its way, must be tied to what they will
cause. `AckInv` says that every frame and every positive acknowledgement on the
link with an active worker's number belongs to that worker and its limit, and
that numbers already used are below the confirmer's next one. The last needs one
confirmer per node, and the code does not keep to that while a robot is rebuilt
(above): the assumption is not idle.
`ConfirmedInForce` needs `ForceInv`:
frames carry the wish of their chamber, whatever minimum the node has lies below the
wanted maximum (`RoomBelow`), so that no maximum is clamped (`SetMaxExact`), and no
minimum is sent before the maximum was confirmed (`MaxFirst`), so that it is not
clamped either (`SetMinBelow`).

*The activity.* `UnitSound` says that what is armed comes from the phase in force,
although a callback of the read thread may hold a program of the phase before and
the GUI thread may be in the middle of entering the next. Its invariant `UnitInv`
ties the sections of the two threads to the state. `Own`: past the entry, the code
the body has yet to run comes from the program of the phase in force, so a `when`
arms only that phase's handlers; this is why the entry disarms and replaces the body
before it leaves `Entering`. `Sections`: where the GUI thread may be for each state of
the timer; a paused unit is in a section only if the operator put it there, which
with `RobotMoves` (only a running body or program, and `stop`, move the robot) is
`HaltedIsQuiet`. `Tallied`: what remains of the list and what was lost add up to what is
owed, at every section of either thread. `Kept`: the programs a pass has gone by are over or in the list it
will leave, whatever is appended behind it. `Counted` and `Armed` bound the counts
and the marks at which a wait for touch began. `ExpandTyped` is the lemma on programs: what a
compound step stands for is made of the steps its phase may come to.

*The session.* `ButtonInv` is `LabelHonest` with the shape of the panel's record and
the activity's possible starts. `OpenInv` has two parts. `Stored`: what the trash
holds was not open when it went there, so a restore opens nothing. `PanelKnows`: the
program is down or asking, and then at most one row is open and the panel has no
session, or the open row is the panel's. Each transaction has a lemma on what it does
to the rows. The theorem assumes `careful`: an operator who types in the id of a
session that lies in the trash, or trashes the one that runs, can break it.
`StoreInv` is about what is stored. The tables hold at most one child for a skin; a
bundle in the trash holds its own session only, which had ended (`BinSound`);
queue and tables name only sessions with a row (`Queued`, `Written`), which is why
trashing has to write the queue first; ids in use, or in the trash, lie below the
counter (`Counter`), so an id on offer is free and a bundle can come back; the
panel's copy of the map is that of the database; and files that still have to be moved
belong to a transaction that took place (`OwedKnown`). One lemma per transaction
says what it leaves of the tables, another that it loses nothing (`LosesNothing`).
`TouchInv` numbers the touches: one that waits has a number of its own, used and not
yet logged (`Numbers`), and each that is known is of nobody or of its skin's child
(`Sound`), in the queue, the tables and the bundles. The waiting touches of a skin
are taken by their rank in the list; `RankTyped` and `EveryRank`, that counting an
interval's subset misses no place, are the lemmas under all that handles them.

*The calibration.* `PointsHonest` looks at one step, the recording; what it needs
was arranged phases ago. `CalInv` follows it: while the window is open and nothing was lost
(`hit` never goes back, nor does a window reopen) the node is as the phase needs it
(`NodeReady`), and a chamber being emptied is where it was last read (`Emptied`), so
that a plateau at zero is one. `NodeReady` also holds what a phase does not look at: the
vent of the chamber is shut before its hold begins, since a vent left open would be
dropped by its own dead-man together with the hold. Commands of one step reach the node
as a fold over their list; `CommandsRun` turns it into the sequence of nodes in between, and
`HaltEnds` shows that Stop leaves none of the rows driven. `NothingSkipped` is
inductive with the job's queue in it.

*The touches.* `SourceInv` is `Followed`: a peak is at least the threshold, as long as
the press lasts, and no less than the last magnitude. What it needs of the
compensation is that magnitudes are natural numbers, and those are sums over all
corners of products over all chambers: `UnitPositive`, `WeightProduct`, `CornerTyped` and
`ExpectedTyped` are about these folds, by `FoldKeeps`, the same least-counterexample
argument as for the boards. `ExactCompensation` goes further where the sweep has
measured: there all weight is on one corner (`WeightUnit`), so that the sum is what
was measured (`MeasuredExact`), and what is left of a frame is the finger.

*The keeper.* `NoLateKeepalive` is an action property; its invariant ties the
keeper to the wire: `ToldAlive` says that a hold the keeper has was last heard of
as alive. `KeeperInv` is that with `KeptAlive` and `BenchExclusive`, and all that
the other forty sections have to show is that they leave four variables alone.

`HoldSound` needs the wire and the scripts: a hold of
the application on the node, or on its way there, is one the keeper still has, or
one that a later frame, or a stop the GUI thread is about to send, will end
(`Bound`, in `ClaimInv`).

*The boards.* A handler is a composition of operators on one record, so the
proofs have one lemma for each operator: what it keeps (`Keeps`, `Calms`), then
one step per command and one per step of the pass. `Sound` says that no valve is
claimed twice: rounds of one side, holds, and the operator's flags exclude each
other chamber by chamber (`Apart`, `HoldsApart`, `OneValve`), and a bench test has
the board for itself. `Owned` adds that an open valve has an owner or is forgotten, `Off` is what the
latch leaves, `Yielding` what the hold engine does for others. `RecordsAgree` is only
claimed when the pass is over, as in between records lag behind each other: a valve the hold
engine closes keeps its bit of the hold mask, and its pump the duty, until the engine
mirrors its state. `Runs` is what survives in between: holds are in the mask
(`Masked`), open rounds are seen and watched, and a pump runs for a reason
(`Pumping`); `RunInv` adds that the mask is exact (`Mirrored`) where the pass rests. Functions of the code
that loop over chambers are `ForEach`, a fold over a set. `ForEachKeeps` is the
induction they need: what each step of a loop keeps, the loop keeps.
An induction theorem cannot be cited with a predicate, so it is proved from a least
counterexample among the subsets (`WFMin` over the strict inclusion of finite sets).
The multiplexed board has one invariant, `MuxFits`, which holds after every command.

*The updates.* Over ESP-NOW the acknowledgements the PC has, and those on their
way, are of chunks the node has written, as long as there was one run and no new
`ota_begin` is on its way (`FirstRun`); what the node runs, and what it said, is
followed from the request to the boot (`CleanRun`: `NotBegun`, `UnderWay`, `Over`).
Over Wi-Fi `Stream` is the place in the protocol, of eight: settled, opened, begun,
refused, filling, closing, stored, cancelled. Each says what lies on the cable, in
both directions, and what the gateway holds. While the image is being sent, lines
held and lines on the cable are what was sent (`Datas`), so that a window smaller than the
buffer loses none, and the newest acknowledgement on its way is of the last multiple
of `AckEvery` (`Newest`), so that a blocked window hears one more. `Boards` is about
the nodes: one whose run is to come was told nothing and is as it was (`Untouched`),
the one of the run loads its own image only and says "done" once it runs it
(`Given`), because while the updater waits for a node the store serves that
node's image (`ServesOwn`). The program's update has one invariant, `AppInv`:
what each step of a script may find on the disk (`Staged`); the backup is `"nest"` only
after a failure, and the swap that puts it in place is the second. A step of one is a
stutter of the others.

*The links.* `Links` steps one link at a time, so each has an invariant of its own
and is a stutter of the other. `GatewayInv`: of signals, tasks and readers one is
under way at most (`OneSignal`, `OneTask`, `OneReader`), and what is under way says
what the link and the panel are. `BeforeStart` is a task with the port to itself,
`Started` one whose result is told or about to be, `Failed` one that gave the port
back, `Losing` a reader that has lost it; with none of them left the panel shows the
link (`Shown`). `Runs` and `Joining` are about `disconnect`: the flag falls only
while the newest reader is waited for, and a disconnect may overtake the startup task
before that has a reader. `Kept` are the listeners. `RadioInv` follows the words
from the PC to the C6: the UART holds commands of test windows, or of a search, or
one request to join, never a mixture (`Wires`), because one window speaks at a time
(`OneWindow`, `TestWires`). What a worker has sent by its step is on the C6 or on its
way (`Connecting`); an address is set on a link that is up (`SetsFollow`) and slot 0
is taken with the link (`SlotZero`), hence controls that can be clicked reach the
robot. All of this ends, for a window, when the gateway goes under it (`cut`), which is why it
can go at any step. A connected robot has a window that will close it (`Owned`). A
request is on the wire, parked over a boot, or tried (`Requests`), and a boot starts
clean (`CleanBoot`). What does not depend on the operator's patience has an invariant of
its own, `HurriedInv`: windows overlap and words of several kinds share the wire, so
requests to join are counted (`AskedFor`) rather than followed. `SentTalk` and `HandledTalk` are what appending and taking a word
leaves true of the wire, the lemmas every step of either side rests on.

*The rounds.* `RoundInv`: the press the read thread is at was made now, as time stands
still until it is filed, and a tick that has begun has not claimed to have judged
anything. So a round opened while the tick runs is younger than the window, or, if
the timer was between closing one and taking its outcomes, gone with that one.

Model-checked only: of the rounds `VerdictsAgree`, `StreakEarned` and `RoundsLogged`,
whose judges fold over the sorted log; of the magnets `SteadyIsQuiet` and
`PressStandsOut` between measured levels, where they depend on how the field bends and so
are true of a field, not of all; and all liveness (`AlwaysQuiesces`, `Drains`,
`HoldsEnd`, `EveryUpdateEnds`, `KeepsGoing`, `EventsWritten`, `PanelComesRight`,
`WheelsObey`, `CalibrationEnds`): liveness under fairness and `ENABLED` are outside
what the prover handles, as is what a recursive definition computes. No
module uses `RECURSIVE`.

## Not modelled

* The hold engine's servo, blind pulses and two-side arbitration; only its masks.
* `configure`, `tare`, `status_rate`, telemetry, LEDs: they move no valve. A
  `configure` that changes the number of chambers of a multiplexed board.
* The confirmer's sequence number wraps at 0xFFFF; the model's does not.
* Link duplication: ESP-NOW and the serial line do not duplicate;
  retransmissions by the programs are modelled. `HoldLink` loses nothing while the
  node is on, so the lost resume and the lost first hold frame of the hazard list
  have no property.
* Acknowledgements of an earlier OTA run that reach a later one. `TransferSound`
  and `BootedAsReported` speak of the first run over ESP-NOW.
* Filters of the magnets, calibration curves and the node clock's
  minimum filter, machine learning: floating-point computations of their inputs,
  without a protocol. The coupling sweep that measures `Field`; the tare; the score
  of a group, a sum over the outcomes; rhythms of one sensor.
* Queries, exports, settings, migrations; layout, the catalogue of activities and
  the simulated controllers, which are data; the query for a release and the
  comparison of versions.
* Of the Thymios: the USB dongle and the address read over the cable, the sniffer
  and raw transmissions, LEDs, and the detection of knocks and lifts.

More than half of the implementation's lines are in those parts: dialogs that
lay out widgets, numerical code, and tables of activities. What is modelled is
the part in which the order of events decides.

## Plan

1. A proof that the two judges of a round agree, by an induction over the log, and of
   the rest of `MeasuredSound` from a bound on how a field bends between measured levels.
2. `HoldServo`: the tick of `hold_duty.h` with sides, slots and dead-man times,
   and the timed keeper against two lost keepalives and a lost first frame.
3. `SkinFill`: the chamber state of the PC against the node's, open-loop fills,
   the shared fill load; the node clock over reboots.
4. `CouplingSweep`: the sweep of the touch calibration as an actor on the node, so
   that `Field` is measured rather than assumed.
