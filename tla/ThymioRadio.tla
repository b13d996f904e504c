----------------------------- MODULE ThymioRadio -----------------------------
(***************************************************************************)
(* Thymios driven without a dongle.  The gateway's second chip, the C6     *)
(* (firmware/thymio_rcp), plays the dongle: it keeps a slot for each robot *)
(* and sends that slot's wheel targets to the robot ten times a second     *)
(* over 802.15.4, a radio that loses frames.  On the PC each robot has a   *)
(* ThymioGatewayLink, which the Test Thymio window opens on a worker       *)
(* thread and closes again; the Discover window has the C6 reboot and look *)
(* for robots; the update window has it join a Wi-Fi network, which it     *)
(* cannot do in a boot that used 802.15.4.                                 *)
(*                                                                         *)
(* A robot is known by its slot.  Speeds stand for pairs of wheel targets. *)
(***************************************************************************)
EXTENDS Integers, Sequences, FiniteSets, FiniteSetsExt

CONSTANTS Slots,    \* slots configured, 0 among them
          Named,    \* robots with an address of their own; 0 may go by the default
          Speeds,   \* wheel targets, 0 is still
          Plans,    \* how often each event may happen in a run (see chances)
          Prompt    \* the operator may act while a worker or the C6 is busy

Parameters == /\ 0 \in Slots /\ Named \subseteq Slots /\ Slots \ {0} \subseteq Named
              /\ 0 \in Speeds /\ Prompt \in BOOLEAN

VARIABLES
  gateway,  \* Gateway.is_connected
  robot,    \* slot -> ThymioRobot: [status, active (the link's), said]
  tests,    \* Test Thymio windows opened so far: their connect task; cut, whether
            \* the gateway went after they were opened
  search,     \* Discover window and its worker: [open, stop, pc]
  uart,     \* commands on their way to the C6
  c6,       \* [up, link, disc, used, join, alive, tier, deaf]
  slot,     \* s_th: [active, own, want, loaded]
  park,     \* s_otaPark holds a request; survives a reboot
  thymio,   \* the robots: [on, wheels, emits]
  joins,    \* [asked, tried]: updates asked for, Wi-Fi joins tried
  chances      \* how often each event may still happen

pcside == <<gateway, robot, tests, search>>
radio == <<c6, slot, park, joins>>
vars == <<pcside, uart, radio, thymio, chances>>

Booting == [up |-> FALSE, link |-> FALSE, disc |-> FALSE, used |-> FALSE,
            join |-> FALSE, alive |-> FALSE, tier |-> 0, deaf |-> FALSE]
NoSlots == [i \in Slots |-> [active |-> FALSE, own |-> FALSE, want |-> 0, loaded |-> FALSE]]
Command(c, i, v) == [cmd |-> c, idx |-> i, speed |-> v]
Plain(c) == Command(c, 0, 0)
Spend(event) == chances[event] > 0 /\ chances' = [chances EXCEPT ![event] = @ - 1]

Init ==
  /\ chances \in Plans
  /\ gateway \in BOOLEAN
  /\ robot = [i \in Slots |-> [status |-> "off", active |-> FALSE, said |-> 0]]
  /\ tests = <<>> /\ uart = <<>>
  /\ search = [open |-> FALSE, stop |-> FALSE, pc |-> "idle"]
  /\ c6 = [Booting EXCEPT !.up = TRUE] /\ slot = NoSlots /\ park = FALSE
  /\ thymio \in [Slots -> [on : BOOLEAN, wheels : {0}, emits : {FALSE}]]
  /\ \A i \in Slots : ~thymio[i].on => chances.power > 0
  /\ joins = [asked |-> 0, tried |-> 0]

-----------------------------------------------------------------------------
(* On the air.  A slot speaks to its robot once it has its address, or by the *)
(* default if that is the robot's.                                            *)

Reaches(i) == slot[i].own \/ i \notin Named
Active == {i \in Slots : slot[i].active}
Answers(i) == Reaches(i) /\ thymio[i].on
Driven(i) == c6.link /\ slot[i].active /\ Answers(i)
Audible == c6.link /\ ~c6.deaf /\ \E i \in Slots : thymio[i].on /\ thymio[i].emits

\* One frame of wheel targets to each slot of S, but for those lost on the way.
Targets(S, lost, v) ==
  thymio' = [i \in Slots |-> IF i \in S \ lost /\ Answers(i)
                             THEN [thymio[i] EXCEPT !.wheels = v] ELSE thymio[i]]
Reset == c6' = Booting /\ slot' = NoSlots
Lose(n) == chances.loss >= n /\ chances' = [chances EXCEPT !.loss = @ - n]

-----------------------------------------------------------------------------
(* The operator.  The windows are modal, so one is open at a time, and nothing  *)
(* else is clicked under it; a person who waits for what was started last finds *)
(* the C6 up, its UART empty and the wheels where they were told to be.         *)

Windowless == ~search.open /\ \A d \in DOMAIN tests : ~tests[d].open
Busy == \/ uart # <<>> \/ ~c6.up \/ c6.join \/ search.pc # "idle"
        \/ \E d \in DOMAIN tests : tests[d].task # "none"
        \/ \E i \in Slots : Driven(i) /\ thymio[i].wheels # slot[i].want
Unhurried == Windowless /\ (Prompt \/ ~Busy)

Connected(i) == robot[i].active /\ gateway
Sent(cmds) == uart' = uart \o cmds
SentIf(ok, cmds) == IF ok THEN Sent(cmds) ELSE UNCHANGED uart
Stopped(i) == <<Command("drive", i, 0)>>
Disconnected(r) == [r EXCEPT !.status = "off", !.active = FALSE]

\* TestThymioDialog: connects unless the robot is, with its controls off until then.
OpenTest(i) ==
  /\ Unhurried /\ Spend("open")
  /\ LET ready == robot[i].status = "connected" IN
     tests' = Append(tests, [slot |-> i, open |-> TRUE, ours |-> FALSE, enabled |-> ready,
                             task |-> IF ready THEN "none" ELSE "link", cut |-> FALSE])
  /\ UNCHANGED <<gateway, robot, search, uart, radio, thymio>>

Drive(d, v) ==
  /\ tests[d].open /\ tests[d].enabled /\ Spend("drive")
  /\ LET i == tests[d].slot IN
     /\ SentIf(Connected(i), <<Command("drive", i, v)>>)
     /\ robot' = IF Connected(i) THEN [robot EXCEPT ![i].said = v] ELSE robot
  /\ UNCHANGED <<gateway, tests, search, radio, thymio>>

Beep(d) ==
  /\ tests[d].open /\ tests[d].enabled /\ Spend("beep")
  /\ SentIf(Connected(tests[d].slot), <<Command("sound", tests[d].slot, 0)>>)
  /\ UNCHANGED <<pcside, radio, thymio>>

\* _on_closed: stop the wheels, and close the link if this window opened it.
ClosingWords(d) == Stopped(tests[d].slot) \o (IF tests[d].ours THEN Stopped(tests[d].slot) ELSE <<>>)
CloseTest(d) ==
  /\ tests[d].open
  /\ LET i == tests[d].slot IN
     /\ SentIf(Connected(i), ClosingWords(d))
     /\ robot' = [robot EXCEPT ![i] =
          LET still == IF Connected(i) THEN [@ EXCEPT !.said = 0] ELSE @ IN
          IF tests[d].ours THEN Disconnected(still) ELSE still]
  /\ tests' = [tests EXCEPT ![d].open = FALSE, ![d].ours = FALSE, ![d].enabled = FALSE]
  /\ UNCHANGED <<gateway, search, radio, thymio, chances>>

OpenScan ==
  /\ Unhurried /\ gateway /\ Spend("scan")
  /\ search' = [open |-> TRUE, stop |-> FALSE, pc |-> "reboot"]
  /\ UNCHANGED <<gateway, robot, tests, uart, radio, thymio>>

CloseScan ==
  /\ search.open
  /\ search' = [search EXCEPT !.open = FALSE, !.stop = TRUE]
  /\ UNCHANGED <<gateway, robot, tests, uart, radio, thymio, chances>>

\* The update window starts a C6WifiOTAUpdater, which asks once staging is done.
AskUpdate ==
  /\ Unhurried /\ gateway /\ Spend("update")
  /\ Sent(<<Plain("ota")>>)
  /\ joins' = [joins EXCEPT !.asked = @ + 1]
  /\ UNCHANGED <<pcside, c6, slot, park, thymio>>

\* The port is opened again with a click in the main window, and goes at any time,
\* under a window or a worker too.  With the cable goes the power of both chips, and
\* what the C6 knew; the robots go on as they are, and nobody tells the window.
GatewayBack ==
  /\ ~gateway /\ Unhurried /\ Spend("gateway")
  /\ gateway' = TRUE
  /\ UNCHANGED <<robot, tests, search, uart, radio, thymio>>

NoPower == Reset /\ uart' = <<>> /\ park' = FALSE
LoseGateway ==
  /\ gateway /\ Spend("gateway")
  /\ gateway' = FALSE
  /\ tests' = [d \in DOMAIN tests |-> [tests[d] EXCEPT !.cut = TRUE]]
  /\ NoPower \/ UNCHANGED <<uart, c6, slot, park>>
  /\ UNCHANGED <<robot, search, joins, thymio>>

-----------------------------------------------------------------------------
(* The workers, and what their results do on the GUI thread. *)

Task(d, step) == tests' = [tests EXCEPT ![d].task = step]
Fails(d, r) == robot' = [robot EXCEPT ![tests[d].slot] = r] /\ Task(d, "failed")

\* ThymioRobot.connect and ThymioGatewayLink.connect, up to its second command.
ConnectLink(d) ==
  /\ tests[d].task = "link"
  /\ SentIf(gateway, <<Plain("link")>>)
  /\ LET r == robot[tests[d].slot] IN
     IF gateway THEN /\ Task(d, "set")
                     /\ robot' = [robot EXCEPT ![tests[d].slot].status = "connecting"]
     ELSE Fails(d, [r EXCEPT !.status = "error"])
  /\ UNCHANGED <<gateway, search, radio, thymio, chances>>

\* ... the address, where there is one, and the end.
ConnectSet(d) ==
  LET i == tests[d].slot
      ok == gateway \/ i \notin Named IN
  /\ tests[d].task = "set"
  /\ SentIf(gateway /\ i \in Named, <<Command("set", i, 0)>>)
  /\ IF ok THEN /\ Task(d, "ok")
                /\ robot' = [robot EXCEPT ![i].status = "connected", ![i].active = TRUE]
     ELSE Fails(d, [robot[i] EXCEPT !.status = "error", !.active = FALSE])
  /\ UNCHANGED <<gateway, search, radio, thymio, chances>>

\* _on_connected.  A window closed meanwhile closes the link it opened.
LateConnect(i) == /\ SentIf(Connected(i), Stopped(i))
                  /\ robot' = [robot EXCEPT ![i] = Disconnected(@)]
ConnectDone(d) ==
  /\ tests[d].task \in {"ok", "failed"}
  /\ IF tests[d].task = "ok" /\ ~tests[d].open THEN LateConnect(tests[d].slot)
     ELSE UNCHANGED <<robot, uart>>
  /\ tests' = [tests EXCEPT ![d].task = "none",
       ![d].ours = tests[d].open /\ tests[d].task = "ok",
       ![d].enabled = tests[d].open /\ tests[d].task = "ok"]
  /\ UNCHANGED <<gateway, search, radio, thymio, chances>>

\* discover_thymios: reboot unless told to stop, wait for the banner, look for
\* robots until the time is up or the window closed, and stop looking.
ScanStep ==
  /\ \/ /\ search.pc = "reboot" /\ search' = [search EXCEPT !.pc = IF search.stop THEN "on" ELSE "banner"]
        /\ SentIf(gateway /\ ~search.stop, <<Plain("reboot")>>)
     \/ /\ search.pc = "banner" /\ c6.up /\ uart = <<>>
        /\ search' = [search EXCEPT !.pc = "on"] /\ UNCHANGED uart
     \/ /\ search.pc = "on" /\ search' = [search EXCEPT !.pc = "off"]
        /\ SentIf(gateway, <<Plain("look")>>)
     \/ /\ search.pc = "off" /\ search' = [search EXCEPT !.pc = "idle"]
        /\ SentIf(gateway, <<Plain("enough")>>)
  /\ UNCHANGED <<gateway, robot, tests, radio, thymio, chances>>

-----------------------------------------------------------------------------
(* The C6, one command at a time (handleLine). *)

Handle(c) == c6.up /\ ~c6.join /\ uart # <<>> /\ Head(uart).cmd = c /\ uart' = Tail(uart)

\* thymio_link on: with no slot taken, slot 0 takes the default address.
LinkOn ==
  /\ Handle("link")
  /\ c6' = [c6 EXCEPT !.link = TRUE, !.used = TRUE, !.deaf = FALSE]
  /\ slot' = [i \in Slots |->
       [slot[i] EXCEPT !.active = @ \/ (i = 0 /\ Active = {}),
                       !.own = @ /\ ~(i = 0 /\ Active = {}), !.loaded = FALSE]]
  /\ UNCHANGED <<pcside, park, joins, thymio, chances>>

SetSlot ==
  /\ Handle("set")
  /\ slot' = [slot EXCEPT ![Head(uart).idx] =
                [active |-> TRUE, own |-> TRUE, want |-> 0, loaded |-> FALSE]]
  /\ UNCHANGED <<pcside, c6, park, joins, thymio, chances>>

\* thymio_drive, and thymioAssertMotors at once if the radio is the link's.
SetDrive ==
  LET i == Head(uart).idx
      v == Head(uart).speed IN
  /\ Handle("drive")
  /\ slot' = [slot EXCEPT ![i].want = v]
  /\ LET S == IF c6.link /\ slot[i].active THEN {i} ELSE {} IN
     \E lost \in SUBSET S : Lose(Cardinality(lost)) /\ Targets(S, lost, v)
  /\ UNCHANGED <<pcside, c6, park, joins>>

\* A sound is a program of its own: the robot's variables may be reset with it.
PlaySound ==
  LET i == Head(uart).idx IN
  /\ Handle("sound")
  /\ slot' = [slot EXCEPT ![i].loaded = FALSE]
  /\ \/ /\ Driven(i)
        /\ \E w \in {0, thymio[i].wheels} :
             thymio' = [thymio EXCEPT ![i] = [@ EXCEPT !.wheels = w, !.emits = FALSE]]
        /\ UNCHANGED chances
     \/ /\ IF Driven(i) THEN Lose(1) ELSE UNCHANGED chances
        /\ UNCHANGED thymio
  /\ UNCHANGED <<pcside, c6, park, joins>>

\* thymioStopForSniff: the slots forget their targets, one frame stops each robot.
StopWheels ==
  LET S == IF c6.link THEN Active ELSE {} IN
  \E lost \in SUBSET S : Lose(Cardinality(lost)) /\ Targets(S, lost, 0)
Still(s) == [i \in Slots |-> IF c6.link /\ s[i].active THEN [s[i] EXCEPT !.want = 0] ELSE s[i]]

Look ==
  /\ Handle("look") /\ StopWheels /\ slot' = Still(slot)
  /\ c6' = [c6 EXCEPT !.link = FALSE, !.disc = TRUE, !.used = TRUE, !.deaf = FALSE]
  /\ UNCHANGED <<pcside, park, joins>>

Enough ==
  /\ Handle("enough") /\ c6' = [c6 EXCEPT !.disc = FALSE]
  /\ UNCHANGED <<pcside, slot, park, joins, thymio, chances>>

Reboot == /\ Handle("reboot") /\ Reset
          /\ UNCHANGED <<pcside, park, joins, thymio, chances>>

\* ota_wifi: everything stops; a boot whose radio has been up parks the request
\* and reboots, any other joins (doWifiOta).
MustPark == c6.used
Update ==
  /\ Handle("ota") /\ StopWheels
  /\ IF MustPark THEN Reset /\ park' = TRUE /\ UNCHANGED joins
     ELSE /\ c6' = [c6 EXCEPT !.link = FALSE, !.join = TRUE] /\ slot' = Still(slot)
          /\ joins' = [joins EXCEPT !.tried = @ + 1] /\ UNCHANGED park
  /\ UNCHANGED pcside

\* The download ends in the new image or in an error.
Joined ==
  /\ c6.join
  /\ \/ Reset
     \/ c6' = [c6 EXCEPT !.join = FALSE] /\ UNCHANGED slot
  /\ UNCHANGED <<pcside, uart, park, joins, thymio, chances>>

\* setup(): a parked request is cleared, then resumed on the clean boot.
Unparked == FALSE
Boot ==
  /\ ~c6.up
  /\ c6' = [c6 EXCEPT !.up = TRUE, !.join = park]
  /\ park' = Unparked
  /\ joins' = [joins EXCEPT !.tried = @ + (IF park THEN 1 ELSE 0)]
  /\ UNCHANGED <<pcside, uart, slot, thymio, chances>>

\* A chip that is booting does not listen.
Unheard == /\ ~c6.up /\ uart # <<>> /\ uart' = Tail(uart)
           /\ UNCHANGED <<pcside, radio, thymio, chances>>

-----------------------------------------------------------------------------
(* thymioLinkPump and thymioRxPump. *)

\* Tier 1 of the watchdog tunes the receiver anew, tier 2 loads the programs anew.
Reloads(alarm) == alarm /\ c6.tier = 1
NeedsProgram(i, alarm) == ~slot[i].loaded \/ Reloads(alarm)

\* Targets go out with every poll (TH_KEEPALIVE_EVERY), not only with a program.
AssertsWithProgram(i, alarm) == NeedsProgram(i, alarm)
Asserts(i, alarm) == TRUE

\* What the three kinds of frames of a poll do to a robot: SET_BYTECODE resets
\* it, RUN and the timer period start its reports, SET_VARIABLES moves it.
Polled(i, alarm, lost) ==
  LET gets(kind) == <<i, kind>> \notin lost
      reset == NeedsProgram(i, alarm) /\ gets("code")
  IN [thymio[i] EXCEPT
        !.wheels = IF gets("set") /\ Asserts(i, alarm) THEN slot[i].want
                   ELSE IF reset THEN 0 ELSE @,
        !.emits = IF reset THEN gets("run") ELSE @]
Poll(alarm) ==
  /\ c6.up /\ ~c6.join /\ c6.link
  /\ alarm => c6.alive /\ ~Audible
  /\ c6' = IF ~alarm THEN c6
           ELSE [c6 EXCEPT !.tier = 1 - @, !.deaf = @ /\ c6.tier = 1]
  /\ slot' = [i \in Slots |-> IF i \in Active THEN [slot[i] EXCEPT !.loaded = TRUE] ELSE slot[i]]
  /\ \E n \in 0..chances.loss : \E lost \in kSubset(n, Active \X {"code", "run", "set"}) :
       /\ Lose(n)
       /\ thymio' = [i \in Slots |-> IF i \in Active /\ Answers(i)
                                     THEN Polled(i, alarm, lost) ELSE thymio[i]]
  /\ UNCHANGED <<pcside, uart, park, joins>>

Hear ==
  /\ c6.up /\ ~c6.join /\ Audible
  /\ c6' = [c6 EXCEPT !.alive = TRUE, !.tier = 0]
  /\ UNCHANGED <<pcside, uart, slot, park, joins, thymio, chances>>

-----------------------------------------------------------------------------
(* Outside: robots are switched and fall silent, the receiver dies, a crash in *)
(* the middle of a download.                                                   *)

Switch(i) ==
  /\ Spend("power")
  /\ thymio' = [thymio EXCEPT ![i] = [on |-> ~@.on, wheels |-> 0, emits |-> FALSE]]
  /\ UNCHANGED <<pcside, uart, radio>>

FallSilent(i) ==
  /\ thymio[i].emits /\ Spend("fault")
  /\ thymio' = [thymio EXCEPT ![i].emits = FALSE]
  /\ UNCHANGED <<pcside, uart, radio>>

Deafen == /\ c6.link /\ Spend("fault") /\ c6' = [c6 EXCEPT !.deaf = TRUE]
          /\ UNCHANGED <<pcside, uart, slot, park, joins, thymio>>

CrashInUpdate == /\ c6.join /\ Spend("fault") /\ Reset
                 /\ UNCHANGED <<pcside, uart, park, joins, thymio>>

-----------------------------------------------------------------------------
User ==
  \/ \E i \in Slots : OpenTest(i)
  \/ \E d \in DOMAIN tests : CloseTest(d) \/ Beep(d) \/ \E v \in Speeds : Drive(d, v)
  \/ OpenScan \/ CloseScan \/ AskUpdate \/ GatewayBack \/ LoseGateway
Connect(d) == ConnectLink(d) \/ ConnectSet(d) \/ ConnectDone(d)
C6 == LinkOn \/ SetSlot \/ SetDrive \/ PlaySound \/ Look \/ Enough \/ Reboot \/ Update
      \/ Joined \/ Boot \/ Unheard
Outside == CrashInUpdate \/ Deafen \/ \E i \in Slots : Switch(i) \/ FallSilent(i)

Next ==
  \/ User \/ C6 \/ Hear \/ Outside \/ ScanStep
  \/ \E alarm \in BOOLEAN : Poll(alarm)
  \/ \E d \in DOMAIN tests : Connect(d)

\* The C6's loop turns, workers and the event loop run, and a robot that reports is
\* heard in the end: each of these comes to rest by itself.  The watchdog need not.
\* Nobody has to click.
Progress == C6 \/ Hear \/ Poll(FALSE) \/ ScanStep \/ \E d \in DOMAIN tests : Connect(d)
Fairness == WF_vars(Progress) /\ WF_vars(Poll(TRUE))

-----------------------------------------------------------------------------
TypeOK ==
  /\ gateway \in BOOLEAN /\ park \in BOOLEAN
  /\ robot \in [Slots -> [status : {"off", "connecting", "connected", "error"},
                          active : BOOLEAN, said : Speeds]]
  /\ \A d \in DOMAIN tests :
       tests[d] \in [slot : Slots, open : BOOLEAN, ours : BOOLEAN, enabled : BOOLEAN, cut : BOOLEAN,
                     task : {"none", "link", "set", "ok", "failed"}]
  /\ search \in [open : BOOLEAN, stop : BOOLEAN, pc : {"idle", "reboot", "banner", "on", "off"}]
  /\ c6 \in [up : BOOLEAN, link : BOOLEAN, disc : BOOLEAN, used : BOOLEAN, join : BOOLEAN,
             alive : BOOLEAN, tier : {0, 1}, deaf : BOOLEAN]
  /\ slot \in [Slots -> [active : BOOLEAN, own : BOOLEAN, want : Speeds, loaded : BOOLEAN]]
  /\ thymio \in [Slots -> [on : BOOLEAN, wheels : Speeds, emits : BOOLEAN]]

\* Wi-Fi is joined only in a boot that never used 802.15.4, and a request that
\* was parked is tried once, whatever crashes ("can't boot-loop into it").
JoinsClean == /\ c6.join => ~c6.used
              /\ joins.tried <= joins.asked

\* Controls that can be clicked reach the robot, until the gateway goes under their
\* window (which leaves them enabled and dead: nobody tells it): link and slot are up
\* on the C6, as the PC believes without a word from it (connect() has no handshake).
ControlsWork ==
  \A d \in DOMAIN tests : tests[d].open /\ tests[d].enabled /\ ~tests[d].cut /\ uart = <<>> =>
    LET i == tests[d].slot IN Connected(i) /\ c6.link /\ slot[i].active /\ Reaches(i)

\* No window closed early leaves a robot connected behind it ("a late connect
\* undoes itself").
NobodyLeft ==
  \A i \in Slots :
    (\A d \in DOMAIN tests : tests[d].slot = i => ~tests[d].open /\ tests[d].task = "none")
      => ~robot[i].active /\ robot[i].status # "connected"

RadioSound == TypeOK /\ JoinsClean /\ ControlsWork /\ NobodyLeft

\* "a dropped edge frame self-heals": once nothing more happens every robot in
\* reach moves as it was last told, through losses, beeps, program loads and power
\* cycles, and one whose window is closed stands still though the C6 may have let
\* go of it: a Thymio holds its last target for ever.  But where the gateway went
\* after the window was opened: then closing says nothing, or to a C6 that forgot.
Tested(i) == \E d \in DOMAIN tests : tests[d].slot = i /\ tests[d].open
CutOff(i) == \E d \in DOMAIN tests : tests[d].slot = i /\ tests[d].cut
Obeyed ==
  <>[](\A i \in Slots :
         (Driven(i) \/ ~Tested(i)) /\ ~CutOff(i) => thymio[i].wheels = robot[i].said)

\* Reports that have stopped altogether come back, whether it was the receiver or
\* the robots' programs that died (the watchdog's two tiers).
StreamRevives ==
  LET linked == \E i \in Slots : Driven(i) IN
  linked /\ c6.alive /\ ~Audible ~> Audible \/ ~linked
=============================================================================
