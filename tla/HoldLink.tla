------------------------------- MODULE HoldLink -------------------------------
(***************************************************************************)
(* The leak-compensating holds of one node, from the skin that asks for     *)
(* them to the node that runs them: HoldKeeper with its keepalive thread,   *)
(* the skin's automatic holds, the gateway's read thread, the GUI thread    *)
(* that actuates, stops, re-arms and claims the node for the bench, the     *)
(* link, and the node's own holds, fills under way and stop latch.          *)
(*                                                                         *)
(* An action is one section of a thread: what it does under HoldKeeper's    *)
(* lock, or between two such calls.  The sections a thread has still to run *)
(* are its script.  Time is abstract: the six seconds of the dead-man and   *)
(* of the silence rule are the guards of DeadMan and FallSilent.            *)
(***************************************************************************)
EXTENDS Integers, SequencesExt

CONSTANTS
  Chambers,
  Mixes,        \* bounds: what the GUI thread may do, how often, and how often
                \* the node may lose its power
  MaxFrames     \* bound: statuses in flight, and frames in flight as the GUI
                \* begins an operation

GuiOps == {"actuate", "deflate", "stop", "rearm", "shutdown", "claim", "bench", "close", "leave"}
ASSUME HoldLinkAssumption ==
  /\ IsFiniteSet(Chambers)
  /\ Mixes \subseteq [may : SUBSET GuiOps, ops : Nat, cycles : Nat]
  /\ MaxFrames \in Nat \ {0}

VARIABLES
  holds,      \* HoldKeeper._holds: chamber -> who started its hold
  bench,      \* HoldKeeper._bench
  loop,       \* HoldKeeper._thread: none, asleep, or about to take the lock
  silent,     \* what the keepalive thread read of the node's silence
  leaving,    \* chambers that thread, on its way out, has yet to notify
  autoHeld,   \* Skin._auto_held
  moving,     \* chambers the PC believes to be inflating or deflating
  pose,       \* chambers whose target is off ambient and whose gauge agrees
  script,     \* thread -> sections it has still to run
  left,       \* what the GUI thread may still do, and cuts of the node's power
  toNode, toPc, quiet,      \* the link, and whether six seconds brought nothing
  up,                       \* the node's power
  held, latched, running,   \* the node: holds, stop latch, fills under way
  told                      \* history: what became of each hold on the wire

keeperVars == <<holds, bench, loop, silent, leaving>>
skinVars   == <<autoHeld, moving, pose>>
nodeVars   == <<up, held, latched, running>>
vars == <<keeperVars, skinVars, script, left, toNode, toPc, quiet, nodeVars, told>>

Threads == {"gui", "reader"}
All == "all"                                    \* chamber -1 on the wire
Nothing == [c \in Chambers |-> "none"]
Held == {c \in Chambers : holds[c] # "none"}

Step(do, arg) == [do |-> do, arg |-> arg]
Frame(k, c, who) == [k |-> k, ch |-> c, who |-> who]
Sections(do, q) == [i \in DOMAIN q |-> Step(do, q[i])]

Owners == [Chambers -> {"none", "app", "bench"}]
TypeOK ==
  /\ holds \in Owners /\ held \in Owners
  /\ {bench, silent, quiet, up, latched} \subseteq BOOLEAN
  /\ loop \in {"none", "asleep", "ticking"}
  /\ {leaving, autoHeld, moving, pose, running} \subseteq SUBSET Chambers
  /\ DOMAIN script = Threads
  /\ \E m \in Mixes : /\ left.may = m.may /\ left.ops \in 0..m.ops
                      /\ left.cycles \in 0..m.cycles /\ Len(toPc) <= MaxFrames + m.cycles
  /\ told \in [Chambers -> {"none", "start", "ka", "off"}]

Init ==
  /\ holds = Nothing /\ bench = FALSE
  /\ loop = "none" /\ silent = FALSE /\ leaving = {}
  /\ autoHeld = {} /\ moving = {} /\ pose = {}
  /\ script = [t \in Threads |-> <<>>] /\ left \in Mixes
  /\ toNode = <<>> /\ toPc = <<>> /\ quiet = FALSE
  /\ up = TRUE /\ held = Nothing /\ latched = FALSE /\ running = {}
  /\ told = Nothing

-----------------------------------------------------------------------------
(* Scripts and the link *)

At(t, do) == script[t] # <<>> /\ Head(script[t]).do = do
Arg(t) == Head(script[t]).arg
Then(t, more) == script' = [script EXCEPT ![t] = more \o Tail(@)]

Refreshing == \E i \in DOMAIN toNode : toNode[i].k = "ka"
Transmit(frames) == toNode' = toNode \o frames
Ended(S) == told' = [c \in Chambers |-> IF c \in S THEN "off" ELSE told[c]]

-----------------------------------------------------------------------------
(* HoldKeeper, a section of whichever thread t calls it *)

NeverRefused(who) == FALSE
Refused(who) == bench /\ who # "bench"

\* _ensure_thread.
StaleRef == IF loop = "none" /\ told = Nothing THEN "asleep" ELSE loop
Ensured == IF loop = "none" THEN "asleep" ELSE loop

\* start, with _ensure_thread; the skin records an accepted automatic hold
\* only after start returned.
StartHold(t, who) ==
  /\ At(t, who)
  /\ IF Refused(who)
       THEN Then(t, <<>>) /\ UNCHANGED <<keeperVars, toNode, told>>
       ELSE /\ holds' = [holds EXCEPT ![Arg(t)] = who]
            /\ loop' = Ensured
            /\ Transmit(<<Frame("start", Arg(t), who)>>)
            /\ told' = [told EXCEPT ![Arg(t)] = "start"]
            /\ Then(t, IF who = "app" THEN <<Step("record", Arg(t))>> ELSE <<>>)
            /\ UNCHANGED <<bench, silent, leaving>>
  /\ UNCHANGED <<skinVars, left, toPc, quiet, nodeVars>>

KeptEntry(S) == holds
Popped(S) == [c \in Chambers |-> IF c \in S THEN "none" ELSE holds[c]]

\* stop, of one chamber or of all of them.
StopHold(t) ==
  /\ At(t, "stop hold")
  /\ LET S == IF Arg(t) = All THEN Chambers ELSE {Arg(t)}
     IN  /\ holds' = Popped(S)
         /\ IF Held \cap S = {} THEN UNCHANGED <<toNode, told>>
            ELSE Transmit(<<Frame("off", Arg(t), "none")>>) /\ Ended(S)
  /\ Then(t, <<>>)
  /\ UNCHANGED <<bench, loop, silent, leaving, skinVars, left, toPc, quiet, nodeVars>>

\* drop_all: the locked half; the listeners hear of it afterwards.
DropAll(t) ==
  /\ At(t, "drop")
  /\ holds' = Nothing /\ Ended(Held)
  /\ Then(t, <<Step("notify", Held)>>)
  /\ UNCHANGED <<bench, loop, silent, leaving, skinVars, left, toNode, toPc, quiet, nodeVars>>

\* claim_bench likewise, which tells the node as well.
AppKept == holds
AppDropped == Nothing
ClaimBench(t) ==
  /\ At(t, "claim")
  /\ bench' = TRUE /\ holds' = AppDropped
  /\ IF Held = {} THEN UNCHANGED <<toNode, told>>
     ELSE Transmit(<<Frame("off", All, "none")>>) /\ Ended(Held)
  /\ Then(t, <<Step("notify", Held)>>)
  /\ UNCHANGED <<loop, silent, leaving, skinVars, left, toPc, quiet, nodeVars>>

\* release_bench's second half, after its stop.
UnclaimBench(t) ==
  /\ At(t, "unclaim") /\ bench' = FALSE /\ Then(t, <<>>)
  /\ UNCHANGED <<holds, loop, silent, leaving, skinVars, left, toNode, toPc, quiet,
                 nodeVars, told>>

(* The keepalive thread: _loop and tick.  It sleeps two seconds between     *)
(* rounds: the last round's frames, and the notifications of a thread that  *)
(* exited before it, are through by then.                                  *)

Wake ==
  /\ loop = "asleep" /\ loop' = "ticking" /\ silent' = quiet
  /\ UNCHANGED <<holds, bench, leaving, skinVars, script, left, toNode, toPc, quiet,
                 nodeVars, told>>

Refresh(q) == [i \in DOMAIN q |-> Frame("ka", q[i], holds[q[i]])]
AlwaysKeep == Held # {}
Keep == Held # {} /\ ~silent
Tick ==
  /\ loop = "ticking" /\ ~Refreshing /\ leaving = {}
  /\ IF Keep
       THEN /\ Transmit(Refresh(SetToSeq(Held)))
            /\ told' = [c \in Chambers |-> IF c \in Held THEN "ka" ELSE told[c]]
            /\ loop' = "asleep" /\ UNCHANGED <<holds, leaving>>
       ELSE /\ leaving' = Held /\ holds' = Nothing /\ Ended(Held)
            /\ loop' = "none" /\ UNCHANGED toNode
  /\ UNCHANGED <<bench, silent, skinVars, script, left, toPc, quiet, nodeVars>>

\* The exiting thread notifies the listeners (Skin._on_holds_dropped).
Leave ==
  /\ leaving # {} /\ leaving' = {} /\ autoHeld' = autoHeld \ leaving
  /\ UNCHANGED <<holds, bench, loop, silent, moving, pose, script, left, toNode, toPc,
                 quiet, nodeVars, told>>

-----------------------------------------------------------------------------
(* The skin, a section of whichever thread t calls it *)

Notify(t) ==
  /\ At(t, "notify") /\ autoHeld' = autoHeld \ Arg(t) /\ Then(t, <<>>)
  /\ UNCHANGED <<keeperVars, moving, pose, left, toNode, toPc, quiet, nodeVars, told>>

\* _release_auto_hold, and release_hold up to its stop_hold.
ReleaseAuto(t) ==
  /\ At(t, "release auto") /\ autoHeld' = autoHeld \ {Arg(t)}
  /\ Then(t, IF Arg(t) \in autoHeld THEN <<Step("stop hold", Arg(t))>> ELSE <<>>)
  /\ UNCHANGED <<keeperVars, moving, pose, left, toNode, toPc, quiet, nodeVars, told>>

\* release_hold of the whole skin.
ReleaseAll(t) ==
  /\ At(t, "release all") /\ autoHeld' = {}
  /\ Then(t, Sections("stop hold", SetToSeq(Chambers)))
  /\ UNCHANGED <<keeperVars, moving, pose, left, toNode, toPc, quiet, nodeVars, told>>

\* _apply sets the target and the state it expects of the chamber.
Aim(t) ==
  /\ At(t, "aim") /\ Then(t, <<>>)
  /\ moving' \in {moving \cup {Arg(t)}, moving \ {Arg(t)}}
  /\ pose' \in {pose \cup {Arg(t)}, pose \ {Arg(t)}}
  /\ UNCHANGED <<keeperVars, autoHeld, left, toNode, toPc, quiet, nodeVars, told>>

\* _settle_auto_hold up to start_hold.
Settles(c) == c \notin autoHeld /\ c \notin moving /\ c \in pose
Settle(t) ==
  /\ At(t, "settle")
  /\ Then(t, IF Settles(Arg(t)) THEN <<Step("app", Arg(t))>> ELSE <<>>)
  /\ UNCHANGED <<keeperVars, skinVars, left, toNode, toPc, quiet, nodeVars, told>>

Record(t) ==
  /\ At(t, "record") /\ autoHeld' = autoHeld \cup {Arg(t)} /\ Then(t, <<>>)
  /\ UNCHANGED <<keeperVars, moving, pose, left, toNode, toPc, quiet, nodeVars, told>>

\* Any other command of the node: move, stop, resume.
Command(t) ==
  /\ At(t, "send")
  /\ Transmit(<<Arg(t)>>) /\ Then(t, <<>>)
  /\ UNCHANGED <<keeperVars, skinVars, left, toPc, quiet, nodeVars, told>>

(* The read thread: ESP32Controller._handle_message and Skin._on_pressure *)

Receive ==
  /\ toPc # <<>> /\ script["reader"] = <<>>
  /\ toPc' = Tail(toPc) /\ quiet' = FALSE
  /\ script' = [script EXCEPT !["reader"] =
       IF Head(toPc).k = "boot" THEN <<Step("drop", All)>>
       ELSE Sections("runs", SetToSeq(Head(toPc).running))
         \o Sections("idle", SetToSeq(Chambers \ Head(toPc).running))]
  /\ UNCHANGED <<keeperVars, skinVars, left, toNode, nodeVars, told>>

\* _on_pressure; a chamber that just stopped moving settles.
Report(t) ==
  /\ At(t, "runs") \/ At(t, "idle")
  /\ moving' = IF At(t, "runs") THEN moving \cup {Arg(t)} ELSE moving \ {Arg(t)}
  /\ Then(t, IF At(t, "idle") /\ Arg(t) \in moving THEN <<Step("settle", Arg(t))>> ELSE <<>>)
  /\ UNCHANGED <<keeperVars, autoHeld, pose, left, toNode, toPc, quiet, nodeVars, told>>

-----------------------------------------------------------------------------
(* The GUI thread *)

Send(k, c) == Step("send", Frame(k, c, "none"))
HaltAndRearm == <<Step("drop", All), Send("stop", All), Send("stop", All),
                  Send("stop", All), Send("resume", All)>>
ReleaseBench == <<Step("stop hold", All), Step("unclaim", All)>>

Begin(o, steps) ==
  /\ o \in left.may /\ script["gui"] = <<>> /\ left.ops > 0 /\ Len(toNode) < MaxFrames
  /\ left' = [left EXCEPT !.ops = @ - 1]
  /\ script' = [script EXCEPT !["gui"] = steps]
  /\ UNCHANGED <<keeperVars, skinVars, toNode, toPc, quiet, nodeVars, told>>

\* Skin._apply: a deflate does not try to settle at once, the others do.
Actuate(c) == Begin("actuate", <<Step("release auto", c), Step("aim", c), Send("move", c),
                                 Step("settle", c)>>)
Deflate(c) == Begin("deflate", <<Step("release auto", c), Step("aim", c), Send("move", c)>>)

\* EspRobot.emergency_stop and rearm; ESP32Controller.shutdown.
EmergencyStop == Begin("stop", <<Step("release all", All), Step("drop", All), Send("stop", All)>>)
Rearm == Begin("rearm", <<Send("resume", All)>>)
Shutdown == Begin("shutdown", HaltAndRearm)

\* Test Actuators: opened, used, closed (left running, or halted and re-armed).
Claim == ~bench /\ Begin("claim", <<Step("claim", All)>>)
BenchHold(c) == bench /\ Begin("bench", <<Step("bench", c)>>)
BenchRelease(c) == bench /\ Begin("bench", <<Step("stop hold", c)>>)
BenchMove(c) == bench /\ Begin("bench", <<Step("stop hold", c), Send("move", c)>>)
Close == bench /\ Begin("close", <<Step("stop hold", All)>> \o ReleaseBench \o HaltAndRearm)
LeaveRunning == bench /\ Begin("leave", <<Step("stop hold", All)>> \o ReleaseBench)

Gui == \/ \E c \in Chambers : \/ Actuate(c) \/ Deflate(c)
                              \/ BenchHold(c) \/ BenchRelease(c) \/ BenchMove(c)
       \/ EmergencyStop \/ Rearm \/ Shutdown \/ Claim \/ Close \/ LeaveRunning

Run(t) == \/ StartHold(t, "app") \/ StartHold(t, "bench") \/ StopHold(t) \/ DropAll(t)
          \/ ClaimBench(t) \/ UnclaimBench(t)
          \/ Notify(t) \/ ReleaseAuto(t) \/ ReleaseAll(t) \/ Aim(t) \/ Settle(t) \/ Record(t)
          \/ Command(t) \/ Report(t)

-----------------------------------------------------------------------------
(* The node *)

NodeDrop(c) == held' = [held EXCEPT ![c] = "none"]
Untouched == UNCHANGED <<held, latched, running>>

\* commands.h: the latch swallows every actuation, and a keepalive starts nothing.
\* A move may find the chamber where it should be, or nothing to do at all.
Obey(f) ==
  \/ f.k = "stop" /\ held' = Nothing /\ running' = {} /\ latched' = TRUE
  \/ f.k = "resume" /\ latched' = FALSE /\ UNCHANGED <<held, running>>
  \/ /\ f.k \notin {"stop", "resume"} /\ latched /\ Untouched
  \/ f.k = "ka" /\ ~latched /\ Untouched
  \/ /\ f.k = "start" /\ ~latched
     /\ held' = [held EXCEPT ![f.ch] = f.who] /\ UNCHANGED <<latched, running>>
  \/ /\ f.k = "off" /\ ~latched
     /\ IF f.ch = All THEN held' = Nothing ELSE NodeDrop(f.ch)
     /\ UNCHANGED <<latched, running>>
  \/ /\ f.k = "move" /\ ~latched
     /\ \/ NodeDrop(f.ch) /\ running' \in {running, running \cup {f.ch}}
        \/ UNCHANGED <<held, running>>
     /\ UNCHANGED latched

NodeReceive ==
  /\ toNode # <<>> /\ toNode' = Tail(toNode)
  /\ IF up THEN Obey(Head(toNode)) ELSE Untouched
  /\ UNCHANGED <<keeperVars, skinVars, script, left, toPc, quiet, up, told>>

NodeSettle(c) ==
  /\ c \in running /\ running' = running \ {c}
  /\ UNCHANGED <<keeperVars, skinVars, script, left, toNode, toPc, quiet, up, held,
                 latched, told>>

\* The batched status frame.
NodeStatus ==
  /\ up /\ Len(toPc) < MaxFrames
  /\ toPc' = Append(toPc, [k |-> "status", running |-> running])
  /\ UNCHANGED <<keeperVars, skinVars, script, left, toNode, quiet, nodeVars, told>>

\* A hold nobody has refreshed for six seconds.  On a link that loses nothing
\* the keepalive, every two seconds, comes before it.
Unrefreshed(c) == holds[c] = "none" /\ ~\E i \in DOMAIN toNode :
                    toNode[i].ch = c /\ toNode[i].k \in {"start", "ka"}
DeadMan(c) ==
  /\ held[c] # "none" /\ Unrefreshed(c) /\ NodeDrop(c)
  /\ UNCHANGED <<keeperVars, skinVars, script, left, toNode, toPc, quiet, up,
                 latched, running, told>>

PowerOff ==
  /\ up /\ left.cycles > 0 /\ left' = [left EXCEPT !.cycles = @ - 1]
  /\ up' = FALSE /\ held' = Nothing /\ latched' = FALSE /\ running' = {}
  /\ UNCHANGED <<keeperVars, skinVars, script, toNode, toPc, quiet, told>>

\* Booting outlasts the frames that were on their way.
PowerOn ==
  /\ ~up /\ toNode = <<>>
  /\ up' = TRUE /\ toPc' = Append(toPc, [k |-> "boot"])
  /\ UNCHANGED <<keeperVars, skinVars, script, left, toNode, quiet, held, latched,
                 running, told>>

\* Six seconds without a frame.
FallSilent ==
  /\ ~up /\ toPc = <<>> /\ quiet' = TRUE
  /\ UNCHANGED <<keeperVars, skinVars, script, left, toNode, toPc, nodeVars, told>>

Node == NodeReceive \/ NodeStatus \/ \E c \in Chambers : NodeSettle(c) \/ DeadMan(c)
Next == \/ Gui \/ \E t \in Threads : Run(t)
        \/ Receive \/ Wake \/ Tick \/ Leave
        \/ Node \/ PowerOff \/ PowerOn \/ FallSilent

\* Threads run, frames arrive, the dead-man and the silence come: nothing is
\* assumed of the user or of the power switch.
Fairness ==
  /\ \A t \in Threads : WF_vars(Run(t))
  /\ WF_vars(Receive) /\ WF_vars(Wake) /\ WF_vars(Tick) /\ WF_vars(Leave)
  /\ WF_vars(NodeReceive) /\ WF_vars(FallSilent)
  /\ \A c \in Chambers : WF_vars(NodeSettle(c)) /\ WF_vars(DeadMan(c))
Spec == Init /\ [][Next]_vars /\ Fairness
-----------------------------------------------------------------------------
(* Properties *)

\* hold_keeper.py "the only place that keeps holds alive": a keeper that holds
\* something has a keepalive thread that will come round again.
KeptAlive == Held # {} => loop # "none"

\* While a bench tool owns the node the keeper keeps no hold of the app, however
\* the claim races a settle on the read thread.
BenchExclusive == bench => \A c \in Chambers : holds[c] # "app"

\* "a keepalive can never land after a stop": once a hold was ended - by a stop,
\* a claim, a boot, silence - no keepalive of it is sent until a start is.
Timely == \A c \in Chambers : told'[c] = "ka" => told[c] \in {"start", "ka"}
NoLateKeepalive == [][Timely]_told

\* claim_bench "drop (and release on the node) every hold the app had": once the
\* frames have landed, a claimed node runs no hold of the app.
ClaimReleases == bench /\ toNode = <<>> => \A c \in Chambers : held[c] # "app"

\* "Node silent ... the keeper drops its holds": holds of a node that stays off
\* all end.
SilenceEndsHolds == ~up ~> up \/ Held = {}

\* A hold the keeper gave up without telling the node (a boot announce that came
\* late) does not outlive the dead-man.
OrphanReleased == \A c \in Chambers :
  held[c] # "none" /\ holds[c] = "none" ~> held[c] = "none" \/ holds[c] # "none"

\* Types, and nothing of the application left on a node the bench has claimed.
HoldSound == TypeOK /\ ClaimReleases

\* No hold is left to itself, in the keeper or on the node.
HoldsEnd == SilenceEndsHolds /\ OrphanReleased
=============================================================================
