---------------------------- MODULE GatewayLink ----------------------------
(***************************************************************************)
(* The serial link to the gateway as the PC sees it: Gateway               *)
(* (hardware/gateway.py) with its reader thread, the worker threads that   *)
(* open and verify the port (gui/async_task.py), and the robot panel that  *)
(* shows the link (gui/robot_panel.py, gui/main_window.py) and measures    *)
(* each node's latency (hardware/latency_monitor.py).                      *)
(*                                                                         *)
(* Three kinds of threads share one object without a lock around it: the   *)
(* GUI thread (clicks, timers and the queue of signals it is sent), the    *)
(* workers that run connect(), and the readers those start.  A reader has  *)
(* no port of its own: it reads whatever self._serial is at that moment.   *)
(***************************************************************************)
EXTENDS Integers, Sequences, FiniteSets, SequencesExt

CONSTANTS Nodes,       \* MACs of the configured nodes
          Listeners,   \* message listeners other than the latency monitor
          Mixes,       \* how often each outside event may happen (see left)
          WireCap,     \* lines the serial buffer holds in a run
          Hasty        \* events may fall into the windows named Settled

ASSUME HastyAssumption == Hasty \in BOOLEAN
ASSUME WireAssumption == WireCap \in Nat \ {0}

VARIABLES
  port,     \* the outside: is the gateway plugged in; which nodes have power
  serial,   \* self._serial: "none", "up" (open), "dead" (open, device gone)
  running,  \* self._running
  readers,  \* one record per reader thread ever started: [pc, line, snap]
  conn,     \* the connect() tasks: "idle", "open", "verify", "start", "ended"
  wire,     \* lines the gateway sent that no reader has taken
  asked,    \* nodes with a ping still to answer
  list,     \* self._callbacks, without the latency monitor's own
  wanted,   \* listeners whose owner registered them and has not let go
  gone,     \* listeners collected without having been removed
  heard,    \* [known, fresh]: _known_macs; nodes with last_seen >= _scan_ref
  gauge,    \* LatencyMonitor: [pend, lat], nodes with a ping out, with a value
  panel,    \* what the robot panel shows
  queue,    \* signals queued for the GUI thread
  join,     \* the reader disconnect() joins, 0 for none, NotJoining otherwise
  scans,    \* scan windows (2 s timers) still open
  left      \* how often each outside event may still happen

link == <<serial, running, readers>>
vars == <<port, serial, running, readers, conn, wire, asked, list, wanted, gone,
          heard, gauge, panel, queue, join, scans, left>>

Tasks == {"auto", "panel"}
NotJoining == -1
Idle == join = NotJoining
Lost == [kind |-> "lost"]
Done(t, ok) == [kind |-> "done", task |-> t, ok |-> ok]
Noise == [node |-> "none", kind |-> "noise"]
Spend(event) == left[event] > 0 /\ left' = [left EXCEPT ![event] = @ - 1]

NewReader == [pc |-> "top", line |-> Noise, snap |-> {}]

IsConnected == serial # "none"
Reading == {r \in DOMAIN readers : readers[r].pc \in {"top", "call", "prune"}}
Alive == {r \in DOMAIN readers : readers[r].pc # "dead"}
InFlight == {t \in Tasks : conn[t] # "idle"}

\* Windows of milliseconds, or of a scan's two seconds: a result or a loss on its
\* way to the panel, a reader on its way out.  A person or a cable that hits one
\* is Hasty; the code keeps neither out.
ResultPending == (\E t \in Tasks : conn[t] \in {"start", "ended"})
                 \/ \E e \in Range(queue) : e.kind = "done"
LossPending == (\E r \in Alive : readers[r].pc \in {"lost", "notify"})
               \/ Lost \in Range(queue)
CableSettled == Hasty \/ ~ResultPending
UserSettled == Hasty \/ (InFlight = {} /\ queue = <<>> /\ Alive = {} /\ scans = 0)

Init ==
  /\ left \in Mixes
  /\ port = [plugged |-> TRUE, powered |-> Nodes]
  /\ serial = "none" /\ running = FALSE /\ readers = <<>>
  /\ conn \in [panel : {"idle"}, auto : {"idle"} \cup IF left.startup > 0 THEN {"open"} ELSE {}]
  /\ wire = <<>> /\ asked = {}
  /\ list \in {L \in SUBSET Listeners : left.listener > 0 \/ L = {}}
  /\ wanted = list /\ gone = {}
  /\ heard = [known |-> {}, fresh |-> {}]
  /\ gauge = [pend |-> {}, lat |-> {}]
  /\ panel = [label |-> "off", enabled |-> TRUE, scan |-> "off", polling |-> FALSE]
  /\ queue = <<>> /\ join = NotJoining /\ scans = 0

-----------------------------------------------------------------------------
(* The panel, and what it does to the link on the GUI thread. *)

ScanLeftDown(p) == [p EXCEPT !.label = "off", !.polling = FALSE]
Disconnected(p) == [p EXCEPT !.label = "off", !.scan = "off", !.polling = FALSE]

\* _reflect_disconnected: label, buttons, polling off, readings forgotten.
ReflectDisconnected ==
  /\ panel' = Disconnected(panel)
  /\ gauge' = [pend |-> {}, lat |-> {}]

\* send() writes to a port that is open; only a live one carries the ping on.
PingsOut == IF serial = "up" THEN port.powered ELSE asked
\* scan() moves the reference behind every node's last message.
ScanRef == [heard EXCEPT !.fresh = {}]

\* LatencyMonitor.ping keeps the time of a ping still out; sweep expires it.
Pinged(pend) == pend \cup Nodes
Swept(g, old) == [pend |-> Pinged(g.pend) \ old, lat |-> g.lat \ old]

\* The connected panel: polling at once, and a scan if it is set to.  The button
\* comes back with its own result only (sync_gateway_ui leaves it).
ShowConnected(t, scanNow) ==
  /\ panel' = [label |-> "on", enabled |-> panel.enabled \/ t = "panel",
               scan |-> IF scanNow THEN "scanning" ELSE "ready", polling |-> TRUE]
  /\ \E old \in SUBSET gauge.pend :
       gauge' = IF IsConnected THEN Swept(gauge, old) ELSE gauge
  /\ asked' = PingsOut
  /\ IF scanNow
     THEN heard' = ScanRef /\ scans' = scans + 1
     ELSE UNCHANGED <<heard, scans>>

\* Gateway.disconnect, first part: tell the reader to stop and join it.
ClickDisconnect ==
  /\ Idle /\ panel.enabled /\ IsConnected /\ Spend("click")
  /\ running' = FALSE
  /\ join' = Len(readers)
  /\ UNCHANGED <<port, serial, readers, conn, wire, asked, list, wanted, gone,
                 heard, gauge, panel, queue, scans>>

\* ... and once it has ended, close the port and forget the nodes.
Forgotten == [known |-> {}, fresh |-> {}]
Joined ==
  /\ ~Idle
  /\ join > 0 => readers[join].pc = "dead"
  /\ serial' = "none" /\ wire' = <<>>
  /\ heard' = Forgotten
  /\ ReflectDisconnected
  /\ join' = NotJoining
  /\ UNCHANGED <<port, running, readers, conn, asked, list, wanted, gone, queue,
                 scans, left>>

\* _on_gateway_connect on a link that is down: a worker opens the port.
ClickConnect ==
  /\ Idle /\ panel.enabled /\ ~IsConnected /\ UserSettled /\ Spend("click")
  /\ conn' = [conn EXCEPT !.panel = "open"]
  /\ panel' = [panel EXCEPT !.enabled = FALSE, !.label = "connecting"]
  /\ UNCHANGED <<port, link, wire, asked, list, wanted, gone, heard, gauge,
                 queue, join, scans>>

\* _on_scan and start_scan: nothing is sent, and no timer set, without a link.
ClickScan ==
  /\ Idle /\ panel.scan = "ready" /\ Spend("scan")
  /\ panel' = [panel EXCEPT !.scan = "scanning"]
  /\ IF IsConnected
     THEN /\ heard' = ScanRef
          /\ scans' = scans + 1
          /\ asked' = PingsOut
     ELSE UNCHANGED <<heard, scans, asked>>
  /\ UNCHANGED <<port, link, conn, wire, list, wanted, gone, gauge, queue, join>>

\* _on_scan_done, two seconds later, on whatever link there is then.
ScanWindowEnds ==
  /\ Idle /\ scans > 0
  /\ scans' = scans - 1
  /\ panel' = IF IsConnected THEN [panel EXCEPT !.scan = "ready", !.label = "on"]
              ELSE [panel EXCEPT !.scan = "off"]
  /\ UNCHANGED <<port, link, conn, wire, asked, list, wanted, gone, heard, gauge,
                 queue, join, left>>

\* _poll_latency on its 3 s timer: a ping still out is older than the 2.5 s
\* timeout by then.  It is pinged again before it is swept.
PollLatency ==
  /\ Idle /\ panel.polling /\ IsConnected
  /\ gauge' = Swept(gauge, gauge.pend)
  /\ asked' = PingsOut
  /\ UNCHANGED <<port, link, conn, wire, list, wanted, gone, heard, panel, queue,
                 join, scans, left>>

Next1(e) == queue # <<>> /\ Idle /\ Head(queue) = e /\ queue' = Tail(queue)

\* _on_gateway_lost: a link that is back already is left as shown.
GotLost ==
  /\ Next1(Lost)
  /\ IF IsConnected THEN UNCHANGED <<panel, gauge>> ELSE ReflectDisconnected
  /\ UNCHANGED <<port, link, conn, wire, asked, list, wanted, gone, heard, join,
                 scans, left>>

\* _on_connect_result for the button, _on_auto_connect for the startup task,
\* which asks the gateway again (sync_gateway_ui) and is silent on a failure.
GotDone(t, ok) ==
  /\ Next1(Done(t, ok))
  /\ CASE ok /\ (t = "panel" \/ IsConnected) ->
            \E scanNow \in {s \in BOOLEAN : s => IsConnected} : ShowConnected(t, scanNow)
       [] ok /\ t = "auto" /\ ~IsConnected ->
            ReflectDisconnected /\ UNCHANGED <<asked, heard, scans>>
       [] ~ok ->
            /\ panel' = IF t = "auto" THEN panel
                        ELSE [panel EXCEPT !.enabled = TRUE, !.label = "failed"]
            /\ UNCHANGED <<gauge, asked, heard, scans>>
  /\ UNCHANGED <<port, link, conn, wire, list, wanted, gone, join, left>>

-----------------------------------------------------------------------------
(* connect() on a worker thread. *)

End(t, ok) == /\ conn' = [conn EXCEPT ![t] = "idle"]
              /\ queue' = Append(queue, Done(t, ok))

Open(t) ==
  /\ conn[t] = "open"
  /\ IF port.plugged
     THEN /\ serial' = "up" /\ wire' = <<>>
          /\ conn' = [conn EXCEPT ![t] = "verify"] /\ UNCHANGED queue
     ELSE End(t, FALSE) /\ UNCHANGED <<serial, wire>>
  /\ UNCHANGED <<port, running, readers, asked, list, wanted, gone, heard, gauge,
                 panel, join, scans, left>>

\* _verify_is_gateway reads the port itself until the peer proves what it is,
\* or the deadline or an error of the port ends it and connect() closes.
Verify(t) ==
  /\ conn[t] = "verify"
  /\ \/ /\ serial = "up"
        /\ conn' = [conn EXCEPT ![t] = "start"]
        /\ UNCHANGED <<serial, queue>>
     \/ /\ serial' = "none"
        /\ End(t, FALSE)
  /\ UNCHANGED <<port, running, readers, wire, asked, list, wanted, gone, heard,
                 gauge, panel, join, scans, left>>

Start(t) ==
  /\ conn[t] = "start"
  /\ running' = TRUE
  /\ readers' = Append(readers, NewReader)
  /\ conn' = [conn EXCEPT ![t] = "ended"]
  /\ UNCHANGED <<port, serial, wire, asked, list, wanted, gone, heard, gauge,
                 panel, queue, join, scans, left>>

Finish(t) ==
  /\ conn[t] = "ended" /\ End(t, TRUE)
  /\ UNCHANGED <<port, link, wire, asked, list, wanted, gone, heard, gauge,
                 panel, join, scans, left>>

-----------------------------------------------------------------------------
(* The reader thread: _read_loop and _dispatch_line. *)

Moves(r, pc) == readers' = [readers EXCEPT ![r] = [NewReader EXCEPT !.pc = pc]]

Quit(r) ==
  /\ readers[r].pc = "top" /\ (~running \/ serial = "none")
  /\ Moves(r, "dead")
  /\ UNCHANGED <<serial, running, wire, heard, gauge, list, queue>>

\* A line that is no message, or whose dispatch fails, costs that line alone.
AfterBadLine == "top"
Take(r) ==
  /\ readers[r].pc = "top" /\ running /\ serial = "up" /\ wire # <<>>
  /\ wire' = Tail(wire)
  /\ IF Head(wire) = Noise
     THEN Moves(r, AfterBadLine) /\ UNCHANGED heard
     ELSE /\ heard' = [known |-> heard.known \cup {Head(wire).node},
                       fresh |-> heard.fresh \cup {Head(wire).node}]
          /\ readers' = [readers EXCEPT ![r] =
                           [pc |-> "call", line |-> Head(wire), snap |-> list]]
  /\ UNCHANGED <<serial, running, gauge, list, queue>>

\* Every listener of the snapshot is called; the latency monitor's takes the
\* first pong of a ping that is out.
Answered(g, l) ==
  IF l.kind = "pong" /\ l.node \in g.pend
  THEN [pend |-> g.pend \ {l.node}, lat |-> g.lat \cup {l.node}] ELSE g
Call(r) ==
  /\ readers[r].pc = "call"
  /\ gauge' = Answered(gauge, readers[r].line)
  /\ IF readers[r].snap \cap gone = {} THEN Moves(r, "top")
     ELSE readers' = [readers EXCEPT ![r].pc = "prune"]
  /\ UNCHANGED <<serial, running, wire, heard, list, queue>>

\* The collected listeners are dropped from the list as it is now.
PrunedSnapshot(r) == readers[r].snap \ gone
Pruned(r) == list \ gone
Prune(r) ==
  /\ readers[r].pc = "prune"
  /\ list' = Pruned(r)
  /\ Moves(r, "top")
  /\ UNCHANGED <<serial, running, wire, heard, gauge, queue>>

\* The port died under the reader: it takes the link down, then tells.
ReadError(r) ==
  /\ readers[r].pc = "top" /\ running /\ serial = "dead"
  /\ Moves(r, "lost")
  /\ UNCHANGED <<serial, running, wire, heard, gauge, list, queue>>

TellNobody == queue
Tell == Append(queue, Lost)
TearDown(r) ==
  /\ readers[r].pc = "lost"
  /\ serial' = "none" /\ running' = FALSE
  /\ Moves(r, "notify")
  /\ UNCHANGED <<wire, heard, gauge, list, queue>>

Notify(r) ==
  /\ readers[r].pc = "notify"
  /\ queue' = Tell
  /\ Moves(r, "dead")
  /\ UNCHANGED <<serial, running, wire, heard, gauge, list>>

Reader(r) ==
  /\ Quit(r) \/ Take(r) \/ Call(r) \/ Prune(r) \/ ReadError(r) \/ TearDown(r) \/ Notify(r)
  /\ UNCHANGED <<port, conn, asked, wanted, gone, panel, join, scans, left>>

-----------------------------------------------------------------------------
(* Listeners come and go on the GUI thread, or with the garbage collector. *)

Register(l) ==
  /\ Idle /\ l \notin list \cup gone /\ Spend("listener")
  /\ list' = list \cup {l} /\ wanted' = wanted \cup {l}
  /\ UNCHANGED gone

\* remove_message_callback prunes the collected ones on its way.
Deregister(l) ==
  /\ Idle /\ l \in wanted /\ Spend("listener")
  /\ list' = list \ (gone \cup {l}) /\ wanted' = wanted \ {l}
  /\ UNCHANGED gone

Collect(l) ==
  /\ l \in wanted /\ Spend("listener")
  /\ gone' = gone \cup {l} /\ wanted' = wanted \ {l}
  /\ UNCHANGED list

Listener(l) ==
  /\ Register(l) \/ Deregister(l) \/ Collect(l)
  /\ UNCHANGED <<port, link, conn, wire, asked, heard, gauge, panel, queue, join,
                 scans>>

-----------------------------------------------------------------------------
(* Outside the PC: the cable, the nodes and what they say. *)

Unplug ==
  /\ port.plugged /\ CableSettled /\ Spend("cable")
  /\ port' = [port EXCEPT !.plugged = FALSE]
  /\ serial' = IF serial = "up" THEN "dead" ELSE serial
  /\ wire' = <<>>
  /\ UNCHANGED asked

Plug == /\ ~port.plugged /\ port' = [port EXCEPT !.plugged = TRUE]
        /\ UNCHANGED <<serial, wire, asked, left>>

Power(n) ==
  /\ Spend("power")
  /\ port' = [port EXCEPT !.powered = IF n \in @ THEN @ \ {n} ELSE @ \cup {n}]
  /\ asked' = asked \ {n}
  /\ UNCHANGED <<serial, wire>>

Sends(line) == serial = "up" /\ Len(wire) < WireCap /\ wire' = Append(wire, line)

\* A pong, if neither the ping nor the pong is lost on the air.
Pong(n) ==
  /\ n \in asked /\ asked' = asked \ {n}
  /\ Sends([node |-> n, kind |-> "pong"]) \/ UNCHANGED wire
  /\ UNCHANGED <<port, serial, left>>

Says ==
  /\ Spend("line")
  /\ \E line \in {Noise} \cup [node : port.powered, kind : {"status"}] : Sends(line)
  /\ UNCHANGED <<port, serial, asked>>

Outside ==
  /\ Unplug \/ Plug \/ Says \/ \E n \in Nodes : Power(n) \/ Pong(n)
  /\ UNCHANGED <<running, readers, conn, list, wanted, gone, heard, gauge, panel,
                 queue, join, scans>>

-----------------------------------------------------------------------------
Gui == Joined \/ ScanWindowEnds \/ GotLost \/ \E t \in Tasks, ok \in BOOLEAN : GotDone(t, ok)
Worker(t) == Open(t) \/ Verify(t) \/ Start(t) \/ Finish(t)
User == ClickConnect \/ ClickDisconnect \/ ClickScan \/ \E l \in Listeners : Listener(l)

Next ==
  \/ Gui \/ PollLatency \/ User \/ Outside
  \/ \E t \in Tasks : Worker(t)
  \/ \E r \in DOMAIN readers : Reader(r)

\* Threads that can run do, Qt delivers signals and timers.  Nothing makes a person
\* click, a cable hold or a node answer.
Fairness ==
  /\ WF_vars(Gui \/ \E t \in Tasks : Worker(t))
  /\ WF_vars(\E r \in DOMAIN readers : Reader(r))
  /\ WF_vars(PollLatency)

Spec == Init /\ [][Next]_vars /\ Fairness

-----------------------------------------------------------------------------
TypeOK ==
  /\ port \in [plugged : BOOLEAN, powered : SUBSET Nodes]
  /\ serial \in {"none", "up", "dead"} /\ running \in BOOLEAN
  /\ \A r \in DOMAIN readers :
       readers[r].pc \in {"top", "call", "prune", "lost", "notify", "dead"}
  /\ conn \in [Tasks -> {"idle", "open", "verify", "start", "ended"}]
  /\ Len(wire) <= WireCap /\ asked \subseteq Nodes
  /\ list \subseteq Listeners /\ wanted \subseteq Listeners /\ gone \subseteq Listeners
  /\ heard \in [known : SUBSET Nodes, fresh : SUBSET Nodes]
  /\ gauge \in [pend : SUBSET Nodes, lat : SUBSET Nodes]
  /\ panel \in [label : {"off", "connecting", "failed", "on"}, enabled : BOOLEAN,
                scan : {"off", "ready", "scanning"}, polling : BOOLEAN]
  /\ join \in -1..Len(readers) /\ scans \in Nat

\* A link that is up and left alone has one reader, running: "the app would
\* stay connected while receiving nothing" (_read_loop); and connect() owns the
\* port while it verifies (_verify_is_gateway).
Listening ==
  /\ IsConnected /\ InFlight = {} /\ Idle /\ ~LossPending
       => running /\ Cardinality(Reading) = 1
  /\ \A t \in Tasks : conn[t] = "verify" /\ IsConnected => Reading = {}

\* Pruning collected listeners on the reader thread never loses one that was
\* registered or kept meanwhile (_callbacks_lock).
ListenersKept == wanted \subseteq list

NothingMissed == TypeOK /\ Listening /\ ListenersKept

\* Once every result and every loss has reached it, the panel shows the link as
\* it is: connected, polling and able to scan with a link, none of it without,
\* and no latency of a link that is gone.
Settled == InFlight = {} /\ queue = <<>> /\ Idle /\ ~LossPending
PanelHonest ==
  Settled =>
    /\ panel.enabled
    /\ IsConnected <=> panel.label = "on"
    /\ IsConnected <=> panel.polling
    /\ IsConnected <=> panel.scan # "off"
    /\ ~IsConnected => gauge.lat = {}

\* No button stays down: a connect ends in a result and a scan in a list, also
\* when the link is lost under them.
ButtonsComeBack ==
  /\ ~panel.enabled ~> panel.enabled
  /\ panel.scan = "scanning" ~> panel.scan # "scanning"

\* "a node that goes offline reverts from a stale number to 'no reply' instead
\* of freezing at its last good value" (LatencyMonitor.sweep).
LatencyHonest ==
  \A n \in Nodes :
    n \in gauge.lat /\ n \notin port.powered ~> n \notin gauge.lat \/ n \in port.powered
=============================================================================
