---------------------------- MODULE LinksProofs ----------------------------
(***************************************************************************)
(* What the PC may take the gateway and the Thymios behind it for, for any *)
(* number of nodes, listeners, robots, clicks, cables and losses.          *)
(***************************************************************************)
EXTENDS Links, FiniteSetTheorems, SequenceTheorems, TLAPS

-----------------------------------------------------------------------------
(* The gateway *)

Steps == {"idle", "open", "verify", "start", "ended"}
Places == {"top", "call", "prune", "lost", "notify", "dead"}
Lines == {Noise} \cup [node : Nodes, kind : {"pong", "status"}]
Signals == {Lost} \cup {Done(t, ok) : t \in Tasks, ok \in BOOLEAN}

\* The reader started last, and what it may be doing with the link up.
Newest == IF readers = <<>> THEN "dead" ELSE readers[Len(readers)].pc
Serving == {"top", "call", "prune"}
Opening == {"open", "verify", "start"}

LinkTypes ==
  /\ port \in [plugged : BOOLEAN, powered : SUBSET Nodes]
  /\ serial \in {"none", "up", "dead"} /\ running \in BOOLEAN
  /\ readers \in Seq([pc : Places, line : Lines, snap : SUBSET Listeners])
  /\ conn \in [Tasks -> Steps]
  /\ wire \in Seq(Lines) /\ Len(wire) <= WireCap
  /\ asked \subseteq Nodes /\ heard \in [known : SUBSET Nodes, fresh : SUBSET Nodes]
  /\ list \subseteq Listeners /\ wanted \subseteq Listeners /\ gone \subseteq Listeners
  /\ join \in Int /\ scans \in Nat

PanelTypes ==
  /\ gauge \in [pend : SUBSET Nodes, lat : SUBSET Nodes]
  /\ panel \in [label : {"off", "connecting", "failed", "on"}, enabled : BOOLEAN,
                scan : {"off", "ready", "scanning"}, polling : BOOLEAN]

\* What the panel shows of a link, and of none.
ShownOn == panel.label = "on" /\ panel.polling /\ panel.scan # "off"
ShownOff == /\ panel.label # "on" /\ ~panel.polling /\ panel.scan = "off"
            /\ gauge = [pend |-> {}, lat |-> {}]
Quiet == ShownOff /\ scans = 0
Owed(t, ok) == queue = <<Done(t, ok)>>
Told(t) == conn[t] = "ended" \/ Owed(t, TRUE)

\* One thing at a time, or nothing, is under way: a signal, a task, a reader.
OneSignal == queue = <<>> \/ \E e \in Signals : queue = <<e>>
OneTask == /\ conn["auto"] = "idle" \/ conn["panel"] = "idle"
           /\ \A t \in Tasks : conn[t] # "idle" => queue = <<>>
OneReader == \A r \in DOMAIN readers : r # Len(readers) => readers[r].pc = "dead"

\* The button is down from the click to its result.
Button == /\ ~panel.enabled <=> conn["panel"] # "idle" \/ \E ok \in BOOLEAN : Owed("panel", ok)
          /\ ~panel.enabled => Idle

\* A task that has started no reader has the port to itself.
BeforeStart ==
  \A t \in Tasks : conn[t] \in Opening =>
    /\ Quiet /\ Newest = "dead"
    /\ conn[t] = "open" => serial = "none"
    /\ conn[t] = "start" => serial # "dead"
    /\ t = "panel" => conn[t] = "open" \/ serial # "none"
    /\ t = "auto" => readers = <<>>

\* One that has, on a link that holds until its result is told; or it failed.
Started ==
  \A t \in Tasks : Told(t) =>
    /\ Quiet /\ Newest \in Serving \cup {"dead"}
    /\ serial # "dead"
    /\ serial = "up" => Newest # "dead" \/ ~Idle
    /\ t = "panel" => serial = "up"
Failed == \A t \in Tasks : Owed(t, FALSE) => Quiet /\ serial = "none" /\ Newest = "dead"

\* With no result under way the panel shows the link, but for a loss to be told.
Shown ==
  InFlight = {} /\ queue = <<>> =>
    /\ serial # "none" => ShownOn
    /\ serial = "up" => Newest \in Serving \/ (~Idle /\ Newest = "dead")
    /\ serial = "dead" => Newest \in Serving \cup {"lost"} \/ (~Idle /\ Newest = "dead")
    /\ serial = "none" /\ Newest # "notify" => ShownOff
Losing ==
  /\ queue = <<Lost>> => serial = "none" /\ Newest = "dead"
  /\ Newest \in {"lost", "notify"} => InFlight = {} /\ queue = <<>>
  /\ Newest = "lost" => serial = "dead"
  /\ Newest = "notify" => serial = "none"

\* The reader runs unless it is told to stop, and is joined then; a disconnect
\* before the startup task has one has none to wait for.
Runs == Idle /\ serial # "none" /\ (\A t \in Tasks : conn[t] \notin Opening) => running
Joining ==
  ~Idle => \/ /\ join = 0
              /\ \/ conn["auto"] \in {"verify", "start", "ended"}
                 \/ \E ok \in BOOLEAN : Owed("auto", ok)
           \/ join = Len(readers) /\ join > 0 /\ ~running

Kept == wanted \subseteq list /\ wanted \cap gone = {}

Threads == /\ OneSignal /\ OneTask /\ OneReader /\ Button /\ BeforeStart /\ Started
           /\ Failed /\ Shown /\ Losing /\ Runs /\ Joining
GatewayInv == LinkTypes /\ PanelTypes /\ Threads /\ Kept

-----------------------------------------------------------------------------
(* Signals, tasks and readers *)

LEMMA SignalsApart ==
  ASSUME NEW t \in Tasks, NEW ok \in BOOLEAN
  PROVE  /\ <<Done(t, ok)>> # <<>> /\ <<Done(t, ok)>> # <<Lost>> /\ <<Lost>> # <<>>
         /\ \A u \in Tasks, on \in BOOLEAN :
              <<Done(t, ok)>> = <<Done(u, on)>> => u = t /\ on = ok
<1>1. Done(t, ok).kind = "done" /\ Lost.kind = "lost" BY DEF Done, Lost
<1>2. \A u \in Tasks, on \in BOOLEAN : Done(u, on).task = u /\ Done(u, on).ok = on BY DEF Done
<1>3. \A x, y : <<x>> = <<y>> => x = y OBVIOUS
<1>4. \A x : <<x>> # <<>> OBVIOUS
<1>5. Done(t, ok) # Lost BY <1>1
<1>6. ASSUME NEW u \in Tasks, NEW on \in BOOLEAN, <<Done(t, ok)>> = <<Done(u, on)>>
      PROVE u = t /\ on = ok
  <2>1. Done(t, ok) = Done(u, on) BY <1>6, <1>3
  <2> QED BY <2>1, <1>2
<1> QED BY <1>3, <1>4, <1>5, <1>6

LEMMA SignalSteps ==
  /\ \A e : Append(<<>>, e) = <<e>> /\ Tail(<<e>>) = <<>> /\ Head(<<e>>) = e
  /\ \A e \in Signals : e = Lost \/ \E t \in Tasks, ok \in BOOLEAN : e = Done(t, ok)
  BY DEF Signals

LEMMA ResultQueued ==
  ASSUME NEW t \in Tasks, NEW ok \in BOOLEAN
  PROVE  /\ queue = <<Done(t, ok)>> =>
              /\ OneSignal /\ queue # <<>> /\ queue # <<Lost>>
              /\ \A u \in Tasks, on \in BOOLEAN : Owed(u, on) <=> u = t /\ on = ok
         /\ queue' = <<Done(t, ok)>> =>
              /\ OneSignal' /\ queue' # <<>> /\ queue' # <<Lost>>
              /\ \A u \in Tasks, on \in BOOLEAN : Owed(u, on)' <=> u = t /\ on = ok
<1>1. Done(t, ok) \in Signals BY DEF Signals
<1> QED BY <1>1, SignalsApart DEF OneSignal, Owed

LEMMA LossQueued ==
  /\ queue = <<Lost>> => OneSignal /\ queue # <<>> /\ \A u \in Tasks, on \in BOOLEAN : ~Owed(u, on)
  /\ queue' = <<Lost>> => OneSignal' /\ queue' # <<>> /\ \A u \in Tasks, on \in BOOLEAN : ~Owed(u, on)'
<1>1. Lost \in Signals BY DEF Signals
<1>2. <<Lost>> # <<>> OBVIOUS
<1> QED BY <1>1, <1>2, SignalsApart DEF OneSignal, Owed

LEMMA NothingQueued ==
  /\ queue = <<>> => OneSignal /\ queue # <<Lost>> /\ \A u \in Tasks, on \in BOOLEAN : ~Owed(u, on)
  /\ queue' = <<>> => OneSignal' /\ queue' # <<Lost>> /\ \A u \in Tasks, on \in BOOLEAN : ~Owed(u, on)'
<1>2. <<Lost>> # <<>> OBVIOUS
<1> QED BY <1>2, SignalsApart DEF OneSignal, Owed

LEMMA Queued ==
  ASSUME Threads
  PROVE  \/ queue = <<>> \/ queue = <<Lost>>
         \/ \E t \in Tasks, ok \in BOOLEAN : queue = <<Done(t, ok)>>
  BY DEF Threads, OneSignal, Signals

\* A reader that moves is the one started last.
LEMMA ReaderMoves ==
  ASSUME LinkTypes, OneReader, NEW r \in DOMAIN readers, readers[r].pc # "dead",
         NEW new \in [pc : Places, line : Lines, snap : SUBSET Listeners],
         readers' = [readers EXCEPT ![r] = new]
  PROVE  /\ readers' \in Seq([pc : Places, line : Lines, snap : SUBSET Listeners])
         /\ OneReader' /\ Newest = readers[r].pc /\ Newest' = new.pc
         /\ Len(readers') = Len(readers) /\ readers # <<>> /\ readers' # <<>>
<1> USE DEF LinkTypes
<1>1. r = Len(readers) BY DEF OneReader
<1>2. r \in 1..Len(readers) OBVIOUS
<1>3. readers' \in Seq([pc : Places, line : Lines, snap : SUBSET Listeners])
  OBVIOUS
<1>4. Len(readers') = Len(readers) /\ readers # <<>> /\ readers' # <<>>
  BY <1>2
<1>5. readers'[r] = new BY <1>2
<1>6. OneReader' BY <1>1, <1>4 DEF OneReader
<1> QED BY <1>1, <1>3, <1>4, <1>5, <1>6 DEF Newest

LEMMA ReaderStarts ==
  ASSUME LinkTypes, OneReader, Newest = "dead", readers' = Append(readers, NewReader)
  PROVE  /\ readers' \in Seq([pc : Places, line : Lines, snap : SUBSET Listeners])
         /\ OneReader' /\ Newest' = "top"
         /\ Len(readers') = Len(readers) + 1 /\ readers' # <<>>
<1> USE DEF LinkTypes
<1>1. NewReader \in [pc : Places, line : Lines, snap : SUBSET Listeners]
  BY DEF NewReader, Places, Lines
<1>2. readers' \in Seq([pc : Places, line : Lines, snap : SUBSET Listeners])
  BY <1>1
<1>3. Len(readers') = Len(readers) + 1 /\ readers' # <<>> BY <1>1
<1>4. readers'[Len(readers')] = NewReader BY <1>1, <1>3
<1>5. \A r \in DOMAIN readers : readers'[r] = readers[r] BY <1>1
<1>6. \A r \in DOMAIN readers : readers[r].pc = "dead" BY DEF OneReader, Newest
<1>7. \A r \in DOMAIN readers' : r # Len(readers') => r \in DOMAIN readers BY <1>2, <1>3
<1>8. OneReader' BY <1>5, <1>6, <1>7 DEF OneReader
<1>9. Newest' = "top" BY <1>3, <1>4 DEF Newest, NewReader
<1> QED BY <1>2, <1>3, <1>8, <1>9

LEMMA NewestSame == UNCHANGED readers => Newest' = Newest BY DEF Newest

LEMMA NewestPlace == ASSUME LinkTypes PROVE Newest \in Places /\ Len(readers) \in Nat
<1>1. readers \in Seq([pc : Places, line : Lines, snap : SUBSET Listeners]) BY DEF LinkTypes
<1>2. Len(readers) \in Nat BY <1>1
<1>3. "dead" \in Places BY DEF Places
<1>4. CASE readers = <<>> BY <1>2, <1>3, <1>4 DEF Newest
<1>5. CASE readers # <<>>
  <2>1. Len(readers) # 0 BY <1>1, <1>5
  <2>2. Len(readers) \in 1..Len(readers) BY <1>2, <2>1
  <2>3. readers[Len(readers)] \in [pc : Places, line : Lines, snap : SUBSET Listeners]
    BY <1>1, <2>2, ElementOfSeq
  <2>4. readers[Len(readers)].pc \in Places BY <2>3
  <2> QED BY <1>2, <1>5, <2>4 DEF Newest
<1> QED BY <1>4, <1>5

LEMMA FlightTasks == InFlight = {} <=> conn["auto"] = "idle" /\ conn["panel"] = "idle"
  BY DEF InFlight, Tasks

\* What the invariant says of the threads looks at nothing else.
looked == <<serial, running, readers, conn, gauge, panel, queue, join, scans>>
LEMMA ThreadsSame == ASSUME Threads, UNCHANGED looked PROVE Threads'
<1>1. /\ serial' = serial /\ running' = running /\ readers' = readers /\ conn' = conn
      /\ gauge' = gauge /\ panel' = panel /\ queue' = queue /\ join' = join /\ scans' = scans
  BY DEF looked
<1>2. Newest' = Newest BY <1>1, NewestSame
<1>3. OneSignal' /\ OneTask' /\ OneReader' BY <1>1 DEF Threads, OneSignal, OneTask, OneReader
<1>4. /\ \A t \in Tasks, ok \in BOOLEAN : Owed(t, ok)' <=> Owed(t, ok)
      /\ \A t \in Tasks : Told(t)' <=> Told(t)
  BY <1>1 DEF Owed, Told
<1>5. /\ Idle' <=> Idle
      /\ Quiet' <=> Quiet
      /\ ShownOn' <=> ShownOn
      /\ ShownOff' <=> ShownOff
      /\ InFlight' = InFlight
  BY <1>1 DEF Idle, Quiet, ShownOn, ShownOff, InFlight
<1>6. Button' /\ BeforeStart' /\ Started' /\ Failed'
  BY <1>1, <1>2, <1>4, <1>5 DEF Threads, Button, BeforeStart, Started, Failed, Tasks
<1>7. Shown' /\ Losing' /\ Runs' /\ Joining'
  BY <1>1, <1>2, <1>4, <1>5 DEF Threads, Shown, Losing, Runs, Joining, Tasks
<1> QED BY <1>3, <1>6, <1>7 DEF Threads

-----------------------------------------------------------------------------
(* connect() on a worker *)

LEMMA OpenKeeps ==
  ASSUME GatewayInv, NEW t \in Tasks, Open(t)
  PROVE  GatewayInv'
<1> USE DEF GatewayInv
<1>1. conn[t] = "open" /\ conn \in [Tasks -> Steps] BY DEF Open, LinkTypes
<1>2. UNCHANGED <<port, running, readers, asked, list, wanted, gone, heard, gauge, panel,
                  join, scans>>
  BY DEF Open
<1>3. Quiet /\ Newest = "dead" /\ serial = "none" /\ (t = "auto" => readers = <<>>)
  BY <1>1 DEF Threads, BeforeStart, Opening
<1>4. queue = <<>> /\ \A u \in Tasks : u # t => conn[u] = "idle"
  BY <1>1 DEF Threads, OneTask, Tasks
<1>5. Newest' = Newest BY <1>2, NewestSame
<1>6. Quiet' BY <1>2, <1>3 DEF Quiet, ShownOff
<1>7. Kept' BY <1>2 DEF Kept
<1>8. PanelTypes' BY <1>2 DEF PanelTypes
<1>9. CASE port.plugged
  <2>1. serial' = "up" /\ wire' = <<>> /\ conn' = [conn EXCEPT ![t] = "verify"] /\ queue' = <<>>
    BY <1>4, <1>9 DEF Open
  <2>2. conn' \in [Tasks -> Steps] BY <1>1, <2>1 DEF Steps
  <2>3. LinkTypes' BY <1>2, <2>1, <2>2, WireAssumption DEF LinkTypes
  <2>4. Threads'
    BY <1>1, <1>2, <1>3, <1>4, <1>5, <1>6, <2>1 DEF Threads, OneSignal, OneTask,
       OneReader, Button, BeforeStart, Started, Failed, Shown, Losing, Runs, Joining,
       InFlight, Owed, Told, Idle, Tasks, Opening, Serving
  <2> QED BY <1>7, <1>8, <2>3, <2>4
<1>10. CASE ~port.plugged
  <2>1. serial' = "none" /\ wire' = wire /\ conn' = [conn EXCEPT ![t] = "idle"]
        /\ queue' = <<Done(t, FALSE)>>
    BY <1>3, <1>4, <1>10, SignalSteps DEF Open, End
  <2>2. conn' \in [Tasks -> Steps] BY <1>1, <2>1 DEF Steps
  <2>3. LinkTypes' BY <1>2, <2>1, <2>2 DEF LinkTypes
  <2>4. Threads'
    <3>1. OneSignal' /\ queue' # <<>> /\ queue' # <<Lost>>
          /\ \A u \in Tasks, on \in BOOLEAN : Owed(u, on)' <=> u = t /\ on = FALSE
      BY <2>1, ResultQueued DEF OneSignal, Owed
    <3> QED
      BY <1>1, <1>2, <1>3, <1>4, <1>5, <1>6, <2>1, <3>1, NothingQueued DEF Threads, OneTask, OneReader,
         Button, BeforeStart, Started, Failed, Shown, Losing, Runs, Joining, InFlight, Told,
         Idle, Tasks, Opening, Serving
  <2> QED BY <1>7, <1>8, <2>3, <2>4
<1> QED BY <1>9, <1>10

LEMMA VerifyKeeps ==
  ASSUME GatewayInv, NEW t \in Tasks, Verify(t)
  PROVE  GatewayInv'
<1> USE DEF GatewayInv
<1>1. conn[t] = "verify" /\ conn \in [Tasks -> Steps] BY DEF Verify, LinkTypes
<1>2. UNCHANGED <<port, running, readers, wire, asked, list, wanted, gone, heard, gauge,
                  panel, join, scans>>
  BY DEF Verify
<1>3. Quiet /\ Newest = "dead" /\ (t = "auto" => readers = <<>>)
      /\ (t = "panel" => serial # "none")
  BY <1>1 DEF Threads, BeforeStart, Opening
<1>4. queue = <<>> /\ \A u \in Tasks : u # t => conn[u] = "idle"
  BY <1>1 DEF Threads, OneTask, Tasks
<1>5. Newest' = Newest BY <1>2, NewestSame
<1>6. Quiet' BY <1>2, <1>3 DEF Quiet, ShownOff
<1>7. Kept' BY <1>2 DEF Kept
<1>8. PanelTypes' BY <1>2 DEF PanelTypes
<1>9. CASE serial' = serial /\ serial = "up" /\ conn' = [conn EXCEPT ![t] = "start"] /\ queue' = queue
  <2>2. conn' \in [Tasks -> Steps] BY <1>1, <1>9 DEF Steps
  <2>3. LinkTypes' BY <1>2, <1>9, <2>2 DEF LinkTypes
  <2>4. Threads'
    BY <1>1, <1>2, <1>3, <1>4, <1>5, <1>6, <1>9 DEF Threads, OneSignal, OneTask,
       OneReader, Button, BeforeStart, Started, Failed, Shown, Losing, Runs, Joining,
       InFlight, Owed, Told, Idle, Tasks, Opening, Serving
  <2> QED BY <1>7, <1>8, <2>3, <2>4
<1>10. CASE serial' = "none" /\ End(t, FALSE)
  <2>1. serial' = "none" /\ conn' = [conn EXCEPT ![t] = "idle"]
        /\ queue' = <<Done(t, FALSE)>>
    BY <1>3, <1>4, <1>10, SignalSteps DEF Open, End
  <2>2. conn' \in [Tasks -> Steps] BY <1>1, <2>1 DEF Steps
  <2>3. LinkTypes' BY <1>2, <2>1, <2>2 DEF LinkTypes
  <2>4. Threads'
    <3>1. OneSignal' /\ queue' # <<>> /\ queue' # <<Lost>>
          /\ \A u \in Tasks, on \in BOOLEAN : Owed(u, on)' <=> u = t /\ on = FALSE
      BY <2>1, ResultQueued DEF OneSignal, Owed
    <3> QED
      BY <1>1, <1>2, <1>3, <1>4, <1>5, <1>6, <2>1, <3>1, NothingQueued DEF Threads, OneTask, OneReader,
         Button, BeforeStart, Started, Failed, Shown, Losing, Runs, Joining, InFlight, Told,
         Idle, Tasks, Opening, Serving
  <2> QED BY <1>7, <1>8, <2>3, <2>4
<1> QED BY <1>9, <1>10 DEF Verify

LEMMA StartKeeps ==
  ASSUME GatewayInv, NEW t \in Tasks, Start(t)
  PROVE  GatewayInv'
<1> USE DEF GatewayInv
<1>1. conn[t] = "start" /\ conn \in [Tasks -> Steps] BY DEF Start, LinkTypes
<1>2. /\ UNCHANGED <<port, serial, wire, asked, list, wanted, gone, heard, gauge, panel,
                     queue, join, scans>>
      /\ running' = TRUE /\ readers' = Append(readers, NewReader)
      /\ conn' = [conn EXCEPT ![t] = "ended"]
  BY DEF Start
<1>3. Quiet /\ Newest = "dead" /\ (t = "auto" => readers = <<>>) /\ serial # "dead"
      /\ (t = "panel" => serial # "none")
  BY <1>1 DEF Threads, BeforeStart, Opening
<1>4. queue = <<>> /\ \A u \in Tasks : u # t => conn[u] = "idle"
  BY <1>1 DEF Threads, OneTask, Tasks
<1>5. /\ readers' \in Seq([pc : Places, line : Lines, snap : SUBSET Listeners])
      /\ OneReader' /\ Newest' = "top"
      /\ Len(readers') = Len(readers) + 1 /\ readers' # <<>>
  BY <1>2, <1>3, ReaderStarts DEF Threads
<1>6. Quiet' BY <1>2, <1>3 DEF Quiet, ShownOff
<1>7. Kept' BY <1>2 DEF Kept
<1>8. PanelTypes' BY <1>2 DEF PanelTypes
<1>9. conn' \in [Tasks -> Steps] BY <1>1, <1>2 DEF Steps
<1>10. LinkTypes' BY <1>2, <1>5, <1>9 DEF LinkTypes
<1>11. ~Idle => t = "auto" /\ join = 0
  BY <1>1, <1>3, <1>4 DEF Threads, Joining, Button, Tasks, Owed
<1>12. serial \in {"none", "up"} BY <1>3 DEF LinkTypes
<1>13. Threads'
    BY <1>1, <1>2, <1>3, <1>4, <1>5, <1>6, <1>11, <1>12, SignalsApart DEF Threads, OneSignal, OneTask,
       OneReader, Button, BeforeStart, Started, Failed, Shown, Losing, Runs, Joining,
       InFlight, Owed, Told, Idle, Tasks, Opening, Serving
<1> QED BY <1>7, <1>8, <1>10, <1>13

LEMMA FinishKeeps ==
  ASSUME GatewayInv, NEW t \in Tasks, Finish(t)
  PROVE  GatewayInv'
<1> USE DEF GatewayInv
<1>1. conn[t] = "ended" /\ conn \in [Tasks -> Steps] BY DEF Finish, LinkTypes
<1>2. queue = <<>> /\ \A u \in Tasks : u # t => conn[u] = "idle"
  BY <1>1 DEF Threads, OneTask, Tasks
<1>3. /\ UNCHANGED <<port, serial, running, readers, wire, asked, list, wanted, gone,
                     heard, gauge, panel, join, scans>>
      /\ conn' = [conn EXCEPT ![t] = "idle"] /\ queue' = <<Done(t, TRUE)>>
  BY <1>2, SignalSteps DEF Finish, End, link
<1>4. Quiet /\ Newest \in Serving \cup {"dead"} /\ serial # "dead"
      /\ (serial = "up" => Newest # "dead" \/ ~Idle) /\ (t = "panel" => serial = "up")
  BY <1>1 DEF Threads, Started, Told
<1>5. Newest' = Newest BY <1>3, NewestSame
<1>6. Quiet' BY <1>3, <1>4 DEF Quiet, ShownOff
<1>7. Kept' BY <1>3 DEF Kept
<1>8. PanelTypes' BY <1>3 DEF PanelTypes
<1>9. conn' \in [Tasks -> Steps] BY <1>1, <1>3 DEF Steps
<1>10. LinkTypes' BY <1>3, <1>9 DEF LinkTypes
<1>11. OneSignal' /\ queue' # <<>> /\ queue' # <<Lost>>
       /\ \A u \in Tasks, on \in BOOLEAN : Owed(u, on)' <=> u = t /\ on = TRUE
  BY <1>3, ResultQueued DEF OneSignal, Owed
<1>13. Threads'
    BY <1>1, <1>2, <1>3, <1>4, <1>5, <1>6, <1>11, NothingQueued DEF Threads, OneTask,
       OneReader, Button, BeforeStart, Started, Failed, Shown, Losing, Runs, Joining,
       InFlight, Told, Idle, Tasks, Opening, Serving
<1> QED BY <1>7, <1>8, <1>10, <1>13

-----------------------------------------------------------------------------
(* The reader *)

\* What no reader touches.
beyond == <<port, conn, asked, wanted, gone, panel, join, scans, left>>

\* A reader that is about something holds no task up and finds none before it.
LEMMA ReaderAlone ==
  ASSUME Threads, LinkTypes, Newest # "dead"
  PROVE  \A t \in Tasks : conn[t] \notin Opening /\ ~Owed(t, FALSE)
  BY DEF Threads, BeforeStart, Failed

LEMMA MovesTo ==
  ASSUME LinkTypes, OneReader, NEW r \in DOMAIN readers, readers[r].pc # "dead",
         NEW pc \in Places, Moves(r, pc)
  PROVE  /\ readers' \in Seq([pc : Places, line : Lines, snap : SUBSET Listeners])
         /\ OneReader' /\ Newest = readers[r].pc /\ Newest' = pc
         /\ Len(readers') = Len(readers) /\ readers # <<>> /\ readers' # <<>>
<1>1. [NewReader EXCEPT !.pc = pc] \in [pc : Places, line : Lines, snap : SUBSET Listeners]
  BY DEF NewReader, Lines, Places
<1>2. [NewReader EXCEPT !.pc = pc].pc = pc BY DEF NewReader
<1> QED BY <1>1, <1>2, ReaderMoves DEF Moves

LEMMA QuitKeeps ==
  ASSUME GatewayInv, NEW r \in DOMAIN readers, Quit(r), UNCHANGED beyond
  PROVE  GatewayInv'
<1> USE DEF GatewayInv
<1>1. /\ readers[r].pc = "top" /\ (~running \/ serial = "none") /\ Moves(r, "dead")
      /\ UNCHANGED <<serial, running, wire, heard, gauge, list, queue>>
      /\ UNCHANGED <<port, conn, asked, wanted, gone, panel, join, scans>>
  BY DEF Quit, beyond
<1>2. /\ readers' \in Seq([pc : Places, line : Lines, snap : SUBSET Listeners])
      /\ OneReader' /\ Newest = "top" /\ Newest' = "dead"
      /\ Len(readers') = Len(readers) /\ readers # <<>> /\ readers' # <<>>
  BY <1>1, MovesTo DEF Threads, Places
<1>3. LinkTypes' /\ PanelTypes' /\ Kept' BY <1>1, <1>2 DEF LinkTypes, PanelTypes, Kept
<1>4. \A t \in Tasks : conn[t] \notin Opening /\ ~Owed(t, FALSE) BY <1>2, ReaderAlone
<1>5. serial # "none" => ~Idle BY <1>1, <1>4 DEF Threads, Runs
<1>6. Threads'
  BY <1>1, <1>2, <1>4, <1>5 DEF Threads, OneSignal, OneTask, Button, BeforeStart, Started, Failed, Shown,
     Losing, Runs, Joining, InFlight, Owed, Told, Idle, Tasks, Opening, Serving, Quiet, ShownOff, ShownOn
<1> QED BY <1>3, <1>6

LEMMA TakeKeeps ==
  ASSUME GatewayInv, NEW r \in DOMAIN readers, Take(r), UNCHANGED beyond
  PROVE  GatewayInv'
<1> USE DEF GatewayInv
<1>1. /\ readers[r].pc = "top" /\ running /\ serial = "up" /\ wire # <<>> /\ wire' = Tail(wire)
      /\ UNCHANGED <<serial, running, gauge, list, queue>>
      /\ UNCHANGED <<port, conn, asked, wanted, gone, panel, join, scans>>
  BY DEF Take, beyond
<1>2. wire \in Seq(Lines) /\ Len(wire) <= WireCap /\ Head(wire) \in Lines
      /\ wire' \in Seq(Lines) /\ Len(wire') <= WireCap
  BY <1>1, WireAssumption, HeadTailProperties DEF LinkTypes
<1>3. \E pc \in {"top", "call"} :
      /\ readers' \in Seq([pc : Places, line : Lines, snap : SUBSET Listeners])
      /\ OneReader' /\ Newest = "top" /\ Newest' = pc
      /\ Len(readers') = Len(readers) /\ readers # <<>> /\ readers' # <<>>
  <2>1. CASE Head(wire) = Noise
    BY <1>1, <2>1, MovesTo DEF Threads, Places, Take, AfterBadLine
  <2>2. CASE Head(wire) # Noise
    <3> DEFINE new == [pc |-> "call", line |-> Head(wire), snap |-> list]
    <3>1. new \in [pc : Places, line : Lines, snap : SUBSET Listeners] /\ new.pc = "call"
      BY <1>2 DEF Places, LinkTypes
    <3>2. readers' = [readers EXCEPT ![r] = new] BY <2>2 DEF Take
    <3> HIDE DEF new
    <3> QED BY <1>1, <3>1, <3>2, ReaderMoves DEF Threads
  <2> QED BY <2>1, <2>2
<1>4. heard' \in [known : SUBSET Nodes, fresh : SUBSET Nodes]
  <2>1. Head(wire) # Noise => Head(wire).node \in Nodes BY <1>2 DEF Lines
  <2> QED BY <2>1 DEF Take, LinkTypes
<1>5. LinkTypes' /\ PanelTypes' /\ Kept'
  BY <1>1, <1>2, <1>3, <1>4 DEF LinkTypes, PanelTypes, Kept
<1>6. \A t \in Tasks : conn[t] \notin Opening /\ ~Owed(t, FALSE) BY <1>3, ReaderAlone
<1>7. Threads'
  BY <1>1, <1>3, <1>6 DEF Threads, OneSignal, OneTask, Button, BeforeStart, Started, Failed, Shown,
     Losing, Runs, Joining, InFlight, Owed, Told, Idle, Tasks, Opening, Serving, Quiet, ShownOff, ShownOn
<1> QED BY <1>5, <1>7

LEMMA CallKeeps ==
  ASSUME GatewayInv, NEW r \in DOMAIN readers, Call(r), UNCHANGED beyond
  PROVE  GatewayInv'
<1> USE DEF GatewayInv
<1>1. /\ readers[r].pc = "call" /\ gauge' = Answered(gauge, readers[r].line)
      /\ UNCHANGED <<serial, running, wire, heard, list, queue>>
      /\ UNCHANGED <<port, conn, asked, wanted, gone, panel, join, scans>>
  BY DEF Call, beyond
<1>2. \E pc \in {"top", "prune"} :
      /\ readers' \in Seq([pc : Places, line : Lines, snap : SUBSET Listeners])
      /\ OneReader' /\ Newest = "call" /\ Newest' = pc
      /\ Len(readers') = Len(readers) /\ readers # <<>> /\ readers' # <<>>
  <2>1. CASE readers[r].snap \cap gone = {}
    BY <1>1, <2>1, MovesTo DEF Threads, Places, Call
  <2>2. CASE readers[r].snap \cap gone # {}
    <3> DEFINE new == [readers[r] EXCEPT !.pc = "prune"]
    <3>0. readers \in Seq([pc : Places, line : Lines, snap : SUBSET Listeners]) /\ r \in 1..Len(readers)
      BY DEF LinkTypes
    <3>1. readers[r] \in [pc : Places, line : Lines, snap : SUBSET Listeners]
      BY <3>0, ElementOfSeq
    <3>2. new \in [pc : Places, line : Lines, snap : SUBSET Listeners] /\ new.pc = "prune"
      BY <3>1 DEF Places
    <3>3. readers' = [readers EXCEPT ![r] = new] BY <2>2 DEF Call
    <3> HIDE DEF new
    <3> QED BY <1>1, <3>2, <3>3, ReaderMoves DEF Threads
  <2> QED BY <2>1, <2>2
<1>3. gauge' \in [pend : SUBSET Nodes, lat : SUBSET Nodes]
      /\ (gauge = [pend |-> {}, lat |-> {}] => gauge' = gauge)
  BY <1>1 DEF Answered, PanelTypes
<1>4. LinkTypes' /\ PanelTypes' /\ Kept'
  BY <1>1, <1>2, <1>3 DEF LinkTypes, PanelTypes, Kept
<1>5. \A t \in Tasks : conn[t] \notin Opening /\ ~Owed(t, FALSE) BY <1>2, ReaderAlone
<1>6. ShownOff => ShownOff' BY <1>1, <1>3 DEF ShownOff
<1>7. /\ \A t \in Tasks, ok \in BOOLEAN : Owed(t, ok)' <=> Owed(t, ok)
      /\ \A t \in Tasks : Told(t)' <=> Told(t)
      /\ Idle' <=> Idle
      /\ ShownOn' <=> ShownOn
      /\ InFlight' = InFlight
  BY <1>1 DEF Owed, Told, Idle, ShownOn, InFlight
<1>8. Quiet => Quiet' BY <1>1, <1>6 DEF Quiet
<1>9. Newest \in Serving /\ Newest' \in Serving BY <1>2 DEF Serving
<1>10. OneSignal' /\ OneTask' /\ OneReader' BY <1>1, <1>2 DEF Threads, OneSignal, OneTask
<1>11. Button' BY <1>1, <1>7 DEF Threads, Button, Tasks
<1>12. BeforeStart' BY <1>1, <1>5 DEF BeforeStart
<1>13. Started' BY <1>1, <1>7, <1>8, <1>9 DEF Threads, Started, Serving
<1>14. Failed' BY <1>5, <1>7 DEF Failed
<1>15. Shown' BY <1>1, <1>6, <1>7, <1>9 DEF Threads, Shown, Serving
<1>16. Losing' BY <1>1, <1>9 DEF Threads, Losing, Serving
<1>17. Runs' BY <1>1, <1>7 DEF Threads, Runs
<1>18. Joining' BY <1>1, <1>2, <1>7 DEF Threads, Joining, Tasks
<1> QED BY <1>4, <1>10, <1>11, <1>12, <1>13, <1>14, <1>15, <1>16, <1>17, <1>18 DEF Threads

LEMMA PruneKeeps ==
  ASSUME GatewayInv, NEW r \in DOMAIN readers, Prune(r), UNCHANGED beyond
  PROVE  GatewayInv'
<1> USE DEF GatewayInv
<1>1. /\ readers[r].pc = "prune" /\ list' = list \ gone /\ Moves(r, "top")
      /\ UNCHANGED <<serial, running, wire, heard, gauge, queue>>
      /\ UNCHANGED <<port, conn, asked, wanted, gone, panel, join, scans>>
  BY DEF Prune, Pruned, beyond
<1>2. /\ readers' \in Seq([pc : Places, line : Lines, snap : SUBSET Listeners])
      /\ OneReader' /\ Newest = "prune" /\ Newest' = "top"
      /\ Len(readers') = Len(readers) /\ readers # <<>> /\ readers' # <<>>
  BY <1>1, MovesTo DEF Threads, Places
<1>3. LinkTypes' /\ PanelTypes' /\ Kept' BY <1>1, <1>2 DEF LinkTypes, PanelTypes, Kept
<1>4. \A t \in Tasks : conn[t] \notin Opening /\ ~Owed(t, FALSE) BY <1>2, ReaderAlone
<1>5. Threads'
  BY <1>1, <1>2, <1>4 DEF Threads, OneSignal, OneTask, Button, BeforeStart, Started, Failed, Shown,
     Losing, Runs, Joining, InFlight, Owed, Told, Idle, Tasks, Opening, Serving, Quiet, ShownOff, ShownOn
<1> QED BY <1>3, <1>5

LEMMA ReadErrorKeeps ==
  ASSUME GatewayInv, NEW r \in DOMAIN readers, ReadError(r), UNCHANGED beyond
  PROVE  GatewayInv'
<1> USE DEF GatewayInv
<1>1. /\ readers[r].pc = "top" /\ running /\ serial = "dead" /\ Moves(r, "lost")
      /\ UNCHANGED <<serial, running, wire, heard, gauge, list, queue>>
      /\ UNCHANGED <<port, conn, asked, wanted, gone, panel, join, scans>>
  BY DEF ReadError, beyond
<1>2. /\ readers' \in Seq([pc : Places, line : Lines, snap : SUBSET Listeners])
      /\ OneReader' /\ Newest = "top" /\ Newest' = "lost"
      /\ Len(readers') = Len(readers) /\ readers # <<>> /\ readers' # <<>>
  BY <1>1, MovesTo DEF Threads, Places
<1>3. LinkTypes' /\ PanelTypes' /\ Kept' BY <1>1, <1>2 DEF LinkTypes, PanelTypes, Kept
<1>4. \A t \in Tasks : conn[t] = "idle" /\ ~Owed(t, FALSE) /\ ~Owed(t, TRUE)
  BY <1>1, <1>2, ReaderAlone DEF Threads, Started, Told, LinkTypes, Steps, Opening
<1>5. queue = <<>> /\ InFlight = {}
  BY <1>1, <1>4, Queued DEF Threads, Losing, InFlight, Owed, Tasks
<1>6. Threads'
  BY <1>1, <1>2, <1>4, <1>5 DEF Threads, OneSignal, OneTask, Button, BeforeStart, Started, Failed, Shown,
     Losing, Runs, Joining, InFlight, Owed, Told, Idle, Tasks, Opening, Serving, Quiet, ShownOff, ShownOn
<1> QED BY <1>3, <1>6

LEMMA TearDownKeeps ==
  ASSUME GatewayInv, NEW r \in DOMAIN readers, TearDown(r), UNCHANGED beyond
  PROVE  GatewayInv'
<1> USE DEF GatewayInv
<1>1. /\ readers[r].pc = "lost" /\ serial' = "none" /\ running' = FALSE /\ Moves(r, "notify")
      /\ UNCHANGED <<wire, heard, gauge, list, queue>>
      /\ UNCHANGED <<port, conn, asked, wanted, gone, panel, join, scans>>
  BY DEF TearDown, beyond
<1>2. /\ readers' \in Seq([pc : Places, line : Lines, snap : SUBSET Listeners])
      /\ OneReader' /\ Newest = "lost" /\ Newest' = "notify"
      /\ Len(readers') = Len(readers) /\ readers # <<>> /\ readers' # <<>>
  BY <1>1, MovesTo DEF Threads, Places
<1>3. LinkTypes' /\ PanelTypes' /\ Kept' BY <1>1, <1>2 DEF LinkTypes, PanelTypes, Kept
<1>4. InFlight = {} /\ queue = <<>> /\ conn["auto"] = "idle" /\ conn["panel"] = "idle"
  BY <1>2, FlightTasks DEF Threads, Losing
<1>5. \A t \in Tasks : ~Owed(t, FALSE) /\ ~Owed(t, TRUE) BY <1>4, NothingQueued
<1>6. Threads'
  BY <1>1, <1>2, <1>4, <1>5 DEF Threads, OneSignal, OneTask, Button, BeforeStart, Started, Failed, Shown,
     Losing, Runs, Joining, InFlight, Owed, Told, Idle, Tasks, Opening, Serving, Quiet, ShownOff, ShownOn
<1> QED BY <1>3, <1>6

LEMMA NotifyKeeps ==
  ASSUME GatewayInv, NEW r \in DOMAIN readers, Notify(r), UNCHANGED beyond
  PROVE  GatewayInv'
<1> USE DEF GatewayInv
<1>1. /\ readers[r].pc = "notify" /\ queue' = Append(queue, Lost) /\ Moves(r, "dead")
      /\ UNCHANGED <<serial, running, wire, heard, gauge, list>>
      /\ UNCHANGED <<port, conn, asked, wanted, gone, panel, join, scans>>
  BY DEF Notify, Tell, beyond
<1>2. /\ readers' \in Seq([pc : Places, line : Lines, snap : SUBSET Listeners])
      /\ OneReader' /\ Newest = "notify" /\ Newest' = "dead"
      /\ Len(readers') = Len(readers) /\ readers # <<>> /\ readers' # <<>>
  BY <1>1, MovesTo DEF Threads, Places
<1>3. LinkTypes' /\ PanelTypes' /\ Kept' BY <1>1, <1>2 DEF LinkTypes, PanelTypes, Kept
<1>4. InFlight = {} /\ queue = <<>> /\ conn["auto"] = "idle" /\ conn["panel"] = "idle"
      /\ serial = "none"
  BY <1>2, FlightTasks DEF Threads, Losing
<1>5. queue' = <<Lost>> BY <1>1, <1>4, SignalSteps
<1>6. \A t \in Tasks, ok \in BOOLEAN : ~Owed(t, ok) /\ ~Owed(t, ok)'
  BY <1>4, <1>5, NothingQueued, LossQueued
<1>7. OneSignal' /\ queue' # <<>> BY <1>5, LossQueued
<1>8. Threads'
  BY <1>1, <1>2, <1>4, <1>5, <1>6, <1>7 DEF Threads, OneTask, Button, BeforeStart, Started, Failed, Shown,
     Losing, Runs, Joining, InFlight, Told, Idle, Tasks, Opening, Serving, Quiet, ShownOff, ShownOn
<1> QED BY <1>3, <1>8

LEMMA ReaderKeeps ==
  ASSUME GatewayInv, NEW r \in DOMAIN readers, Reader(r)
  PROVE  GatewayInv'
<1>1. UNCHANGED beyond BY DEF Reader, beyond
<1> QED
  BY <1>1, QuitKeeps, TakeKeeps, CallKeeps, PruneKeeps, ReadErrorKeeps, TearDownKeeps,
     NotifyKeeps DEF Reader

-----------------------------------------------------------------------------
(* The panel *)

\* Forgotten readings are readings.
LEMMA GoneDark ==
  ASSUME PanelTypes, ReflectDisconnected
  PROVE  PanelTypes' /\ ShownOff' /\ panel'.enabled = panel.enabled
  BY DEF ReflectDisconnected, Disconnected, PanelTypes, ShownOff

LEMMA JoinedKeeps == ASSUME GatewayInv, Joined PROVE GatewayInv'
<1> USE DEF GatewayInv
<1>1. /\ ~Idle /\ (join > 0 => readers[join].pc = "dead")
      /\ serial' = "none" /\ wire' = <<>> /\ heard' = Forgotten /\ join' = NotJoining
      /\ UNCHANGED <<port, running, readers, conn, asked, list, wanted, gone, queue, scans>>
  BY DEF Joined
<1>2. PanelTypes' /\ ShownOff' /\ panel'.enabled = panel.enabled BY GoneDark DEF Joined
<1>3. LinkTypes' BY <1>1, WireAssumption DEF LinkTypes, Forgotten, NotJoining
<1>4. Kept' BY <1>1 DEF Kept
<1>5. Newest' = Newest BY <1>1, NewestSame
<1>6. Quiet => Quiet' BY <1>1, <1>2 DEF Quiet
<1>7. Idle' BY <1>1 DEF Idle
<1>8. OneSignal' /\ OneTask' /\ OneReader' BY <1>1 DEF Threads, OneSignal, OneTask, OneReader
<1>9. \A t \in Tasks : /\ Told(t)' <=> Told(t)
                       /\ \A ok \in BOOLEAN : Owed(t, ok)' <=> Owed(t, ok)
  BY <1>1 DEF Told, Owed
<1>10. /\ ~Owed("panel", TRUE) /\ ~Owed("panel", FALSE) /\ conn["panel"] = "idle"
       /\ panel.enabled
  BY <1>1 DEF Threads, Button
<1>11. ~Told("panel") BY <1>10 DEF Told
<1>12. InFlight = {} /\ queue = <<>> => Newest # "notify" \/ serial = "none"
  BY DEF Threads, Losing
<1>13. InFlight = {} /\ queue = <<>> => join > 0 /\ join = Len(readers)
  BY <1>1, NothingQueued, FlightTasks DEF Threads, Joining, Tasks
<1>14. join > 0 /\ join = Len(readers) => Newest = "dead" BY <1>1 DEF Newest
<1>15. Newest \notin {"lost", "notify"}
  BY <1>13, <1>14 DEF Threads, Losing
<1>16. InFlight' = InFlight BY <1>1 DEF InFlight
<1>17. BeforeStart' /\ Started' /\ Failed'
  BY <1>1, <1>5, <1>6, <1>7, <1>9, <1>10, <1>11 DEF Threads, BeforeStart, Started, Failed, Tasks, Opening
<1>18. Button' /\ Shown' /\ Losing' /\ Runs' /\ Joining'
  BY <1>1, <1>2, <1>5, <1>7, <1>9, <1>10, <1>15, <1>16 DEF Threads, Button, Shown, Losing, Runs, Joining, Tasks
<1> QED BY <1>2, <1>3, <1>4, <1>8, <1>17, <1>18 DEF Threads

LEMMA ScanWindowEndsKeeps == ASSUME GatewayInv, ScanWindowEnds PROVE GatewayInv'
<1> USE DEF GatewayInv
<1>1. /\ Idle /\ scans > 0 /\ scans' = scans - 1
      /\ panel' = IF IsConnected THEN [panel EXCEPT !.scan = "ready", !.label = "on"]
                  ELSE [panel EXCEPT !.scan = "off"]
      /\ UNCHANGED <<port, serial, running, readers, conn, wire, asked, list, wanted, gone,
                     heard, gauge, queue, join>>
  BY DEF ScanWindowEnds, link
<1>2. LinkTypes' /\ Kept' BY <1>1 DEF LinkTypes, Kept
<1>3. PanelTypes' BY <1>1 DEF PanelTypes
<1>4. \A t \in Tasks : conn[t] = "idle" /\ ~Owed(t, TRUE) /\ ~Owed(t, FALSE)
  <2>1. ~Quiet BY <1>1 DEF Quiet
  <2>2. \A t \in Tasks : conn[t] \notin Opening /\ ~Told(t) /\ ~Owed(t, FALSE)
    BY <2>1 DEF Threads, BeforeStart, Started, Failed
  <2>3. conn \in [Tasks -> Steps] BY DEF LinkTypes
  <2>4. \A t \in Tasks : conn[t] \in Steps BY <2>3
  <2> QED BY <2>2, <2>4 DEF Told, Steps, Opening
<1>5. InFlight = {} /\ (queue = <<>> \/ queue = <<Lost>>)
  BY <1>4, Queued DEF InFlight, Owed
<1>6. Newest' = Newest BY <1>1, NewestSame
<1>7. panel'.enabled = panel.enabled BY <1>1, <1>3 DEF PanelTypes
<1>8. (IsConnected /\ ShownOn => ShownOn') /\ (~IsConnected /\ ShownOff => ShownOff')
  BY <1>1, <1>3 DEF PanelTypes, ShownOn, ShownOff
<1>9. InFlight' = InFlight /\ (Idle' <=> Idle) BY <1>1 DEF InFlight, Idle
<1>10. \A t \in Tasks : ~Told(t)' /\ conn'[t] = "idle" /\ ~Owed(t, TRUE)' /\ ~Owed(t, FALSE)'
  BY <1>1, <1>4 DEF Told, Owed
<1>11. OneSignal' /\ OneTask' /\ OneReader' BY <1>1 DEF Threads, OneSignal, OneTask, OneReader
<1>12. Button' /\ BeforeStart' /\ Started' /\ Failed'
  BY <1>1, <1>4, <1>7, <1>9, <1>10 DEF Threads, Button, BeforeStart, Started, Failed, Opening, Tasks
<1>13. Shown' /\ Losing' /\ Runs' /\ Joining'
  BY <1>1, <1>4, <1>5, <1>6, <1>8, <1>9 DEF Threads, Shown, Losing, Runs, Joining, IsConnected
<1> QED BY <1>2, <1>3, <1>11, <1>12, <1>13 DEF Threads

LEMMA GotLostKeeps == ASSUME GatewayInv, GotLost PROVE GatewayInv'
<1> USE DEF GatewayInv
<1>1. /\ Idle /\ queue # <<>> /\ Head(queue) = Lost /\ queue' = Tail(queue)
      /\ UNCHANGED <<port, serial, running, readers, conn, wire, asked, list, wanted, gone,
                     heard, join, scans>>
  BY DEF GotLost, Next1, link
<1>2. queue = <<Lost>> /\ queue' = <<>>
  <2>1. \A t \in Tasks, ok \in BOOLEAN : Done(t, ok) # Lost BY DEF Done, Lost
  <2> QED BY <1>1, <2>1, Queued, SignalSteps
<1>3. serial = "none" /\ Newest = "dead" BY <1>2 DEF Threads, Losing
<1>4. PanelTypes' /\ ShownOff' /\ panel'.enabled = panel.enabled
  BY <1>3, GoneDark DEF GotLost, IsConnected
<1>5. LinkTypes' /\ Kept' BY <1>1 DEF LinkTypes, Kept
<1>6. \A t \in Tasks : conn[t] = "idle" /\ \A ok \in BOOLEAN : ~Owed(t, ok) /\ ~Owed(t, ok)'
  BY <1>2, LossQueued, NothingQueued DEF Threads, OneTask
<1>7. Newest' = Newest BY <1>1, NewestSame
<1>8. OneSignal' /\ queue' # <<Lost>> BY <1>2, NothingQueued
<1>9. Threads'
  BY <1>1, <1>2, <1>3, <1>4, <1>6, <1>7, <1>8 DEF Threads, OneTask, OneReader, Button, BeforeStart,
     Started, Failed, Shown, Losing, Runs, Joining, InFlight, Told, Idle, Tasks, Opening, Serving
<1> QED BY <1>4, <1>5, <1>9

LEMMA GotDoneKeeps ==
  ASSUME GatewayInv, NEW t \in Tasks, NEW ok \in BOOLEAN, GotDone(t, ok)
  PROVE  GatewayInv'
<1> USE DEF GatewayInv
<1>1. /\ Idle /\ queue # <<>> /\ Head(queue) = Done(t, ok) /\ queue' = Tail(queue)
      /\ UNCHANGED <<port, serial, running, readers, conn, wire, list, wanted, gone, join>>
  BY DEF GotDone, Next1, link
<1>2. queue = <<Done(t, ok)>> /\ queue' = <<>>
  <2>1. Done(t, ok) # Lost BY DEF Done, Lost
  <2> QED BY <1>1, <2>1, Queued, SignalSteps
<1>3. Owed(t, ok) /\ \A u \in Tasks, on \in BOOLEAN : Owed(u, on) => u = t /\ on = ok
  BY <1>2, ResultQueued DEF Owed
<1>4. \A u \in Tasks : conn[u] = "idle" /\ \A on \in BOOLEAN : ~Owed(u, on)'
  BY <1>2, ResultQueued, NothingQueued DEF Threads, OneTask
<1>5. OneSignal' /\ queue' # <<Lost>> BY <1>2, NothingQueued
<1>6. ok => /\ Quiet /\ serial # "dead" /\ Newest \in Serving \cup {"dead"}
            /\ (serial = "up" => Newest \in Serving) /\ (t = "panel" => serial = "up")
  BY <1>1, <1>3 DEF Threads, Started, Told
<1>7. ~ok => Quiet /\ serial = "none" /\ Newest = "dead"
  BY <1>3 DEF Threads, Failed
<1>8. /\ PanelTypes' /\ panel'.enabled
      /\ asked' \subseteq Nodes /\ heard' \in [known : SUBSET Nodes, fresh : SUBSET Nodes]
      /\ scans' \in Nat
      /\ IF serial = "none" THEN ShownOff' ELSE ShownOn'
  <2>1. t = "auto" => panel.enabled BY <1>3, <1>4 DEF Threads, Button, Tasks
  <2>2. CASE ok /\ serial # "none"
    <3>1. PICK scanNow \in BOOLEAN : ShowConnected(t, scanNow)
      BY <2>2 DEF GotDone, IsConnected
    <3>2. /\ panel' = [label |-> "on", enabled |-> panel.enabled \/ t = "panel",
                       scan |-> IF scanNow THEN "scanning" ELSE "ready", polling |-> TRUE]
          /\ \E old \in SUBSET gauge.pend : gauge' = Swept(gauge, old)
          /\ asked' = PingsOut
          /\ (heard' = ScanRef /\ scans' = scans + 1) \/ (heard' = heard /\ scans' = scans)
      BY <2>2, <3>1 DEF ShowConnected, IsConnected
    <3>3. panel'.enabled /\ ShownOn' BY <2>1, <3>2 DEF ShownOn, Tasks
    <3>4. panel' \in [label : {"off", "connecting", "failed", "on"}, enabled : BOOLEAN,
                      scan : {"off", "ready", "scanning"}, polling : BOOLEAN]
      BY <3>2 DEF PanelTypes
    <3>5. gauge' \in [pend : SUBSET Nodes, lat : SUBSET Nodes]
      BY <3>2 DEF Swept, Pinged, PanelTypes
    <3>6. asked' \subseteq Nodes BY <3>2 DEF PingsOut, LinkTypes
    <3>7. heard' \in [known : SUBSET Nodes, fresh : SUBSET Nodes] /\ scans' \in Nat
      BY <3>2 DEF ScanRef, LinkTypes
    <3> QED BY <2>2, <3>3, <3>4, <3>5, <3>6, <3>7 DEF PanelTypes
  <2>3. CASE ok /\ serial = "none"
    <3>1. t = "auto" BY <1>6, <2>3 DEF Tasks
    <3>2. ReflectDisconnected /\ UNCHANGED <<asked, heard, scans>>
      BY <2>3, <3>1 DEF GotDone, IsConnected
    <3> QED BY <2>1, <2>3, <3>1, <3>2, GoneDark DEF LinkTypes
  <2>4. CASE ~ok
    <3>1. /\ panel' = IF t = "auto" THEN panel
                      ELSE [panel EXCEPT !.enabled = TRUE, !.label = "failed"]
          /\ UNCHANGED <<gauge, asked, heard, scans>>
      BY <2>4 DEF GotDone
    <3>2. PanelTypes' BY <3>1 DEF PanelTypes
    <3>3. ShownOff' BY <1>7, <2>4, <3>1 DEF Quiet, ShownOff, PanelTypes
    <3>4. panel'.enabled BY <2>1, <3>1 DEF PanelTypes
    <3> QED BY <1>7, <2>4, <3>1, <3>2, <3>3, <3>4 DEF LinkTypes
  <2> QED BY <2>2, <2>3, <2>4
<1>9. LinkTypes' /\ Kept' BY <1>1, <1>8 DEF LinkTypes, Kept
<1>10. Newest' = Newest BY <1>1, NewestSame
<1>11. serial \in {"none", "up"} BY <1>6, <1>7 DEF LinkTypes
<1>12. Runs' BY <1>1 DEF Threads, Runs, Idle
<1>13. Threads'
  BY <1>1, <1>2, <1>4, <1>5, <1>6, <1>7, <1>8, <1>10, <1>11, <1>12 DEF Threads, OneTask, OneReader, Button,
     BeforeStart, Started, Failed, Shown, Losing, Joining, InFlight, Told, Idle, Tasks,
     Opening, Serving
<1> QED BY <1>8, <1>9, <1>13

LEMMA PollLatencyKeeps == ASSUME GatewayInv, PollLatency PROVE GatewayInv'
<1> USE DEF GatewayInv
<1>1. /\ panel.polling /\ gauge' = Swept(gauge, gauge.pend) /\ asked' = PingsOut
      /\ UNCHANGED <<port, serial, running, readers, conn, wire, list, wanted, gone, heard,
                     panel, queue, join, scans>>
  BY DEF PollLatency, link
<1>2. PanelTypes' BY <1>1 DEF Swept, Pinged, PanelTypes
<1>3. LinkTypes' /\ Kept' BY <1>1 DEF LinkTypes, Kept, PingsOut
<1>4. ~ShownOff /\ ~Quiet BY <1>1 DEF ShownOff, Quiet
<1>5. ShownOn' <=> ShownOn BY <1>1 DEF ShownOn
<1>6. Newest' = Newest BY <1>1, NewestSame
<1>7. /\ InFlight' = InFlight
      /\ Idle' <=> Idle
      /\ \A t \in Tasks : /\ Told(t)' <=> Told(t)
                          /\ \A ok \in BOOLEAN : Owed(t, ok)' <=> Owed(t, ok)
  BY <1>1 DEF InFlight, Idle, Told, Owed
<1>8. OneSignal' /\ OneTask' /\ OneReader' BY <1>1 DEF Threads, OneSignal, OneTask, OneReader
<1>9. Button' /\ BeforeStart' /\ Started' /\ Failed'
  BY <1>1, <1>4, <1>7 DEF Threads, Button, BeforeStart, Started, Failed, Tasks
<1>10. Shown' /\ Losing' /\ Runs' /\ Joining'
  BY <1>1, <1>4, <1>5, <1>6, <1>7 DEF Threads, Shown, Losing, Runs, Joining, Tasks
<1> QED BY <1>2, <1>3, <1>8, <1>9, <1>10 DEF Threads

LEMMA ClickConnectKeeps == ASSUME ~Hasty, GatewayInv, ClickConnect PROVE GatewayInv'
<1> USE DEF GatewayInv
<1>1. /\ Idle /\ panel.enabled /\ serial = "none"
      /\ InFlight = {} /\ queue = <<>> /\ Alive = {} /\ scans = 0
      /\ conn' = [conn EXCEPT !.panel = "open"]
      /\ panel' = [panel EXCEPT !.enabled = FALSE, !.label = "connecting"]
      /\ UNCHANGED <<port, serial, running, readers, wire, asked, list, wanted, gone, heard,
                     gauge, queue, join, scans>>
  BY DEF ClickConnect, UserSettled, IsConnected, link
<1>2. LinkTypes' /\ Kept' BY <1>1 DEF LinkTypes, Kept, Steps, Tasks
<1>3. PanelTypes' BY <1>1 DEF PanelTypes
<1>4. conn["auto"] = "idle" /\ conn'["auto"] = "idle" /\ conn'["panel"] = "open"
  BY <1>1, FlightTasks DEF LinkTypes, Tasks
<1>5. Newest = "dead" /\ Newest' = "dead"
  <2>1. readers \in Seq([pc : Places, line : Lines, snap : SUBSET Listeners]) BY DEF LinkTypes
  <2>2. readers # <<>> => Len(readers) \in Nat \ {0} BY <2>1, EmptySeq
  <2>3. readers # <<>> => Len(readers) \in DOMAIN readers BY <2>1, <2>2, LenProperties
  <2>4. \A r \in DOMAIN readers : readers[r].pc = "dead" BY <1>1 DEF Alive
  <2> QED BY <1>1, <2>3, <2>4 DEF Newest
<1>6. ShownOff BY <1>1, <1>5 DEF Threads, Shown
<1>7. Quiet' BY <1>1, <1>6 DEF Quiet, ShownOff, PanelTypes
<1>8. \A t \in Tasks, ok \in BOOLEAN : ~Owed(t, ok) /\ ~Owed(t, ok)'
  BY <1>1, NothingQueued
<1>9. ~panel'.enabled BY <1>1 DEF PanelTypes
<1>10. Threads'
  BY <1>1, <1>4, <1>5, <1>7, <1>8, <1>9 DEF Threads, OneSignal, OneTask, OneReader, Button, BeforeStart,
     Started, Failed, Shown, Losing, Runs, Joining, InFlight, Told, Idle, Tasks, Opening,
     Serving
<1> QED BY <1>2, <1>3, <1>10

LEMMA ClickDisconnectKeeps == ASSUME GatewayInv, ClickDisconnect PROVE GatewayInv'
<1> USE DEF GatewayInv
<1>1. /\ Idle /\ panel.enabled /\ serial # "none" /\ running' = FALSE /\ join' = Len(readers)
      /\ UNCHANGED <<port, serial, readers, conn, wire, asked, list, wanted, gone, heard,
                     gauge, panel, queue, scans>>
  BY DEF ClickDisconnect, IsConnected
<1>2. Newest \in Places /\ Len(readers) \in Nat BY NewestPlace
<1>3. LinkTypes' /\ PanelTypes' /\ Kept'
  <2>1. running' \in BOOLEAN BY <1>1
  <2>2. join' \in Int BY <1>1, <1>2
  <2> QED BY <1>1, <2>1, <2>2 DEF LinkTypes, PanelTypes, Kept
<1>4. Newest' = Newest BY <1>1, NewestSame
<1>5. ~Idle' BY <1>1, <1>2 DEF Idle, NotJoining
<1>6. /\ conn["panel"] = "idle"
      /\ ~Owed("panel", TRUE) /\ ~Owed("panel", FALSE) /\ ~Told("panel")
  BY <1>1 DEF Threads, Button, Told
<1>7. ASSUME readers = <<>>
      PROVE  join' = 0 /\ conn["auto"] \in {"verify", "start", "ended"}
  <2>1. Newest = "dead" /\ join' = 0 BY <1>1, <1>7 DEF Newest
  <2>2. ~Told("auto") /\ ~Owed("auto", FALSE) /\ ~Owed("auto", TRUE)
    <3>1. serial \in {"up", "dead"} BY <1>1 DEF LinkTypes
    <3>2. ~Told("auto") BY <1>1, <2>1, <3>1 DEF Threads, Started, Tasks
    <3>3. ~Owed("auto", FALSE) BY <1>1 DEF Threads, Failed, Tasks
    <3> QED BY <3>2, <3>3 DEF Told
  <2>3. queue # <<Lost>> BY <1>1 DEF Threads, Losing
  <2>4. queue = <<>> BY <1>6, <2>2, <2>3, Queued DEF Owed, Tasks
  <2>5. serial \in {"up", "dead"} BY <1>1 DEF LinkTypes
  <2>6. InFlight # {} BY <1>1, <2>1, <2>4, <2>5 DEF Threads, Shown, Serving
  <2>7. conn["auto"] \in {"verify", "start", "ended"}
    <3>1. conn["auto"] # "idle" BY <1>6, <2>6, FlightTasks
    <3>2. conn["auto"] # "open" BY <1>1 DEF Threads, BeforeStart, Tasks, Opening
    <3>3. conn["auto"] \in Steps BY DEF LinkTypes, Tasks
    <3> QED BY <3>1, <3>2, <3>3 DEF Steps
  <2> QED BY <2>1, <2>7
<1>8. readers # <<>> => Len(readers) > 0
  <2>1. readers \in Seq([pc : Places, line : Lines, snap : SUBSET Listeners]) BY DEF LinkTypes
  <2> QED BY <2>1, EmptySeq
<1>9. Joining' BY <1>1, <1>7, <1>8 DEF Joining
<1>10. /\ InFlight' = InFlight
       /\ Quiet' <=> Quiet
       /\ ShownOn' <=> ShownOn
       /\ ShownOff' <=> ShownOff
       /\ \A t \in Tasks : /\ Told(t)' <=> Told(t)
                           /\ \A ok \in BOOLEAN : Owed(t, ok)' <=> Owed(t, ok)
  BY <1>1 DEF InFlight, Quiet, ShownOn, ShownOff, Told, Owed
<1>11. OneSignal' /\ OneTask' /\ OneReader' BY <1>1 DEF Threads, OneSignal, OneTask, OneReader
<1>12. Button' /\ BeforeStart' /\ Started' /\ Failed'
  BY <1>1, <1>4, <1>5, <1>6, <1>10 DEF Threads, Button, BeforeStart, Started, Failed, Tasks
<1>13. Shown' /\ Losing' /\ Runs'
  BY <1>1, <1>4, <1>5, <1>10 DEF Threads, Shown, Losing, Runs
<1> QED BY <1>3, <1>9, <1>11, <1>12, <1>13 DEF Threads

\* A scan asked for without a link only marks a panel that is about to be cleared.
LEMMA ClickScanKeeps == ASSUME GatewayInv, ClickScan PROVE GatewayInv'
<1> USE DEF GatewayInv
<1>1. /\ Idle /\ panel.scan = "ready" /\ panel' = [panel EXCEPT !.scan = "scanning"]
      /\ UNCHANGED <<port, serial, running, readers, conn, wire, list, wanted, gone, gauge,
                     queue, join>>
  BY DEF ClickScan, link
<1>2. /\ asked' \subseteq Nodes /\ heard' \in [known : SUBSET Nodes, fresh : SUBSET Nodes]
      /\ scans' \in Nat
  <2>1. asked' = PingsOut \/ asked' = asked BY DEF ClickScan
  <2>2. heard' = ScanRef \/ heard' = heard BY DEF ClickScan
  <2>3. scans' = scans + 1 \/ scans' = scans BY DEF ClickScan
  <2>4. ScanRef \in [known : SUBSET Nodes, fresh : SUBSET Nodes] BY DEF ScanRef, LinkTypes
  <2> QED BY <2>1, <2>2, <2>3, <2>4 DEF PingsOut, LinkTypes
<1>3. LinkTypes' /\ Kept' BY <1>1, <1>2 DEF LinkTypes, Kept
<1>4. PanelTypes' /\ panel'.enabled = panel.enabled /\ (ShownOn => ShownOn')
  BY <1>1 DEF PanelTypes, ShownOn
<1>5. ~ShownOff /\ ~Quiet BY <1>1 DEF ShownOff, Quiet
<1>6. Newest' = Newest BY <1>1, NewestSame
<1>7. /\ InFlight' = InFlight
      /\ Idle' <=> Idle
      /\ \A t \in Tasks : /\ Told(t)' <=> Told(t)
                          /\ \A ok \in BOOLEAN : Owed(t, ok)' <=> Owed(t, ok)
  BY <1>1 DEF InFlight, Idle, Told, Owed
<1>8. OneSignal' /\ OneTask' /\ OneReader' BY <1>1 DEF Threads, OneSignal, OneTask, OneReader
<1>9. Button' /\ BeforeStart' /\ Started' /\ Failed'
  BY <1>1, <1>4, <1>5, <1>7 DEF Threads, Button, BeforeStart, Started, Failed, Tasks
<1>10. Shown' /\ Losing' /\ Runs' /\ Joining'
  BY <1>1, <1>4, <1>5, <1>6, <1>7 DEF Threads, Shown, Losing, Runs, Joining, Tasks
<1> QED BY <1>3, <1>4, <1>8, <1>9, <1>10 DEF Threads

LEMMA ListenerKeeps ==
  ASSUME GatewayInv, NEW l \in Listeners, Listener(l)
  PROVE  GatewayInv'
<1> USE DEF GatewayInv
<1>1. UNCHANGED <<port, serial, running, readers, conn, wire, asked, heard, gauge, panel, queue,
                  join, scans>>
  BY DEF Listener, link
<1>2. Threads' BY <1>1, ThreadsSame DEF looked
<1>3. Register(l) \/ Deregister(l) \/ Collect(l) BY DEF Listener
<1>4. list' \subseteq Listeners /\ wanted' \subseteq Listeners /\ gone' \subseteq Listeners
  BY <1>3 DEF LinkTypes, Register, Deregister, Collect
<1>5. Kept' BY <1>3 DEF Kept, Register, Deregister, Collect
<1>6. LinkTypes' /\ PanelTypes' BY <1>1, <1>4 DEF LinkTypes, PanelTypes
<1> QED BY <1>2, <1>5, <1>6

-----------------------------------------------------------------------------
(* Outside the PC *)

LEMMA UnplugKeeps ==
  ASSUME ~Hasty, GatewayInv, Unplug,
         UNCHANGED <<running, readers, conn, list, wanted, gone, heard, gauge, panel, queue,
                     join, scans>>
  PROVE  GatewayInv'
<1> USE DEF GatewayInv
<1>1. /\ ~ResultPending /\ port' = [port EXCEPT !.plugged = FALSE]
      /\ serial' = IF serial = "up" THEN "dead" ELSE serial
      /\ wire' = <<>> /\ asked' = asked
  BY DEF Unplug, CableSettled
<1>2. LinkTypes' /\ PanelTypes' /\ Kept'
  <2>1. port' \in [plugged : BOOLEAN, powered : SUBSET Nodes] BY <1>1 DEF LinkTypes
  <2>2. wire' \in Seq(Lines) /\ Len(wire') <= WireCap BY <1>1, WireAssumption
  <2>3. serial' \in {"none", "up", "dead"} BY <1>1 DEF LinkTypes
  <2> QED BY <1>1, <2>1, <2>2, <2>3 DEF LinkTypes, PanelTypes, Kept
<1>3. Newest' = Newest BY NewestSame
<1>4. \A t \in Tasks : conn[t] \notin {"start", "ended"} /\ \A ok \in BOOLEAN : ~Owed(t, ok)
  <2>1. \A t \in Tasks : conn[t] \notin {"start", "ended"} BY <1>1 DEF ResultPending
  <2>2. ASSUME NEW t \in Tasks, NEW ok \in BOOLEAN, Owed(t, ok) PROVE FALSE
    <3>1. Done(t, ok) \in Range(queue) BY <2>2 DEF Owed, Range
    <3> QED BY <1>1, <3>1 DEF ResultPending, Done
  <2> QED BY <2>1, <2>2
<1>5. \A t \in Tasks : ~Told(t) BY <1>4 DEF Told
<1>6. /\ InFlight' = InFlight
      /\ Idle' <=> Idle
      /\ Quiet' <=> Quiet
      /\ ShownOn' <=> ShownOn
      /\ ShownOff' <=> ShownOff
      /\ \A t \in Tasks : /\ Told(t)' <=> Told(t)
                          /\ \A ok \in BOOLEAN : Owed(t, ok)' <=> Owed(t, ok)
  BY DEF InFlight, Idle, Quiet, ShownOn, ShownOff, Told, Owed
<1>7. OneSignal' /\ OneTask' /\ OneReader' BY DEF Threads, OneSignal, OneTask, OneReader
<1>8. Button' /\ BeforeStart' /\ Started' /\ Failed'
  BY <1>1, <1>3, <1>4, <1>5, <1>6 DEF Threads, Button, BeforeStart, Started, Failed, Tasks
<1>9. Shown' /\ Losing' /\ Runs' /\ Joining'
  BY <1>1, <1>3, <1>6 DEF Threads, Shown, Losing, Runs, Joining, Tasks
<1> QED BY <1>2, <1>7, <1>8, <1>9 DEF Threads

LEMMA SendsLine ==
  ASSUME LinkTypes, NEW line \in Lines, Sends(line)
  PROVE  wire' \in Seq(Lines) /\ Len(wire') <= WireCap
  BY WireAssumption DEF LinkTypes, Sends

LEMMA OutsideKeeps == ASSUME ~Hasty, GatewayInv, Outside PROVE GatewayInv'
<1> USE DEF GatewayInv
<1>1. UNCHANGED <<running, readers, conn, list, wanted, gone, heard, gauge, panel, queue,
                  join, scans>>
  BY DEF Outside
<1>2. CASE Unplug BY <1>1, <1>2, UnplugKeeps
<1>3. ASSUME serial' = serial, port' \in [plugged : BOOLEAN, powered : SUBSET Nodes],
             asked' \subseteq Nodes, wire' \in Seq(Lines) /\ Len(wire') <= WireCap
      PROVE  GatewayInv'
  <2>1. LinkTypes' /\ PanelTypes' /\ Kept' BY <1>1, <1>3 DEF LinkTypes, PanelTypes, Kept
  <2>2. Threads' BY <1>1, <1>3, ThreadsSame DEF looked
  <2> QED BY <2>1, <2>2
<1>4. CASE Plug BY <1>3, <1>4 DEF Plug, LinkTypes
<1>5. CASE Says
  <2>1. PICK line \in {Noise} \cup [node : port.powered, kind : {"status"}] : Sends(line)
    BY <1>5 DEF Says
  <2>2. line \in Lines BY DEF Lines, LinkTypes
  <2> QED BY <1>3, <1>5, <2>1, <2>2, SendsLine DEF Says, LinkTypes
<1>6. ASSUME NEW n \in Nodes, Power(n) PROVE GatewayInv'
  <2>1. port' \in [plugged : BOOLEAN, powered : SUBSET Nodes] BY <1>6 DEF Power, LinkTypes
  <2> QED BY <1>3, <1>6, <2>1 DEF Power, LinkTypes
<1>7. ASSUME NEW n \in Nodes, Pong(n) PROVE GatewayInv'
  <2>1. [node |-> n, kind |-> "pong"] \in Lines BY DEF Lines
  <2>2. wire' \in Seq(Lines) /\ Len(wire') <= WireCap
    BY <1>7, <2>1, SendsLine DEF Pong, LinkTypes
  <2> QED BY <1>3, <1>7, <2>2 DEF Pong, LinkTypes
<1> QED BY <1>2, <1>4, <1>5, <1>6, <1>7 DEF Outside

-----------------------------------------------------------------------------
(* All of it *)

LEMMA GatewayStarts == Init => GatewayInv
<1> SUFFICES ASSUME Init PROVE GatewayInv OBVIOUS
<1>1. /\ port = [plugged |-> TRUE, powered |-> Nodes]
      /\ serial = "none" /\ running = FALSE /\ readers = <<>>
      /\ conn \in [panel : {"idle"}, auto : {"idle", "open"}]
      /\ wire = <<>> /\ asked = {} /\ list \subseteq Listeners /\ wanted = list /\ gone = {}
      /\ heard = [known |-> {}, fresh |-> {}] /\ gauge = [pend |-> {}, lat |-> {}]
      /\ panel = [label |-> "off", enabled |-> TRUE, scan |-> "off", polling |-> FALSE]
      /\ queue = <<>> /\ join = -1 /\ scans = 0
  <2>1. conn \in [panel : {"idle"}, auto : {"idle"} \cup IF left.startup > 0 THEN {"open"} ELSE {}]
    BY DEF Init
  <2>2. conn \in [panel : {"idle"}, auto : {"idle", "open"}] BY <2>1
  <2> QED BY <2>2 DEF Init, NotJoining
<1>2. conn["panel"] = "idle" /\ conn["auto"] \in {"idle", "open"} BY <1>1
<1>3. conn \in [Tasks -> Steps] BY <1>1 DEF Tasks, Steps
<1>4. LinkTypes
  <2>1. port \in [plugged : BOOLEAN, powered : SUBSET Nodes] BY <1>1
  <2>2. wire \in Seq(Lines) /\ Len(wire) <= WireCap BY <1>1, WireAssumption
  <2>3. readers \in Seq([pc : Places, line : Lines, snap : SUBSET Listeners]) BY <1>1
  <2>4. heard \in [known : SUBSET Nodes, fresh : SUBSET Nodes] BY <1>1
  <2>5. running \in BOOLEAN /\ serial \in {"none", "up", "dead"} BY <1>1
  <2>6. asked \subseteq Nodes /\ list \subseteq Listeners /\ wanted \subseteq Listeners
        /\ gone \subseteq Listeners
    BY <1>1
  <2>7. join \in Int /\ scans \in Nat BY <1>1
  <2> QED BY <1>3, <2>1, <2>2, <2>3, <2>4, <2>5, <2>6, <2>7 DEF LinkTypes
<1>5. PanelTypes /\ Kept BY <1>1 DEF PanelTypes, Kept
<1>6. Newest = "dead" BY <1>1 DEF Newest
<1>7. Quiet /\ Idle BY <1>1 DEF Quiet, ShownOff, Idle, NotJoining
<1>8. \A t \in Tasks, ok \in BOOLEAN : ~Owed(t, ok) BY <1>1, NothingQueued
<1>9. OneSignal /\ queue # <<Lost>> BY <1>1, NothingQueued
<1>10. OneReader BY <1>1 DEF OneReader
<1>11. Threads
  BY <1>1, <1>2, <1>6, <1>7, <1>8, <1>9, <1>10 DEF Threads, OneTask, Button, BeforeStart, Started,
     Failed, Shown, Losing, Runs, Joining, InFlight, Told, Tasks, Opening, Serving, Quiet
<1> QED BY <1>4, <1>5, <1>11 DEF GatewayInv

LEMMA GatewayStep == ASSUME ~Hasty, GatewayInv, [Next]_vars PROVE GatewayInv'
<1>1. CASE Gui BY <1>1, JoinedKeeps, ScanWindowEndsKeeps, GotLostKeeps, GotDoneKeeps DEF Gui
<1>2. CASE PollLatency BY <1>2, PollLatencyKeeps
<1>3. CASE User
  BY <1>3, ClickConnectKeeps, ClickDisconnectKeeps, ClickScanKeeps, ListenerKeeps DEF User
<1>4. CASE Outside BY <1>4, OutsideKeeps
<1>5. CASE \E t \in Tasks : Worker(t)
  BY <1>5, OpenKeeps, VerifyKeeps, StartKeeps, FinishKeeps DEF Worker
<1>6. CASE \E r \in DOMAIN readers : Reader(r) BY <1>6, ReaderKeeps
<1>7. CASE UNCHANGED vars
  <2>1. Threads' BY <1>7, ThreadsSame DEF looked, vars, link, GatewayInv
  <2> QED BY <1>7, <2>1 DEF GatewayInv, vars, link, LinkTypes, PanelTypes, Kept
<1> QED BY <1>1, <1>2, <1>3, <1>4, <1>5, <1>6, <1>7 DEF Next

LEMMA GatewaySafe == ASSUME GatewayInv PROVE NothingMissed /\ PanelHonest
<1> USE DEF GatewayInv
<1>1. Newest \in Places /\ Len(readers) \in Nat BY NewestPlace
<1>2. readers \in Seq([pc : Places, line : Lines, snap : SUBSET Listeners]) BY DEF LinkTypes
<1>3. \A r \in DOMAIN readers : readers[r].pc \in Places
  <2>1. ASSUME NEW r \in DOMAIN readers
        PROVE  readers[r] \in [pc : Places, line : Lines, snap : SUBSET Listeners]
    BY <1>2, LenProperties, ElementOfSeq
  <2> QED BY <2>1
<1>4. readers # <<>> => Len(readers) \in DOMAIN readers /\ Newest = readers[Len(readers)].pc
  BY <1>1, <1>2, EmptySeq, LenProperties DEF Newest
<1>5. join \in -1..Len(readers) BY <1>1 DEF Threads, Joining, Idle, NotJoining
<1>6. TypeOK BY <1>3, <1>5 DEF TypeOK, LinkTypes, PanelTypes, Places, Steps
<1>7. ListenersKept BY DEF ListenersKept, Kept
<1>8. \A r \in DOMAIN readers : readers[r].pc # "dead" => r = Len(readers) /\ Newest = readers[r].pc
  BY <1>4 DEF Threads, OneReader, Newest
<1>9. Newest \in Serving => Reading = {Len(readers)}
  <2>1. Newest \in Serving => readers # <<>> BY DEF Newest, Serving
  <2> QED BY <1>4, <1>8, <2>1 DEF Reading, Serving
<1>10. Newest = "dead" => Reading = {} BY <1>8 DEF Reading
<1>11. ~LossPending => Newest \notin {"lost", "notify"} /\ queue # <<Lost>>
  <2>1. Newest \in {"lost", "notify"} => readers # <<>> BY DEF Newest
  <2>2. Newest \in {"lost", "notify"} => LossPending BY <1>4, <2>1 DEF LossPending, Alive
  <2>3. queue = <<Lost>> => Lost \in Range(queue) BY DEF Range
  <2> QED BY <2>2, <2>3 DEF LossPending
<1>12. Listening
  <2>1. ASSUME NEW t \in Tasks, conn[t] = "verify", IsConnected PROVE Reading = {}
    BY <1>10, <2>1 DEF Threads, BeforeStart, Opening
  <2>2. ASSUME IsConnected, InFlight = {}, Idle, ~LossPending
        PROVE  running /\ Cardinality(Reading) = 1
    <3>1. \A t \in Tasks : conn[t] = "idle" BY <2>2 DEF InFlight
    <3>2. running BY <2>2, <3>1 DEF Threads, Runs, IsConnected, Opening
    <3>3. serial \in {"up", "dead"} BY <2>2 DEF IsConnected, LinkTypes
    <3>4. Newest \in Serving
      <4>1. CASE queue = <<>>
        BY <1>11, <2>2, <3>3, <4>1 DEF Threads, Shown
      <4>2. CASE \E t \in Tasks, ok \in BOOLEAN : queue = <<Done(t, ok)>>
        <5>1. PICK t \in Tasks, ok \in BOOLEAN : Owed(t, ok) BY <4>2 DEF Owed
        <5>2. ok BY <3>3, <5>1 DEF Threads, Failed
        <5>3. Told(t) BY <5>1, <5>2 DEF Told
        <5> QED BY <2>2, <3>3, <5>3 DEF Threads, Started
      <4> QED BY <1>11, <2>2, <4>1, <4>2, Queued
    <3>5. Cardinality(Reading) = 1 BY <1>9, <3>4, FS_Singleton
    <3> QED BY <3>2, <3>5
  <2> QED BY <2>1, <2>2 DEF Listening
<1>13. PanelHonest
  <2> SUFFICES ASSUME InFlight = {}, queue = <<>>, Idle, ~LossPending
               PROVE  /\ panel.enabled
                      /\ IsConnected <=> panel.label = "on"
                      /\ IsConnected <=> panel.polling
                      /\ IsConnected <=> panel.scan # "off"
                      /\ ~IsConnected => gauge.lat = {}
    BY DEF PanelHonest, Settled
  <2>1. \A t \in Tasks, ok \in BOOLEAN : conn[t] = "idle" /\ ~Owed(t, ok)
    BY NothingQueued DEF InFlight
  <2>2. panel.enabled BY <2>1 DEF Threads, Button, Tasks
  <2>3. IsConnected => ShownOn BY DEF Threads, Shown, IsConnected
  <2>4. ~IsConnected => ShownOff BY <1>11 DEF Threads, Shown, IsConnected
  <2> QED BY <2>2, <2>3, <2>4 DEF ShownOn, ShownOff
<1> QED BY <1>6, <1>7, <1>12, <1>13 DEF NothingMissed

-----------------------------------------------------------------------------
(* The Thymios *)

TestCmds == {"link", "set", "drive", "sound"}
ScanCmds == {"reboot", "look", "enough"}
Commands == [cmd : TestCmds \cup ScanCmds \cup {"ota"}, idx : Slots, speed : Speeds]
Robots == [Slots -> [status : {"off", "connecting", "connected", "error"},
                     active : BOOLEAN, said : Speeds]]
Windows == [slot : Slots, open : BOOLEAN, ours : BOOLEAN, enabled : BOOLEAN,
            task : {"none", "link", "set", "ok", "failed"}, cut : BOOLEAN]

RadioTypes ==
  /\ gateway \in BOOLEAN /\ park \in BOOLEAN
  /\ robot \in Robots
  /\ tests \in Seq(Windows)
  /\ search \in [open : BOOLEAN, stop : BOOLEAN, pc : {"idle", "reboot", "banner", "on", "off"}]
  /\ uart \in Seq(Commands)
  /\ joins \in [asked : Nat, tried : Nat]
ChipTypes ==
  /\ c6 \in [up : BOOLEAN, link : BOOLEAN, disc : BOOLEAN, used : BOOLEAN, join : BOOLEAN,
             alive : BOOLEAN, tier : {0, 1}, deaf : BOOLEAN]
  /\ slot \in [Slots -> [active : BOOLEAN, own : BOOLEAN, want : Speeds, loaded : BOOLEAN]]
  /\ thymio \in [Slots -> [on : BOOLEAN, wheels : Speeds, emits : BOOLEAN]]

\* What the C6 has been told, or is about to be.
All(C) == \A k \in DOMAIN uart : uart[k].cmd \in C
JoinRequest == <<Thymio!Plain("ota")>>
LinkSent == c6.link \/ \E j \in DOMAIN uart : uart[j].cmd = "link"
SetSent(i) == \/ slot[i].active /\ slot[i].own
              \/ \E j \in DOMAIN uart : uart[j].cmd = "set" /\ uart[j].idx = i

InPlay(d) == tests[d].open \/ tests[d].task # "none"
Searching == search.open \/ search.pc # "idle"

\* One window at a time speaks to the C6, and a test to one that is up; one that lost
\* the gateway says nothing any more.
OneWindow == \A d, e \in DOMAIN tests : InPlay(d) /\ InPlay(e) => d = e
Wires == /\ All(TestCmds) \/ All(ScanCmds) \/ uart = JoinRequest
         /\ uart # <<>> /\ All(TestCmds) => c6.up /\ ~c6.join
         /\ Searching => All(ScanCmds)
TestWires == \A d \in DOMAIN tests : InPlay(d) =>
  /\ ~Searching /\ All(TestCmds)
  /\ IF tests[d].cut THEN ~gateway ELSE c6.up /\ ~c6.join

\* An address is set on a link that is up, and slot 0 is taken with the link.
SetsFollow == \A k \in DOMAIN uart : uart[k].cmd = "set" =>
  c6.link \/ \E j \in DOMAIN uart : j < k /\ uart[j].cmd = "link"
SlotZero == c6.link \/ (\E i \in Slots : slot[i].active) => slot[0].active

\* What a worker has sent by its step is on the C6 or on its way there.
Connecting ==
  \A d \in DOMAIN tests :
    /\ ~tests[d].cut /\ (tests[d].task \in {"set", "ok"} \/ tests[d].enabled) => gateway /\ LinkSent
    /\ tests[d].task = "ok" \/ tests[d].enabled =>
         /\ robot[tests[d].slot].active
         /\ ~tests[d].cut /\ tests[d].slot \in Named => SetSent(tests[d].slot)
    /\ tests[d].enabled => tests[d].ours
    /\ tests[d].ours => tests[d].open /\ tests[d].task = "none"

\* A robot is connected by a window that will close its link.
Owned ==
  \A i \in Slots : robot[i].active \/ robot[i].status = "connected" =>
    \E d \in DOMAIN tests : tests[d].slot = i /\ (tests[d].task = "ok" \/ tests[d].ours)

\* A request to join is on its way, parked or tried, and a boot starts clean.
Requests == joins.tried + (IF park THEN 1 ELSE 0) + (IF uart = JoinRequest THEN 1 ELSE 0) <= joins.asked
CleanBoot == /\ park => ~c6.up
             /\ ~c6.up => ~c6.used /\ ~c6.join
             /\ c6.join => ~c6.used

RadioThreads == /\ OneWindow /\ Wires /\ TestWires /\ SetsFollow /\ SlotZero
                /\ Connecting /\ Owned /\ Requests /\ CleanBoot
RadioInv == RadioTypes /\ ChipTypes /\ RadioThreads

-----------------------------------------------------------------------------
(* Words on the wire *)

LEMMA Params == /\ 0 \in Slots /\ Named \subseteq Slots /\ Slots \ {0} \subseteq Named
                /\ 0 \in Speeds /\ Prompt \in BOOLEAN
  BY LinksAssumption DEF Thymio!Parameters

LEMMA PlainWord ==
  ASSUME NEW c \in TestCmds \cup ScanCmds \cup {"ota"}, NEW i \in Slots, NEW v \in Speeds
  PROVE  /\ Thymio!Command(c, i, v) \in Commands /\ Thymio!Plain(c) \in Commands
         /\ Thymio!Command(c, i, v).cmd = c /\ Thymio!Plain(c).cmd = c
         /\ Thymio!Command(c, i, v).idx = i
  BY Params DEF Commands, Thymio!Command, Thymio!Plain

\* No two kinds of talk share a wire.
LEMMA TalkApart ==
  ASSUME uart \in Seq(Commands)
  PROVE  /\ All(TestCmds) => uart # JoinRequest
         /\ All(ScanCmds) => uart # JoinRequest
         /\ All(TestCmds) /\ All(ScanCmds) => uart = <<>>
<1>1. JoinRequest[1].cmd = "ota" /\ 1 \in DOMAIN JoinRequest BY DEF JoinRequest, Thymio!Plain, Thymio!Command
<1>2. uart # <<>> => 1 \in DOMAIN uart BY EmptySeq, LenProperties
<1> QED BY <1>1, <1>2 DEF All, TestCmds, ScanCmds

LEMMA TalkApartNext ==
  ASSUME uart' \in Seq(Commands)
  PROVE  /\ All(TestCmds)' => uart' # JoinRequest
         /\ All(ScanCmds)' => uart' # JoinRequest
         /\ All(TestCmds)' /\ All(ScanCmds)' => uart' = <<>>
<1>1. JoinRequest[1].cmd = "ota" /\ 1 \in DOMAIN JoinRequest
  BY DEF JoinRequest, Thymio!Plain, Thymio!Command
<1>2. uart' # <<>> => 1 \in DOMAIN uart' BY EmptySeq, LenProperties
<1> QED BY <1>1, <1>2 DEF All, TestCmds, ScanCmds

LEMMA SentWords ==
  ASSUME uart \in Seq(Commands), NEW cmds \in Seq(Commands), Thymio!Sent(cmds)
  PROVE  /\ uart' \in Seq(Commands)
         /\ \A k \in DOMAIN uart : k \in DOMAIN uart' /\ uart'[k] = uart[k]
         /\ \A k \in DOMAIN uart' : k \in DOMAIN uart \/ \E j \in DOMAIN cmds : uart'[k] = cmds[j]
         /\ \A k \in DOMAIN uart' : k \notin DOMAIN uart => \A j \in DOMAIN uart : j < k
         /\ \A j \in DOMAIN cmds : \E k \in DOMAIN uart' : uart'[k] = cmds[j]
<1>1. uart' = uart \o cmds BY DEF Thymio!Sent
<1>2. /\ uart' \in Seq(Commands) /\ Len(uart') = Len(uart) + Len(cmds)
      /\ \A i \in 1..(Len(uart) + Len(cmds)) :
           uart'[i] = IF i <= Len(uart) THEN uart[i] ELSE cmds[i - Len(uart)]
  BY <1>1, ConcatProperties
<1>3. Len(uart) \in Nat /\ Len(cmds) \in Nat BY LenProperties
<1>4. DOMAIN uart = 1..Len(uart) /\ DOMAIN cmds = 1..Len(cmds)
      /\ DOMAIN uart' = 1..(Len(uart) + Len(cmds))
  BY <1>2, LenProperties
<1>5. \A k \in DOMAIN uart : k \in DOMAIN uart' /\ uart'[k] = uart[k] BY <1>2, <1>3, <1>4
<1>6. ASSUME NEW k \in DOMAIN uart', k \notin DOMAIN uart
      PROVE  (\E j \in DOMAIN cmds : uart'[k] = cmds[j]) /\ \A j \in DOMAIN uart : j < k
  <2>1. k \in Nat /\ k > Len(uart) BY <1>3, <1>4, <1>6
  <2>2. k - Len(uart) \in DOMAIN cmds /\ uart'[k] = cmds[k - Len(uart)]
    BY <1>2, <1>3, <1>4, <2>1
  <2> QED BY <1>3, <1>4, <2>1, <2>2
<1>7. ASSUME NEW j \in DOMAIN cmds PROVE \E k \in DOMAIN uart' : uart'[k] = cmds[j]
  <2>1. Len(uart) + j \in DOMAIN uart' /\ ~(Len(uart) + j <= Len(uart))
        /\ (Len(uart) + j) - Len(uart) = j
    BY <1>3, <1>4
  <2>2. uart'[Len(uart) + j] = cmds[j] BY <1>2, <1>4, <2>1
  <2> QED BY <2>1, <2>2
<1> QED BY <1>2, <1>5, <1>6, <1>7

LEMMA HandledWords ==
  ASSUME uart \in Seq(Commands), uart # <<>>, uart' = Tail(uart)
  PROVE  /\ uart' \in Seq(Commands)
         /\ 1 \in DOMAIN uart /\ Head(uart) = uart[1] /\ Head(uart) \in Commands
         /\ \A k \in DOMAIN uart' : k + 1 \in DOMAIN uart /\ uart'[k] = uart[k + 1] /\ k \in Nat
         /\ \A k \in DOMAIN uart : k = 1 \/ (k - 1 \in DOMAIN uart' /\ uart'[k - 1] = uart[k])
         /\ \A k \in DOMAIN uart : k \in Nat \ {0}
<1>1. Len(uart) \in Nat \ {0} BY EmptySeq
<1>2. /\ Head(uart) \in Commands /\ uart' \in Seq(Commands) /\ Len(uart') = Len(uart) - 1
      /\ \A i \in 1..Len(uart') : uart'[i] = uart[i + 1]
  BY HeadTailProperties
<1>3. DOMAIN uart = 1..Len(uart) /\ DOMAIN uart' = 1..(Len(uart) - 1) BY <1>2, LenProperties
<1>4. Head(uart) = uart[1] OBVIOUS
<1>5. \A k \in DOMAIN uart' : k + 1 \in DOMAIN uart /\ uart'[k] = uart[k + 1] /\ k \in Nat
  BY <1>1, <1>2, <1>3
<1>6. \A k \in DOMAIN uart : k = 1 \/ (k - 1 \in DOMAIN uart' /\ uart'[k - 1] = uart[k])
  <2> SUFFICES ASSUME NEW k \in DOMAIN uart, k # 1
               PROVE  k - 1 \in DOMAIN uart' /\ uart'[k - 1] = uart[k]
    OBVIOUS
  <2>1. k \in Int /\ k - 1 \in 1..(Len(uart) - 1) /\ (k - 1) + 1 = k BY <1>1, <1>3
  <2> QED BY <1>2, <1>3, <2>1
<1> QED BY <1>1, <1>2, <1>3, <1>4, <1>5, <1>6

\* What is known of the wire survives words of its kind.
LEMMA SentTalk ==
  ASSUME uart \in Seq(Commands), NEW cmds \in Seq(Commands), Thymio!Sent(cmds), c6' = c6
  PROVE  /\ \A C : All(C) /\ (\A j \in DOMAIN cmds : cmds[j].cmd \in C) => All(C)'
         /\ LinkSent \/ (\E j \in DOMAIN cmds : cmds[j].cmd = "link") => LinkSent'
         /\ slot' = slot => \A i \in Slots :
              SetSent(i) \/ (\E j \in DOMAIN cmds : cmds[j].cmd = "set" /\ cmds[j].idx = i) => SetSent(i)'
         /\ SetsFollow /\ (LinkSent \/ \A j \in DOMAIN cmds : cmds[j].cmd # "set") => SetsFollow'
<1> USE SentWords
<1>1. \A C : All(C) /\ (\A j \in DOMAIN cmds : cmds[j].cmd \in C) => All(C)' BY DEF All
<1>2. LinkSent \/ (\E j \in DOMAIN cmds : cmds[j].cmd = "link") => LinkSent' BY DEF LinkSent
<1>3. slot' = slot => \A i \in Slots :
        SetSent(i) \/ (\E j \in DOMAIN cmds : cmds[j].cmd = "set" /\ cmds[j].idx = i) => SetSent(i)'
  BY DEF SetSent
<1>4. ASSUME SetsFollow, LinkSent \/ \A j \in DOMAIN cmds : cmds[j].cmd # "set"
      PROVE  SetsFollow'
  <2> SUFFICES ASSUME NEW k \in DOMAIN uart', uart'[k].cmd = "set"
               PROVE  c6'.link \/ \E j \in DOMAIN uart' : j < k /\ uart'[j].cmd = "link"
    BY DEF SetsFollow
  <2>1. CASE k \in DOMAIN uart BY <1>4, <2>1 DEF SetsFollow
  <2>2. CASE k \notin DOMAIN uart
    <3>1. LinkSent BY <1>4, <2>2
    <3> QED BY <2>2, <3>1 DEF LinkSent
  <2> QED BY <2>1, <2>2
<1> QED BY <1>1, <1>2, <1>3, <1>4

LEMMA HandledTalk ==
  ASSUME uart \in Seq(Commands), uart # <<>>, uart' = Tail(uart)
  PROVE  /\ \A C : All(C) => Head(uart).cmd \in C /\ All(C)'
         /\ uart = JoinRequest => uart' = <<>> /\ Head(uart).cmd = "ota"
         /\ LinkSent /\ Head(uart).cmd # "link" /\ (c6.link => c6'.link) => LinkSent'
         /\ SetsFollow /\ (Head(uart).cmd = "link" => c6'.link) /\ (c6.link => c6'.link) => SetsFollow'
         /\ SetsFollow /\ Head(uart).cmd = "set" => c6.link
<1> USE HandledWords
<1>1. \A C : All(C) => Head(uart).cmd \in C /\ All(C)' BY DEF All
<1>2. uart = JoinRequest => uart' = <<>> /\ Head(uart).cmd = "ota"
  BY SignalSteps DEF JoinRequest, Thymio!Plain, Thymio!Command
<1>3. LinkSent /\ Head(uart).cmd # "link" /\ (c6.link => c6'.link) => LinkSent'
  BY DEF LinkSent
<1>4. ASSUME SetsFollow, Head(uart).cmd = "link" => c6'.link, c6.link => c6'.link
      PROVE  SetsFollow'
  <2> SUFFICES ASSUME NEW k \in DOMAIN uart', uart'[k].cmd = "set", ~c6'.link
               PROVE  \E j \in DOMAIN uart' : j < k /\ uart'[j].cmd = "link"
    BY DEF SetsFollow
  <2>1. k + 1 \in DOMAIN uart /\ uart[k + 1].cmd = "set" /\ ~c6.link BY <1>4
  <2>2. PICK j \in DOMAIN uart : j < k + 1 /\ uart[j].cmd = "link" BY <1>4, <2>1 DEF SetsFollow
  <2>3. j # 1 BY <1>4, <2>2
  <2>4. j - 1 \in DOMAIN uart' /\ uart'[j - 1].cmd = "link" BY <2>2, <2>3
  <2>5. j \in Nat /\ k \in Nat OBVIOUS
  <2>6. j - 1 < k BY <2>2, <2>5
  <2> QED BY <2>4, <2>6
<1>5. SetsFollow /\ Head(uart).cmd = "set" => c6.link
  <2>1. \A j \in DOMAIN uart : ~(j < 1) OBVIOUS
  <2> QED BY <2>1 DEF SetsFollow
<1> QED BY <1>1, <1>2, <1>3, <1>4, <1>5

-----------------------------------------------------------------------------
(* The operator and the workers *)

\* A window is opened over nothing left to do.
LEMMA Rested ==
  ASSUME ~Prompt, RadioInv, Thymio!Unhurried
  PROVE  /\ uart = <<>> /\ c6.up /\ ~c6.join /\ ~Searching
         /\ \A d \in DOMAIN tests : /\ ~InPlay(d) /\ ~tests[d].enabled
                                    /\ ~tests[d].ours /\ tests[d].task = "none"
         /\ \A i \in Slots : ~robot[i].active /\ robot[i].status # "connected"
<1> USE DEF RadioInv, RadioThreads
<1>1. /\ ~search.open /\ uart = <<>> /\ c6.up /\ ~c6.join /\ search.pc = "idle"
      /\ \A d \in DOMAIN tests : ~tests[d].open /\ tests[d].task = "none"
  BY DEF Thymio!Unhurried, Thymio!Windowless, Thymio!Busy
<1>2. \A d \in DOMAIN tests : ~tests[d].enabled /\ ~tests[d].ours BY <1>1 DEF Connecting
<1>3. \A i \in Slots : ~robot[i].active /\ robot[i].status # "connected"
  BY <1>1, <1>2 DEF Owned
<1> QED BY <1>1, <1>2, <1>3 DEF InPlay, Searching

LEMMA WindowTypes ==
  ASSUME tests \in Seq(Windows), NEW d \in DOMAIN tests
  PROVE  tests[d] \in Windows /\ tests[d].slot \in Slots
<1>1. d \in 1..Len(tests) BY LenProperties
<1>2. tests[d] \in Windows BY <1>1, ElementOfSeq
<1> QED BY <1>2 DEF Windows

\* With a quiet wire and no window, what is said of both says nothing.
LEMMA QuietWire ==
  ASSUME uart = <<>>
  PROVE  /\ \A C : All(C)
         /\ Wires /\ SetsFollow /\ uart # JoinRequest
  BY DEF All, Wires, SetsFollow, JoinRequest

\* Who is not in play has nothing running, and the robots are for the one who is.
LEMMA Bystanders ==
  ASSUME RadioInv
  PROVE  /\ \A d \in DOMAIN tests : ~InPlay(d) =>
              ~tests[d].open /\ ~tests[d].enabled /\ ~tests[d].ours /\ tests[d].task = "none"
         /\ \A d, e \in DOMAIN tests : InPlay(d) /\ e # d =>
              ~tests[e].open /\ ~tests[e].enabled /\ ~tests[e].ours /\ tests[e].task = "none"
         /\ \A d \in DOMAIN tests, k \in Slots :
              InPlay(d) /\ (robot[k].active \/ robot[k].status = "connected") =>
                tests[d].slot = k /\ (tests[d].task = "ok" \/ tests[d].ours)
<1> USE DEF RadioInv, RadioThreads
<1>1. \A d \in DOMAIN tests : ~InPlay(d) =>
        ~tests[d].open /\ ~tests[d].enabled /\ ~tests[d].ours /\ tests[d].task = "none"
  BY DEF InPlay, Connecting
<1>2. \A d, e \in DOMAIN tests : InPlay(d) /\ e # d => ~InPlay(e) BY DEF OneWindow
<1>3. \A d \in DOMAIN tests, k \in Slots :
        InPlay(d) /\ (robot[k].active \/ robot[k].status = "connected") =>
          tests[d].slot = k /\ (tests[d].task = "ok" \/ tests[d].ours)
  <2> SUFFICES ASSUME NEW d \in DOMAIN tests, NEW k \in Slots, InPlay(d),
                      robot[k].active \/ robot[k].status = "connected"
               PROVE  tests[d].slot = k /\ (tests[d].task = "ok" \/ tests[d].ours)
    OBVIOUS
  <2>1. PICK e \in DOMAIN tests : tests[e].slot = k /\ (tests[e].task = "ok" \/ tests[e].ours)
    BY DEF Owned
  <2>2. InPlay(e) BY <1>1, <2>1
  <2>3. e = d BY <1>2, <2>2
  <2> QED BY <2>1, <2>3
<1> QED BY <1>1, <1>2, <1>3

LEMMA PlaySends ==
  ASSUME RadioInv, NEW d \in DOMAIN tests, InPlay(d),
         c6' = c6, slot' = slot, search' = search, joins' = joins, park' = park,
         NEW cmds \in Seq(Commands), \A j \in DOMAIN cmds : cmds[j].cmd \in TestCmds,
         LinkSent \/ \A j \in DOMAIN cmds : cmds[j].cmd # "set",
         (gateway /\ Thymio!Sent(cmds)) \/ uart' = uart, gateway' = gateway,
         DOMAIN tests' = DOMAIN tests,
         \A e \in DOMAIN tests : (InPlay(e)' => InPlay(e)) /\ tests'[e].cut = tests[e].cut
  PROVE  /\ uart' \in Seq(Commands)
         /\ OneWindow' /\ Wires' /\ TestWires' /\ SetsFollow' /\ SlotZero' /\ Requests' /\ CleanBoot'
         /\ LinkSent => LinkSent'
         /\ \A i \in Slots : SetSent(i) => SetSent(i)'
<1> USE DEF RadioInv, RadioThreads, RadioTypes
<1>1. ~Searching /\ All(TestCmds) /\ (gateway => c6.up /\ ~c6.join) BY DEF TestWires
<1>2. uart' \in Seq(Commands) BY SentWords
<1>3. All(TestCmds)' /\ SetsFollow' /\ (LinkSent => LinkSent')
      /\ \A i \in Slots : SetSent(i) => SetSent(i)'
  <2>1. CASE Thymio!Sent(cmds) BY <1>1, <2>1, SentTalk
  <2>2. CASE uart' = uart BY <1>1, <2>2 DEF All, SetsFollow, LinkSent, SetSent
  <2> QED BY <2>1, <2>2
<1>4. ~Searching' BY <1>1 DEF Searching
<1>5. OneWindow' BY DEF OneWindow
<1>6. Wires' BY <1>1, <1>3, <1>4 DEF Wires
<1>7. TestWires' BY <1>1, <1>3, <1>4 DEF TestWires
<1>8. SlotZero' BY DEF SlotZero
<1>9. uart' # JoinRequest /\ uart # JoinRequest
  <2>1. JoinRequest[1].cmd = "ota" /\ 1 \in DOMAIN JoinRequest
    BY DEF JoinRequest, Thymio!Plain, Thymio!Command
  <2> QED BY <1>1, <1>3, <2>1 DEF All, TestCmds
<1>10. Requests' BY <1>9 DEF Requests
<1>11. CleanBoot' BY DEF CleanBoot
<1> QED BY <1>2, <1>3, <1>5, <1>6, <1>7, <1>8, <1>10, <1>11

LEMMA OpenTestKeeps ==
  ASSUME ~Prompt, RadioInv, NEW i \in Slots, Thymio!OpenTest(i)
  PROVE  RadioInv'
<1> USE DEF RadioInv, RadioThreads
<1>1. Thymio!Unhurried BY DEF Thymio!OpenTest
<1>2. UNCHANGED <<gateway, robot, search, uart, c6, slot, park, joins, thymio>>
  BY DEF Thymio!OpenTest, Thymio!radio
<1>3. /\ uart = <<>> /\ c6.up /\ ~c6.join /\ ~Searching
      /\ \A d \in DOMAIN tests : ~InPlay(d) /\ ~tests[d].enabled /\ ~tests[d].ours /\ tests[d].task = "none"
      /\ \A k \in Slots : ~robot[k].active /\ robot[k].status # "connected"
  BY <1>1, Rested
<1> DEFINE new == [slot |-> i, open |-> TRUE, ours |-> FALSE, enabled |-> FALSE, task |-> "link",
                  cut |-> FALSE]
<1>4. tests' = Append(tests, new) BY <1>3 DEF Thymio!OpenTest
<1>5. new \in Windows /\ new.open /\ ~new.ours /\ ~new.enabled /\ new.task = "link" /\ ~new.cut
  BY DEF Windows
<1> HIDE DEF new
<1>6. /\ tests' \in Seq(Windows) /\ Len(tests) \in Nat
      /\ \A d \in DOMAIN tests' : \/ d \in DOMAIN tests /\ tests'[d] = tests[d]
                                  \/ d = Len(tests) + 1 /\ tests'[d] = new
  <2>1. tests \in Seq(Windows) BY DEF RadioTypes
  <2>2. Len(tests) \in Nat /\ DOMAIN tests = 1..Len(tests) BY <2>1, LenProperties
  <2>3. /\ tests' \in Seq(Windows) /\ Len(tests') = Len(tests) + 1
        /\ \A d \in 1..Len(tests) : tests'[d] = tests[d]
        /\ tests'[Len(tests) + 1] = new
    BY <1>4, <1>5, <2>1, AppendProperties
  <2>4. DOMAIN tests' = 1..(Len(tests) + 1) BY <2>3, LenProperties
  <2> QED BY <2>2, <2>3, <2>4
<1>7. RadioTypes' BY <1>2, <1>6 DEF RadioTypes
<1>8. ChipTypes' BY <1>2 DEF ChipTypes
<1>9. \A d \in DOMAIN tests' : InPlay(d)' => d = Len(tests) + 1 BY <1>3, <1>6 DEF InPlay
<1>10. OneWindow' BY <1>9 DEF OneWindow
<1>11. \A C : All(C)' BY <1>2, <1>3 DEF All
<1>12. Wires' /\ TestWires'
  <2>1. \A d \in DOMAIN tests' : InPlay(d)' => ~tests'[d].cut BY <1>3, <1>5, <1>6, <1>9
  <2>2. Wires' BY <1>2, <1>3, <1>11 DEF Wires, Searching
  <2>3. TestWires' BY <1>2, <1>3, <1>11, <2>1 DEF TestWires, Searching
  <2> QED BY <2>2, <2>3
<1>13. SetsFollow' /\ SlotZero' /\ Requests' /\ CleanBoot'
  BY <1>2 DEF SetsFollow, SlotZero, Requests, CleanBoot
<1>14. Connecting' BY <1>3, <1>5, <1>6 DEF Connecting
<1>15. Owned' BY <1>2, <1>3 DEF Owned
<1> QED BY <1>7, <1>8, <1>10, <1>12, <1>13, <1>14, <1>15

\* A word of its own for each control.
LEMMA OneWord ==
  ASSUME NEW c \in Commands
  PROVE  /\ <<c>> \in Seq(Commands) /\ <<c>> \o <<c>> \in Seq(Commands) /\ <<c>> \o <<>> \in Seq(Commands)
         /\ \A j \in DOMAIN <<c>> : <<c>>[j] = c
         /\ \A j \in DOMAIN (<<c>> \o <<c>>) : (<<c>> \o <<c>>)[j] = c
         /\ \A j \in DOMAIN (<<c>> \o <<>>) : (<<c>> \o <<>>)[j] = c
         /\ 1 \in DOMAIN <<c>> /\ <<c>>[1] = c
  OBVIOUS

LEMMA DriveKeeps ==
  ASSUME RadioInv, NEW d \in DOMAIN tests, NEW v \in Speeds, Thymio!Drive(d, v)
  PROVE  RadioInv'
<1> USE DEF RadioInv, RadioThreads
<1> DEFINE i == tests[d].slot
           c == Thymio!Command("drive", i, v)
<1>1. /\ tests[d].open /\ ((gateway /\ Thymio!Sent(<<c>>)) \/ uart' = uart)
      /\ robot' = robot \/ robot' = [robot EXCEPT ![i].said = v]
      /\ UNCHANGED <<gateway, tests, search, c6, slot, park, joins, thymio>>
  BY DEF Thymio!Drive, Thymio!SentIf, Thymio!Connected, Thymio!radio
<1>2. i \in Slots /\ tests[d] \in Windows BY WindowTypes DEF RadioTypes
<1>3. c \in Commands /\ c.cmd = "drive" BY <1>2, PlainWord DEF TestCmds
<1> HIDE DEF c
<1>4. InPlay(d) /\ \A e \in DOMAIN tests : (InPlay(e)' => InPlay(e)) /\ tests'[e].cut = tests[e].cut
  BY <1>1 DEF InPlay
<1>5. /\ uart' \in Seq(Commands)
      /\ OneWindow' /\ Wires' /\ TestWires' /\ SetsFollow' /\ SlotZero' /\ Requests' /\ CleanBoot'
      /\ LinkSent => LinkSent'
      /\ \A k \in Slots : SetSent(k) => SetSent(k)'
  <2> DEFINE cmds == <<c>>
  <2>1. cmds \in Seq(Commands) /\ \A j \in DOMAIN cmds : cmds[j] = c BY <1>3, OneWord
  <2>2. \A j \in DOMAIN cmds : cmds[j].cmd \in TestCmds /\ cmds[j].cmd # "set"
    BY <1>3, <2>1 DEF TestCmds
  <2>3. (gateway /\ Thymio!Sent(cmds)) \/ uart' = uart BY <1>1
  <2> HIDE DEF cmds
  <2> QED BY <1>1, <1>4, <2>1, <2>2, <2>3, PlaySends
<1>6. robot' \in Robots /\ \A k \in Slots : robot'[k].active = robot[k].active /\ robot'[k].status = robot[k].status
  <2> DEFINE r == [robot[i] EXCEPT !.said = v]
  <2>1. robot \in Robots BY DEF RadioTypes
  <2>2. r \in [status : {"off", "connecting", "connected", "error"}, active : BOOLEAN, said : Speeds]
        /\ r.active = robot[i].active /\ r.status = robot[i].status
    BY <1>2, <2>1 DEF Robots
  <2>3. robot' = robot \/ robot' = [robot EXCEPT ![i] = r] BY <1>1
  <2> HIDE DEF r
  <2> QED BY <1>2, <2>1, <2>2, <2>3 DEF Robots
<1>7. RadioTypes' /\ ChipTypes' BY <1>1, <1>5, <1>6 DEF RadioTypes, ChipTypes
<1>8. \A e \in DOMAIN tests : tests[e].slot \in Slots BY WindowTypes DEF RadioTypes
<1>9. Connecting' BY <1>1, <1>5, <1>6, <1>8 DEF Connecting
<1>10. Owned' BY <1>1, <1>6 DEF Owned
<1> QED BY <1>5, <1>7, <1>9, <1>10

LEMMA BeepKeeps ==
  ASSUME RadioInv, NEW d \in DOMAIN tests, Thymio!Beep(d)
  PROVE  RadioInv'
<1> USE DEF RadioInv, RadioThreads
<1> DEFINE i == tests[d].slot
           c == Thymio!Command("sound", i, 0)
           cmds == <<c>>
<1>1. /\ tests[d].open /\ ((gateway /\ Thymio!Sent(cmds)) \/ uart' = uart)
      /\ UNCHANGED <<gateway, robot, tests, search, c6, slot, park, joins, thymio>>
  BY DEF Thymio!Beep, Thymio!SentIf, Thymio!Connected, Thymio!pcside, Thymio!radio
<1>2. i \in Slots BY WindowTypes DEF RadioTypes
<1>3. c \in Commands /\ c.cmd = "sound" BY <1>2, Params, PlainWord DEF TestCmds
<1> HIDE DEF c
<1>4. cmds \in Seq(Commands) /\ \A j \in DOMAIN cmds : cmds[j] = c BY <1>3, OneWord
<1>5. \A j \in DOMAIN cmds : cmds[j].cmd \in TestCmds /\ cmds[j].cmd # "set"
  BY <1>3, <1>4 DEF TestCmds
<1> HIDE DEF cmds
<1>6. InPlay(d) /\ \A e \in DOMAIN tests : (InPlay(e)' => InPlay(e)) /\ tests'[e].cut = tests[e].cut
  BY <1>1 DEF InPlay
<1>7. /\ uart' \in Seq(Commands)
      /\ OneWindow' /\ Wires' /\ TestWires' /\ SetsFollow' /\ SlotZero' /\ Requests' /\ CleanBoot'
      /\ LinkSent => LinkSent'
      /\ \A k \in Slots : SetSent(k) => SetSent(k)'
  BY <1>1, <1>4, <1>5, <1>6, PlaySends
<1>8. RadioTypes' /\ ChipTypes' BY <1>1, <1>7 DEF RadioTypes, ChipTypes
<1>9. \A e \in DOMAIN tests : tests[e].slot \in Slots BY WindowTypes DEF RadioTypes
<1>10. Connecting' BY <1>1, <1>7, <1>9 DEF Connecting
<1>11. Owned' BY <1>1 DEF Owned
<1> QED BY <1>7, <1>8, <1>10, <1>11

LEMMA CloseTestKeeps ==
  ASSUME RadioInv, NEW d \in DOMAIN tests, Thymio!CloseTest(d)
  PROVE  RadioInv'
<1> USE DEF RadioInv, RadioThreads
<1> DEFINE i == tests[d].slot
           c == Thymio!Command("drive", i, 0)
           cmds == Thymio!ClosingWords(d)
<1>1. /\ tests[d].open /\ ((gateway /\ Thymio!Sent(cmds)) \/ uart' = uart)
      /\ UNCHANGED <<gateway, search, c6, slot, park, joins, thymio>>
      /\ tests' = [tests EXCEPT ![d].open = FALSE, ![d].ours = FALSE, ![d].enabled = FALSE]
  BY DEF Thymio!CloseTest, Thymio!SentIf, Thymio!Connected, Thymio!radio
<1>2. i \in Slots /\ tests[d] \in Windows BY WindowTypes DEF RadioTypes
<1>3. c \in Commands /\ c.cmd = "drive" BY <1>2, Params, PlainWord DEF TestCmds
<1>4. cmds = <<c>> \o <<c>> \/ cmds = <<c>> \o <<>>
  BY DEF Thymio!ClosingWords, Thymio!Stopped
<1> HIDE DEF c, cmds
<1>5. cmds \in Seq(Commands) /\ \A j \in DOMAIN cmds : cmds[j] = c 
  <2>1. CASE cmds = <<c>> \o <<c>> BY <1>3, <2>1, OneWord
  <2>2. CASE cmds = <<c>> \o <<>> BY <1>3, <2>2, OneWord
  <2> QED BY <1>4, <2>1, <2>2
<1>6. \A j \in DOMAIN cmds : cmds[j].cmd \in TestCmds /\ cmds[j].cmd # "set"
  BY <1>3, <1>5 DEF TestCmds
<1>7. /\ tests' \in Seq(Windows) /\ DOMAIN tests' = DOMAIN tests
      /\ \A e \in DOMAIN tests : e # d => tests'[e] = tests[e]
      /\ tests'[d].slot = i /\ tests'[d].task = tests[d].task /\ tests'[d].cut = tests[d].cut
      /\ ~tests'[d].open /\ ~tests'[d].ours /\ ~tests'[d].enabled
  <2> DEFINE w == [tests[d] EXCEPT !.open = FALSE, !.ours = FALSE, !.enabled = FALSE]
  <2>1. w \in Windows /\ w.slot = i /\ w.task = tests[d].task /\ w.cut = tests[d].cut
        /\ ~w.open /\ ~w.ours /\ ~w.enabled
    BY <1>2 DEF Windows
  <2>2. tests' = [tests EXCEPT ![d] = w] BY <1>1
  <2> HIDE DEF w
  <2> QED BY <2>1, <2>2 DEF RadioTypes
<1>8. InPlay(d) /\ \A e \in DOMAIN tests : (InPlay(e)' => InPlay(e)) /\ tests'[e].cut = tests[e].cut
  BY <1>1, <1>7 DEF InPlay
<1>9. /\ uart' \in Seq(Commands)
      /\ OneWindow' /\ Wires' /\ TestWires' /\ SetsFollow' /\ SlotZero' /\ Requests' /\ CleanBoot'
      /\ LinkSent => LinkSent'
      /\ \A k \in Slots : SetSent(k) => SetSent(k)'
  BY <1>1, <1>5, <1>6, <1>7, <1>8, PlaySends
<1>10. /\ robot' \in Robots
       /\ \A k \in Slots : k # i => robot'[k] = robot[k]
       /\ tests[d].ours => ~robot'[i].active /\ robot'[i].status = "off"
       /\ ~tests[d].ours => robot'[i].active = robot[i].active /\ robot'[i].status = robot[i].status
  <2>1. robot \in Robots BY DEF RadioTypes
  <2> DEFINE still == IF Thymio!Connected(i) THEN [robot[i] EXCEPT !.said = 0] ELSE robot[i]
             r == IF tests[d].ours THEN Thymio!Disconnected(still) ELSE still
  <2>2. robot' = [robot EXCEPT ![i] = r] BY DEF Thymio!CloseTest
  <2>3. /\ still \in [status : {"off", "connecting", "connected", "error"}, active : BOOLEAN, said : Speeds]
        /\ still.active = robot[i].active /\ still.status = robot[i].status
    BY <1>2, <2>1, Params DEF Robots
  <2> HIDE DEF still
  <2>4. /\ r \in [status : {"off", "connecting", "connected", "error"}, active : BOOLEAN, said : Speeds]
        /\ tests[d].ours => ~r.active /\ r.status = "off"
        /\ ~tests[d].ours => r.active = robot[i].active /\ r.status = robot[i].status
    BY <2>3 DEF Thymio!Disconnected
  <2> HIDE DEF r
  <2> QED BY <1>2, <2>1, <2>2, <2>4 DEF Robots
<1>11. RadioTypes' /\ ChipTypes' BY <1>1, <1>7, <1>9, <1>10 DEF RadioTypes, ChipTypes
<1>12. \A e \in DOMAIN tests : e # d =>
         ~tests[e].open /\ ~tests[e].enabled /\ ~tests[e].ours /\ tests[e].task = "none"
  BY <1>8, Bystanders
<1>13. tests[d].task = "ok" => ~tests[d].ours BY DEF Connecting
<1>14. Connecting' BY <1>1, <1>2, <1>7, <1>9, <1>10, <1>12, <1>13 DEF Connecting
<1>15. Owned'
  <2> SUFFICES ASSUME NEW k \in Slots, robot'[k].active \/ robot'[k].status = "connected"
               PROVE  \E e \in DOMAIN tests' : tests'[e].slot = k /\ (tests'[e].task = "ok" \/ tests'[e].ours)
    BY DEF Owned
  <2>1. robot[k].active \/ robot[k].status = "connected" BY <1>10
  <2>2. i = k /\ (tests[d].task = "ok" \/ tests[d].ours) BY <1>8, <2>1, Bystanders
  <2>3. tests[d].task = "ok" BY <1>10, <2>2
  <2> QED BY <1>7, <2>2, <2>3
<1> QED BY <1>9, <1>11, <1>14, <1>15

LEMMA ConnectLinkKeeps ==
  ASSUME RadioInv, NEW d \in DOMAIN tests, Thymio!ConnectLink(d)
  PROVE  RadioInv'
<1> USE DEF RadioInv, RadioThreads
<1> DEFINE i == tests[d].slot
           c == Thymio!Plain("link")
           cmds == <<c>>
           step == IF gateway THEN "set" ELSE "failed"
<1>1. /\ tests[d].task = "link"
      /\ IF gateway THEN Thymio!Sent(cmds) ELSE uart' = uart
      /\ tests' = [tests EXCEPT ![d].task = step]
      /\ robot' = [robot EXCEPT ![i].status = IF gateway THEN "connecting" ELSE "error"]
      /\ UNCHANGED <<gateway, search, c6, slot, park, joins, thymio>>
  BY DEF Thymio!ConnectLink, Thymio!SentIf, Thymio!Fails, Thymio!Task, Thymio!radio
<1>2. i \in Slots /\ tests[d] \in Windows BY WindowTypes DEF RadioTypes
<1>3. c \in Commands /\ c.cmd = "link" BY Params, PlainWord DEF TestCmds
<1> HIDE DEF c
<1>4. cmds \in Seq(Commands) /\ (\A j \in DOMAIN cmds : cmds[j] = c) /\ 1 \in DOMAIN cmds
  BY <1>3, OneWord
<1>5. \A j \in DOMAIN cmds : cmds[j].cmd \in TestCmds /\ cmds[j].cmd # "set"
  BY <1>3, <1>4 DEF TestCmds
<1> HIDE DEF cmds
<1>6. /\ tests' \in Seq(Windows) /\ DOMAIN tests' = DOMAIN tests
      /\ \A e \in DOMAIN tests : e # d => tests'[e] = tests[e]
      /\ tests'[d].slot = i /\ tests'[d].task = step /\ tests'[d].open = tests[d].open
      /\ tests'[d].ours = tests[d].ours /\ tests'[d].enabled = tests[d].enabled
      /\ tests'[d].cut = tests[d].cut
  <2> DEFINE w == [tests[d] EXCEPT !.task = step]
  <2>1. w \in Windows /\ w.slot = i /\ w.task = step /\ w.open = tests[d].open
        /\ w.ours = tests[d].ours /\ w.enabled = tests[d].enabled /\ w.cut = tests[d].cut
    BY <1>2 DEF Windows
  <2>2. tests' = [tests EXCEPT ![d] = w] BY <1>1
  <2> HIDE DEF w
  <2> QED BY <2>1, <2>2 DEF RadioTypes
<1>7. InPlay(d) /\ \A e \in DOMAIN tests : (InPlay(e)' => InPlay(e)) /\ tests'[e].cut = tests[e].cut
  BY <1>1, <1>6 DEF InPlay
<1>8. /\ uart' \in Seq(Commands)
      /\ OneWindow' /\ Wires' /\ TestWires' /\ SetsFollow' /\ SlotZero' /\ Requests' /\ CleanBoot'
  BY <1>1, <1>4, <1>5, <1>6, <1>7, PlaySends
<1>9. gateway => LinkSent' BY <1>1, <1>3, <1>4, SentTalk DEF RadioTypes
<1>10. ~tests[d].ours /\ ~tests[d].enabled BY <1>1 DEF Connecting
<1>11. \A e \in DOMAIN tests : e # d =>
         ~tests[e].open /\ ~tests[e].enabled /\ ~tests[e].ours /\ tests[e].task = "none"
  BY <1>7, Bystanders
<1>12. \A k \in Slots : ~robot[k].active /\ robot[k].status # "connected"
  BY <1>1, <1>7, <1>10, Bystanders
<1>13. robot' \in Robots /\ \A k \in Slots : ~robot'[k].active /\ robot'[k].status # "connected"
  <2>1. robot \in Robots BY DEF RadioTypes
  <2> QED BY <1>1, <1>2, <1>12, <2>1 DEF Robots
<1>14. RadioTypes' /\ ChipTypes' BY <1>1, <1>6, <1>8, <1>13 DEF RadioTypes, ChipTypes
<1>15. Connecting' BY <1>1, <1>6, <1>9, <1>10, <1>11 DEF Connecting
<1>16. Owned' BY <1>13 DEF Owned
<1> QED BY <1>8, <1>14, <1>15, <1>16

LEMMA ConnectSetKeeps ==
  ASSUME RadioInv, NEW d \in DOMAIN tests, Thymio!ConnectSet(d)
  PROVE  RadioInv'
<1> USE DEF RadioInv, RadioThreads
<1> DEFINE i == tests[d].slot
           ok == gateway \/ i \notin Named
           step == IF ok THEN "ok" ELSE "failed"
           r == [robot[i] EXCEPT !.status = IF ok THEN "connected" ELSE "error", !.active = ok]
           c == Thymio!Command("set", i, 0)
           cmds == <<c>>
<1>1. tests[d].task = "set" BY DEF Thymio!ConnectSet
<1>2. (gateway => ~tests[d].cut /\ LinkSent) /\ (~tests[d].cut => gateway)
  BY <1>1 DEF Connecting, TestWires, InPlay
<1>3. /\ IF gateway /\ i \in Named THEN Thymio!Sent(cmds) ELSE uart' = uart
      /\ tests' = [tests EXCEPT ![d].task = step]
      /\ robot' = [robot EXCEPT ![i] = r]
      /\ UNCHANGED <<gateway, search, c6, slot, park, joins, thymio>>
  BY DEF Thymio!ConnectSet, Thymio!SentIf, Thymio!Task, Thymio!Fails, Thymio!radio
<1>4. i \in Slots /\ tests[d] \in Windows BY WindowTypes DEF RadioTypes
<1>5. c \in Commands /\ c.cmd = "set" /\ c.idx = i BY <1>4, Params, PlainWord DEF TestCmds
<1> HIDE DEF c
<1>6. cmds \in Seq(Commands) /\ (\A j \in DOMAIN cmds : cmds[j] = c) /\ 1 \in DOMAIN cmds
  BY <1>5, OneWord
<1>7. \A j \in DOMAIN cmds : cmds[j].cmd \in TestCmds BY <1>5, <1>6 DEF TestCmds
<1> HIDE DEF cmds
<1>8. /\ tests' \in Seq(Windows) /\ DOMAIN tests' = DOMAIN tests
      /\ \A e \in DOMAIN tests : e # d => tests'[e] = tests[e]
      /\ tests'[d].slot = i /\ tests'[d].task = step /\ tests'[d].open = tests[d].open
      /\ tests'[d].ours = tests[d].ours /\ tests'[d].enabled = tests[d].enabled
      /\ tests'[d].cut = tests[d].cut
  <2> DEFINE w == [tests[d] EXCEPT !.task = step]
  <2>1. w \in Windows /\ w.slot = i /\ w.task = step /\ w.open = tests[d].open
        /\ w.ours = tests[d].ours /\ w.enabled = tests[d].enabled /\ w.cut = tests[d].cut
    BY <1>4 DEF Windows
  <2>2. tests' = [tests EXCEPT ![d] = w] BY <1>3
  <2> HIDE DEF w
  <2> QED BY <2>1, <2>2 DEF RadioTypes
<1>9. InPlay(d) /\ \A e \in DOMAIN tests : (InPlay(e)' => InPlay(e)) /\ tests'[e].cut = tests[e].cut
  BY <1>1, <1>8 DEF InPlay
<1>10. /\ uart' \in Seq(Commands)
       /\ OneWindow' /\ Wires' /\ TestWires' /\ SetsFollow' /\ SlotZero' /\ Requests' /\ CleanBoot'
       /\ LinkSent => LinkSent'
  <2>1. CASE gateway BY <1>2, <1>3, <1>6, <1>7, <1>8, <1>9, <2>1, PlaySends
  <2>2. CASE ~gateway
    <3> DEFINE none == <<>>
    <3>1. none \in Seq(Commands) /\ DOMAIN none = {} OBVIOUS
    <3> HIDE DEF none
    <3> QED BY <1>3, <1>8, <1>9, <2>2, <3>1, PlaySends
  <2> QED BY <2>1, <2>2
<1>11. ASSUME gateway, i \in Named PROVE SetSent(i)'
  <2>1. cmds[1].cmd = "set" /\ cmds[1].idx = i /\ 1 \in DOMAIN cmds BY <1>5, <1>6
  <2>2. Thymio!Sent(cmds) /\ c6' = c6 /\ slot' = slot BY <1>3, <1>11
  <2>3. uart \in Seq(Commands) BY DEF RadioTypes
  <2>4. PICK m \in DOMAIN uart' : uart'[m] = cmds[1] BY <1>6, <2>1, <2>2, <2>3, SentWords
  <2>5. \E k \in DOMAIN uart' : uart'[k].cmd = "set" /\ uart'[k].idx = i BY <2>1, <2>4
  <2>6. tests'[d].slot = tests[d].slot BY <1>8
  <2> QED BY <2>5, <2>6 DEF SetSent
<1>12. ~tests[d].ours /\ ~tests[d].enabled BY <1>1 DEF Connecting
<1>13. \A e \in DOMAIN tests : e # d =>
         ~tests[e].open /\ ~tests[e].enabled /\ ~tests[e].ours /\ tests[e].task = "none"
  BY <1>9, Bystanders
<1>14. \A k \in Slots : ~robot[k].active /\ robot[k].status # "connected"
  BY <1>1, <1>9, <1>12, Bystanders
<1>15. /\ robot' \in Robots
       /\ robot'[i].active = ok /\ (~ok => robot'[i].status # "connected")
       /\ \A k \in Slots : k # i => ~robot'[k].active /\ robot'[k].status # "connected"
  <2>1. robot \in Robots BY DEF RadioTypes
  <2>2. r \in [status : {"off", "connecting", "connected", "error"}, active : BOOLEAN, said : Speeds]
        /\ r.active = ok /\ (~ok => r.status # "connected")
    BY <1>4, <2>1 DEF Robots
  <2> HIDE DEF r, ok
  <2> QED BY <1>3, <1>4, <1>14, <2>1, <2>2 DEF Robots
<1>16. RadioTypes' /\ ChipTypes' BY <1>3, <1>8, <1>10, <1>15 DEF RadioTypes, ChipTypes
<1>17. tests'[d].task = "ok" => ok BY <1>8
<1>18. Connecting'
  BY <1>2, <1>3, <1>8, <1>10, <1>11, <1>12, <1>13, <1>15, <1>17 DEF Connecting
<1>19. Owned' BY <1>8, <1>15 DEF Owned
<1> QED BY <1>10, <1>16, <1>18, <1>19

LEMMA ConnectDoneKeeps ==
  ASSUME RadioInv, NEW d \in DOMAIN tests, Thymio!ConnectDone(d)
  PROVE  RadioInv'
<1> USE DEF RadioInv, RadioThreads
<1> DEFINE i == tests[d].slot
           c == Thymio!Command("drive", i, 0)
           cmds == <<c>>
           mine == tests[d].open /\ tests[d].task = "ok"
<1>1. /\ tests[d].task \in {"ok", "failed"}
      /\ tests' = [tests EXCEPT ![d].task = "none", ![d].ours = mine, ![d].enabled = mine]
      /\ UNCHANGED <<gateway, search, c6, slot, park, joins, thymio>>
      /\ (gateway /\ Thymio!Sent(cmds)) \/ uart' = uart
      /\ IF tests[d].task = "ok" /\ ~tests[d].open
         THEN robot' = [robot EXCEPT ![i] = Thymio!Disconnected(robot[i])]
         ELSE robot' = robot
  BY DEF Thymio!ConnectDone, Thymio!LateConnect, Thymio!SentIf, Thymio!Connected, Thymio!Stopped,
         Thymio!radio
<1>2. i \in Slots /\ tests[d] \in Windows BY WindowTypes DEF RadioTypes
<1>3. c \in Commands /\ c.cmd = "drive" BY <1>2, Params, PlainWord DEF TestCmds
<1> HIDE DEF c
<1>4. cmds \in Seq(Commands) /\ \A j \in DOMAIN cmds : cmds[j] = c BY <1>3, OneWord
<1>5. \A j \in DOMAIN cmds : cmds[j].cmd \in TestCmds /\ cmds[j].cmd # "set"
  BY <1>3, <1>4 DEF TestCmds
<1> HIDE DEF cmds
<1>6. /\ tests' \in Seq(Windows) /\ DOMAIN tests' = DOMAIN tests
      /\ \A e \in DOMAIN tests : e # d => tests'[e] = tests[e]
      /\ tests'[d].slot = i /\ tests'[d].task = "none" /\ tests'[d].open = tests[d].open
      /\ tests'[d].cut = tests[d].cut
      /\ tests'[d].ours <=> mine
      /\ tests'[d].enabled <=> mine
  <2> DEFINE w == [tests[d] EXCEPT !.task = "none", !.ours = mine, !.enabled = mine]
  <2>1. mine \in BOOLEAN OBVIOUS
  <2>2. tests' = [tests EXCEPT ![d] = w] BY <1>1
  <2> HIDE DEF mine
  <2>3. w \in Windows /\ w.slot = i /\ w.task = "none" /\ w.open = tests[d].open
        /\ w.ours = mine /\ w.enabled = mine /\ w.cut = tests[d].cut
    BY <1>2, <2>1 DEF Windows
  <2> HIDE DEF w
  <2> QED BY <2>2, <2>3 DEF RadioTypes
<1>7. InPlay(d) /\ \A e \in DOMAIN tests : (InPlay(e)' => InPlay(e)) /\ tests'[e].cut = tests[e].cut
  BY <1>1, <1>6 DEF InPlay
<1>8. /\ uart' \in Seq(Commands)
      /\ OneWindow' /\ Wires' /\ TestWires' /\ SetsFollow' /\ SlotZero' /\ Requests' /\ CleanBoot'
      /\ LinkSent => LinkSent'
      /\ \A k \in Slots : SetSent(k) => SetSent(k)'
  BY <1>1, <1>4, <1>5, <1>6, <1>7, PlaySends
<1>9. robot' \in Robots /\ (\A k \in Slots : k # i => robot'[k] = robot[k])
      /\ IF tests[d].task = "ok" /\ ~tests[d].open
         THEN ~robot'[i].active /\ robot'[i].status = "off" ELSE robot' = robot
  <2>1. robot \in Robots BY DEF RadioTypes
  <2>2. CASE tests[d].task = "ok" /\ ~tests[d].open
    <3> DEFINE r == Thymio!Disconnected(robot[i])
    <3>1. r \in [status : {"off", "connecting", "connected", "error"}, active : BOOLEAN, said : Speeds]
          /\ ~r.active /\ r.status = "off"
      BY <1>2, <2>1 DEF Robots, Thymio!Disconnected
    <3>2. robot' = [robot EXCEPT ![i] = r] BY <1>1, <2>2
    <3> HIDE DEF r
    <3> QED BY <1>2, <2>1, <2>2, <3>1, <3>2 DEF Robots
  <2>3. CASE ~(tests[d].task = "ok" /\ ~tests[d].open) BY <1>1, <2>1, <2>3
  <2> QED BY <2>2, <2>3
<1>10. ~tests[d].ours BY <1>1 DEF Connecting
<1>11. \A e \in DOMAIN tests : e # d =>
         ~tests[e].open /\ ~tests[e].enabled /\ ~tests[e].ours /\ tests[e].task = "none"
  BY <1>7, Bystanders
<1>12. RadioTypes' /\ ChipTypes' BY <1>1, <1>6, <1>8, <1>9 DEF RadioTypes, ChipTypes
<1>13. tests[d].task = "ok" =>
         robot[i].active /\ (~tests[d].cut => gateway /\ LinkSent /\ (i \in Named => SetSent(i)))
  BY DEF Connecting
<1>14. Connecting'
  <2>1. ASSUME tests'[d].enabled
        PROVE  robot'[i].active /\ (~tests'[d].cut => gateway' /\ LinkSent' /\ (i \in Named => SetSent(i)'))
    BY <1>1, <1>2, <1>6, <1>8, <1>9, <1>13, <2>1
  <2>2. /\ tests'[d].task = "none" /\ (tests'[d].enabled => tests'[d].ours)
        /\ tests'[d].ours => tests'[d].open
    BY <1>6
  <2>3. \A e \in DOMAIN tests' : e # d =>
          ~tests'[e].enabled /\ ~tests'[e].ours /\ tests'[e].task = "none"
    BY <1>6, <1>11
  <2>4. DOMAIN tests' = DOMAIN tests /\ tests'[d].slot = i BY <1>6
  <2> QED BY <2>1, <2>2, <2>3, <2>4 DEF Connecting
<1>15. Owned'
  <2> SUFFICES ASSUME NEW k \in Slots, robot'[k].active \/ robot'[k].status = "connected"
               PROVE  \E e \in DOMAIN tests' : tests'[e].slot = k /\ (tests'[e].task = "ok" \/ tests'[e].ours)
    BY DEF Owned
  <2>1. robot[k].active \/ robot[k].status = "connected" BY <1>9
  <2>2. i = k /\ tests[d].task = "ok" BY <1>7, <1>10, <2>1, Bystanders
  <2>3. tests[d].open BY <1>9, <2>2
  <2> QED BY <1>6, <2>2, <2>3
<1> QED BY <1>8, <1>12, <1>14, <1>15

\* What becomes of the rest when nobody's test is in play.
LEMMA NobodyPlays ==
  ASSUME RadioInv, \A d \in DOMAIN tests : ~InPlay(d), tests' = tests, robot' = robot
  PROVE  OneWindow' /\ TestWires' /\ Connecting' /\ Owned'
<1> USE DEF RadioInv, RadioThreads
<1>1. \A d \in DOMAIN tests : ~InPlay(d)' BY DEF InPlay
<1>2. OneWindow' /\ TestWires' BY <1>1 DEF OneWindow, TestWires
<1>3. \A d \in DOMAIN tests : ~tests[d].open /\ ~tests[d].enabled /\ ~tests[d].ours /\ tests[d].task = "none"
  BY Bystanders
<1>4. Connecting' BY <1>3 DEF Connecting
<1>5. Owned' BY DEF Owned
<1> QED BY <1>2, <1>4, <1>5

LEMMA OpenScanKeeps == ASSUME ~Prompt, RadioInv, Thymio!OpenScan PROVE RadioInv'
<1> USE DEF RadioInv, RadioThreads
<1>1. /\ Thymio!Unhurried /\ search' = [open |-> TRUE, stop |-> FALSE, pc |-> "reboot"]
      /\ UNCHANGED <<gateway, robot, tests, uart, c6, slot, park, joins, thymio>>
  BY DEF Thymio!OpenScan, Thymio!radio
<1>2. uart = <<>> /\ \A d \in DOMAIN tests : ~InPlay(d) BY <1>1, Rested
<1>3. OneWindow' /\ TestWires' /\ Connecting' /\ Owned' BY <1>1, <1>2, NobodyPlays
<1>4. Wires' BY <1>1, <1>2 DEF Wires, All
<1>5. SetsFollow' /\ SlotZero' /\ Requests' /\ CleanBoot'
  BY <1>1 DEF SetsFollow, SlotZero, Requests, CleanBoot
<1>6. RadioTypes' /\ ChipTypes' BY <1>1 DEF RadioTypes, ChipTypes
<1> QED BY <1>3, <1>4, <1>5, <1>6

LEMMA CloseScanKeeps == ASSUME RadioInv, Thymio!CloseScan PROVE RadioInv'
<1> USE DEF RadioInv, RadioThreads
<1>1. /\ search.open /\ search' = [search EXCEPT !.open = FALSE, !.stop = TRUE]
      /\ UNCHANGED <<gateway, robot, tests, uart, c6, slot, park, joins, thymio>>
  BY DEF Thymio!CloseScan, Thymio!radio
<1>2. Searching /\ \A d \in DOMAIN tests : ~InPlay(d) BY <1>1 DEF TestWires, Searching
<1>3. OneWindow' /\ TestWires' /\ Connecting' /\ Owned' BY <1>1, <1>2, NobodyPlays
<1>4. Wires' BY <1>1, <1>2 DEF Wires, All
<1>5. SetsFollow' /\ SlotZero' /\ Requests' /\ CleanBoot'
  BY <1>1 DEF SetsFollow, SlotZero, Requests, CleanBoot
<1>6. RadioTypes' /\ ChipTypes'
  <2>1. search' \in [open : BOOLEAN, stop : BOOLEAN, pc : {"idle", "reboot", "banner", "on", "off"}]
    BY <1>1 DEF RadioTypes
  <2>2. RadioTypes' BY <1>1, <2>1 DEF RadioTypes
  <2>3. ChipTypes' BY <1>1 DEF ChipTypes
  <2> QED BY <2>2, <2>3
<1> QED BY <1>3, <1>4, <1>5, <1>6

LEMMA AskUpdateKeeps == ASSUME ~Prompt, RadioInv, Thymio!AskUpdate PROVE RadioInv'
<1> USE DEF RadioInv, RadioThreads
<1>1. /\ Thymio!Unhurried /\ Thymio!Sent(JoinRequest)
      /\ joins' = [joins EXCEPT !.asked = @ + 1]
      /\ UNCHANGED <<gateway, robot, tests, search, c6, slot, park, thymio>>
  BY DEF Thymio!AskUpdate, Thymio!pcside, JoinRequest
<1>2. uart = <<>> /\ c6.up /\ ~Searching /\ \A d \in DOMAIN tests : ~InPlay(d) BY <1>1, Rested
<1>3. OneWindow' /\ TestWires' /\ Connecting' /\ Owned'
  BY <1>1, <1>2, NobodyPlays
<1>4. uart' = JoinRequest BY <1>1, <1>2 DEF Thymio!Sent, JoinRequest
<1>5. uart' \in Seq(Commands)
  <2>1. Thymio!Plain("ota") \in Commands BY Params, PlainWord
  <2> QED BY <1>4, <2>1 DEF JoinRequest
<1>6. ~All(TestCmds)' /\ ~All(ScanCmds)' BY <1>4, <1>5, TalkApartNext
<1>7. Wires' BY <1>1, <1>2, <1>4, <1>6 DEF Wires, Searching
<1>8. SetsFollow'
  <2>1. \A k \in DOMAIN JoinRequest : JoinRequest[k].cmd # "set"
    BY DEF JoinRequest, Thymio!Plain, Thymio!Command
  <2> QED BY <1>4, <2>1 DEF SetsFollow
<1>9. SlotZero' /\ CleanBoot' BY <1>1 DEF SlotZero, CleanBoot
<1>10. uart # JoinRequest BY <1>2, QuietWire
<1>11. joins' \in [asked : Nat, tried : Nat] /\ joins'.asked = joins.asked + 1 /\ joins'.tried = joins.tried
       /\ joins.asked \in Nat /\ joins.tried \in Nat
  BY <1>1 DEF RadioTypes
<1>12. Requests' BY <1>1, <1>4, <1>10, <1>11 DEF Requests
<1>13. RadioTypes' /\ ChipTypes' BY <1>1, <1>5, <1>11 DEF RadioTypes, ChipTypes
<1> QED BY <1>3, <1>7, <1>8, <1>9, <1>12, <1>13

LEMMA GatewayBackKeeps == ASSUME ~Prompt, RadioInv, Thymio!GatewayBack PROVE RadioInv'
<1> USE DEF RadioInv, RadioThreads
<1>1. /\ Thymio!Unhurried /\ gateway' = TRUE
      /\ UNCHANGED <<robot, tests, search, uart, c6, slot, park, joins, thymio>>
  BY DEF Thymio!GatewayBack, Thymio!radio
<1>2. \A d \in DOMAIN tests : ~InPlay(d) BY <1>1, Rested
<1>3. OneWindow' /\ TestWires' /\ Connecting' /\ Owned' BY <1>1, <1>2, NobodyPlays
<1>4. Wires' BY <1>1 DEF Wires, All, Searching
<1>5. SetsFollow' /\ SlotZero' /\ Requests' /\ CleanBoot'
  BY <1>1 DEF SetsFollow, SlotZero, Requests, CleanBoot
<1>6. RadioTypes' /\ ChipTypes' BY <1>1 DEF RadioTypes, ChipTypes
<1> QED BY <1>3, <1>4, <1>5, <1>6

LEMMA ScanStepKeeps == ASSUME RadioInv, Thymio!ScanStep PROVE RadioInv'
<1> USE DEF RadioInv, RadioThreads
<1>1. UNCHANGED <<gateway, robot, tests, c6, slot, park, joins, thymio>>
  BY DEF Thymio!ScanStep, Thymio!radio
<1>2. search.pc # "idle" /\ Searching BY DEF Thymio!ScanStep, Searching
<1>3. All(ScanCmds) /\ \A d \in DOMAIN tests : ~InPlay(d) BY <1>2 DEF Wires, TestWires
<1>4. \/ uart' = uart
      \/ \E w \in ScanCmds : Thymio!Sent(<<Thymio!Plain(w)>>)
  <2>1. CASE search.pc = "reboot"
    BY <2>1 DEF Thymio!ScanStep, Thymio!SentIf, ScanCmds
  <2>2. CASE search.pc = "banner" BY <2>2 DEF Thymio!ScanStep
  <2>3. CASE search.pc = "on" BY <2>3 DEF Thymio!ScanStep, Thymio!SentIf, ScanCmds
  <2>4. CASE search.pc = "off" BY <2>4 DEF Thymio!ScanStep, Thymio!SentIf, ScanCmds
  <2> QED BY <2>1, <2>2, <2>3, <2>4 DEF Thymio!ScanStep
<1>5. search' \in [open : BOOLEAN, stop : BOOLEAN, pc : {"idle", "reboot", "banner", "on", "off"}]
  BY DEF Thymio!ScanStep, RadioTypes
<1>6. OneWindow' /\ TestWires' /\ Connecting' /\ Owned' BY <1>1, <1>3, NobodyPlays
<1>7. uart' \in Seq(Commands) /\ All(ScanCmds)' /\ SetsFollow'
  <2>1. CASE uart' = uart BY <1>1, <1>3, <2>1 DEF All, SetsFollow, RadioTypes
  <2>2. CASE \E w \in ScanCmds : Thymio!Sent(<<Thymio!Plain(w)>>)
    <3>1. PICK w \in ScanCmds : Thymio!Sent(<<Thymio!Plain(w)>>) BY <2>2
    <3> DEFINE c == Thymio!Plain(w)
               cmds == <<c>>
    <3>2. c \in Commands /\ c.cmd = w BY Params, PlainWord
    <3> HIDE DEF c
    <3>3. cmds \in Seq(Commands) /\ \A j \in DOMAIN cmds : cmds[j] = c BY <3>2, OneWord
    <3>4. \A j \in DOMAIN cmds : cmds[j].cmd \in ScanCmds /\ cmds[j].cmd # "set"
      BY <3>2, <3>3 DEF ScanCmds
    <3>5. Thymio!Sent(cmds) BY <3>1 DEF c
    <3> HIDE DEF cmds
    <3>6. uart \in Seq(Commands) BY DEF RadioTypes
    <3>7. uart' \in Seq(Commands) BY <3>3, <3>5, <3>6, SentWords
    <3>8. All(ScanCmds)' /\ SetsFollow' BY <1>1, <1>3, <3>3, <3>4, <3>5, <3>6, SentTalk
    <3> QED BY <3>7, <3>8
  <2> QED BY <1>4, <2>1, <2>2
<1>8. uart # JoinRequest /\ uart' # JoinRequest BY <1>3, <1>7, TalkApart, TalkApartNext DEF RadioTypes
<1>9. uart' # <<>> => ~All(TestCmds)' BY <1>7, TalkApartNext
<1>10. Wires' BY <1>7, <1>9 DEF Wires
<1>11. SlotZero' /\ Requests' /\ CleanBoot' BY <1>1, <1>8 DEF SlotZero, Requests, CleanBoot
<1>12. RadioTypes' /\ ChipTypes' BY <1>1, <1>5, <1>7 DEF RadioTypes, ChipTypes
<1> QED BY <1>6, <1>7, <1>10, <1>11, <1>12

-----------------------------------------------------------------------------
(* The C6 *)

Thymios == [Slots -> [on : BOOLEAN, wheels : Speeds, emits : BOOLEAN]]
ChipSlots == [Slots -> [active : BOOLEAN, own : BOOLEAN, want : Speeds, loaded : BOOLEAN]]
Chips == [up : BOOLEAN, link : BOOLEAN, disc : BOOLEAN, used : BOOLEAN, join : BOOLEAN,
          alive : BOOLEAN, tier : {0, 1}, deaf : BOOLEAN]

\* What the threads know of the C6.
TakenAs == /\ c6'.up = c6.up /\ c6'.link = c6.link /\ c6'.used = c6.used /\ c6'.join = c6.join
           /\ \A i \in Slots : slot'[i].active = slot[i].active /\ slot'[i].own = slot[i].own

LEMMA ResetTypes ==
  ASSUME Thymio!Reset
  PROVE  /\ c6' \in Chips /\ ~c6'.up /\ ~c6'.link /\ ~c6'.used /\ ~c6'.join
         /\ slot' \in ChipSlots /\ \A i \in Slots : ~slot'[i].active
  BY Params DEF Thymio!Reset, Thymio!Booting, Thymio!NoSlots, Chips, ChipSlots

LEMMA TargetTypes ==
  ASSUME thymio \in Thymios, NEW S, NEW lost, NEW v \in Speeds, Thymio!Targets(S, lost, v)
  PROVE  thymio' \in Thymios
  BY DEF Thymio!Targets, Thymios

LEMMA StopTypes ==
  ASSUME thymio \in Thymios, Thymio!StopWheels
  PROVE  thymio' \in Thymios
  BY TargetTypes, Params DEF Thymio!StopWheels

LEMMA WindowsCut ==
  ASSUME tests \in Seq(Windows), tests' = [d \in DOMAIN tests |-> [tests[d] EXCEPT !.cut = TRUE]]
  PROVE  /\ tests' \in Seq(Windows) /\ DOMAIN tests' = DOMAIN tests
         /\ \A d \in DOMAIN tests :
              /\ tests'[d].slot = tests[d].slot /\ tests'[d].open = tests[d].open
              /\ tests'[d].ours = tests[d].ours /\ tests'[d].enabled = tests[d].enabled
              /\ tests'[d].task = tests[d].task /\ tests'[d].cut
<1>1. DOMAIN tests = 1..Len(tests) /\ Len(tests) \in Nat BY LenProperties
<1>2. \A d \in DOMAIN tests : tests[d] \in Windows BY WindowTypes
<1>3. ASSUME NEW d \in DOMAIN tests
      PROVE  /\ tests'[d] \in Windows /\ tests'[d].cut
             /\ tests'[d].slot = tests[d].slot /\ tests'[d].open = tests[d].open
             /\ tests'[d].ours = tests[d].ours /\ tests'[d].enabled = tests[d].enabled
             /\ tests'[d].task = tests[d].task
  <2>1. tests'[d] = [tests[d] EXCEPT !.cut = TRUE] OBVIOUS
  <2> QED BY <1>2, <2>1 DEF Windows
<1>4. tests' = [d \in 1..Len(tests) |-> tests'[d]] /\ DOMAIN tests' = DOMAIN tests BY <1>1
<1>5. \A d \in 1..Len(tests) : tests'[d] \in Windows BY <1>1, <1>3
<1>6. tests' \in [1..Len(tests) -> Windows] BY <1>4, <1>5
<1>7. tests' \in Seq(Windows) BY <1>1, <1>6, SeqDef
<1> QED BY <1>3, <1>4, <1>7

\* The gateway goes under whatever is in play, with the power of the C6 or without.
LEMMA LoseGatewayKeeps == ASSUME RadioInv, Thymio!LoseGateway PROVE RadioInv'
<1> USE DEF RadioInv, RadioThreads
<1>1. /\ gateway' = FALSE
      /\ tests' = [d \in DOMAIN tests |-> [tests[d] EXCEPT !.cut = TRUE]]
      /\ UNCHANGED <<robot, search, joins, thymio>>
  BY DEF Thymio!LoseGateway
<1>2. \/ Thymio!Reset /\ uart' = <<>> /\ park' = FALSE
      \/ UNCHANGED <<uart, c6, slot, park>>
  BY DEF Thymio!LoseGateway, Thymio!NoPower
<1>3. /\ tests' \in Seq(Windows) /\ DOMAIN tests' = DOMAIN tests
      /\ \A d \in DOMAIN tests :
           /\ tests'[d].slot = tests[d].slot /\ tests'[d].open = tests[d].open
           /\ tests'[d].ours = tests[d].ours /\ tests'[d].enabled = tests[d].enabled
           /\ tests'[d].task = tests[d].task /\ tests'[d].cut
  BY <1>1, WindowsCut DEF RadioTypes
<1>4. \A d \in DOMAIN tests : InPlay(d)' <=> InPlay(d) BY <1>3 DEF InPlay
<1>5. \A C : All(C) => All(C)' BY <1>2 DEF All
<1>6. Searching' = Searching BY <1>1 DEF Searching
<1>7. OneWindow' BY <1>3, <1>4 DEF OneWindow
<1>8. TestWires' BY <1>1, <1>3, <1>4, <1>5, <1>6 DEF TestWires
<1>9. Connecting' BY <1>1, <1>3 DEF Connecting
<1>10. Owned' BY <1>1, <1>3 DEF Owned
<1>11. Wires' /\ SetsFollow' /\ uart' \in Seq(Commands)
  <2>1. CASE uart' = <<>> BY <2>1 DEF All, Wires, SetsFollow
  <2>2. CASE UNCHANGED <<uart, c6>>
    <3>1. Wires' BY <1>6, <2>2 DEF Wires, All
    <3>2. SetsFollow' BY <2>2 DEF SetsFollow
    <3> QED BY <2>2, <3>1, <3>2 DEF RadioTypes
  <2> QED BY <1>2, <2>1, <2>2
<1>12. SlotZero' /\ Requests' /\ CleanBoot' /\ ChipTypes' /\ park' \in BOOLEAN
  <2>1. CASE Thymio!Reset /\ uart' = <<>> /\ park' = FALSE
    <3>1. /\ c6' \in Chips /\ ~c6'.up /\ ~c6'.link /\ ~c6'.used /\ ~c6'.join
          /\ slot' \in ChipSlots /\ \A i \in Slots : ~slot'[i].active
      BY <2>1, ResetTypes
    <3>2. SlotZero' /\ CleanBoot' BY <2>1, <3>1 DEF SlotZero, CleanBoot
    <3>3. uart' # JoinRequest BY <2>1 DEF JoinRequest
    <3>4. joins.tried <= joins.asked
      <4>1. joins.tried \in Nat /\ joins.asked \in Nat BY DEF RadioTypes
      <4> QED BY <4>1 DEF Requests
    <3>5. Requests'
      <4>1. joins.tried + 0 + 0 <= joins.asked BY <3>4 DEF RadioTypes
      <4> QED BY <1>1, <2>1, <3>3, <4>1 DEF Requests
    <3>6. ChipTypes' BY <1>1, <3>1 DEF ChipTypes, Chips, ChipSlots
    <3> QED BY <2>1, <3>2, <3>5, <3>6
  <2>2. CASE UNCHANGED <<uart, c6, slot, park>>
    BY <1>1, <2>2 DEF SlotZero, CleanBoot, Requests, ChipTypes, RadioTypes
  <2> QED BY <1>2, <2>1, <2>2
<1>13. RadioTypes' BY <1>1, <1>3, <1>11, <1>12 DEF RadioTypes
<1> QED BY <1>7, <1>8, <1>9, <1>10, <1>11, <1>12, <1>13

\* The C6 goes on as it was, with no word taken.
LEMMA ChipSame ==
  ASSUME RadioInv, TakenAs, c6' \in Chips, slot' \in ChipSlots, thymio' \in Thymios,
         UNCHANGED <<gateway, robot, tests, search, uart, park, joins>>
  PROVE  RadioInv'
<1> USE DEF RadioInv, RadioThreads
<1>1. RadioTypes' BY DEF RadioTypes
<1>2. ChipTypes' BY DEF ChipTypes, Chips, ChipSlots, Thymios
<1>3. OneWindow' BY DEF OneWindow, InPlay
<1>4. Wires' /\ TestWires' BY DEF Wires, TestWires, InPlay, Searching, All, TakenAs
<1>5. SetsFollow' /\ SlotZero' BY Params DEF SetsFollow, SlotZero, TakenAs
<1>6. \A d \in DOMAIN tests : tests[d].slot \in Slots BY WindowTypes DEF RadioTypes
<1>7. (LinkSent => LinkSent') /\ \A i \in Slots : SetSent(i) => SetSent(i)'
  BY DEF LinkSent, SetSent, TakenAs
<1>8. Connecting' BY <1>6, <1>7 DEF Connecting
<1>9. Owned' BY DEF Owned
<1>10. Requests' /\ CleanBoot' BY DEF Requests, CleanBoot, TakenAs
<1> QED BY <1>1, <1>2, <1>3, <1>4, <1>5, <1>8, <1>9, <1>10

\* A word is taken that is neither link nor set, and the C6 stays up.
LEMMA WordTaken ==
  ASSUME RadioInv, TakenAs, c6.up, ~c6.join, uart # <<>>, uart' = Tail(uart),
         Head(uart).cmd \in {"drive", "sound", "enough"},
         c6' \in Chips, slot' \in ChipSlots, thymio' \in Thymios,
         UNCHANGED <<gateway, robot, tests, search, park, joins>>
  PROVE  RadioInv'
<1> USE DEF RadioInv, RadioThreads
<1>0. uart \in Seq(Commands) BY DEF RadioTypes
<1>1. uart' \in Seq(Commands) BY <1>0, HandledWords
<1>2. RadioTypes' BY <1>1 DEF RadioTypes
<1>3. ChipTypes' BY DEF ChipTypes, Chips, ChipSlots, Thymios
<1>4. OneWindow' BY DEF OneWindow, InPlay
<1>5. \A C : All(C) => All(C)' BY <1>0, HandledTalk
<1>6. uart # JoinRequest BY <1>0, HandledTalk
<1>7. All(TestCmds) \/ All(ScanCmds) BY <1>6 DEF Wires
<1>8. All(TestCmds)' \/ All(ScanCmds)' BY <1>5, <1>7
<1>9. uart' # JoinRequest BY <1>1, <1>8, TalkApartNext
<1>10. Wires' BY <1>5, <1>8 DEF Wires, Searching, TakenAs
<1>11. TestWires' BY <1>5 DEF TestWires, InPlay, Searching, TakenAs
<1>12. SetsFollow' BY <1>0, HandledTalk DEF TakenAs
<1>13. SlotZero' BY Params DEF SlotZero, TakenAs
<1>14. \A d \in DOMAIN tests : tests[d].slot \in Slots BY WindowTypes DEF RadioTypes
<1>15. LinkSent => LinkSent' BY <1>0, HandledTalk DEF TakenAs
<1>16. ASSUME NEW i \in Slots, SetSent(i) PROVE SetSent(i)'
  <2>1. CASE slot[i].active /\ slot[i].own BY <2>1 DEF SetSent, TakenAs
  <2>2. CASE \E j \in DOMAIN uart : uart[j].cmd = "set" /\ uart[j].idx = i
    <3>1. PICK j \in DOMAIN uart : uart[j].cmd = "set" /\ uart[j].idx = i BY <2>2
    <3>2. j # 1 BY <1>0, <3>1, HandledWords
    <3>3. j - 1 \in DOMAIN uart' /\ uart'[j - 1] = uart[j] BY <1>0, <3>2, HandledWords
    <3> QED BY <3>1, <3>3 DEF SetSent
  <2> QED BY <1>16, <2>1, <2>2 DEF SetSent
<1>17. Connecting' BY <1>14, <1>15, <1>16 DEF Connecting
<1>18. Owned' BY DEF Owned
<1>19. Requests' /\ CleanBoot' BY <1>6, <1>9 DEF Requests, CleanBoot, TakenAs
<1> QED BY <1>2, <1>3, <1>4, <1>10, <1>11, <1>12, <1>13, <1>17, <1>18, <1>19

\* The C6 is taken away with no test's word on the wire, and no test in play but such
\* as lost the gateway.
LEMMA ChipElsewhere ==
  ASSUME RadioInv, \A d \in DOMAIN tests : InPlay(d) => tests[d].cut,
         uart' = uart \/ (uart # <<>> /\ uart' = Tail(uart)), uart = <<>> \/ ~All(TestCmds),
         c6' \in Chips, slot' \in ChipSlots, thymio' \in Thymios,
         UNCHANGED <<gateway, robot, tests, search>>,
         park' \in BOOLEAN, joins' \in [asked : Nat, tried : Nat],
         SlotZero', Requests', CleanBoot'
  PROVE  RadioInv'
<1> USE DEF RadioInv, RadioThreads
<1>0. uart \in Seq(Commands) BY DEF RadioTypes
<1>1. uart' \in Seq(Commands) BY <1>0, HandledWords
<1>2. RadioTypes' BY <1>1 DEF RadioTypes
<1>3. ChipTypes' BY DEF ChipTypes, Chips, ChipSlots, Thymios
<1>4. OneWindow' /\ TestWires' /\ Connecting' /\ Owned'
  <2>1. \A d \in DOMAIN tests : InPlay(d)' <=> InPlay(d) BY DEF InPlay
  <2>2. All(TestCmds) => All(TestCmds)' BY DEF All
  <2>3. OneWindow' BY <2>1 DEF OneWindow
  <2>4. TestWires' BY <2>1, <2>2 DEF TestWires, Searching
  <2>5. \A d \in DOMAIN tests : ~InPlay(d) =>
          ~tests[d].open /\ ~tests[d].enabled /\ ~tests[d].ours /\ tests[d].task = "none"
    BY Bystanders
  <2>6. Connecting' BY <2>5 DEF Connecting
  <2>7. Owned' BY DEF Owned
  <2> QED BY <2>3, <2>4, <2>6, <2>7
<1>5. All(ScanCmds) \/ uart = JoinRequest BY DEF Wires, All
<1>6. \A C : All(C) => All(C)' BY <1>0, HandledTalk DEF All
<1>7. All(ScanCmds)' \/ uart' = JoinRequest
  <2>1. CASE uart' = uart BY <1>5, <2>1 DEF All
  <2>2. CASE uart # <<>> /\ uart' = Tail(uart)
    <3>1. uart = JoinRequest => uart' = <<>> BY <1>0, <2>2, HandledTalk
    <3>2. uart' = <<>> => All(ScanCmds)' BY DEF All
    <3> QED BY <1>5, <1>6, <3>1, <3>2
  <2> QED BY <2>1, <2>2
<1>8. uart' # <<>> => ~All(TestCmds)' BY <1>1, <1>7, TalkApartNext
<1>9. Wires' BY <1>6, <1>7, <1>8 DEF Wires, Searching
<1>10. SetsFollow'
  <2>1. All(ScanCmds)' => SetsFollow' BY DEF All, ScanCmds, SetsFollow
  <2>2. \A k \in DOMAIN JoinRequest : JoinRequest[k].cmd # "set"
    BY DEF JoinRequest, Thymio!Plain, Thymio!Command
  <2>3. uart' = JoinRequest => SetsFollow' BY <2>2 DEF SetsFollow
  <2> QED BY <1>7, <2>1, <2>3
<1> QED BY <1>2, <1>3, <1>4, <1>9, <1>10

LEMMA HandleHead ==
  ASSUME RadioInv, NEW c, Thymio!Handle(c)
  PROVE  /\ c6.up /\ ~c6.join /\ uart # <<>> /\ Head(uart).cmd = c /\ uart' = Tail(uart)
         /\ c \in TestCmds => All(TestCmds)
         /\ c \notin TestCmds => ~All(TestCmds) /\ \A d \in DOMAIN tests : ~InPlay(d)
         /\ Head(uart).idx \in Slots /\ Head(uart).speed \in Speeds
<1> USE DEF RadioInv, RadioThreads
<1>1. c6.up /\ ~c6.join /\ uart # <<>> /\ Head(uart).cmd = c /\ uart' = Tail(uart)
  BY DEF Thymio!Handle
<1>2. uart \in Seq(Commands) BY DEF RadioTypes
<1>3. \A C : All(C) => c \in C BY <1>1, <1>2, HandledTalk
<1>4. uart = JoinRequest => c = "ota" BY <1>1, <1>2, HandledTalk
<1>5. c \in TestCmds => All(TestCmds) BY <1>3, <1>4 DEF Wires, TestCmds, ScanCmds
<1>6. c \notin TestCmds => ~All(TestCmds) BY <1>3
<1>7. c \notin TestCmds => \A d \in DOMAIN tests : ~InPlay(d) BY <1>6 DEF TestWires
<1>8. Head(uart) \in Commands BY <1>1, <1>2, HandledWords
<1> QED BY <1>1, <1>5, <1>6, <1>7, <1>8 DEF Commands

LEMMA LinkOnKeeps == ASSUME RadioInv, Thymio!LinkOn PROVE RadioInv'
<1> USE DEF RadioInv, RadioThreads
<1>1. /\ Thymio!Handle("link")
      /\ c6' = [c6 EXCEPT !.link = TRUE, !.used = TRUE, !.deaf = FALSE]
      /\ slot' = [i \in Slots |->
           [slot[i] EXCEPT !.active = @ \/ (i = 0 /\ Thymio!Active = {}),
                           !.own = @ /\ ~(i = 0 /\ Thymio!Active = {}), !.loaded = FALSE]]
      /\ UNCHANGED <<gateway, robot, tests, search, park, joins, thymio>>
  BY DEF Thymio!LinkOn, Thymio!pcside
<1>2. /\ c6.up /\ ~c6.join /\ uart # <<>> /\ Head(uart).cmd = "link" /\ uart' = Tail(uart)
      /\ All(TestCmds)
  BY <1>1, HandleHead DEF TestCmds
<1>3. uart \in Seq(Commands) BY DEF RadioTypes
<1>4. uart' \in Seq(Commands) BY <1>2, <1>3, HandledWords
<1>5. RadioTypes' BY <1>1, <1>4 DEF RadioTypes
<1>6. c6' \in Chips /\ c6'.up /\ ~c6'.join /\ c6'.link BY <1>1, <1>2 DEF ChipTypes, Chips
<1>7. \A i \in Slots : slot[i] \in [active : BOOLEAN, own : BOOLEAN, want : Speeds, loaded : BOOLEAN]
  BY DEF ChipTypes
<1>8. /\ slot' \in ChipSlots
      /\ \A i \in Slots : slot'[i].active <=> slot[i].active \/ (i = 0 /\ Thymio!Active = {})
      /\ \A i \in Slots : slot'[i].own <=> slot[i].own /\ ~(i = 0 /\ Thymio!Active = {})
  BY <1>1, <1>7 DEF ChipSlots
<1>9. slot'[0].active
  <2>1. Thymio!Active # {} => slot[0].active BY DEF SlotZero, Thymio!Active
  <2> QED BY <1>8, <2>1, Params
<1>10. ChipTypes' BY <1>1, <1>6, <1>8 DEF ChipTypes, Chips, ChipSlots
<1>11. OneWindow' BY <1>1 DEF OneWindow, InPlay
<1>12. All(TestCmds)' BY <1>2, <1>3, HandledTalk
<1>13. (All(ScanCmds) => All(ScanCmds)') BY <1>2, <1>3, HandledTalk
<1>14. Wires' BY <1>1, <1>6, <1>12, <1>13 DEF Wires, Searching
<1>15. TestWires' BY <1>1, <1>6, <1>12 DEF TestWires, InPlay, Searching
<1>16. SetsFollow' /\ SlotZero' /\ LinkSent' BY <1>6, <1>9 DEF SetsFollow, SlotZero, LinkSent
<1>17. \A d \in DOMAIN tests : tests[d].slot \in Slots BY WindowTypes DEF RadioTypes
<1>18. ASSUME NEW i \in Slots, SetSent(i) PROVE SetSent(i)'
  <2>1. CASE slot[i].active /\ slot[i].own
    <3>1. Thymio!Active # {} BY <2>1 DEF Thymio!Active
    <3> QED BY <1>8, <2>1, <3>1 DEF SetSent
  <2>2. CASE \E j \in DOMAIN uart : uart[j].cmd = "set" /\ uart[j].idx = i
    <3>1. PICK j \in DOMAIN uart : uart[j].cmd = "set" /\ uart[j].idx = i BY <2>2
    <3>2. j # 1 BY <1>2, <1>3, <3>1, HandledWords
    <3>3. j - 1 \in DOMAIN uart' /\ uart'[j - 1] = uart[j] BY <1>2, <1>3, <3>2, HandledWords
    <3> QED BY <3>1, <3>3 DEF SetSent
  <2> QED BY <1>18, <2>1, <2>2 DEF SetSent
<1>19. Connecting' BY <1>1, <1>16, <1>17, <1>18 DEF Connecting
<1>20. Owned' BY <1>1 DEF Owned
<1>21. uart # JoinRequest /\ uart' # JoinRequest
  BY <1>2, <1>3, <1>4, <1>12, TalkApart, TalkApartNext
<1>22. Requests' BY <1>1, <1>21 DEF Requests
<1>23. CleanBoot' BY <1>1, <1>2, <1>6 DEF CleanBoot
<1> QED BY <1>5, <1>10, <1>11, <1>14, <1>15, <1>16, <1>19, <1>20, <1>22, <1>23

LEMMA SetSlotKeeps == ASSUME RadioInv, Thymio!SetSlot PROVE RadioInv'
<1> USE DEF RadioInv, RadioThreads
<1> DEFINE h == Head(uart).idx
<1>1. /\ Thymio!Handle("set")
      /\ slot' = [slot EXCEPT ![h] = [active |-> TRUE, own |-> TRUE, want |-> 0, loaded |-> FALSE]]
      /\ UNCHANGED <<gateway, robot, tests, search, c6, park, joins, thymio>>
  BY DEF Thymio!SetSlot, Thymio!pcside
<1>2. /\ c6.up /\ ~c6.join /\ uart # <<>> /\ Head(uart).cmd = "set" /\ uart' = Tail(uart)
      /\ All(TestCmds) /\ h \in Slots
  BY <1>1, HandleHead DEF TestCmds
<1>3. uart \in Seq(Commands) BY DEF RadioTypes
<1>4. uart' \in Seq(Commands) BY <1>2, <1>3, HandledWords
<1>5. RadioTypes' BY <1>1, <1>4 DEF RadioTypes
<1>6. c6.link /\ slot[0].active BY <1>2, <1>3, HandledTalk DEF SlotZero
<1>7. /\ slot' \in ChipSlots /\ slot'[h].active /\ slot'[h].own
      /\ \A i \in Slots : i # h => slot'[i] = slot[i]
  BY <1>1, <1>2, Params DEF ChipTypes, ChipSlots
<1>8. slot'[0].active BY <1>6, <1>7, Params
<1>9. ChipTypes' BY <1>1, <1>7 DEF ChipTypes, ChipSlots
<1>10. OneWindow' BY <1>1 DEF OneWindow, InPlay
<1>11. All(TestCmds)' BY <1>2, <1>3, HandledTalk
<1>12. (All(ScanCmds) => All(ScanCmds)') BY <1>2, <1>3, HandledTalk
<1>13. Wires' BY <1>1, <1>2, <1>11, <1>12 DEF Wires, Searching
<1>14. TestWires' BY <1>1, <1>2, <1>11 DEF TestWires, InPlay, Searching
<1>15. SetsFollow' /\ SlotZero' /\ LinkSent' BY <1>1, <1>6, <1>8 DEF SetsFollow, SlotZero, LinkSent
<1>16. \A d \in DOMAIN tests : tests[d].slot \in Slots BY WindowTypes DEF RadioTypes
<1>17. ASSUME NEW i \in Slots, SetSent(i) PROVE SetSent(i)'
  <2>1. CASE i = h BY <1>7, <2>1 DEF SetSent
  <2>2. CASE i # h /\ slot[i].active /\ slot[i].own BY <1>7, <2>2 DEF SetSent
  <2>3. CASE i # h /\ \E j \in DOMAIN uart : uart[j].cmd = "set" /\ uart[j].idx = i
    <3>1. PICK j \in DOMAIN uart : uart[j].cmd = "set" /\ uart[j].idx = i BY <2>3
    <3>2. j # 1 BY <1>2, <1>3, <2>3, <3>1, HandledWords
    <3>3. j - 1 \in DOMAIN uart' /\ uart'[j - 1] = uart[j] BY <1>2, <1>3, <3>2, HandledWords
    <3> QED BY <3>1, <3>3 DEF SetSent
  <2> QED BY <1>17, <2>1, <2>2, <2>3 DEF SetSent
<1>18. Connecting' BY <1>1, <1>15, <1>16, <1>17 DEF Connecting
<1>19. Owned' BY <1>1 DEF Owned
<1>20. uart # JoinRequest /\ uart' # JoinRequest
  BY <1>2, <1>3, <1>4, <1>11, TalkApart, TalkApartNext
<1>21. Requests' BY <1>1, <1>20 DEF Requests
<1>22. CleanBoot' BY <1>1 DEF CleanBoot
<1> QED BY <1>5, <1>9, <1>10, <1>13, <1>14, <1>15, <1>18, <1>19, <1>21, <1>22

LEMMA SetDriveKeeps == ASSUME RadioInv, Thymio!SetDrive PROVE RadioInv'
<1> USE DEF RadioInv, RadioThreads
<1> DEFINE h == Head(uart).idx
           v == Head(uart).speed
<1>1. /\ Thymio!Handle("drive") /\ slot' = [slot EXCEPT ![h].want = v]
      /\ UNCHANGED <<gateway, robot, tests, search, c6, park, joins>>
      /\ \E S, lost : Thymio!Targets(S, lost, v)
  BY DEF Thymio!SetDrive, Thymio!pcside
<1>2. /\ c6.up /\ ~c6.join /\ uart # <<>> /\ Head(uart).cmd = "drive" /\ uart' = Tail(uart)
      /\ h \in Slots /\ v \in Speeds
  BY <1>1, HandleHead
<1>3. thymio' \in Thymios
  <2>1. thymio \in Thymios BY DEF ChipTypes, Thymios
  <2> HIDE DEF v
  <2> QED BY <1>1, <1>2, <2>1, TargetTypes
<1>4. slot' \in ChipSlots /\ \A i \in Slots : slot'[i].active = slot[i].active /\ slot'[i].own = slot[i].own
  <2> DEFINE w == [slot[h] EXCEPT !.want = v]
  <2>1. slot \in ChipSlots BY DEF ChipTypes, ChipSlots
  <2>2. w \in [active : BOOLEAN, own : BOOLEAN, want : Speeds, loaded : BOOLEAN]
        /\ w.active = slot[h].active /\ w.own = slot[h].own
    BY <1>2, <2>1 DEF ChipSlots
  <2>3. slot' = [slot EXCEPT ![h] = w] BY <1>1
  <2> HIDE DEF w, h
  <2> QED BY <1>2, <2>1, <2>2, <2>3 DEF ChipSlots
<1>5. TakenAs BY <1>1, <1>4 DEF TakenAs
<1>6. c6' \in Chips BY <1>1 DEF ChipTypes, Chips
<1> QED BY <1>1, <1>2, <1>3, <1>4, <1>5, <1>6, WordTaken

LEMMA PlaySoundKeeps == ASSUME RadioInv, Thymio!PlaySound PROVE RadioInv'
<1> USE DEF RadioInv, RadioThreads
<1> DEFINE h == Head(uart).idx
<1>1. /\ Thymio!Handle("sound") /\ slot' = [slot EXCEPT ![h].loaded = FALSE]
      /\ UNCHANGED <<gateway, robot, tests, search, c6, park, joins>>
      /\ \/ thymio' = thymio
         \/ \E w \in {0, thymio[h].wheels} :
              thymio' = [thymio EXCEPT ![h] = [@ EXCEPT !.wheels = w, !.emits = FALSE]]
  BY DEF Thymio!PlaySound, Thymio!pcside
<1>2. /\ c6.up /\ ~c6.join /\ uart # <<>> /\ Head(uart).cmd = "sound" /\ uart' = Tail(uart)
      /\ h \in Slots
  BY <1>1, HandleHead
<1>3. thymio' \in Thymios
  <2>1. thymio \in Thymios BY DEF ChipTypes, Thymios
  <2>2. \A w \in {0, thymio[h].wheels} : w \in Speeds BY <1>2, <2>1, Params DEF Thymios
  <2> HIDE DEF h
  <2>3. CASE thymio' = thymio BY <2>1, <2>3
  <2>4. ASSUME NEW w \in {0, thymio[h].wheels},
               thymio' = [thymio EXCEPT ![h] = [@ EXCEPT !.wheels = w, !.emits = FALSE]]
        PROVE  thymio' \in Thymios
    <3> DEFINE t == [thymio[h] EXCEPT !.wheels = w, !.emits = FALSE]
    <3>1. t \in [on : BOOLEAN, wheels : Speeds, emits : BOOLEAN] BY <1>2, <2>1, <2>2 DEF Thymios
    <3>2. thymio' = [thymio EXCEPT ![h] = t] BY <2>4
    <3> HIDE DEF t
    <3> QED BY <1>2, <2>1, <3>1, <3>2 DEF Thymios
  <2> QED BY <1>1, <2>3, <2>4
<1>4. slot' \in ChipSlots /\ \A i \in Slots : slot'[i].active = slot[i].active /\ slot'[i].own = slot[i].own
  <2> DEFINE w == [slot[h] EXCEPT !.loaded = FALSE]
  <2>1. slot \in ChipSlots BY DEF ChipTypes, ChipSlots
  <2>2. w \in [active : BOOLEAN, own : BOOLEAN, want : Speeds, loaded : BOOLEAN]
        /\ w.active = slot[h].active /\ w.own = slot[h].own
    BY <1>2, <2>1 DEF ChipSlots
  <2>3. slot' = [slot EXCEPT ![h] = w] BY <1>1
  <2> HIDE DEF w, h
  <2> QED BY <1>2, <2>1, <2>2, <2>3 DEF ChipSlots
<1>5. TakenAs BY <1>1, <1>4 DEF TakenAs
<1>6. c6' \in Chips BY <1>1 DEF ChipTypes, Chips
<1> QED BY <1>1, <1>2, <1>3, <1>4, <1>5, <1>6, WordTaken

LEMMA EnoughKeeps == ASSUME RadioInv, Thymio!Enough PROVE RadioInv'
<1> USE DEF RadioInv, RadioThreads
<1>1. /\ Thymio!Handle("enough") /\ c6' = [c6 EXCEPT !.disc = FALSE]
      /\ UNCHANGED <<gateway, robot, tests, search, slot, park, joins, thymio>>
  BY DEF Thymio!Enough, Thymio!pcside
<1>2. c6.up /\ ~c6.join /\ uart # <<>> /\ Head(uart).cmd = "enough" /\ uart' = Tail(uart)
  BY <1>1, HandleHead
<1>3. c6' \in Chips /\ TakenAs BY <1>1 DEF ChipTypes, Chips, TakenAs
<1>4. slot' \in ChipSlots /\ thymio' \in Thymios BY <1>1 DEF ChipTypes, ChipSlots, Thymios
<1> QED BY <1>1, <1>2, <1>3, <1>4, WordTaken

\* A word of a scan or an update leaves the wire.
LEMMA NoRequestLeft ==
  ASSUME RadioInv, uart # <<>>, uart' = Tail(uart)
  PROVE  uart' # JoinRequest
<1> USE DEF RadioInv, RadioThreads
<1>1. uart \in Seq(Commands) BY DEF RadioTypes
<1>2. uart' \in Seq(Commands) BY <1>1, HandledWords
<1>3. uart = JoinRequest => uart' = <<>> BY <1>1, HandledTalk
<1>4. \A C : All(C) => All(C)' BY <1>1, HandledTalk
<1>5. uart' = <<>> => uart' # JoinRequest BY DEF JoinRequest
<1> QED BY <1>2, <1>3, <1>4, <1>5, TalkApartNext DEF Wires

LEMMA StillTypes ==
  ASSUME slot \in ChipSlots
  PROVE  /\ Thymio!Still(slot) \in ChipSlots
         /\ \A i \in Slots : Thymio!Still(slot)[i].active = slot[i].active
  BY Params DEF Thymio!Still, ChipSlots

LEMMA LookKeeps == ASSUME RadioInv, Thymio!Look PROVE RadioInv'
<1> USE DEF RadioInv, RadioThreads
<1>1. /\ Thymio!Handle("look") /\ Thymio!StopWheels /\ slot' = Thymio!Still(slot)
      /\ c6' = [c6 EXCEPT !.link = FALSE, !.disc = TRUE, !.used = TRUE, !.deaf = FALSE]
      /\ UNCHANGED <<gateway, robot, tests, search, park, joins>>
  BY DEF Thymio!Look, Thymio!pcside
<1>2. /\ c6.up /\ ~c6.join /\ uart # <<>> /\ uart' = Tail(uart) /\ Head(uart).cmd = "look"
      /\ ~All(TestCmds) /\ \A d \in DOMAIN tests : ~InPlay(d)
  BY <1>1, HandleHead DEF TestCmds
<1>3. slot \in ChipSlots /\ thymio \in Thymios /\ c6 \in Chips
  BY DEF ChipTypes, ChipSlots, Thymios, Chips
<1>4. c6' \in Chips /\ ~c6'.link /\ c6'.up /\ ~c6'.join BY <1>1, <1>2, <1>3 DEF Chips
<1>5. slot' \in ChipSlots /\ \A i \in Slots : slot'[i].active = slot[i].active
  BY <1>1, <1>3, StillTypes
<1>6. thymio' \in Thymios BY <1>1, <1>3, StopTypes
<1>7. SlotZero' BY <1>4, <1>5, Params DEF SlotZero
<1>8. uart # JoinRequest BY <1>2, HandledTalk DEF RadioTypes
<1>9. Requests' BY <1>1, <1>2, <1>8, NoRequestLeft DEF Requests
<1>10. CleanBoot' BY <1>1, <1>2, <1>4 DEF CleanBoot
<1>11. park' \in BOOLEAN /\ joins' \in [asked : Nat, tried : Nat] BY <1>1 DEF RadioTypes
<1> QED BY <1>1, <1>2, <1>4, <1>5, <1>6, <1>7, <1>9, <1>10, <1>11, ChipElsewhere

LEMMA RebootKeeps == ASSUME RadioInv, Thymio!Reboot PROVE RadioInv'
<1> USE DEF RadioInv, RadioThreads
<1>1. /\ Thymio!Handle("reboot") /\ Thymio!Reset
      /\ UNCHANGED <<gateway, robot, tests, search, park, joins, thymio>>
  BY DEF Thymio!Reboot, Thymio!pcside
<1>2. /\ c6.up /\ ~c6.join /\ uart # <<>> /\ uart' = Tail(uart) /\ Head(uart).cmd = "reboot"
      /\ ~All(TestCmds) /\ \A d \in DOMAIN tests : ~InPlay(d)
  BY <1>1, HandleHead DEF TestCmds
<1>3. /\ c6' \in Chips /\ ~c6'.up /\ ~c6'.link /\ ~c6'.used /\ ~c6'.join
      /\ slot' \in ChipSlots /\ \A i \in Slots : ~slot'[i].active
  BY <1>1, ResetTypes
<1>4. thymio' \in Thymios BY <1>1 DEF ChipTypes, Thymios
<1>5. SlotZero' BY <1>3 DEF SlotZero
<1>6. uart # JoinRequest BY <1>2, HandledTalk DEF RadioTypes
<1>7. Requests' BY <1>1, <1>2, <1>6, NoRequestLeft DEF Requests
<1>8. CleanBoot' BY <1>3 DEF CleanBoot
<1>9. park' \in BOOLEAN /\ joins' \in [asked : Nat, tried : Nat] BY <1>1 DEF RadioTypes
<1> QED BY <1>1, <1>2, <1>3, <1>4, <1>5, <1>7, <1>8, <1>9, ChipElsewhere

LEMMA UpdateKeeps == ASSUME RadioInv, Thymio!Update PROVE RadioInv'
<1> USE DEF RadioInv, RadioThreads
<1>1. /\ Thymio!Handle("ota") /\ Thymio!StopWheels
      /\ UNCHANGED <<gateway, robot, tests, search>>
      /\ IF c6.used THEN Thymio!Reset /\ park' = TRUE /\ UNCHANGED joins
         ELSE /\ c6' = [c6 EXCEPT !.link = FALSE, !.join = TRUE] /\ slot' = Thymio!Still(slot)
              /\ joins' = [joins EXCEPT !.tried = @ + 1] /\ UNCHANGED park
  BY DEF Thymio!Update, Thymio!MustPark, Thymio!pcside
<1>2. /\ c6.up /\ ~c6.join /\ uart # <<>> /\ uart' = Tail(uart) /\ Head(uart).cmd = "ota"
      /\ ~All(TestCmds) /\ \A d \in DOMAIN tests : ~InPlay(d)
  BY <1>1, HandleHead DEF TestCmds
<1>3. slot \in ChipSlots /\ thymio \in Thymios /\ c6 \in Chips /\ joins \in [asked : Nat, tried : Nat]
  BY DEF ChipTypes, ChipSlots, Thymios, Chips, RadioTypes
<1>4. thymio' \in Thymios BY <1>1, <1>3, StopTypes
<1>5. uart = JoinRequest
  <2>1. uart \in Seq(Commands) BY DEF RadioTypes
  <2>2. All(ScanCmds) => "ota" \in ScanCmds BY <1>2, <2>1, HandledTalk
  <2>3. ~All(ScanCmds) BY <2>2 DEF ScanCmds
  <2> QED BY <1>2, <2>3 DEF Wires
<1>6. ~park BY <1>2 DEF CleanBoot
<1>7. uart' # JoinRequest BY <1>2, NoRequestLeft
<1>8. CASE c6.used
  <2>1. /\ c6' \in Chips /\ ~c6'.up /\ ~c6'.link /\ ~c6'.used /\ ~c6'.join
        /\ slot' \in ChipSlots /\ \A i \in Slots : ~slot'[i].active
    BY <1>1, <1>8, ResetTypes
  <2>2. park' = TRUE /\ joins' = joins BY <1>1, <1>8
  <2>3. SlotZero' /\ CleanBoot' BY <2>1 DEF SlotZero, CleanBoot
  <2>4. Requests' BY <1>3, <1>5, <1>6, <1>7, <2>2 DEF Requests
  <2>5. park' \in BOOLEAN BY <2>2
  <2> QED BY <1>1, <1>2, <1>3, <1>4, <2>1, <2>2, <2>3, <2>4, <2>5, ChipElsewhere
<1>9. CASE ~c6.used
  <2>1. /\ c6' = [c6 EXCEPT !.link = FALSE, !.join = TRUE] /\ slot' = Thymio!Still(slot)
        /\ joins' = [joins EXCEPT !.tried = @ + 1] /\ park' = park
    BY <1>1, <1>9
  <2>2. c6' \in Chips /\ ~c6'.link /\ c6'.up /\ c6'.join /\ ~c6'.used
    BY <1>2, <1>3, <1>9, <2>1 DEF Chips
  <2>3. slot' \in ChipSlots /\ \A i \in Slots : slot'[i].active = slot[i].active
    BY <1>3, <2>1, StillTypes
  <2>4. SlotZero' BY <2>2, <2>3, Params DEF SlotZero
  <2>5. CleanBoot' BY <1>6, <2>1, <2>2 DEF CleanBoot
  <2>6. joins' \in [asked : Nat, tried : Nat] /\ joins'.tried = joins.tried + 1 /\ joins'.asked = joins.asked
        /\ joins.tried \in Nat /\ joins.asked \in Nat
    BY <1>3, <2>1
  <2>7. Requests' BY <1>5, <1>6, <1>7, <2>1, <2>6 DEF Requests
  <2>8. park' \in BOOLEAN BY <2>1 DEF RadioTypes
  <2> QED BY <1>1, <1>2, <1>4, <2>2, <2>3, <2>4, <2>5, <2>6, <2>7, <2>8, ChipElsewhere
<1> QED BY <1>8, <1>9

\* Nothing is said to a C6 that joins or boots, but by who waits for it or lost it.
LEMMA ChipAway ==
  ASSUME RadioInv, c6.join \/ ~c6.up
  PROVE  (uart = <<>> \/ ~All(TestCmds)) /\ \A d \in DOMAIN tests : InPlay(d) => tests[d].cut
  BY DEF RadioInv, RadioThreads, Wires, TestWires

LEMMA JoinEnds ==
  ASSUME RadioInv, c6.join, Thymio!Reset \/ (c6' = [c6 EXCEPT !.join = FALSE] /\ slot' = slot),
         UNCHANGED <<gateway, robot, tests, search, uart, park, joins, thymio>>
  PROVE  RadioInv'
<1> USE DEF RadioInv, RadioThreads
<1>1. (uart = <<>> \/ ~All(TestCmds)) /\ \A d \in DOMAIN tests : InPlay(d) => tests[d].cut
  BY ChipAway
<1>2. c6.up /\ ~park /\ ~c6.used BY DEF CleanBoot
<1>3. thymio' \in Thymios BY DEF ChipTypes, Thymios
<1>4. Requests' BY DEF Requests
<1>5. park' \in BOOLEAN /\ joins' \in [asked : Nat, tried : Nat] BY DEF RadioTypes
<1>6. c6' \in Chips /\ slot' \in ChipSlots /\ SlotZero' /\ CleanBoot'
  <2>1. CASE Thymio!Reset BY <2>1, ResetTypes DEF SlotZero, CleanBoot
  <2>2. CASE c6' = [c6 EXCEPT !.join = FALSE] /\ slot' = slot
    <3>1. c6' \in Chips /\ c6'.up /\ ~c6'.join /\ c6'.link = c6.link
      BY <1>2, <2>2 DEF ChipTypes, Chips
    <3> QED BY <1>2, <2>2, <3>1 DEF ChipTypes, ChipSlots, SlotZero, CleanBoot
  <2> QED BY <2>1, <2>2
<1> QED BY <1>1, <1>3, <1>4, <1>5, <1>6, ChipElsewhere

LEMMA BootKeeps == ASSUME RadioInv, Thymio!Boot PROVE RadioInv'
<1> USE DEF RadioInv, RadioThreads
<1>1. /\ ~c6.up /\ c6' = [c6 EXCEPT !.up = TRUE, !.join = park] /\ park' = FALSE
      /\ joins' = [joins EXCEPT !.tried = @ + (IF park THEN 1 ELSE 0)]
      /\ UNCHANGED <<gateway, robot, tests, search, uart, slot, thymio>>
  BY DEF Thymio!Boot, Thymio!Unparked, Thymio!pcside
<1>2. (uart = <<>> \/ ~All(TestCmds)) /\ \A d \in DOMAIN tests : InPlay(d) => tests[d].cut
  BY <1>1, ChipAway
<1>3. ~c6.used BY <1>1 DEF CleanBoot
<1>4. park \in BOOLEAN /\ joins \in [asked : Nat, tried : Nat] /\ c6 \in Chips
  BY DEF RadioTypes, ChipTypes, Chips
<1>5. c6' \in Chips /\ c6'.up /\ ~c6'.used /\ c6'.link = c6.link BY <1>1, <1>3, <1>4 DEF Chips
<1>6. slot' \in ChipSlots /\ thymio' \in Thymios BY <1>1 DEF ChipTypes, ChipSlots, Thymios
<1>7. SlotZero' BY <1>1, <1>5 DEF SlotZero
<1>8. CleanBoot' BY <1>1, <1>5 DEF CleanBoot
<1>9. joins' \in [asked : Nat, tried : Nat] /\ joins'.asked = joins.asked
      /\ joins'.tried = joins.tried + (IF park THEN 1 ELSE 0)
      /\ joins.tried \in Nat /\ joins.asked \in Nat
  BY <1>1, <1>4
<1>10. Requests' BY <1>1, <1>9 DEF Requests
<1>11. park' \in BOOLEAN BY <1>1
<1> QED BY <1>1, <1>2, <1>5, <1>6, <1>7, <1>8, <1>9, <1>10, <1>11, ChipElsewhere

LEMMA UnheardKeeps == ASSUME RadioInv, Thymio!Unheard PROVE RadioInv'
<1> USE DEF RadioInv, RadioThreads
<1>1. /\ ~c6.up /\ uart # <<>> /\ uart' = Tail(uart)
      /\ UNCHANGED <<gateway, robot, tests, search, c6, slot, park, joins, thymio>>
  BY DEF Thymio!Unheard, Thymio!pcside, Thymio!radio
<1>2. (uart = <<>> \/ ~All(TestCmds)) /\ \A d \in DOMAIN tests : InPlay(d) => tests[d].cut
  BY <1>1, ChipAway
<1>3. c6' \in Chips /\ slot' \in ChipSlots /\ thymio' \in Thymios
  BY <1>1 DEF ChipTypes, Chips, ChipSlots, Thymios
<1>4. SlotZero' /\ CleanBoot' BY <1>1 DEF SlotZero, CleanBoot
<1>5. joins \in [asked : Nat, tried : Nat] BY DEF RadioTypes
<1>6. Requests' BY <1>1, <1>5, NoRequestLeft DEF Requests
<1>7. park' \in BOOLEAN /\ joins' \in [asked : Nat, tried : Nat] BY <1>1, <1>5 DEF RadioTypes
<1> QED BY <1>1, <1>2, <1>3, <1>4, <1>6, <1>7, ChipElsewhere

LEMMA PollKeeps == ASSUME RadioInv, NEW alarm \in BOOLEAN, Thymio!Poll(alarm) PROVE RadioInv'
<1> USE DEF RadioInv, RadioThreads
<1>1. /\ c6' = IF ~alarm THEN c6
               ELSE [c6 EXCEPT !.tier = 1 - @, !.deaf = @ /\ c6.tier = 1]
      /\ slot' = [i \in Slots |-> IF i \in Thymio!Active THEN [slot[i] EXCEPT !.loaded = TRUE]
                                  ELSE slot[i]]
      /\ \E lost : thymio' = [i \in Slots |-> IF i \in Thymio!Active /\ Thymio!Answers(i)
                                THEN Thymio!Polled(i, alarm, lost) ELSE thymio[i]]
      /\ UNCHANGED <<gateway, robot, tests, search, uart, park, joins>>
  BY DEF Thymio!Poll, Thymio!pcside
<1>2. slot \in ChipSlots /\ thymio \in Thymios /\ c6 \in Chips
  BY DEF ChipTypes, ChipSlots, Thymios, Chips
<1>3. /\ c6' \in Chips
      /\ c6'.up = c6.up /\ c6'.link = c6.link /\ c6'.used = c6.used /\ c6'.join = c6.join
  <2>1. c6.tier \in {0, 1} => 1 - c6.tier \in {0, 1} OBVIOUS
  <2>2. (c6.deaf /\ c6.tier = 1) \in BOOLEAN OBVIOUS
  <2> QED BY <1>1, <1>2, <2>1, <2>2 DEF Chips
<1>4. slot' \in ChipSlots /\ \A i \in Slots : slot'[i].active = slot[i].active /\ slot'[i].own = slot[i].own
  BY <1>1, <1>2 DEF ChipSlots
<1>5. ASSUME NEW i \in Slots, NEW lost
      PROVE  Thymio!Polled(i, alarm, lost) \in [on : BOOLEAN, wheels : Speeds, emits : BOOLEAN]
  <2>1. thymio[i] \in [on : BOOLEAN, wheels : Speeds, emits : BOOLEAN] /\ slot[i].want \in Speeds
    BY <1>2 DEF Thymios, ChipSlots
  <2> DEFINE gets(kind) == <<i, kind>> \notin lost
             reset == Thymio!NeedsProgram(i, alarm) /\ gets("code")
             w == IF gets("set") /\ Thymio!Asserts(i, alarm) THEN slot[i].want
                  ELSE IF reset THEN 0 ELSE thymio[i].wheels
             e == IF reset THEN gets("run") ELSE thymio[i].emits
  <2>2. w \in Speeds BY <2>1, Params
  <2>3. e \in BOOLEAN BY <2>1
  <2>4. Thymio!Polled(i, alarm, lost) = [thymio[i] EXCEPT !.wheels = w, !.emits = e]
    BY DEF Thymio!Polled
  <2> HIDE DEF w, e
  <2> QED BY <2>1, <2>2, <2>3, <2>4
<1>6. thymio' \in Thymios BY <1>1, <1>2, <1>5 DEF Thymios
<1>7. TakenAs BY <1>3, <1>4 DEF TakenAs
<1> QED BY <1>1, <1>3, <1>4, <1>6, <1>7, ChipSame

LEMMA HearKeeps == ASSUME RadioInv, Thymio!Hear PROVE RadioInv'
<1>1. /\ c6' = [c6 EXCEPT !.alive = TRUE, !.tier = 0]
      /\ UNCHANGED <<gateway, robot, tests, search, uart, slot, park, joins, thymio>>
  BY DEF Thymio!Hear, Thymio!pcside
<1>2. c6' \in Chips /\ slot' \in ChipSlots /\ thymio' \in Thymios /\ TakenAs
  BY <1>1 DEF RadioInv, ChipTypes, Chips, ChipSlots, Thymios, TakenAs
<1> QED BY <1>1, <1>2, ChipSame

LEMMA AirKeeps == ASSUME RadioInv, Thymio!Outside PROVE RadioInv'
<1> USE DEF RadioInv
<1>1. CASE Thymio!CrashInUpdate
  BY <1>1, JoinEnds DEF Thymio!CrashInUpdate, Thymio!pcside
<1>2. CASE Thymio!Deafen
  <2>1. /\ c6' = [c6 EXCEPT !.deaf = TRUE]
        /\ UNCHANGED <<gateway, robot, tests, search, uart, slot, park, joins, thymio>>
    BY <1>2 DEF Thymio!Deafen, Thymio!pcside
  <2>2. c6' \in Chips /\ slot' \in ChipSlots /\ thymio' \in Thymios /\ TakenAs
    BY <2>1 DEF ChipTypes, Chips, ChipSlots, Thymios, TakenAs
  <2> QED BY <2>1, <2>2, ChipSame
<1>3. ASSUME NEW i \in Slots, Thymio!Switch(i) \/ Thymio!FallSilent(i) PROVE RadioInv'
  <2>1. UNCHANGED <<gateway, robot, tests, search, uart, c6, slot, park, joins>>
    BY <1>3 DEF Thymio!Switch, Thymio!FallSilent, Thymio!pcside, Thymio!radio
  <2>2. thymio \in Thymios BY DEF ChipTypes, Thymios
  <2>3. thymio' \in Thymios
    <3>1. CASE Thymio!Switch(i)
      BY <2>2, <3>1, Params DEF Thymio!Switch, Thymios
    <3>2. CASE Thymio!FallSilent(i)
      BY <2>2, <3>2 DEF Thymio!FallSilent, Thymios
    <3> QED BY <1>3, <3>1, <3>2
  <2>4. c6' \in Chips /\ slot' \in ChipSlots /\ TakenAs
    BY <2>1 DEF ChipTypes, Chips, ChipSlots, TakenAs
  <2> QED BY <2>1, <2>3, <2>4, ChipSame
<1> QED BY <1>1, <1>2, <1>3 DEF Thymio!Outside

-----------------------------------------------------------------------------
(* All of it *)

LEMMA RadioStarts == Thymio!Init => RadioInv
<1> SUFFICES ASSUME Thymio!Init PROVE RadioInv OBVIOUS
<1>1. /\ gateway \in BOOLEAN
      /\ robot = [i \in Slots |-> [status |-> "off", active |-> FALSE, said |-> 0]]
      /\ tests = <<>> /\ uart = <<>>
      /\ search = [open |-> FALSE, stop |-> FALSE, pc |-> "idle"]
      /\ c6 = [Thymio!Booting EXCEPT !.up = TRUE] /\ slot = Thymio!NoSlots /\ park = FALSE
      /\ thymio \in [Slots -> [on : BOOLEAN, wheels : {0}, emits : {FALSE}]]
      /\ joins = [asked |-> 0, tried |-> 0]
  BY DEF Thymio!Init
<1>2. c6 \in Chips /\ c6.up /\ ~c6.join /\ ~c6.link BY <1>1 DEF Thymio!Booting, Chips
<1>3. slot \in ChipSlots /\ \A i \in Slots : ~slot[i].active
  BY <1>1, Params DEF Thymio!NoSlots, ChipSlots
<1>4. thymio \in Thymios BY <1>1, Params DEF Thymios
<1>5. ChipTypes BY <1>2, <1>3, <1>4 DEF ChipTypes, Chips, ChipSlots, Thymios
<1>6. robot \in Robots /\ \A i \in Slots : ~robot[i].active /\ robot[i].status # "connected"
  BY <1>1, Params DEF Robots
<1>7. RadioTypes
  <2>1. tests \in Seq(Windows) /\ uart \in Seq(Commands) BY <1>1
  <2>2. joins \in [asked : Nat, tried : Nat] /\ park \in BOOLEAN BY <1>1
  <2>3. search \in [open : BOOLEAN, stop : BOOLEAN, pc : {"idle", "reboot", "banner", "on", "off"}]
    BY <1>1
  <2> QED BY <1>1, <1>6, <2>1, <2>2, <2>3 DEF RadioTypes
<1>8. OneWindow /\ TestWires /\ Connecting BY <1>1 DEF OneWindow, TestWires, Connecting
<1>9. Wires /\ SetsFollow /\ uart # JoinRequest BY <1>1, QuietWire
<1>10. SlotZero /\ CleanBoot BY <1>1, <1>2, <1>3 DEF SlotZero, CleanBoot
<1>11. Owned BY <1>6 DEF Owned
<1>12. Requests BY <1>1, <1>9 DEF Requests
<1> QED BY <1>5, <1>7, <1>8, <1>9, <1>10, <1>11, <1>12 DEF RadioInv, RadioThreads

LEMMA RadioStep == ASSUME ~Prompt, RadioInv, [Thymio!Next]_radio PROVE RadioInv'
<1>1. CASE Thymio!User
  BY <1>1, OpenTestKeeps, CloseTestKeeps, BeepKeeps, DriveKeeps, OpenScanKeeps, CloseScanKeeps,
     AskUpdateKeeps, GatewayBackKeeps, LoseGatewayKeeps DEF Thymio!User
<1>2. CASE Thymio!C6
  <2>1. CASE Thymio!Joined BY <2>1, JoinEnds DEF Thymio!Joined, Thymio!pcside
  <2> QED
    BY <1>2, <2>1, LinkOnKeeps, SetSlotKeeps, SetDriveKeeps, PlaySoundKeeps, LookKeeps,
       EnoughKeeps, RebootKeeps, UpdateKeeps, BootKeeps, UnheardKeeps DEF Thymio!C6
<1>3. CASE Thymio!Hear BY <1>3, HearKeeps
<1>4. CASE Thymio!Outside BY <1>4, AirKeeps
<1>5. CASE Thymio!ScanStep BY <1>5, ScanStepKeeps
<1>6. CASE \E alarm \in BOOLEAN : Thymio!Poll(alarm) BY <1>6, PollKeeps
<1>7. CASE \E d \in DOMAIN tests : Thymio!Connect(d)
  BY <1>7, ConnectLinkKeeps, ConnectSetKeeps, ConnectDoneKeeps DEF Thymio!Connect
<1>8. CASE UNCHANGED radio
  <2>1. UNCHANGED <<gateway, robot, tests, search, uart, c6, slot, park, joins, thymio>>
    BY <1>8 DEF radio
  <2>2. c6' \in Chips /\ slot' \in ChipSlots /\ thymio' \in Thymios /\ TakenAs
    BY <2>1 DEF RadioInv, ChipTypes, Chips, ChipSlots, Thymios, TakenAs
  <2> QED BY <2>1, <2>2, ChipSame
<1> QED BY <1>1, <1>2, <1>3, <1>4, <1>5, <1>6, <1>7, <1>8 DEF Thymio!Next

LEMMA RadioSafe == ASSUME RadioInv PROVE Thymio!RadioSound
<1> USE DEF RadioInv, RadioThreads
<1>1. \A d \in DOMAIN tests : tests[d] \in Windows /\ tests[d].slot \in Slots
  BY WindowTypes DEF RadioTypes
<1>2. Thymio!TypeOK
  BY <1>1 DEF Thymio!TypeOK, RadioTypes, ChipTypes, Robots, Windows
<1>3. Thymio!JoinsClean
  <2>1. joins.asked \in Nat /\ joins.tried \in Nat BY DEF RadioTypes
  <2> QED BY <2>1 DEF Thymio!JoinsClean, Requests, CleanBoot
<1>4. Thymio!ControlsWork
  <2> SUFFICES ASSUME NEW d \in DOMAIN tests, tests[d].open, tests[d].enabled, ~tests[d].cut, uart = <<>>
               PROVE  /\ Thymio!Connected(tests[d].slot) /\ c6.link
                      /\ slot[tests[d].slot].active /\ Thymio!Reaches(tests[d].slot)
    BY DEF Thymio!ControlsWork
  <2> DEFINE i == tests[d].slot
  <2>1. gateway /\ LinkSent /\ robot[i].active /\ (i \in Named => SetSent(i)) BY DEF Connecting
  <2>2. c6.link /\ (i \in Named => slot[i].active /\ slot[i].own)
    BY <2>1 DEF LinkSent, SetSent
  <2>3. i \notin Named => i = 0 BY <1>1, Params
  <2>4. slot[0].active BY <2>2 DEF SlotZero
  <2> QED BY <2>1, <2>2, <2>3, <2>4 DEF Thymio!Connected, Thymio!Reaches
<1>5. Thymio!NobodyLeft
  <2> SUFFICES ASSUME NEW i \in Slots, robot[i].active \/ robot[i].status = "connected"
               PROVE  \E d \in DOMAIN tests : tests[d].slot = i /\ ~(~tests[d].open /\ tests[d].task = "none")
    BY DEF Thymio!NobodyLeft
  <2> QED BY DEF Owned, Connecting
<1> QED BY <1>2, <1>3, <1>4, <1>5 DEF Thymio!RadioSound

-----------------------------------------------------------------------------
(* What holds of the Thymios also for an operator who hurries: windows opened *)
(* over a late worker or a C6 that reboots, and words of several kinds on one *)
(* wire, with any number of updates asked for at once.                        *)

Asks == {k \in DOMAIN uart : uart[k].cmd = "ota"}
AskedFor == joins.tried + (IF park THEN 1 ELSE 0) + Cardinality(Asks) <= joins.asked
Mine == \A d \in DOMAIN tests : tests[d].ours => tests[d].open /\ tests[d].task = "none"
HurriedInv == RadioTypes /\ c6 \in Chips /\ Owned /\ Mine /\ CleanBoot /\ AskedFor

LEMMA AsksFinite ==
  ASSUME uart \in Seq(Commands) PROVE IsFiniteSet(Asks) /\ Cardinality(Asks) \in Nat
<1>1. Len(uart) \in Nat /\ DOMAIN uart = 1..Len(uart) BY LenProperties
<1>2. IsFiniteSet(1..Len(uart)) BY <1>1, FS_Interval
<1>3. Asks \subseteq 1..Len(uart) BY <1>1 DEF Asks
<1>4. IsFiniteSet(Asks) BY <1>2, <1>3, FS_Subset
<1> QED BY <1>4, FS_CardinalityType

LEMMA AsksSame ==
  ASSUME uart \in Seq(Commands), NEW cmds \in Seq(Commands),
         \A j \in DOMAIN cmds : cmds[j].cmd # "ota", Thymio!Sent(cmds) \/ uart' = uart
  PROVE  uart' \in Seq(Commands) /\ Cardinality(Asks') = Cardinality(Asks)
<1>1. CASE Thymio!Sent(cmds)
  <2>1. Asks' = Asks BY <1>1, SentWords DEF Asks
  <2> QED BY <1>1, <2>1, SentWords
<1>2. CASE uart' = uart BY <1>2 DEF Asks
<1> QED BY <1>1, <1>2

LEMMA AsksOne ==
  ASSUME uart \in Seq(Commands), Thymio!Sent(<<Thymio!Plain("ota")>>)
  PROVE  uart' \in Seq(Commands) /\ Cardinality(Asks') = Cardinality(Asks) + 1
<1> DEFINE c == Thymio!Plain("ota")
<1>1. c \in Commands /\ c.cmd = "ota" BY Params, PlainWord
<1> HIDE DEF c
<1>2. uart' = Append(uart, c) BY <1>1 DEF Thymio!Sent, c
<1>3. /\ uart' \in Seq(Commands) /\ Len(uart') = Len(uart) + 1
      /\ \A k \in 1..Len(uart) : uart'[k] = uart[k]
      /\ uart'[Len(uart) + 1] = c
  BY <1>1, <1>2, AppendProperties
<1>4. /\ Len(uart) \in Nat /\ DOMAIN uart = 1..Len(uart) /\ DOMAIN uart' = 1..(Len(uart) + 1)
  BY <1>3, LenProperties
<1>5. Asks' = Asks \cup {Len(uart) + 1} BY <1>1, <1>3, <1>4 DEF Asks
<1>6. Len(uart) + 1 \notin Asks BY <1>4 DEF Asks
<1> QED BY <1>3, <1>5, <1>6, AsksFinite, FS_AddElement

LEMMA AsksTaken ==
  ASSUME uart \in Seq(Commands), uart # <<>>, uart' = Tail(uart)
  PROVE  /\ uart' \in Seq(Commands)
         /\ Cardinality(Asks') \in Nat /\ Cardinality(Asks') <= Cardinality(Asks)
         /\ Head(uart).cmd = "ota" => Cardinality(Asks') + 1 <= Cardinality(Asks)
<1>1. uart' \in Seq(Commands) BY HandledWords
<1>2. IsFiniteSet(Asks') /\ Cardinality(Asks') \in Nat
  <2>1. Len(uart') \in Nat /\ DOMAIN uart' = 1..Len(uart') BY <1>1, LenProperties
  <2>2. IsFiniteSet(1..Len(uart')) BY <2>1, FS_Interval
  <2>3. Asks' \subseteq 1..Len(uart') BY <2>1 DEF Asks
  <2>4. IsFiniteSet(Asks') BY <2>2, <2>3, FS_Subset
  <2> QED BY <2>4, FS_CardinalityType
<1> DEFINE rest == Asks \ {1}
           f == [k \in Asks' |-> k + 1]
<1>3. /\ IsFiniteSet(rest) /\ Cardinality(rest) \in Nat
      /\ Cardinality(rest) = IF 1 \in Asks THEN Cardinality(Asks) - 1 ELSE Cardinality(Asks)
  BY AsksFinite, FS_RemoveElement, FS_CardinalityType
<1>4. \A k \in Asks' : k \in Nat /\ k + 1 \in rest
  <2> SUFFICES ASSUME NEW k \in Asks' PROVE k \in Nat /\ k + 1 \in rest
    OBVIOUS
  <2>1. k \in DOMAIN uart' /\ uart'[k].cmd = "ota" BY DEF Asks
  <2>2. k + 1 \in DOMAIN uart /\ uart'[k] = uart[k + 1] /\ k \in Nat BY <2>1, HandledWords
  <2>3. k \in Nat \ {0} BY <1>1, <2>1, LenProperties
  <2> QED BY <2>1, <2>2, <2>3 DEF Asks
<1>5. f \in Injection(Asks', rest)
  <2>1. f \in [Asks' -> rest] BY <1>4
  <2>2. \A x, y \in Asks' : f[x] = f[y] => x = y BY <1>4
  <2> HIDE DEF f, rest
  <2>3. \A x, y \in Asks' : x # y => f[x] # f[y] BY <2>2
  <2> QED BY <2>1, <2>2, <2>3 DEF Injection, IsInjective
<1>6. Cardinality(Asks') <= Cardinality(rest)
  <2> HIDE DEF f, rest
  <2> QED BY <1>3, <1>5, FS_Injection
<1>7. Head(uart).cmd = "ota" => 1 \in Asks BY HandledWords DEF Asks
<1>8. Cardinality(Asks) \in Nat BY AsksFinite
<1> QED BY <1>1, <1>2, <1>3, <1>6, <1>7, <1>8

LEMMA OneTest ==
  ASSUME tests \in Seq(Windows), NEW d \in DOMAIN tests, NEW w \in Windows,
         tests' = [tests EXCEPT ![d] = w]
  PROVE  /\ tests' \in Seq(Windows) /\ DOMAIN tests' = DOMAIN tests /\ tests'[d] = w
         /\ \A e \in DOMAIN tests : e # d => tests'[e] = tests[e]
  OBVIOUS

LEMMA OneRobot ==
  ASSUME robot \in Robots, NEW i \in Slots,
         NEW r \in [status : {"off", "connecting", "connected", "error"}, active : BOOLEAN, said : Speeds],
         robot' = [robot EXCEPT ![i] = r]
  PROVE  /\ robot' \in Robots /\ robot'[i] = r
         /\ \A k \in Slots : k # i => robot'[k] = robot[k]
  BY DEF Robots

\* A window or its worker acts, and says what is no request to join.
LEMMA WindowActs ==
  ASSUME HurriedInv, NEW cmds \in Seq(Commands), \A j \in DOMAIN cmds : cmds[j].cmd # "ota",
         Thymio!Sent(cmds) \/ uart' = uart, UNCHANGED <<gateway, search, c6, park, joins>>,
         tests' \in Seq(Windows), robot' \in Robots, Owned', Mine'
  PROVE  HurriedInv'
<1> USE DEF HurriedInv
<1>1. uart' \in Seq(Commands) /\ Cardinality(Asks') = Cardinality(Asks)
  BY AsksSame DEF RadioTypes
<1>2. AskedFor' BY <1>1 DEF AskedFor
<1>3. RadioTypes' /\ CleanBoot' BY <1>1 DEF RadioTypes, CleanBoot
<1> QED BY <1>2, <1>3

\* A plain word, other than the request.
LEMMA SaysPlain ==
  ASSUME NEW c \in Commands, c.cmd # "ota"
  PROVE  /\ <<c>> \in Seq(Commands) /\ \A j \in DOMAIN <<c>> : <<c>>[j].cmd # "ota"
         /\ <<c>> \o <<c>> \in Seq(Commands)
         /\ \A j \in DOMAIN (<<c>> \o <<c>>) : (<<c>> \o <<c>>)[j].cmd # "ota"
         /\ <<c>> \o <<>> \in Seq(Commands)
         /\ \A j \in DOMAIN (<<c>> \o <<>>) : (<<c>> \o <<>>)[j].cmd # "ota"
  BY OneWord

LEMMA OpenTestHurried ==
  ASSUME HurriedInv, NEW i \in Slots, Thymio!OpenTest(i) PROVE HurriedInv'
<1> USE DEF HurriedInv
<1> DEFINE ready == robot[i].status = "connected"
           new == [slot |-> i, open |-> TRUE, ours |-> FALSE, enabled |-> ready,
                   task |-> IF ready THEN "none" ELSE "link", cut |-> FALSE]
<1>1. UNCHANGED <<gateway, robot, search, uart, c6, park, joins>> /\ tests' = Append(tests, new)
  BY DEF Thymio!OpenTest, Thymio!radio
<1>2. new \in Windows /\ ~new.ours BY DEF Windows
<1> HIDE DEF new
<1>3. tests \in Seq(Windows) BY DEF RadioTypes
<1>4. /\ tests' \in Seq(Windows) /\ Len(tests') = Len(tests) + 1
      /\ \A d \in 1..Len(tests) : tests'[d] = tests[d]
      /\ tests'[Len(tests) + 1] = new
  BY <1>1, <1>2, <1>3, AppendProperties
<1>5. /\ DOMAIN tests = 1..Len(tests) /\ DOMAIN tests' = 1..(Len(tests) + 1) /\ Len(tests) \in Nat
  BY <1>3, <1>4, LenProperties
<1>6. /\ \A d \in DOMAIN tests : d \in DOMAIN tests' /\ tests'[d] = tests[d]
      /\ \A d \in DOMAIN tests' : (d \in DOMAIN tests /\ tests'[d] = tests[d]) \/ tests'[d] = new
  BY <1>4, <1>5
<1>7. Owned' BY <1>1, <1>6 DEF Owned
<1>8. Mine' BY <1>2, <1>6 DEF Mine
<1>9. RadioTypes' BY <1>1, <1>4 DEF RadioTypes
<1>10. CleanBoot' /\ AskedFor' BY <1>1 DEF CleanBoot, AskedFor, Asks
<1> QED BY <1>1, <1>7, <1>8, <1>9, <1>10

LEMMA DriveHurried ==
  ASSUME HurriedInv, NEW d \in DOMAIN tests, NEW v \in Speeds, Thymio!Drive(d, v) PROVE HurriedInv'
<1> USE DEF HurriedInv
<1> DEFINE i == tests[d].slot
           c == Thymio!Command("drive", i, v)
           r == [robot[i] EXCEPT !.said = v]
<1>1. /\ Thymio!Sent(<<c>>) \/ uart' = uart
      /\ robot' = robot \/ robot' = [robot EXCEPT ![i] = r]
      /\ UNCHANGED <<gateway, tests, search, c6, park, joins>>
  BY DEF Thymio!Drive, Thymio!SentIf, Thymio!Connected, Thymio!radio
<1>2. i \in Slots /\ robot \in Robots BY WindowTypes DEF RadioTypes
<1>3. c \in Commands /\ c.cmd # "ota" BY <1>2, PlainWord DEF TestCmds
<1>4. r \in [status : {"off", "connecting", "connected", "error"}, active : BOOLEAN, said : Speeds]
      /\ r.active = robot[i].active /\ r.status = robot[i].status
  BY <1>2 DEF Robots
<1> HIDE DEF c, r
<1>5. robot' \in Robots /\ \A k \in Slots : robot'[k].active = robot[k].active /\ robot'[k].status = robot[k].status
  BY <1>1, <1>2, <1>4, OneRobot
<1>6. Owned' /\ Mine' /\ tests' \in Seq(Windows) BY <1>1, <1>5 DEF Owned, Mine, RadioTypes
<1>7. <<c>> \in Seq(Commands) /\ \A j \in DOMAIN <<c>> : <<c>>[j].cmd # "ota" BY <1>3, SaysPlain
<1> DEFINE cmds == <<c>>
<1>8. cmds \in Seq(Commands) /\ (\A j \in DOMAIN cmds : cmds[j].cmd # "ota")
      /\ (Thymio!Sent(cmds) \/ uart' = uart)
  BY <1>1, <1>7
<1> HIDE DEF cmds
<1> QED BY <1>1, <1>5, <1>6, <1>8, WindowActs

LEMMA BeepHurried ==
  ASSUME HurriedInv, NEW d \in DOMAIN tests, Thymio!Beep(d) PROVE HurriedInv'
<1> USE DEF HurriedInv
<1> DEFINE c == Thymio!Command("sound", tests[d].slot, 0)
           cmds == <<c>>
<1>1. /\ Thymio!Sent(cmds) \/ uart' = uart
      /\ UNCHANGED <<gateway, robot, tests, search, c6, park, joins>>
  BY DEF Thymio!Beep, Thymio!SentIf, Thymio!Connected, Thymio!pcside, Thymio!radio
<1>2. c \in Commands /\ c.cmd # "ota"
  BY Params, PlainWord, WindowTypes DEF TestCmds, RadioTypes
<1> HIDE DEF c
<1>3. cmds \in Seq(Commands) /\ \A j \in DOMAIN cmds : cmds[j].cmd # "ota" BY <1>2, SaysPlain
<1>4. Owned' /\ Mine' /\ tests' \in Seq(Windows) /\ robot' \in Robots
  BY <1>1 DEF Owned, Mine, RadioTypes
<1> HIDE DEF cmds
<1> QED BY <1>1, <1>3, <1>4, WindowActs

LEMMA CloseTestHurried ==
  ASSUME HurriedInv, NEW d \in DOMAIN tests, Thymio!CloseTest(d) PROVE HurriedInv'
<1> USE DEF HurriedInv
<1> DEFINE i == tests[d].slot
           c == Thymio!Command("drive", i, 0)
           cmds == Thymio!ClosingWords(d)
           w == [tests[d] EXCEPT !.open = FALSE, !.ours = FALSE, !.enabled = FALSE]
           still == IF Thymio!Connected(i) THEN [robot[i] EXCEPT !.said = 0] ELSE robot[i]
           r == IF tests[d].ours THEN Thymio!Disconnected(still) ELSE still
<1>1. /\ Thymio!Sent(cmds) \/ uart' = uart
      /\ tests' = [tests EXCEPT ![d] = w] /\ robot' = [robot EXCEPT ![i] = r]
      /\ UNCHANGED <<gateway, search, c6, park, joins>>
  BY DEF Thymio!CloseTest, Thymio!SentIf, Thymio!radio
<1>2. i \in Slots /\ tests[d] \in Windows /\ robot \in Robots /\ tests \in Seq(Windows)
  BY WindowTypes DEF RadioTypes
<1>3. c \in Commands /\ c.cmd = "drive" BY <1>2, Params, PlainWord DEF TestCmds
<1>4. cmds = <<c>> \o <<c>> \/ cmds = <<c>> \o <<>>
  BY DEF Thymio!ClosingWords, Thymio!Stopped
<1>5. w \in Windows /\ w.slot = i /\ w.task = tests[d].task /\ ~w.ours BY <1>2 DEF Windows
<1>6. /\ still \in [status : {"off", "connecting", "connected", "error"}, active : BOOLEAN, said : Speeds]
      /\ still.active = robot[i].active /\ still.status = robot[i].status
  BY <1>2, Params DEF Robots
<1> HIDE DEF still
<1>7. /\ r \in [status : {"off", "connecting", "connected", "error"}, active : BOOLEAN, said : Speeds]
      /\ tests[d].ours => ~r.active /\ r.status = "off"
      /\ ~tests[d].ours => r.active = robot[i].active /\ r.status = robot[i].status
  BY <1>6 DEF Thymio!Disconnected
<1> HIDE DEF c, cmds, w, r
<1>8. cmds \in Seq(Commands) /\ \A j \in DOMAIN cmds : cmds[j].cmd # "ota"
  <2>1. CASE cmds = <<c>> \o <<c>> BY <1>3, <2>1, SaysPlain
  <2>2. CASE cmds = <<c>> \o <<>> BY <1>3, <2>2, SaysPlain
  <2> QED BY <1>4, <2>1, <2>2
<1>9. /\ tests' \in Seq(Windows) /\ DOMAIN tests' = DOMAIN tests /\ tests'[d] = w
      /\ \A e \in DOMAIN tests : e # d => tests'[e] = tests[e]
  BY <1>1, <1>2, <1>5, OneTest
<1>10. robot' \in Robots /\ robot'[i] = r /\ \A k \in Slots : k # i => robot'[k] = robot[k]
  BY <1>1, <1>2, <1>7, OneRobot
<1>11. Mine' BY <1>5, <1>9 DEF Mine
<1>12. Owned'
  <2> SUFFICES ASSUME NEW k \in Slots, robot'[k].active \/ robot'[k].status = "connected"
               PROVE  \E e \in DOMAIN tests' : tests'[e].slot = k /\ (tests'[e].task = "ok" \/ tests'[e].ours)
    BY DEF Owned
  <2>1. robot[k].active \/ robot[k].status = "connected" BY <1>7, <1>10
  <2>2. PICK e \in DOMAIN tests : tests[e].slot = k /\ (tests[e].task = "ok" \/ tests[e].ours)
    BY <2>1 DEF Owned
  <2>3. CASE e # d BY <1>9, <2>2, <2>3
  <2>4. CASE e = d
    <3>1. ~tests[d].ours BY <1>7, <1>10, <2>2, <2>4
    <3> QED BY <1>5, <1>9, <2>2, <2>4, <3>1
  <2> QED BY <2>3, <2>4
<1> QED BY <1>1, <1>8, <1>9, <1>10, <1>11, <1>12, WindowActs

LEMMA ConnectLinkHurried ==
  ASSUME HurriedInv, NEW d \in DOMAIN tests, Thymio!ConnectLink(d) PROVE HurriedInv'
<1> USE DEF HurriedInv
<1> DEFINE i == tests[d].slot
           c == Thymio!Plain("link")
           cmds == <<c>>
           w == [tests[d] EXCEPT !.task = IF gateway THEN "set" ELSE "failed"]
           r == [robot[i] EXCEPT !.status = IF gateway THEN "connecting" ELSE "error"]
<1>1. /\ tests[d].task = "link" /\ (Thymio!Sent(cmds) \/ uart' = uart)
      /\ tests' = [tests EXCEPT ![d] = w] /\ robot' = [robot EXCEPT ![i] = r]
      /\ UNCHANGED <<gateway, search, c6, park, joins>>
  BY DEF Thymio!ConnectLink, Thymio!SentIf, Thymio!Fails, Thymio!Task, Thymio!radio
<1>2. i \in Slots /\ tests[d] \in Windows /\ robot \in Robots /\ tests \in Seq(Windows)
  BY WindowTypes DEF RadioTypes
<1>3. c \in Commands /\ c.cmd # "ota" BY Params, PlainWord DEF TestCmds
<1>4. w \in Windows /\ w.slot = i /\ w.ours = tests[d].ours BY <1>2 DEF Windows
<1>5. /\ r \in [status : {"off", "connecting", "connected", "error"}, active : BOOLEAN, said : Speeds]
      /\ r.active = robot[i].active /\ r.status # "connected"
  BY <1>2 DEF Robots
<1> HIDE DEF c, w, r
<1>6. cmds \in Seq(Commands) /\ \A j \in DOMAIN cmds : cmds[j].cmd # "ota" BY <1>3, SaysPlain
<1>7. /\ tests' \in Seq(Windows) /\ DOMAIN tests' = DOMAIN tests /\ tests'[d] = w
      /\ \A e \in DOMAIN tests : e # d => tests'[e] = tests[e]
  BY <1>1, <1>2, <1>4, OneTest
<1>8. robot' \in Robots /\ robot'[i] = r /\ \A k \in Slots : k # i => robot'[k] = robot[k]
  BY <1>1, <1>2, <1>5, OneRobot
<1>9. tests[d].task = "link"
  BY DEF Thymio!ConnectLink
<1>10. ~tests[d].ours BY <1>9 DEF Mine
<1>11. Mine' BY <1>4, <1>7, <1>10 DEF Mine
<1>12. Owned'
  <2> SUFFICES ASSUME NEW k \in Slots, robot'[k].active \/ robot'[k].status = "connected"
               PROVE  \E e \in DOMAIN tests' : tests'[e].slot = k /\ (tests'[e].task = "ok" \/ tests'[e].ours)
    BY DEF Owned
  <2>1. robot[k].active \/ robot[k].status = "connected" BY <1>5, <1>8
  <2>2. PICK e \in DOMAIN tests : tests[e].slot = k /\ (tests[e].task = "ok" \/ tests[e].ours)
    BY <2>1 DEF Owned
  <2>3. e # d BY <1>9, <1>10, <2>2
  <2> QED BY <1>7, <2>2, <2>3
<1>13. Thymio!Sent(cmds) \/ uart' = uart BY DEF Thymio!ConnectLink, Thymio!SentIf, c
<1>14. UNCHANGED <<gateway, search, c6, park, joins>> BY DEF Thymio!ConnectLink, Thymio!radio
<1> HIDE DEF cmds
<1> QED BY <1>6, <1>7, <1>8, <1>11, <1>12, <1>13, <1>14, WindowActs

LEMMA ConnectSetHurried ==
  ASSUME HurriedInv, NEW d \in DOMAIN tests, Thymio!ConnectSet(d) PROVE HurriedInv'
<1> USE DEF HurriedInv
<1> DEFINE i == tests[d].slot
           ok == gateway \/ i \notin Named
           c == Thymio!Command("set", i, 0)
           cmds == <<c>>
           w == [tests[d] EXCEPT !.task = IF ok THEN "ok" ELSE "failed"]
           r == [robot[i] EXCEPT !.status = IF ok THEN "connected" ELSE "error", !.active = ok]
<1>1. tests[d].task = "set" /\ (Thymio!Sent(cmds) \/ uart' = uart)
      /\ UNCHANGED <<gateway, search, c6, park, joins>>
  BY DEF Thymio!ConnectSet, Thymio!SentIf, Thymio!radio
<1>2. i \in Slots /\ tests[d] \in Windows /\ robot \in Robots /\ tests \in Seq(Windows)
      /\ gateway \in BOOLEAN
  BY WindowTypes DEF RadioTypes
<1>3. tests' = [tests EXCEPT ![d] = w] /\ robot' = [robot EXCEPT ![i] = r]
  BY DEF Thymio!ConnectSet, Thymio!Fails, Thymio!Task
<1>4. c \in Commands /\ c.cmd # "ota" BY <1>2, Params, PlainWord DEF TestCmds
<1>5. w \in Windows /\ w.slot = i /\ w.ours = tests[d].ours /\ (ok => w.task = "ok")
  BY <1>2 DEF Windows
<1>6. ok \in BOOLEAN BY <1>2
<1>7. /\ r \in [status : {"off", "connecting", "connected", "error"}, active : BOOLEAN, said : Speeds]
      /\ ~ok => ~r.active /\ r.status # "connected"
  <2> HIDE DEF ok
  <2> QED BY <1>2, <1>6 DEF Robots
<1> HIDE DEF c, w, r, ok
<1>8. cmds \in Seq(Commands) /\ \A j \in DOMAIN cmds : cmds[j].cmd # "ota" BY <1>4, SaysPlain
<1>9. /\ tests' \in Seq(Windows) /\ DOMAIN tests' = DOMAIN tests /\ tests'[d] = w
      /\ \A e \in DOMAIN tests : e # d => tests'[e] = tests[e]
  BY <1>2, <1>3, <1>5, OneTest
<1>10. robot' \in Robots /\ robot'[i] = r /\ \A k \in Slots : k # i => robot'[k] = robot[k]
  BY <1>2, <1>3, <1>7, OneRobot
<1>11. ~tests[d].ours BY <1>1 DEF Mine
<1>12. Mine' BY <1>5, <1>9, <1>11 DEF Mine
<1>13. Owned'
  <2> SUFFICES ASSUME NEW k \in Slots, robot'[k].active \/ robot'[k].status = "connected"
               PROVE  \E e \in DOMAIN tests' : tests'[e].slot = k /\ (tests'[e].task = "ok" \/ tests'[e].ours)
    BY DEF Owned
  <2>1. CASE k = i
    <3>1. ok BY <1>7, <1>10, <2>1
    <3> QED BY <1>5, <1>9, <2>1, <3>1
  <2>2. CASE k # i
    <3>1. PICK e \in DOMAIN tests : tests[e].slot = k /\ (tests[e].task = "ok" \/ tests[e].ours)
      BY <1>10, <2>2 DEF Owned
    <3>2. e # d BY <2>2, <3>1
    <3> QED BY <1>9, <3>1, <3>2
  <2> QED BY <2>1, <2>2
<1> HIDE DEF cmds
<1> QED BY <1>1, <1>8, <1>9, <1>10, <1>12, <1>13, WindowActs

LEMMA ConnectDoneHurried ==
  ASSUME HurriedInv, NEW d \in DOMAIN tests, Thymio!ConnectDone(d) PROVE HurriedInv'
<1> USE DEF HurriedInv
<1> DEFINE i == tests[d].slot
           late == tests[d].task = "ok" /\ ~tests[d].open
           mine == tests[d].open /\ tests[d].task = "ok"
           c == Thymio!Command("drive", i, 0)
           cmds == <<c>>
           w == [tests[d] EXCEPT !.task = "none", !.ours = mine, !.enabled = mine]
           r == Thymio!Disconnected(robot[i])
<1>1. /\ tests[d].task \in {"ok", "failed"} /\ (Thymio!Sent(cmds) \/ uart' = uart)
      /\ UNCHANGED <<gateway, search, c6, park, joins>>
      /\ IF late THEN robot' = [robot EXCEPT ![i] = r] ELSE robot' = robot
  BY DEF Thymio!ConnectDone, Thymio!LateConnect, Thymio!SentIf, Thymio!Stopped, Thymio!radio
<1>2. i \in Slots /\ tests[d] \in Windows /\ robot \in Robots /\ tests \in Seq(Windows)
  BY WindowTypes DEF RadioTypes
<1>3. tests' = [tests EXCEPT ![d] = w] BY DEF Thymio!ConnectDone
<1>4. c \in Commands /\ c.cmd = "drive" BY <1>2, Params, PlainWord DEF TestCmds
<1>5. w \in Windows /\ w.slot = i /\ w.task = "none" /\ w.open = tests[d].open /\ (w.ours <=> mine)
  <2>1. mine \in BOOLEAN BY <1>2 DEF Windows
  <2> HIDE DEF mine
  <2> QED BY <1>2, <2>1 DEF Windows
<1>6. /\ r \in [status : {"off", "connecting", "connected", "error"}, active : BOOLEAN, said : Speeds]
      /\ ~r.active /\ r.status = "off"
  BY <1>2 DEF Robots, Thymio!Disconnected
<1> HIDE DEF c, w, r
<1>7. cmds \in Seq(Commands) /\ \A j \in DOMAIN cmds : cmds[j].cmd # "ota" BY <1>4, SaysPlain
<1>8. /\ tests' \in Seq(Windows) /\ DOMAIN tests' = DOMAIN tests /\ tests'[d] = w
      /\ \A e \in DOMAIN tests : e # d => tests'[e] = tests[e]
  BY <1>2, <1>3, <1>5, OneTest
<1>9. /\ robot' \in Robots /\ \A k \in Slots : k # i => robot'[k] = robot[k]
      /\ late => ~robot'[i].active /\ robot'[i].status = "off"
      /\ ~late => robot' = robot
  <2>1. CASE late BY <1>1, <1>2, <1>6, <2>1, OneRobot
  <2>2. CASE ~late BY <1>1, <1>2, <2>2
  <2> QED BY <2>1, <2>2
<1>10. Mine' BY <1>5, <1>8 DEF Mine
<1>11. Owned'
  <2> SUFFICES ASSUME NEW k \in Slots, robot'[k].active \/ robot'[k].status = "connected"
               PROVE  \E e \in DOMAIN tests' : tests'[e].slot = k /\ (tests'[e].task = "ok" \/ tests'[e].ours)
    BY DEF Owned
  <2>1. robot'[k] = robot[k] /\ (k = i => ~late) BY <1>9
  <2>2. PICK e \in DOMAIN tests : tests[e].slot = k /\ (tests[e].task = "ok" \/ tests[e].ours)
    BY <2>1 DEF Owned
  <2>3. CASE e # d BY <1>8, <2>2, <2>3
  <2>4. CASE e = d
    <3>1. tests[d].task = "ok" BY <1>1, <2>2, <2>4 DEF Mine
    <3>2. mine BY <2>1, <2>2, <2>4, <3>1
    <3> QED BY <1>5, <1>8, <2>2, <2>4, <3>2
  <2> QED BY <2>3, <2>4
<1> HIDE DEF cmds
<1> QED BY <1>1, <1>7, <1>8, <1>9, <1>10, <1>11, WindowActs

\* The scan, and the gateway's return, say no request either; the update does.
LEMMA OthersHurried ==
  ASSUME HurriedInv,
         Thymio!OpenScan \/ Thymio!CloseScan \/ Thymio!AskUpdate \/ Thymio!GatewayBack \/ Thymio!ScanStep
  PROVE  HurriedInv'
<1> USE DEF HurriedInv
<1>1. UNCHANGED <<robot, tests, c6, park>>
  BY DEF Thymio!OpenScan, Thymio!CloseScan, Thymio!AskUpdate, Thymio!GatewayBack, Thymio!ScanStep,
         Thymio!radio, Thymio!pcside
<1>2. Owned' /\ Mine' /\ CleanBoot' /\ c6' \in Chips BY <1>1 DEF Owned, Mine, CleanBoot
<1>3. gateway' \in BOOLEAN
      /\ search' \in [open : BOOLEAN, stop : BOOLEAN, pc : {"idle", "reboot", "banner", "on", "off"}]
  <2>1. gateway' \in BOOLEAN
    BY DEF RadioTypes, Thymio!OpenScan, Thymio!CloseScan, Thymio!AskUpdate, Thymio!GatewayBack,
           Thymio!ScanStep, Thymio!pcside
  <2>2. search' \in [open : BOOLEAN, stop : BOOLEAN, pc : {"idle", "reboot", "banner", "on", "off"}]
    <3>1. CASE Thymio!ScanStep
      <4>1. \E pc \in {"banner", "on", "off", "idle"} : search' = [search EXCEPT !.pc = pc]
        BY <3>1 DEF Thymio!ScanStep
      <4> QED BY <4>1 DEF RadioTypes
    <3>2. CASE Thymio!OpenScan BY <3>2 DEF Thymio!OpenScan
    <3>3. CASE Thymio!CloseScan BY <3>3 DEF Thymio!CloseScan, RadioTypes
    <3>4. CASE Thymio!AskUpdate \/ Thymio!GatewayBack
      BY <3>4 DEF Thymio!AskUpdate, Thymio!GatewayBack, Thymio!pcside, RadioTypes
    <3> QED BY <3>1, <3>2, <3>3, <3>4
  <2> QED BY <2>1, <2>2
<1>4. uart' \in Seq(Commands) /\ joins' \in [asked : Nat, tried : Nat] /\ AskedFor'
  <2>0. uart \in Seq(Commands) /\ Cardinality(Asks) \in Nat /\ joins \in [asked : Nat, tried : Nat]
    BY AsksFinite DEF RadioTypes
  <2>1. CASE Thymio!AskUpdate
    <3>1. Thymio!Sent(<<Thymio!Plain("ota")>>) /\ joins' = [joins EXCEPT !.asked = @ + 1]
      BY <2>1 DEF Thymio!AskUpdate
    <3>2. uart' \in Seq(Commands) /\ Cardinality(Asks') = Cardinality(Asks) + 1
      BY <2>0, <3>1, AsksOne
    <3>3. /\ joins' \in [asked : Nat, tried : Nat] /\ joins'.asked = joins.asked + 1
          /\ joins'.tried = joins.tried
      BY <2>0, <3>1
    <3>4. AskedFor' BY <1>1, <2>0, <3>2, <3>3 DEF AskedFor
    <3> QED BY <3>2, <3>3, <3>4
  <2>2. CASE UNCHANGED <<uart, joins>> BY <1>1, <2>0, <2>2 DEF AskedFor, Asks
  <2>3. CASE Thymio!ScanStep
    <3>1. joins' = joins BY <2>3 DEF Thymio!ScanStep, Thymio!radio
    <3>2. \/ uart' = uart
          \/ \E word \in {"reboot", "look", "enough"} : Thymio!Sent(<<Thymio!Plain(word)>>)
      BY <2>3 DEF Thymio!ScanStep, Thymio!SentIf
    <3>3. uart' \in Seq(Commands) /\ Cardinality(Asks') = Cardinality(Asks)
      <4>1. CASE uart' = uart BY <2>0, <4>1 DEF Asks
      <4>2. ASSUME NEW word \in {"reboot", "look", "enough"}, Thymio!Sent(<<Thymio!Plain(word)>>)
            PROVE  uart' \in Seq(Commands) /\ Cardinality(Asks') = Cardinality(Asks)
        <5> DEFINE c == Thymio!Plain(word)
                   cmds == <<c>>
        <5>1. c \in Commands /\ c.cmd # "ota" BY Params, PlainWord DEF ScanCmds
        <5>2. Thymio!Sent(cmds) BY <4>2
        <5> HIDE DEF c
        <5>3. cmds \in Seq(Commands) /\ \A j \in DOMAIN cmds : cmds[j].cmd # "ota" BY <5>1, SaysPlain
        <5> HIDE DEF cmds
        <5> QED BY <2>0, <5>2, <5>3, AsksSame
      <4> QED BY <3>2, <4>1, <4>2
    <3>4. AskedFor' BY <1>1, <3>1, <3>3 DEF AskedFor
    <3> QED BY <2>0, <3>1, <3>3, <3>4
  <2>4. Thymio!OpenScan \/ Thymio!CloseScan \/ Thymio!GatewayBack => UNCHANGED <<uart, joins>>
    BY DEF Thymio!OpenScan, Thymio!CloseScan, Thymio!GatewayBack, Thymio!radio
  <2> QED BY <2>1, <2>2, <2>3, <2>4
<1>5. RadioTypes' BY <1>1, <1>3, <1>4 DEF RadioTypes
<1> QED BY <1>2, <1>4, <1>5

LEMMA LoseGatewayHurried == ASSUME HurriedInv, Thymio!LoseGateway PROVE HurriedInv'
<1> USE DEF HurriedInv
<1>1. /\ gateway' = FALSE
      /\ tests' = [d \in DOMAIN tests |-> [tests[d] EXCEPT !.cut = TRUE]]
      /\ UNCHANGED <<robot, search, joins>>
      /\ \/ Thymio!Reset /\ uart' = <<>> /\ park' = FALSE
         \/ UNCHANGED <<uart, c6, park>>
  BY DEF Thymio!LoseGateway, Thymio!NoPower
<1>2. /\ tests' \in Seq(Windows) /\ DOMAIN tests' = DOMAIN tests
      /\ \A d \in DOMAIN tests :
           /\ tests'[d].slot = tests[d].slot /\ tests'[d].open = tests[d].open
           /\ tests'[d].ours = tests[d].ours /\ tests'[d].enabled = tests[d].enabled
           /\ tests'[d].task = tests[d].task /\ tests'[d].cut
  BY <1>1, WindowsCut DEF RadioTypes
<1>3. Owned' /\ Mine'
  <2>1. robot' = robot BY <1>1
  <2>2. Owned' BY <1>2, <2>1 DEF Owned
  <2>3. Mine' BY <1>2 DEF Mine
  <2> QED BY <2>2, <2>3
<1>4. joins \in [asked : Nat, tried : Nat] /\ Cardinality(Asks) \in Nat /\ uart \in Seq(Commands)
  BY AsksFinite DEF RadioTypes
<1>5. uart' \in Seq(Commands) /\ park' \in BOOLEAN /\ c6' \in Chips /\ CleanBoot' /\ AskedFor'
  <2>1. CASE Thymio!Reset /\ uart' = <<>> /\ park' = FALSE
    <3>1. c6' \in Chips /\ CleanBoot' BY <2>1, ResetTypes DEF CleanBoot
    <3>2. Asks' = {} BY <2>1 DEF Asks
    <3>3. Cardinality(Asks') = 0 BY <3>2, FS_EmptySet
    <3>4. joins.tried <= joins.asked BY <1>4 DEF AskedFor, RadioTypes
    <3>5. AskedFor' BY <1>1, <1>4, <2>1, <3>3, <3>4 DEF AskedFor
    <3>6. <<>> \in Seq(Commands) OBVIOUS
    <3>7. uart' \in Seq(Commands) BY <2>1, <3>6, Zenon
    <3>8. park' \in BOOLEAN BY <2>1, Zenon
    <3> QED BY <3>1, <3>5, <3>7, <3>8
  <2>2. CASE UNCHANGED <<uart, c6, park>>
    BY <1>1, <1>4, <2>2 DEF CleanBoot, AskedFor, Asks, RadioTypes
  <2> QED BY <1>1, <2>1, <2>2
<1> QED BY <1>1, <1>2, <1>3, <1>5 DEF RadioTypes

\* The C6 takes a word, boots, or hears the air.
LEMMA ChipHurried ==
  ASSUME HurriedInv, UNCHANGED <<gateway, robot, tests, search>>,
         uart' = uart \/ (uart # <<>> /\ uart' = Tail(uart)),
         c6' \in Chips, CleanBoot', park' \in BOOLEAN, joins' \in [asked : Nat, tried : Nat],
         joins'.asked = joins.asked,
         joins'.tried + (IF park' THEN 1 ELSE 0) <=
           joins.tried + (IF park THEN 1 ELSE 0)
             + (IF uart # <<>> /\ uart' = Tail(uart) /\ Head(uart).cmd = "ota" THEN 1 ELSE 0)
  PROVE  HurriedInv'
<1> USE DEF HurriedInv
<1>1. uart \in Seq(Commands) /\ Cardinality(Asks) \in Nat /\ joins \in [asked : Nat, tried : Nat]
      /\ park \in BOOLEAN
  BY AsksFinite DEF RadioTypes
<1> DEFINE old == IF park THEN 1 ELSE 0
           new == IF park' THEN 1 ELSE 0
<1>2. old \in Nat /\ new \in Nat OBVIOUS
<1>3. CASE uart # <<>> /\ uart' = Tail(uart)
  <2>1. /\ uart' \in Seq(Commands)
        /\ Cardinality(Asks') \in Nat /\ Cardinality(Asks') <= Cardinality(Asks)
        /\ Head(uart).cmd = "ota" => Cardinality(Asks') + 1 <= Cardinality(Asks)
    BY <1>1, <1>3, AsksTaken
  <2>2. joins'.tried + new <= joins.tried + old + (IF Head(uart).cmd = "ota" THEN 1 ELSE 0)
    BY <1>3
  <2>3. joins.tried + old + Cardinality(Asks) <= joins.asked BY DEF AskedFor
  <2> HIDE DEF old, new
  <2>4. joins'.tried + new + Cardinality(Asks') <= joins'.asked
    BY <1>1, <1>2, <2>1, <2>2, <2>3
  <2>5. AskedFor' BY <2>4 DEF AskedFor, new
  <2>6. RadioTypes' BY <2>1 DEF RadioTypes
  <2>7. Owned' /\ Mine' BY DEF Owned, Mine
  <2> QED BY <2>5, <2>6, <2>7
<1>4. CASE uart' = uart /\ ~(uart # <<>> /\ uart' = Tail(uart))
  <2>1. Asks' = Asks BY <1>4 DEF Asks
  <2>2. joins'.tried + new <= joins.tried + old BY <1>1, <1>2, <1>4
  <2>3. joins.tried + old + Cardinality(Asks) <= joins.asked BY DEF AskedFor
  <2> HIDE DEF old, new
  <2>4. joins'.tried + new + Cardinality(Asks') <= joins'.asked
    BY <1>1, <1>2, <2>1, <2>2, <2>3
  <2>5. AskedFor' BY <2>4 DEF AskedFor, new
  <2>6. RadioTypes' /\ Owned' /\ Mine' BY <1>1, <1>4 DEF RadioTypes, Owned, Mine
  <2> QED BY <2>5, <2>6
<1> QED BY <1>3, <1>4

\* ... with no request and nothing to join.
LEMMA ChipIdles ==
  ASSUME HurriedInv, UNCHANGED <<gateway, robot, tests, search, park, joins>>,
         uart' = uart \/ (uart # <<>> /\ uart' = Tail(uart)), c6' \in Chips, CleanBoot'
  PROVE  HurriedInv'
<1> USE DEF HurriedInv
<1>1. joins \in [asked : Nat, tried : Nat] /\ park \in BOOLEAN BY DEF RadioTypes
<1> QED BY <1>1, ChipHurried

LEMMA WordsHurried ==
  ASSUME HurriedInv,
         \/ Thymio!LinkOn \/ Thymio!SetSlot \/ Thymio!SetDrive \/ Thymio!PlaySound
         \/ Thymio!Look \/ Thymio!Enough \/ Thymio!Reboot
  PROVE  HurriedInv'
<1> USE DEF HurriedInv
<1>1. c6.up /\ ~c6.join /\ uart # <<>> /\ uart' = Tail(uart)
  BY DEF Thymio!LinkOn, Thymio!SetSlot, Thymio!SetDrive, Thymio!PlaySound, Thymio!Look,
         Thymio!Enough, Thymio!Reboot, Thymio!Handle
<1>2. UNCHANGED <<gateway, robot, tests, search, park, joins>>
  BY DEF Thymio!LinkOn, Thymio!SetSlot, Thymio!SetDrive, Thymio!PlaySound, Thymio!Look,
         Thymio!Enough, Thymio!Reboot, Thymio!pcside
<1>3. c6' \in Chips /\ CleanBoot'
  <2>1. CASE Thymio!LinkOn
    <3>1. c6' = [c6 EXCEPT !.link = TRUE, !.used = TRUE, !.deaf = FALSE] BY <2>1 DEF Thymio!LinkOn
    <3>2. c6' \in Chips /\ c6'.up /\ ~c6'.join BY <1>1, <3>1 DEF Chips
    <3> QED BY <1>1, <1>2, <3>2 DEF CleanBoot
  <2>2. CASE Thymio!SetSlot \/ Thymio!SetDrive \/ Thymio!PlaySound
    <3>1. c6' = c6 BY <2>2 DEF Thymio!SetSlot, Thymio!SetDrive, Thymio!PlaySound
    <3> QED BY <1>2, <3>1 DEF CleanBoot
  <2>3. CASE Thymio!Look
    <3>1. c6' = [c6 EXCEPT !.link = FALSE, !.disc = TRUE, !.used = TRUE, !.deaf = FALSE]
      BY <2>3 DEF Thymio!Look
    <3>2. c6' \in Chips /\ c6'.up /\ ~c6'.join BY <1>1, <3>1 DEF Chips
    <3> QED BY <1>1, <1>2, <3>2 DEF CleanBoot
  <2>4. CASE Thymio!Enough
    <3>1. c6' = [c6 EXCEPT !.disc = FALSE] BY <2>4 DEF Thymio!Enough
    <3>2. c6' \in Chips /\ c6'.up /\ ~c6'.join BY <1>1, <3>1 DEF Chips
    <3> QED BY <1>1, <1>2, <3>2 DEF CleanBoot
  <2>5. CASE Thymio!Reboot
    <3>1. Thymio!Reset BY <2>5 DEF Thymio!Reboot
    <3> QED BY <3>1, ResetTypes DEF CleanBoot
  <2> QED BY <2>1, <2>2, <2>3, <2>4, <2>5
<1> QED BY <1>1, <1>2, <1>3, ChipIdles

LEMMA UpdateHurried == ASSUME HurriedInv, Thymio!Update PROVE HurriedInv'
<1> USE DEF HurriedInv
<1>1. /\ c6.up /\ ~c6.join /\ uart # <<>> /\ uart' = Tail(uart) /\ Head(uart).cmd = "ota"
      /\ UNCHANGED <<gateway, robot, tests, search>>
      /\ IF c6.used THEN Thymio!Reset /\ park' = TRUE /\ UNCHANGED joins
         ELSE /\ c6' = [c6 EXCEPT !.link = FALSE, !.join = TRUE]
              /\ joins' = [joins EXCEPT !.tried = @ + 1] /\ UNCHANGED park
  BY DEF Thymio!Update, Thymio!MustPark, Thymio!Handle, Thymio!pcside
<1>2. ~park /\ joins \in [asked : Nat, tried : Nat] BY <1>1 DEF CleanBoot, RadioTypes
<1>3. CASE c6.used
  <2>1. c6' \in Chips /\ CleanBoot' BY <1>1, <1>3, ResetTypes DEF CleanBoot
  <2>2. joins' = joins /\ park' = TRUE BY <1>1, <1>3
  <2> QED BY <1>1, <1>2, <2>1, <2>2, ChipHurried
<1>4. CASE ~c6.used
  <2>1. c6' = [c6 EXCEPT !.link = FALSE, !.join = TRUE] /\ park' = park
        /\ joins' = [joins EXCEPT !.tried = @ + 1]
    BY <1>1, <1>4
  <2>2. c6' \in Chips /\ c6'.up /\ c6'.join /\ ~c6'.used BY <1>1, <1>4, <2>1 DEF Chips
  <2>3. CleanBoot' BY <1>2, <2>1, <2>2 DEF CleanBoot
  <2>4. joins' \in [asked : Nat, tried : Nat] /\ joins'.tried = joins.tried + 1 /\ joins'.asked = joins.asked
    BY <1>2, <2>1
  <2>5. park' \in BOOLEAN BY <2>1 DEF RadioTypes
  <2> QED BY <1>1, <1>2, <2>1, <2>2, <2>3, <2>4, <2>5, ChipHurried
<1> QED BY <1>3, <1>4

LEMMA BootHurried == ASSUME HurriedInv, Thymio!Boot PROVE HurriedInv'
<1> USE DEF HurriedInv
<1>1. /\ ~c6.up /\ c6' = [c6 EXCEPT !.up = TRUE, !.join = park] /\ park' = FALSE
      /\ joins' = [joins EXCEPT !.tried = @ + (IF park THEN 1 ELSE 0)]
      /\ UNCHANGED <<gateway, robot, tests, search, uart>>
  BY DEF Thymio!Boot, Thymio!Unparked, Thymio!pcside
<1>2. ~c6.used /\ park \in BOOLEAN /\ joins \in [asked : Nat, tried : Nat]
  BY <1>1 DEF CleanBoot, RadioTypes
<1>3. c6' \in Chips /\ c6'.up /\ ~c6'.used BY <1>1, <1>2 DEF Chips
<1>4. CleanBoot' BY <1>1, <1>3 DEF CleanBoot
<1>5. /\ joins' \in [asked : Nat, tried : Nat] /\ joins'.asked = joins.asked
      /\ joins'.tried = joins.tried + (IF park THEN 1 ELSE 0) /\ joins'.tried \in Nat
  BY <1>1, <1>2
<1>6. joins'.tried + (IF park' THEN 1 ELSE 0) <= joins.tried + (IF park THEN 1 ELSE 0)
        + (IF uart # <<>> /\ uart' = Tail(uart) /\ Head(uart).cmd = "ota" THEN 1 ELSE 0)
  BY <1>1, <1>2, <1>5
<1> QED BY <1>1, <1>3, <1>4, <1>5, <1>6, ChipHurried

LEMMA AirHurried ==
  ASSUME HurriedInv,
         \/ Thymio!Joined \/ Thymio!Unheard \/ Thymio!Hear \/ Thymio!Outside
         \/ \E alarm \in BOOLEAN : Thymio!Poll(alarm)
  PROVE  HurriedInv'
<1> USE DEF HurriedInv
<1>1. UNCHANGED <<gateway, robot, tests, search, park, joins>>
      /\ (uart' = uart \/ (uart # <<>> /\ uart' = Tail(uart)))
  BY DEF Thymio!Joined, Thymio!Unheard, Thymio!Hear, Thymio!Poll, Thymio!Outside, Thymio!CrashInUpdate,
         Thymio!Deafen, Thymio!Switch, Thymio!FallSilent, Thymio!pcside, Thymio!radio
<1>2. c6' \in Chips /\ CleanBoot'
  <2>1. CASE Thymio!Reset BY <2>1, ResetTypes DEF CleanBoot
  <2>2. CASE c6' = [c6 EXCEPT !.join = FALSE]
    <3>1. c6' \in Chips /\ c6'.up = c6.up /\ ~c6'.join /\ c6'.used = c6.used BY <2>2 DEF Chips
    <3> QED BY <1>1, <3>1 DEF CleanBoot
  <2>3. CASE UNCHANGED c6 BY <1>1, <2>3 DEF CleanBoot
  <2>4. CASE \/ c6' = [c6 EXCEPT !.alive = TRUE, !.tier = 0] \/ c6' = [c6 EXCEPT !.deaf = TRUE]
             \/ c6' = [c6 EXCEPT !.tier = 1 - @, !.deaf = @ /\ c6.tier = 1]
    <3>1. c6.tier \in {0, 1} /\ 1 - c6.tier \in {0, 1} BY DEF Chips
    <3>2. (c6.deaf /\ c6.tier = 1) \in BOOLEAN OBVIOUS
    <3>3. c6' \in Chips /\ c6'.up = c6.up /\ c6'.join = c6.join /\ c6'.used = c6.used
      <4>1. CASE c6' = [c6 EXCEPT !.tier = 1 - @, !.deaf = @ /\ c6.tier = 1]
        BY <3>1, <3>2, <4>1 DEF Chips
      <4>2. CASE c6' = [c6 EXCEPT !.alive = TRUE, !.tier = 0] \/ c6' = [c6 EXCEPT !.deaf = TRUE]
        BY <4>2 DEF Chips
      <4> QED BY <2>4, <4>1, <4>2
    <3> QED BY <1>1, <3>3 DEF CleanBoot
  <2>5. \/ Thymio!Reset \/ c6' = [c6 EXCEPT !.join = FALSE] \/ c6' = c6
        \/ c6' = [c6 EXCEPT !.alive = TRUE, !.tier = 0] \/ c6' = [c6 EXCEPT !.deaf = TRUE]
        \/ c6' = [c6 EXCEPT !.tier = 1 - @, !.deaf = @ /\ c6.tier = 1]
    BY DEF Thymio!Joined, Thymio!Unheard, Thymio!Hear, Thymio!Poll, Thymio!Outside,
           Thymio!CrashInUpdate, Thymio!Deafen, Thymio!Switch, Thymio!FallSilent, Thymio!radio
  <2> QED BY <2>1, <2>2, <2>3, <2>4, <2>5
<1> QED BY <1>1, <1>2, ChipIdles

LEMMA HurriedStarts == Thymio!Init => HurriedInv
<1> SUFFICES ASSUME Thymio!Init PROVE HurriedInv OBVIOUS
<1>1. RadioInv BY RadioStarts
<1>2. tests = <<>> /\ uart = <<>> /\ park = FALSE /\ joins = [asked |-> 0, tried |-> 0]
  BY DEF Thymio!Init
<1>3. Asks = {} BY <1>2 DEF Asks
<1>4. AskedFor BY <1>2, <1>3, FS_EmptySet DEF AskedFor
<1>5. Mine BY <1>2 DEF Mine
<1> QED BY <1>1, <1>4, <1>5 DEF RadioInv, RadioThreads, HurriedInv, ChipTypes, Chips

LEMMA HurriedStep == ASSUME HurriedInv, [Thymio!Next]_radio PROVE HurriedInv'
<1>1. CASE Thymio!User
  BY <1>1, OpenTestHurried, CloseTestHurried, BeepHurried, DriveHurried, OthersHurried,
     LoseGatewayHurried DEF Thymio!User
<1>2. CASE Thymio!C6
  BY <1>2, WordsHurried, UpdateHurried, BootHurried, AirHurried DEF Thymio!C6
<1>3. CASE Thymio!Hear \/ Thymio!Outside \/ \E alarm \in BOOLEAN : Thymio!Poll(alarm)
  BY <1>3, AirHurried
<1>4. CASE Thymio!ScanStep BY <1>4, OthersHurried
<1>5. CASE \E d \in DOMAIN tests : Thymio!Connect(d)
  BY <1>5, ConnectLinkHurried, ConnectSetHurried, ConnectDoneHurried DEF Thymio!Connect
<1>6. CASE UNCHANGED radio
  BY <1>6 DEF radio, HurriedInv, RadioTypes, Owned, Mine, CleanBoot, AskedFor, Asks
<1> QED BY <1>1, <1>2, <1>3, <1>4, <1>5, <1>6 DEF Thymio!Next

LEMMA HurriedSafe == ASSUME HurriedInv PROVE Thymio!NobodyLeft /\ Thymio!JoinsClean
<1> USE DEF HurriedInv
<1>1. uart \in Seq(Commands) /\ Cardinality(Asks) \in Nat /\ joins \in [asked : Nat, tried : Nat]
      /\ park \in BOOLEAN
  BY AsksFinite DEF RadioTypes
<1>2. Thymio!JoinsClean BY <1>1 DEF Thymio!JoinsClean, CleanBoot, AskedFor
<1>3. Thymio!NobodyLeft
  <2> SUFFICES ASSUME NEW i \in Slots, robot[i].active \/ robot[i].status = "connected"
               PROVE  \E d \in DOMAIN tests : tests[d].slot = i /\ ~(~tests[d].open /\ tests[d].task = "none")
    BY DEF Thymio!NobodyLeft
  <2> QED BY DEF Owned, Mine
<1> QED BY <1>2, <1>3

LEMMA ListenersStart == Init => Kept BY DEF Init, Kept

\* Listeners need no proviso either: only three steps touch them, and pruning is
\* of the list as it is, not of what a reader took with it.
LEMMA ListenersStep == ASSUME Kept, [Next]_vars PROVE Kept'
<1> USE DEF Kept
<1>1. CASE UNCHANGED <<list, wanted, gone>> BY <1>1
<1>2. ASSUME NEW l \in Listeners, Listener(l) PROVE Kept'
  BY <1>2 DEF Listener, Register, Deregister, Collect
<1>3. ASSUME NEW r \in DOMAIN readers, Reader(r) PROVE Kept'
  BY <1>3 DEF Reader, Quit, Take, Call, Prune, Pruned, ReadError, TearDown, Notify
<1>4. CASE Gui
  BY <1>1, <1>4 DEF Gui, Joined, ScanWindowEnds, GotLost, GotDone
<1>5. CASE PollLatency BY <1>1, <1>5 DEF PollLatency
<1>6. CASE User BY <1>1, <1>2, <1>6 DEF User, ClickConnect, ClickDisconnect, ClickScan
<1>7. CASE Outside BY <1>1, <1>7 DEF Outside
<1>8. CASE \E t \in Tasks : Worker(t) BY <1>1, <1>8 DEF Worker, Open, Verify, Start, Finish
<1>9. CASE UNCHANGED vars BY <1>1, <1>9 DEF vars
<1> QED BY <1>3, <1>4, <1>5, <1>6, <1>7, <1>8, <1>9 DEF Next

\* Whatever the threads, the cable, the operator and the air do, and whenever: no
\* listener that was kept is lost to the pruning on a reader thread (_callbacks_lock);
\* no Test Thymio window leaves a robot connected behind it, however late its worker
\* ends (_on_connected); and the C6 joins a network only with a radio it did not use,
\* once for each update asked for (OtaPark).  Hasty and Prompt may be either.
THEOREM LinksKeep == LinksSpec => [](ListenersKept /\ Thymio!NobodyLeft /\ Thymio!JoinsClean)
<1>1. LinksInit => Kept /\ HurriedInv BY ListenersStart, HurriedStarts DEF LinksInit
<1>2. Kept /\ HurriedInv /\ [LinksNext]_<<side, vars, radio>> => (Kept /\ HurriedInv)'
  <2> SUFFICES ASSUME Kept, HurriedInv, [LinksNext]_<<side, vars, radio>> PROVE Kept' /\ HurriedInv'
    OBVIOUS
  <2>1. [Next]_vars /\ [Thymio!Next]_radio BY DEF LinksNext
  <2> QED BY <2>1, ListenersStep, HurriedStep
<1>3. Kept /\ HurriedInv => ListenersKept /\ Thymio!NobodyLeft /\ Thymio!JoinsClean
  BY HurriedSafe DEF Kept, ListenersKept
<1> QED BY <1>1, <1>2, <1>3, PTL DEF LinksSpec

\* What a Test Thymio window is told of its robot, where it was opened over a C6 at
\* rest: until the gateway goes, at whatever moment and with whatever power, its
\* controls reach the robot (ControlsWork).  A hurried operator has no such promise:
\* the late worker of the window before closes the link under the new one.
THEOREM RadioCorrect == ASSUME ~Prompt PROVE LinksSpec => []Thymio!RadioSound
<1>1. LinksInit => RadioInv BY RadioStarts DEF LinksInit
<1>2. RadioInv /\ [LinksNext]_<<side, vars, radio>> => RadioInv'
  <2> SUFFICES ASSUME RadioInv, [LinksNext]_<<side, vars, radio>> PROVE RadioInv' OBVIOUS
  <2>1. [Thymio!Next]_radio BY DEF LinksNext
  <2> QED BY <2>1, RadioStep
<1>3. RadioInv => Thymio!RadioSound BY RadioSafe
<1> QED BY <1>1, <1>2, <1>3, PTL DEF LinksSpec

LEMMA LinksStarts == LinksInit => GatewayInv /\ RadioInv
  BY GatewayStarts, RadioStarts DEF LinksInit

LEMMA LinksStep ==
  ASSUME ~Hasty, ~Prompt, GatewayInv, RadioInv, [LinksNext]_<<side, vars, radio>>
  PROVE  GatewayInv' /\ RadioInv'
<1>1. [Next]_vars /\ [Thymio!Next]_radio BY DEF LinksNext
<1> QED BY <1>1, GatewayStep, RadioStep

\* What the run checks, for any number of nodes, listeners, robots and events: with a
\* cable and a person who keep out of the windows in which a result, a loss or a scan
\* is under way (Hasty, Prompt), a connected gateway has one reader as well.  The code
\* does not keep them out, and then the panel may show a lost link as connected.
THEOREM LinksCorrect == ASSUME ~Hasty, ~Prompt PROVE LinksSpec => []LinksSound
<1>1. LinksInit => GatewayInv /\ RadioInv BY LinksStarts
<1>2. GatewayInv /\ RadioInv /\ [LinksNext]_<<side, vars, radio>> => (GatewayInv /\ RadioInv)'
  BY LinksStep
<1>3. GatewayInv /\ RadioInv => LinksSound BY GatewaySafe, RadioSafe DEF LinksSound
<1> QED BY <1>1, <1>2, <1>3, PTL DEF LinksSpec

\* The robot panel shows the link as it is once no result or loss is on its way
\* (robot_panel.py), under the same proviso.
THEOREM PanelCorrect == ASSUME ~Hasty, ~Prompt PROVE LinksSpec => []PanelHonest
<1>1. LinksInit => GatewayInv /\ RadioInv BY LinksStarts
<1>2. GatewayInv /\ RadioInv /\ [LinksNext]_<<side, vars, radio>> => (GatewayInv /\ RadioInv)'
  BY LinksStep
<1>3. GatewayInv /\ RadioInv => PanelHonest BY GatewaySafe
<1> QED BY <1>1, <1>2, <1>3, PTL DEF LinksSpec
=============================================================================
