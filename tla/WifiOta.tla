------------------------------- MODULE WifiOta -------------------------------
(***************************************************************************)
(* Firmware update over Wi-Fi: a batch of nodes, one WifiOTAUpdater after  *)
(* the other (_OTAWorker).  The PC streams an image to the gateway over    *)
(* USB, the gateway keeps one image at a time and serves it at one address,*)
(* the node leaves the radio, joins the gateway's access point, downloads  *)
(* whatever is served, verifies it against the digest served with it, and  *)
(* reboots into it.                                                        *)
(*                                                                         *)
(* Run r sends image r, built for node Jobs[r]; 0 is the firmware a node   *)
(* came with.  Lengths are counted in ota_store_data lines.                *)
(***************************************************************************)
EXTENDS Integers, Sequences, FiniteSets

CONSTANTS Jobs,        \* the nodes of the batch, in order, each one once
          Lines,       \* lines of an image
          StoreWindow, \* STORE_WINDOW
          AckEvery,    \* OTA_ACK_EVERY
          RxLines,     \* lines the gateway's USB buffer holds
          Resends,     \* ota_wifi frames of a run
          Resets       \* bound: resets and power cuts of a node

Runs == 1..Len(Jobs)
Nodes == {Jobs[r] : r \in Runs}

\* STORE_WINDOW is kept "well under" the gateway's buffer, and over OTA_ACK_EVERY.
Parameters == /\ {Lines, StoreWindow, AckEvery, RxLines, Resends} \subseteq Nat \ {0}
              /\ AckEvery <= StoreWindow /\ StoreWindow < RxLines /\ Resets \in Nat
              /\ Jobs \in Seq(Nodes) /\ \A r, s \in Runs : Jobs[r] = Jobs[s] => r = s

VARIABLES
  upd,     \* the updater: its thread's place and what its handler noted
  cancel,  \* the batch was cancelled
  usb,     \* the cable: lines out, lines back, and whether it is plugged
  gw,      \* the store: whose image, lines held, "none", "filling" or "ready"
  air,     \* ota_wifi frames to the nodes and replies from them
  board,   \* node -> firmware, place, RTC flag, image being loaded
  resets

vars == <<upd, cancel, usb, gw, air, board, resets>>

Fresh(r) == [pc |-> "ready", run |-> r, sent |-> 0, acked |-> 0, asks |-> 0,
             ready |-> FALSE, stored |-> FALSE, started |-> FALSE, done |-> FALSE,
             error |-> FALSE]
NoStore == [of |-> 0, len |-> 0, state |-> "none"]

Init ==
  /\ upd = [Fresh(0) EXCEPT !.pc = "idle"] /\ cancel = FALSE
  /\ usb = [out |-> <<>>, back |-> <<>>, up |-> TRUE]
  /\ gw = NoStore /\ air = [out |-> <<>>, back |-> <<>>]
  /\ board = [n \in Nodes |-> [fw |-> 0, at |-> "on", flag |-> FALSE, got |-> 0]]
  /\ resets = 0

Ended == {"idle", "ok", "failed"}
Running == upd.pc \notin Ended
Target == Jobs[upd.run]
Quiet == usb.out = <<>> /\ usb.back = <<>> /\ air.out = <<>> /\ air.back = <<>>

Line(k) == [k |-> k, of |-> upd.run]
\* A line that finds the gateway's buffer full is lost without a trace.
Written(line) == IF usb.up /\ Len(usb.out) < RxLines
                 THEN [usb EXCEPT !.out = Append(@, line)] ELSE usb

-----------------------------------------------------------------------------
(* The worker thread. *)

StartJob ==
  /\ upd.pc \in Ended /\ upd.run < Len(Jobs) /\ ~cancel
  /\ upd' = [Fresh(upd.run + 1) EXCEPT !.pc = IF usb.up THEN "ready" ELSE "failed"]
  /\ usb' = Written([k |-> "begin", of |-> upd.run + 1])

Goto(pc) == upd' = [upd EXCEPT !.pc = pc] /\ UNCHANGED usb
GiveUp == /\ Running /\ (cancel \/ (upd.error /\ ~(upd.pc = "done" /\ upd.done)))
          /\ Goto("failed")
On == ~cancel /\ ~upd.error

AwaitReady == upd.pc = "ready" /\ On /\ upd.ready /\ Goto("stage")

\* _stage and _await_window: one line past the window at the most.
StageLine ==
  /\ upd.pc = "stage" /\ On /\ upd.sent < Lines
  /\ upd.sent - upd.acked <= StoreWindow
  /\ IF usb.up THEN upd' = [upd EXCEPT !.sent = @ + 1] /\ usb' = Written(Line("data"))
               ELSE upd' = [upd EXCEPT !.error = TRUE] /\ UNCHANGED usb
StageEnd ==
  /\ upd.pc = "stage" /\ On /\ upd.sent = Lines
  /\ upd' = [upd EXCEPT !.pc = "stored", !.stored = FALSE]
  /\ usb' = Written(Line("end"))
AwaitStored == upd.pc = "stored" /\ On /\ upd.stored /\ Goto("start")

Ask == /\ upd.pc = "start" /\ On /\ ~upd.started /\ upd.asks < Resends
       /\ upd' = [upd EXCEPT !.asks = @ + 1] /\ usb' = Written(Line("wifi"))
AwaitStart == upd.pc = "start" /\ On /\ upd.started /\ Goto("done")
AwaitDone == upd.pc = "done" /\ ~cancel /\ upd.done /\ Goto("ok")

\* Seconds of silence end a wait, and 90 s the last one (DONE_TIMEOUT), by
\* when the node has joined the access point or given up.
Blocked == upd.sent - upd.acked > StoreWindow
TimeOut ==
  /\ Running /\ On
  /\ \/ upd.pc = "ready" /\ ~upd.ready /\ Quiet
     \/ upd.pc = "stage" /\ Blocked /\ Quiet
     \/ upd.pc = "stored" /\ ~upd.stored /\ Quiet
     \/ upd.pc = "start" /\ ~upd.started /\ upd.asks > 0 /\ Quiet
     \/ upd.pc = "done" /\ ~upd.done /\ board[Target].at \notin {"asked", "joining"}
  /\ Goto("failed")

Worker == /\ \/ StartJob \/ GiveUp \/ AwaitReady \/ StageLine \/ StageEnd \/ AwaitStored
             \/ Ask \/ AwaitStart \/ AwaitDone \/ TimeOut
          /\ UNCHANGED <<cancel, gw, air, board, resets>>

\* Cancel, or closing the window, which cancels and waits for the thread.
Cancel == /\ Running /\ ~cancel /\ cancel' = TRUE
          /\ UNCHANGED <<upd, usb, gw, air, board, resets>>

\* Replies of the nodes carry their address, those of the gateway none.
Noted(m) ==
  CASE m.k = "ready" -> [upd EXCEPT !.ready = TRUE]
    [] m.k = "ack" -> [upd EXCEPT !.acked = m.len]
    [] m.k = "stored" -> [upd EXCEPT !.stored = TRUE]
    [] m.k = "store_error" -> [upd EXCEPT !.error = TRUE]
    [] m.k = "wifi_start" /\ m.from = Target -> [upd EXCEPT !.started = TRUE]
    [] m.k = "done" /\ m.from = Target -> [upd EXCEPT !.done = TRUE]
    [] OTHER -> upd
Handle ==
  /\ usb.back # <<>> /\ usb' = [usb EXCEPT !.back = Tail(@)]
  /\ upd' = IF Running THEN Noted(Head(usb.back)) ELSE upd
  /\ UNCHANGED <<cancel, gw, air, board, resets>>

-----------------------------------------------------------------------------
(* The gateway. *)

Says(m) == usb' = [usb EXCEPT !.out = Tail(@), !.back = Append(@, m)]
Takes == usb' = [usb EXCEPT !.out = Tail(@)]

StoreBegin(m) ==
  /\ m.k = "begin"
  /\ \/ gw' = [of |-> m.of, len |-> 0, state |-> "filling"] /\ Says([k |-> "ready"])
     \/ gw' = NoStore /\ Says([k |-> "store_error"])        \* no PSRAM

AckedSeldom(len) == len % (2 * StoreWindow) = 0
Acked(len) == len % AckEvery = 0
StoreData(m) ==
  /\ m.k = "data"
  /\ IF gw.state = "none" THEN Takes /\ UNCHANGED gw
     ELSE /\ gw' = [gw EXCEPT !.len = @ + 1]
          /\ IF Acked(gw'.len) THEN Says([k |-> "ack", len |-> gw'.len]) ELSE Takes

Complete == gw.len = Lines
StoreEnd(m) ==
  /\ m.k = "end"
  /\ IF gw.state # "none" /\ Complete
     THEN gw' = [gw EXCEPT !.state = "ready"] /\ Says([k |-> "stored"])
     ELSE gw' = NoStore /\ Says([k |-> "store_error"])

\* The credentials are the gateway's; the frame may be lost on the air.
Forward(m) ==
  /\ m.k = "wifi" /\ Takes /\ UNCHANGED gw

Gateway ==
  /\ usb.out # <<>>
  /\ LET m == Head(usb.out) IN
       \/ (StoreBegin(m) \/ StoreData(m) \/ StoreEnd(m)) /\ UNCHANGED air
       \/ Forward(m) /\ air' \in {air, [air EXCEPT !.out = Append(@, Jobs[m.of])]}
  /\ UNCHANGED <<upd, cancel, board, resets>>

Relay ==
  /\ air.back # <<>> /\ air' = [air EXCEPT !.back = Tail(@)]
  /\ usb' = IF usb.up THEN [usb EXCEPT !.back = Append(@, Head(air.back))] ELSE usb
  /\ UNCHANGED <<upd, cancel, gw, board, resets>>

Unplug == /\ usb.up /\ usb' = [out |-> <<>>, back |-> <<>>, up |-> FALSE] /\ gw' = NoStore
          /\ UNCHANGED <<upd, cancel, air, board, resets>>

-----------------------------------------------------------------------------
(* A node: se_ota.h. *)

Replied(n, k) == {air, [air EXCEPT !.back = Append(@, [k |-> k, from |-> n])]}

\* ota_wifi, heard only by a node that is on the air.
Hear ==
  /\ air.out # <<>>
  /\ LET n == Head(air.out)
         rest == [air EXCEPT !.out = Tail(@)]
     IN IF board[n].at \in {"on", "asked"}
        THEN /\ board' = [board EXCEPT ![n].at = "asked"]
             /\ \/ air' = rest
                \/ air' = [rest EXCEPT !.back = Append(@, [k |-> "wifi_start", from |-> n])]
        ELSE air' = rest /\ UNCHANGED board
  /\ UNCHANGED resets

\* The flag is armed before the node joins, and taken back when it fails.
PollWifi(n) == /\ board[n].at = "asked"
               /\ board' = [board EXCEPT ![n].at = "joining", ![n].flag = TRUE]
               /\ UNCHANGED <<air, resets>>

Back(n) == [board EXCEPT ![n].at = "on", ![n].flag = FALSE, ![n].got = 0]
Served(n) == gw.state = "ready"
Fetch(n) ==
  /\ board[n].at = "joining"
  /\ \/ board' = Back(n)                              \* no access point, or a 404
     \/ Served(n) /\ board' = [board EXCEPT ![n].at = "loading", ![n].got = gw.of]
  /\ UNCHANGED <<air, resets>>

\* A store that was reset under the download leaves bytes that fail the digest,
\* or are still those of the image.
Loaded(n) ==
  /\ board[n].at = "loading"
  /\ \/ board' = Back(n)
     \/ board' = [board EXCEPT ![n].at = "booting", ![n].fw = board[n].got, ![n].got = 0]
  /\ UNCHANGED <<air, resets>>

\* The first boot announces itself, if the flag survived.
Boot(n) ==
  /\ board[n].at = "booting"
  /\ board' = [board EXCEPT ![n].at = "on", ![n].flag = FALSE]
  /\ air' \in Replied(n, "done")
  /\ UNCHANGED resets

\* A crash of the firmware keeps RTC memory: the old firmware finds the flag.
Reset(n) ==
  /\ resets < Resets /\ resets' = resets + 1 /\ board[n].at # "booting"
  /\ board' = Back(n)
  /\ air' \in IF board[n].flag THEN Replied(n, "done") ELSE {air}

Node(n) == PollWifi(n) \/ Fetch(n) \/ Loaded(n) \/ Boot(n)
Outside == (Hear \/ \E n \in Nodes : Node(n) \/ Reset(n)) /\ UNCHANGED <<upd, cancel, usb, gw>>

Next == Worker \/ Cancel \/ Handle \/ Gateway \/ Relay \/ Unplug \/ Outside

\* Threads of the PC and tasks of the gateway run, frames arrive or are lost, and
\* a node comes back from the access point: its joining and download are bounded.
Steady == \/ Handle \/ Gateway \/ Relay
          \/ (Hear \/ \E n \in Nodes : Node(n)) /\ UNCHANGED <<upd, cancel, usb, gw>>
Spec == Init /\ [][Next]_vars /\ WF_vars(Worker) /\ WF_vars(Steady)

-----------------------------------------------------------------------------
TypeOK ==
  /\ upd.pc \in Ended \cup {"ready", "stage", "stored", "start", "done"}
  /\ upd.run \in 0..Len(Jobs) /\ upd.sent \in 0..Lines /\ upd.acked \in 0..Lines
  /\ gw.state \in {"none", "filling", "ready"} /\ gw.len \in 0..Lines
  /\ board \in [Nodes -> [fw : 0..Len(Jobs), at : {"on", "asked", "joining", "loading", "booting"},
                         flag : BOOLEAN, got : 0..Len(Jobs)]]

\* What is served is whole, and nothing the PC sent was lost in the USB buffer:
\* "keep at most STORE_WINDOW bytes in flight" leaves it room for every line.
StoreWhole ==
  /\ gw.state = "ready" => gw.len = Lines
  /\ Running /\ gw.state # "none" /\ gw.of = upd.run /\ upd.pc = "stage" =>
       Cardinality({i \in DOMAIN usb.out : usb.out[i].k = "data"}) + gw.len = upd.sent

\* The gateway's acknowledgements, one in AckEvery lines, never leave the PC
\* waiting at a full window with nothing on its way.
NeverStalled == upd.pc = "stage" /\ On /\ Blocked /\ usb.up => ~Quiet

StagingSound == TypeOK /\ StoreWhole /\ NeverStalled

\* A run reported complete has left its node running the image it sent, unless
\* a crash of the node took the flag along.
BootConfirmed == upd.pc = "ok" /\ resets = 0 => board[Target].fw = upd.run

\* "a failed WiFi update is safe" (se_ota.h): a node runs the firmware it came
\* with or one that was built for it.
RightImage == \A n \in Nodes : board[n].fw = 0 \/ Jobs[board[n].fw] = n
=============================================================================
