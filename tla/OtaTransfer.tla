------------------------------ MODULE OtaTransfer ------------------------------
(***************************************************************************)
(* Firmware update of one node over ESP-NOW: NodeOTAUpdater's worker thread *)
(* with its sliding window, its reply handler on the gateway's read thread, *)
(* the lossy link, and the node's receiver in se_ota.h with the reboot into *)
(* the image it was sent.                                                  *)
(*                                                                         *)
(* Every run of the updater sends an image of its own; run a's image is     *)
(* named a, and 0 is the firmware the node came with.  A frame's loss is    *)
(* decided when it is sent.  Replies do not say which run they answer.      *)
(***************************************************************************)
EXTENDS Integers, Sequences

CONSTANTS
  Total,           \* chunks of an image
  Window,          \* WINDOW
  MaxRetries,      \* MAX_RETRIES
  MaxRuns,         \* bound: runs of the updater
  MaxEnds,         \* bound: ota_end frames of a run
  MaxFrames,       \* bound: frames in flight each way
  MaxFaults,       \* bound: writes the flash gets wrong
  MaxCycles        \* bound: times the node loses its power

ASSUME OtaAssumption ==
  /\ {Total, Window, MaxRuns, MaxEnds, MaxFrames} \subseteq Nat \ {0}
  /\ {MaxRetries, MaxFaults, MaxCycles} \subseteq Nat

Seqs == 0..Total - 1

VARIABLES
  pc, run,         \* the worker thread, and how many runs there were
  base, next,      \* lowest unacknowledged and next unsent chunk
  retries,         \* chunk -> retransmissions
  ends,            \* ota_end frames sent
  acked, term,     \* what the handler noted: _acked and _terminal
  toNode, toPc,    \* the link
  fw, power,       \* the node: the image it runs, and whether it runs
  active, image,   \* a transfer under way, and whose
  written,         \* chunks flashed; expectedSeq is their number
  bad,             \* the flash corrupted what was written
  faults, cycles

worker == <<pc, run, base, next, retries, ends>>
heard  == <<acked, term>>
node   == <<fw, power, active, image, written, bad, faults, cycles>>
vars   == <<worker, heard, toNode, toPc, node>>

Running == {"begin", "check", "fill", "advance", "resend", "end"}
Replies == {"ready", "done", "not_active", "begin_failed", "write_failed", "verify_failed"}

TypeOK ==
  /\ pc \in Running \cup {"idle", "ok", "failed"} /\ run \in 0..MaxRuns
  /\ base \in 0..Total /\ next \in 0..Total /\ ends \in 0..MaxEnds
  /\ retries \in [Seqs -> 0..MaxRetries]
  /\ acked \subseteq Seqs /\ term \in Replies \cup {"none"}
  /\ fw \in 0..MaxRuns /\ power \in {"on", "booting", "bricked"}
  /\ active \in BOOLEAN /\ image \in 0..MaxRuns /\ Len(written) <= Total
  /\ bad \in BOOLEAN /\ faults \in 0..MaxFaults /\ cycles \in 0..MaxCycles

Init ==
  /\ pc = "idle" /\ run = 0 /\ base = 0 /\ next = 0
  /\ retries = [s \in Seqs |-> 0] /\ ends = 0
  /\ acked = {} /\ term = "none" /\ toNode = <<>> /\ toPc = <<>>
  /\ fw = 0 /\ power = "on" /\ active = FALSE /\ image = 0 /\ written = <<>>
  /\ bad = FALSE /\ faults = 0 /\ cycles = 0

-----------------------------------------------------------------------------
(* The link *)

Data(s)  == [k |-> "data", of |-> run, seq |-> s]
Begin    == [k |-> "begin", of |-> run, seq |-> 0]
End      == [k |-> "end", of |-> run, seq |-> 0]
Ack(s)   == [k |-> "ack", seq |-> s]
Reply(r) == [k |-> r, seq |-> 0]

\* The queue q once the frame f was transmitted, or lost.
Carried(q, f) == {q} \cup (IF Len(q) < MaxFrames THEN {Append(q, f)} ELSE {})

\* The chunks of S, sent in order; any of them may be lost.
Ordered(q) == \A i, j \in DOMAIN q : i < j => q[i] < q[j]
Burst(S) == \E n \in 0..MaxFrames - Len(toNode) : \E arrive \in [1..n -> S] :
  /\ Ordered(arrive)
  /\ toNode' = toNode \o [i \in 1..n |-> Data(arrive[i])]

-----------------------------------------------------------------------------
(* The worker thread: NodeOTAUpdater.run *)

Start ==
  /\ pc \notin Running /\ run < MaxRuns /\ run' = run + 1
  /\ pc' = "begin" /\ base' = 0 /\ next' = 0 /\ ends' = 0
  /\ retries' = [s \in Seqs |-> 0] /\ acked' = {} /\ term' = "none"
  /\ toNode' \in Carried(toNode, [Begin EXCEPT !.of = run + 1])
  /\ UNCHANGED <<toPc, node>>

Goto(l) == pc' = l /\ UNCHANGED <<run, base, next, retries, ends, heard, toNode, toPc, node>>

\* The user cancels: noticed at the head of each of the three loops.
Cancel == pc \in {"begin", "check", "end"} /\ Goto("failed")

AwaitReady ==
  /\ pc = "begin"
  /\ \/ term = "ready" /\ Goto("check")
     \/ term # "ready" /\ Goto("failed")          \* another reply, or the timeout

Check ==
  /\ pc = "check" /\ base < Total
  /\ Goto(IF term \in {"none", "ready"} THEN "fill" ELSE "failed")

UpTo == {base + Window, Total}
Fill ==
  /\ pc = "fill"
  /\ LET top == CHOOSE m \in UpTo : \A n \in UpTo : m <= n
     IN  /\ Burst({s \in Seqs : next <= s /\ s < top})
         /\ next' = IF next < top THEN top ELSE next
  /\ pc' = "advance"
  /\ UNCHANGED <<run, base, retries, ends, heard, toPc, node>>

\* Over contiguous acks only.
Contiguous == CHOOSE b \in base..Total : base..b - 1 \subseteq acked /\ b \notin acked
Advance ==
  /\ pc = "advance" /\ base' = Contiguous /\ pc' = "resend"
  /\ retries' = [s \in Seqs |-> IF s < base' THEN 0 ELSE retries[s]]
  /\ UNCHANGED <<run, next, ends, heard, toNode, toPc, node>>

\* T of the chunks in the window have timed out; one retransmission too many
\* ends the run, after those below it were sent again.
Unacked == {s \in base..next - 1 : s \notin acked}
Exhausted(T) == {s \in T : retries[s] = MaxRetries}
Uncounted(s) == retries[s]
Counted(s) == retries[s] + 1
Resend(T) ==
  /\ pc = "resend"
  /\ LET again == {s \in T : \A x \in Exhausted(T) : s < x}
     IN  /\ Burst(again)
         /\ retries' = [s \in Seqs |-> IF s \in again THEN Counted(s) ELSE retries[s]]
         /\ pc' = IF Exhausted(T) # {} THEN "failed"
                  ELSE IF base < Total THEN "check" ELSE "end"
         /\ term' = IF pc' = "end" THEN "none" ELSE term
  /\ UNCHANGED <<run, base, next, ends, acked, toPc, node>>
Expire == \E T \in SUBSET Unacked : base \in T /\ Resend(T)

\* _finish: ota_end again and again, until the node confirms or time runs out.
Confirmations == {"done", "not_active"}
SendEnd ==
  /\ pc = "end" /\ term \in {"none", "ready"} /\ ends < MaxEnds
  /\ toNode' \in Carried(toNode, End) /\ ends' = ends + 1
  /\ UNCHANGED <<pc, run, base, next, retries, heard, toPc, node>>
Confirmed == pc = "end" /\ term \in Confirmations /\ Goto("ok")
EndFailed ==
  /\ pc = "end"
  /\ \/ term \notin Confirmations \cup {"none", "ready"}
     \/ term \in {"none", "ready"} /\ ends > 0         \* DONE_TIMEOUT
  /\ Goto("failed")

Worker == \/ AwaitReady \/ Check \/ Fill \/ Advance
          \/ (\E T \in SUBSET Unacked : Resend(T))
          \/ SendEnd \/ Confirmed \/ EndFailed

(* The handler, on the read thread, while a run is registered with the gateway *)

Handle ==
  /\ toPc # <<>> /\ toPc' = Tail(toPc)
  /\ LET m == Head(toPc)
     IN  /\ acked' = IF pc \in Running /\ m.k = "ack" THEN acked \cup {m.seq} ELSE acked
         /\ term' = IF pc \in Running /\ m.k \in Replies THEN m.k ELSE term
  /\ UNCHANGED <<worker, toNode, node>>

-----------------------------------------------------------------------------
(* The node: se::ota::tryHandle *)

Whole == [i \in 1..Total |-> <<image, i - 1>>]
FlashFault == faults < MaxFaults /\ faults' = faults + 1

OnBegin(f) ==
  /\ f.k = "begin"
  /\ active' = TRUE /\ image' = f.of /\ written' = <<>> /\ bad' = FALSE
  /\ toPc' \in Carried(toPc, Reply("ready"))
  /\ UNCHANGED <<fw, power, faults>>

OnBeginError(f) ==
  /\ f.k = "begin" /\ FlashFault
  /\ active' = FALSE /\ written' = <<>> /\ toPc' \in Carried(toPc, Reply("begin_failed"))
  /\ UNCHANGED <<fw, power, image, bad>>

\* A chunk from the future is dropped; the others are acknowledged, again or for
\* the first time.
AckFuture(s) == TRUE
Had(s) == s <= Len(written)
Expected(s) == s = Len(written)
OnData(f) ==
  /\ f.k = "data" /\ active
  /\ IF Expected(f.seq)
       THEN /\ written' = Append(written, <<f.of, f.seq>>)
            /\ (FlashFault /\ bad' = TRUE) \/ UNCHANGED <<faults, bad>>
       ELSE UNCHANGED <<written, faults, bad>>
  /\ toPc' \in IF Had(f.seq) THEN Carried(toPc, Ack(f.seq)) ELSE {toPc}
  /\ UNCHANGED <<fw, power, active, image>>

OnWriteError(f) ==
  /\ f.k = "data" /\ active /\ Expected(f.seq) /\ FlashFault
  /\ active' = FALSE /\ toPc' \in Carried(toPc, Reply("write_failed"))
  /\ UNCHANGED <<fw, power, image, written, bad>>

\* Update.end verifies the MD5; the node confirms only once it rebooted, or at
\* once.
DoneAtOnce == Carried(toPc, Reply("done"))
Silently == {toPc}
Verified == written = Whole /\ ~bad
OnEnd(f) ==
  /\ f.k = "end" /\ active /\ active' = FALSE
  /\ IF Verified
       THEN fw' = image /\ power' = "booting" /\ toPc' \in Silently
       ELSE toPc' \in Carried(toPc, Reply("verify_failed")) /\ UNCHANGED <<fw, power>>
  /\ UNCHANGED <<image, written, bad, faults>>

NotActive(f) ==
  /\ f.k \in {"data", "end"} /\ ~active
  /\ toPc' \in Carried(toPc, Reply("not_active"))
  /\ UNCHANGED <<fw, power, active, image, written, bad, faults>>

Receive ==
  /\ toNode # <<>> /\ toNode' = Tail(toNode)
  /\ LET f == Head(toNode)
     IN  \/ power = "on" /\ (\/ OnBegin(f) \/ OnBeginError(f) \/ OnData(f)
                          \/ OnWriteError(f) \/ OnEnd(f) \/ NotActive(f))
         \/ power # "on" /\ UNCHANGED <<fw, power, active, image, written, bad, faults, toPc>>
  /\ UNCHANGED <<worker, heard, cycles>>

\* The reboot into the image just verified; checkBootDone announces it.
Boot ==
  /\ power = "booting"
  /\ \/ power' = "on" /\ toPc' \in Carried(toPc, Reply("done"))
     \/ power' = "bricked" /\ UNCHANGED toPc           \* an image that does not boot
  /\ UNCHANGED <<worker, heard, toNode, fw, active, image, written, bad, faults, cycles>>

\* A power cycle forgets the transfer.
PowerCycle ==
  /\ power = "on" /\ cycles < MaxCycles /\ cycles' = cycles + 1
  /\ active' = FALSE /\ written' = <<>>
  /\ UNCHANGED <<worker, heard, toNode, toPc, fw, power, image, bad, faults>>

Next == Start \/ Cancel \/ Worker \/ Handle \/ Receive \/ Boot \/ PowerCycle

\* The worker thread keeps running, and a chunk that stays unacknowledged times
\* out in the end; nothing is assumed of the link or the node.
Spec == Init /\ [][Next]_vars /\ WF_vars(Worker) /\ SF_vars(Expire)
-----------------------------------------------------------------------------
(* Properties *)

\* Replies do not name the run they answer, so the next two are about the
\* first one: a later run may hear answers to an earlier.

\* The updater's window never runs ahead of the flash: it counts as sent no
\* chunk that the node, in the middle of this very transfer, has yet to write;
\* so ota_end goes out only over a whole image.
WindowHonest ==
  active /\ run = 1 /\ pc \in Running \ {"begin"} => base <= Len(written)

\* On a sound flash under steady power, a run that reports success has left the
\* node running the image it sent, however many frames were lost, sent again or
\* answered late.
BootConfirmed == pc = "ok" /\ run = 1 /\ faults = 0 /\ cycles = 0 => fw = 1 /\ power = "on"

\* Types, and a window that claims nothing the node has not written.
TransferSound == TypeOK /\ WindowHonest
=============================================================================
