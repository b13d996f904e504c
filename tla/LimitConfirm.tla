----------------------------- MODULE LimitConfirm -----------------------------
(***************************************************************************)
(* Confirmed delivery of a chamber's pressure limits: the worker threads of *)
(* ESP32Controller.confirm_limits, the CommandConfirmer they share per      *)
(* controller, the lossy link, and the node that clamps, stores and ACKs    *)
(* (commands.h).  The fire-and-forget refresh of Skin._push_limits runs     *)
(* beside them, and the node may reboot to its default limits.              *)
(*                                                                         *)
(* The link keeps the order of one node's frames; any of them may be lost,  *)
(* decided when it is sent.                                                 *)
(* Every controller built for the node hears every ack of it.               *)
(***************************************************************************)
EXTENDS Integers, Sequences, FiniteSets

CONSTANTS
  Workers,             \* confirm_limits threads
  CtrlOf,              \* worker -> the controller (confirmer) it runs on
  ChamberOf,           \* worker -> the chamber it sets, perhaps not on the node
  Wanted,              \* worker -> [max, min] of its skin's configuration
  Slots,               \* chambers the node has
  HardMin, HardMax, Eps, DefaultMin, DefaultMax,   \* the node's limits
  LeftOver,            \* [max, min] an earlier owner may have left on the node
  MaxSends,            \* MAX_RETRIES + 1
  MaxPushes, MaxReboots, MaxFrames   \* bounds: refreshes, reboots, frames in flight

Lims == {"max", "min"}
MinFirst == <<"min", "max">>
Order == <<"max", "min">>      \* in which a worker and a refresh set them
Limits == [Lims -> Int]
DefaultLimits == [max |-> DefaultMax, min |-> DefaultMin]
Sane(l) == HardMin <= l.min /\ l.min + Eps <= l.max /\ l.max <= HardMax

ASSUME LimitsAssumption ==
  /\ {HardMin, HardMax, DefaultMin, DefaultMax} \subseteq Int /\ Eps \in Nat \ {0}
  /\ Sane(DefaultLimits)
  /\ Wanted \in [Workers -> Limits] /\ LeftOver \subseteq Limits
  /\ \A l \in LeftOver : Sane(l)
  /\ {MaxSends, MaxFrames} \subseteq Nat \ {0} /\ MaxPushes \in Nat /\ MaxReboots \in Nat

Controllers == {CtrlOf[w] : w \in Workers}
NoSeq == -1
Nobody == "nobody"

VARIABLES
  pc,       \* worker -> "begin" | "send" | "wait" | "done"
  lim,      \* worker -> the limit it is confirming
  seq,      \* worker -> sequence number of the confirmation in flight
  sends,    \* worker -> transmissions of it so far
  event,    \* worker -> what the ack handler has put in its _Pending
  result,   \* worker -> the limits it reports confirmed
  next,     \* controller -> last sequence number allocated
  owed,     \* workers' chambers whose refresh still owes its second frame
  pushes, reboots,          \* bounds
  toNode, toPc,             \* the link
  node,                     \* chamber -> limits in force
  applied                   \* history: <<worker, limit>> tags the node applied

confirmVars == <<pc, lim, seq, sends, event, result, next>>
linkVars    == <<toNode, toPc>>
boundVars   == <<owed, pushes, reboots>>
vars == <<confirmVars, linkVars, boundVars, node, applied>>

Tags == [by : Workers, lim : Lims]
Frame == [lim : Lims, ch : {ChamberOf[w] : w \in Workers}, val : Int,
          seq : Nat \cup {NoSeq}, by : Workers]
Ack == [seq : Nat, ok : BOOLEAN]

TypeOK ==
  /\ pc \in [Workers -> {"begin", "send", "wait", "done"}]
  /\ lim \in [Workers -> Lims] /\ seq \in [Workers -> Nat]
  /\ sends \in [Workers -> 0..MaxSends]
  /\ event \in [Workers -> {"none", "ok", "nack"}]
  /\ result \in [Workers -> SUBSET Lims]
  /\ next \in [Controllers -> Nat]
  /\ owed \subseteq Workers /\ pushes \in 0..MaxPushes /\ reboots \in 0..MaxReboots
  /\ toNode \in Seq(Frame) /\ toPc \in Seq(Ack)
  /\ node \in [Slots -> Limits] /\ applied \subseteq Tags

Init ==
  /\ pc = [w \in Workers |-> "begin"] /\ lim = [w \in Workers |-> Order[1]]
  /\ seq = [w \in Workers |-> 0] /\ sends = [w \in Workers |-> 0]
  /\ event = [w \in Workers |-> "none"] /\ result = [w \in Workers |-> {}]
  /\ next = [c \in Controllers |-> 0]
  /\ owed = {} /\ pushes = 0 /\ reboots = 0
  /\ toNode = <<>> /\ toPc = <<>>
  /\ node \in [Slots -> LeftOver \cup {DefaultLimits}]
  /\ applied = {}

-----------------------------------------------------------------------------
(* CommandConfirmer.confirm, on the worker's thread *)

\* The queue q once f was transmitted, or lost.
Carried(q, f) == {q} \cup (IF Len(q) < MaxFrames THEN {Append(q, f)} ELSE {})

SetFrame(w, l, s) ==
  [lim |-> l, ch |-> ChamberOf[w], val |-> Wanted[w][l], seq |-> s, by |-> w]

ReuseSeq(c) == IF next[c] = 0 THEN 1 ELSE next[c]
NextSeq(c) == next[c] + 1

\* Allocate the sequence number and register the _Pending.
Begin(w) ==
  /\ pc[w] = "begin"
  /\ LET s == NextSeq(CtrlOf[w])
     IN  /\ next' = [next EXCEPT ![CtrlOf[w]] = s]
         /\ seq'  = [seq EXCEPT ![w] = s]
  /\ pc' = [pc EXCEPT ![w] = "send"]
  /\ UNCHANGED <<lim, sends, event, result, linkVars, boundVars, node, applied>>

Send(w) ==
  /\ pc[w] = "send"
  /\ toNode' \in Carried(toNode, SetFrame(w, lim[w], seq[w]))
  /\ sends' = [sends EXCEPT ![w] = @ + 1]
  /\ pc' = [pc EXCEPT ![w] = "wait"]
  /\ UNCHANGED <<lim, seq, event, result, next, toPc, boundVars, node, applied>>

\* The worker confirms max, then min whatever became of max.
Conclude(w, ok) ==
  /\ result' = [result EXCEPT ![w] = IF ok THEN @ \cup {lim[w]} ELSE @]
  /\ pc' = [pc EXCEPT ![w] = IF lim[w] = Order[1] THEN "begin" ELSE "done"]
  /\ lim' = [lim EXCEPT ![w] = Order[2]]
  /\ sends' = [sends EXCEPT ![w] = 0]
  /\ event' = [event EXCEPT ![w] = "none"]
  /\ UNCHANGED <<seq, next, linkVars, boundVars, node, applied>>

\* event.wait returned: the ack came.
Answered(w) == pc[w] = "wait" /\ event[w] # "none" /\ Conclude(w, event[w] = "ok")

MayResend(w) == sends[w] < MaxSends

\* event.wait timed out: retransmit the same seq, or give up.  An ack that
\* lands after the timeout is seen by the next wait, if there is one.
Resend(w) ==
  /\ pc[w] = "wait" /\ event[w] = "none" /\ MayResend(w)
  /\ pc' = [pc EXCEPT ![w] = "send"]
  /\ UNCHANGED <<lim, seq, sends, event, result, next, linkVars, boundVars, node, applied>>

GiveUp(w) == /\ pc[w] = "wait" /\ event[w] = "none" /\ ~MayResend(w)
             /\ Conclude(w, FALSE)

(* CommandConfirmer._handle, on the gateway's read thread *)

Matches(w, a) == pc[w] \in {"send", "wait"} /\ seq[w] = a.seq

PcReceive ==
  /\ toPc # <<>>
  /\ LET a == Head(toPc)
     IN  event' = [w \in Workers |->
                     IF Matches(w, a) THEN (IF a.ok THEN "ok" ELSE "nack")
                     ELSE event[w]]
  /\ toPc' = Tail(toPc)
  /\ UNCHANGED <<pc, lim, seq, sends, result, next, toNode, boundVars, node, applied>>

(* Skin._push_limits before an actuation: max, then min, nothing awaited *)

PushFirst(w) ==
  /\ pushes < MaxPushes /\ w \notin owed
  /\ pushes' = pushes + 1 /\ owed' = owed \cup {w}
  /\ toNode' \in Carried(toNode, SetFrame(w, Order[1], NoSeq))
  /\ UNCHANGED <<confirmVars, toPc, reboots, node, applied>>

PushSecond(w) ==
  /\ w \in owed /\ owed' = owed \ {w}
  /\ toNode' \in Carried(toNode, SetFrame(w, Order[2], NoSeq))
  /\ UNCHANGED <<confirmVars, toPc, pushes, reboots, node, applied>>

-----------------------------------------------------------------------------
(* The node: applyChamberCmd CMD_SET_MAX / CMD_SET_MIN, then ackConfirmable *)

Constrain(x, lo, hi) == IF x < lo THEN lo ELSE IF x > hi THEN hi ELSE x

NoGap(l, which, x) ==
  IF which = "max" THEN [l EXCEPT !.max = Constrain(x, l.min, HardMax)]
                   ELSE [l EXCEPT !.min = Constrain(x, HardMin, l.max)]
SetLimit(l, which, x) ==
  IF which = "max" THEN [l EXCEPT !.max = Constrain(x, l.min + Eps, HardMax)]
                   ELSE [l EXCEPT !.min = Constrain(x, HardMin, l.max - Eps)]

Good(f) == f.ch \in Slots

NodeReceive ==
  /\ toNode # <<>>
  /\ LET f == Head(toNode)
     IN  /\ node' = IF f.ch \in Slots
                      THEN [node EXCEPT ![f.ch] = SetLimit(@, f.lim, f.val)] ELSE node
         /\ toPc' \in IF f.seq = NoSeq THEN {toPc}
                      ELSE Carried(toPc, [seq |-> f.seq, ok |-> Good(f)])
         /\ applied' = IF f.seq # NoSeq /\ f.ch \in Slots
                         THEN applied \cup {[by |-> f.by, lim |-> f.lim]} ELSE applied
  /\ toNode' = Tail(toNode)
  /\ UNCHANGED <<confirmVars, boundVars>>

\* A power cycle loses the limits.
Reboot ==
  /\ reboots < MaxReboots /\ reboots' = reboots + 1
  /\ node' = [c \in Slots |-> DefaultLimits]
  /\ UNCHANGED <<confirmVars, linkVars, owed, pushes, applied>>

Worker(w) == Begin(w) \/ Send(w) \/ Answered(w) \/ Resend(w) \/ GiveUp(w)
Next == \/ \E w \in Workers : Worker(w) \/ PushFirst(w) \/ PushSecond(w)
        \/ PcReceive \/ NodeReceive \/ Reboot

Spec == Init /\ [][Next]_vars
-----------------------------------------------------------------------------
(* Properties *)

\* Whatever is pushed, in whatever order and from whatever was left behind, a
\* chamber's limits stay inside the hard limits and Eps apart (commands.h
\* clamps each one against the other).
LimitsSane == \A c \in Slots : Sane(node[c])

\* command_confirmer.py:11: "The node ACKs after applying the command, so an
\* ack means applied": no worker holds a positive ack for a limit the node
\* has not applied on its behalf.
AckMeansApplied ==
  \A w \in Workers : pc[w] \in {"send", "wait"} /\ event[w] = "ok"
                       => [by |-> w, lim |-> lim[w]] \in applied

\* Once a worker reports both limits confirmed, and the node has not rebooted,
\* the limits of its chamber are the configured ones, whatever was there before
\* and whatever retransmissions and refreshes are still on their way.
ConfirmedInForce ==
  \A w \in Workers : result[w] = Lims /\ reboots = 0 => node[ChamberOf[w]] = Wanted[w]
=============================================================================
