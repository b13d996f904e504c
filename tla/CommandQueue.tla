----------------------------- MODULE CommandQueue -----------------------------
(***************************************************************************)
(* The ring between the radio task and the loop of an actuator node         *)
(* (firmware/common/cmd_queue.h).  ESP-NOW frames are parsed and pushed on  *)
(* one core while loop() pops on the other, without a lock: the producer    *)
(* writes only head, the consumer only tail, and each reads the other's.    *)
(*                                                                         *)
(* A command is many words (struct Cmd), copied in and out word by word in  *)
(* any order; head and tail are single bytes, read and written at once, in  *)
(* program order.                                                           *)
(***************************************************************************)
EXTENDS Naturals, Sequences

CONSTANTS Slots,     \* QUEUE_MASK + 1
          Cmds,      \* commands the PC sends
          Words      \* words of struct Cmd

ASSUME QueueAssumption ==
  /\ Slots \in Nat \ {0, 1}
  /\ Words # {} /\ Cmds # {} /\ <<>> \notin Cmds

VARIABLES
  queue, head, tail,   \* the ring
  pushing,             \* words of "in" the producer has yet to write
  in,                  \* the command being pushed, <<>> when none is
  popping,             \* words of the slot the consumer has yet to read
  out,                 \* Cmd c of loop()
  busy,                \* pop() is copying
  taken                \* the command pop() returned last

producer == <<head, pushing, in>>
consumer == <<tail, popping, out, busy, taken>>
vars == <<queue, producer, consumer>>

Ring == 0 .. Slots - 1
None == <<>>
Whole(c) == [w \in Words |-> c]

TypeOK ==
  /\ queue \in [Ring -> [Words -> Cmds \cup {None}]]
  /\ head \in Ring /\ tail \in Ring
  /\ pushing \subseteq Words /\ in \in Cmds \cup {None}
  /\ popping \subseteq Words /\ busy \in BOOLEAN
  /\ out \in [Words -> Cmds \cup {None}]
  /\ taken \in [Words -> Cmds \cup {None}]

Init ==
  /\ queue = [i \in Ring |-> Whole(None)]
  /\ head = 0 /\ tail = 0
  /\ pushing = {} /\ in = None
  /\ popping = {} /\ out = Whole(None) /\ busy = FALSE /\ taken = Whole(None)

\* (i + 1) & QUEUE_MASK
Succ(i) == IF i = Slots - 1 THEN 0 ELSE i + 1

\* One slot stays empty: a full ring must not look like an empty one.
NeverFull == FALSE
Full  == Succ(head) = tail
EmptyByOrder == tail >= head
Empty == tail = head
-----------------------------------------------------------------------------
(* push(), in the receive callback *)

\* The frame is dropped when the ring is full: nothing waits, nobody is told.
PushRefused == in = None /\ Full /\ UNCHANGED vars

PushBegin(c) ==
  /\ in = None /\ ~Full
  /\ in' = c /\ pushing' = Words
  /\ UNCHANGED <<queue, head, consumer>>

PushWord(w) ==
  /\ w \in pushing /\ pushing' = pushing \ {w}
  /\ queue' = [queue EXCEPT ![head] = [@ EXCEPT ![w] = in]]
  /\ UNCHANGED <<head, in, consumer>>

\* head is stored after the command, so that nobody sees a slot half written.
SomeWritten == pushing # Words
Written == pushing = {}
PushPublish ==
  /\ in # None /\ Written
  /\ head' = Succ(head) /\ in' = None /\ pushing' = {}
  /\ UNCHANGED <<queue, consumer>>

-----------------------------------------------------------------------------
(* pop(), in loop() *)

PopBegin ==
  /\ ~busy /\ ~Empty
  /\ busy' = TRUE /\ popping' = Words
  /\ UNCHANGED <<queue, producer, tail, out, taken>>

PopWord(w) ==
  /\ w \in popping /\ popping' = popping \ {w}
  /\ out' = [out EXCEPT ![w] = queue[tail][w]]
  /\ UNCHANGED <<queue, producer, tail, busy, taken>>

\* tail is stored after the command was read, so that the slot is not reused
\* under the reader.
AllRead == popping = {}
PopReturn ==
  /\ busy /\ AllRead
  /\ tail' = Succ(tail) /\ busy' = FALSE /\ popping' = {} /\ taken' = out
  /\ UNCHANGED <<queue, producer, out>>

Push == \/ PushRefused
        \/ \E c \in Cmds : PushBegin(c)
        \/ \E w \in Words : PushWord(w)
        \/ PushPublish
Pop  == PopBegin \/ PopReturn \/ \E w \in Words : PopWord(w)

Next == Push \/ Pop

\* loop() runs for ever; nothing is assumed of the radio.
Spec == Init /\ [][Next]_vars /\ WF_vars(Pop)
-----------------------------------------------------------------------------
(* Properties *)

\* The two tasks are never in the same slot, whatever each has read of the
\* other's index and however long ago.
NoSharedSlot == in # None /\ busy => head # tail

Count == IF head >= tail THEN head - tail ELSE head + Slots - tail
At(k) == IF tail + k <= Slots THEN tail + k - 1 ELSE tail + k - 1 - Slots
Waiting == [k \in 1 .. Count |-> queue[At(k)]]

Fifo == INSTANCE CommandFifo
          WITH Commands <- {Whole(c) : c \in Cmds}, Room <- Slots - 1,
               Nothing <- Whole(None), waiting <- Waiting

\* Every command comes out once, whole and in order: with its word-by-word
\* copies and its two unsynchronised indices the ring is a bounded queue.
ImplementsFifo == Fifo!Spec

\* A command that was accepted is taken in the end, even while the radio task
\* keeps the ring full.
Drains == \A i \in Ring : tail = i /\ head # i ~> tail # i
=============================================================================
