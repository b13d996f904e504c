----------------------------- MODULE CommandFifo -----------------------------
(***************************************************************************)
(* What the command queue promises the node's loop: commands come out       *)
(* whole, once, and in the order in which the radio task put them in.  A    *)
(* command that finds no room is lost.                                      *)
(***************************************************************************)
EXTENDS Naturals, Sequences

CONSTANTS Commands,   \* command values, whole
          Room,       \* how many may wait
          Nothing     \* before the first

VARIABLES waiting,    \* accepted, not yet taken
          taken       \* the command taken last

Init == waiting = <<>> /\ taken = Nothing

Put(c) == /\ Len(waiting) < Room
          /\ waiting' = Append(waiting, c) /\ UNCHANGED taken
Take   == /\ waiting # <<>>
          /\ taken' = Head(waiting) /\ waiting' = Tail(waiting)

Next == Take \/ \E c \in Commands : Put(c)
Spec == Init /\ [][Next]_<<waiting, taken>>
=============================================================================
