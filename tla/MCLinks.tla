------------------------------- MODULE MCLinks -------------------------------
(* Instances of Links for TLC. *)
EXTENDS Links, TLC

CONSTANTS n1, a, b

Mix(startup, click, scan, cable, listener, power, line) ==
  [startup |-> startup, click |-> click, scan |-> scan, cable |-> cable,
   listener |-> listener, power |-> power, line |-> line]

\* One question each: the link under clicks and cable, scans on it, listeners
\* that come and go under traffic, nodes that fall silent.
MCMixes == { Mix(1, 3, 0, 2, 0, 0, 0), Mix(1, 2, 2, 1, 0, 0, 0),
             Mix(1, 1, 0, 0, 2, 0, 1), Mix(1, 2, 0, 0, 0, 2, 0) }

Plan(open, drive, beep, look, update, power, loss, fault, cut) ==
  [open |-> open, drive |-> drive, beep |-> beep, scan |-> look, update |-> update,
   power |-> power, loss |-> loss, fault |-> fault, gateway |-> cut]

\* A robot that beeps and is switched off and on, two windows around a scan, a
\* watchdog with work to do, updates before and after the radio was used, a gateway
\* that goes at any moment of two windows, and comes back.
MCPlans == { Plan(1, 1, 1, 0, 0, 1, 1, 0, 0), Plan(2, 1, 0, 1, 0, 0, 0, 0, 1),
             Plan(1, 1, 0, 0, 0, 1, 1, 1, 0), Plan(1, 1, 0, 1, 2, 0, 1, 1, 0),
             Plan(2, 1, 0, 0, 1, 0, 0, 0, 2) }
=============================================================================
