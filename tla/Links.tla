-------------------------------- MODULE Links --------------------------------
(***************************************************************************)
(* What the PC reaches through the gateway: the gateway itself and the     *)
(* nodes behind it (GatewayLink), and the Thymios behind its second chip   *)
(* (ThymioRadio), which hear of the gateway only whether it is connected.  *)
(* Either is an afternoon of its own.                                      *)
(***************************************************************************)
EXTENDS GatewayLink

CONSTANTS Slots, Named, Speeds, Plans, Prompt          \* see ThymioRadio

VARIABLES side,                                        \* which of the two it is
          gateway, robot, tests, search, uart, c6, slot, park, thymio, joins, chances

radio == <<gateway, robot, tests, search, uart, c6, slot, park, thymio, joins, chances>>

Thymio == INSTANCE ThymioRadio
ASSUME LinksAssumption == Thymio!Parameters

At(s) == side = s
LinksInit ==
  /\ Init /\ Thymio!Init
  /\ side \in {"nodes", "thymios"}
  /\ At("nodes") => chances = CHOOSE p \in Plans : TRUE
  /\ At("nodes") => gateway /\ \A i \in Slots : thymio[i].on
  /\ At("thymios") => left = (CHOOSE m \in Mixes : TRUE) /\ InFlight = {} /\ list = {}

LinksNext ==
  /\ UNCHANGED side
  /\ \/ At("nodes") /\ Next /\ UNCHANGED radio
     \/ At("thymios") /\ Thymio!Next /\ UNCHANGED vars

\* Where nothing was started nothing is owed: each side's fairness as it stands.
LinksSpec ==
  LinksInit /\ [][LinksNext]_<<side, vars, radio>> /\ Fairness /\ Thymio!Fairness

-----------------------------------------------------------------------------
\* Both links are what the PC takes them for: a connected gateway has one reader
\* and loses no listener (gateway.py), a connected Thymio has its slot on the C6
\* and a closed window leaves none connected (test_thymio_dialog.py); and the C6
\* joins Wi-Fi only with a radio it did not use (OtaPark).
LinksSound == NothingMissed /\ Thymio!RadioSound

\* The panel comes right by itself: no button stays down, and no latency of a node
\* that fell silent stays (robot_panel.py, latency_monitor.py).
PanelComesRight == ButtonsComeBack /\ LatencyHonest

\* The wheels do as they were last told and rest when nobody tests them, and the
\* sensor stream comes back, through all the air and the robots do (thymioLinkPump).
WheelsObey == Thymio!Obeyed /\ Thymio!StreamRevives
=============================================================================
