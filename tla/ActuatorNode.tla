---------------------------- MODULE ActuatorNode ----------------------------
(***************************************************************************)
(* A pneumatic node.  The radio task and loop() pass commands through one   *)
(* ring (CommandQueue); what loop() does with them is that of the board the *)
(* node was built for, DirectBoard or MuxBoard.  The boards take commands   *)
(* whole and in order, as the ring is shown to deliver them, so a behaviour *)
(* is of the ring or of a board.                                           *)
(***************************************************************************)
EXTENDS CommandQueue

CONSTANTS NumChambers, Scenes,   \* see DirectBoard
          Manifolds, MuxScenes   \* see MuxBoard

VARIABLES kind,                  \* "ring", or node_direct or node_multiplexed
          board, at, scene, forgotten,   \* see DirectBoard
          mux, muxScene          \* see MuxBoard

directVars == <<board, at, scene, forgotten>>
muxVars == <<mux, muxScene>>

Direct == INSTANCE DirectBoard
Mux == INSTANCE MuxBoard
ASSUME NodeAssumption == Direct!Parameters /\ Mux!Parameters

Is(k) == kind = k
NodeInit ==
  /\ Init /\ Direct!Init /\ Mux!Init
  /\ kind \in {"ring", "direct", "multiplexed"}
  /\ ~Is("direct") => scene = CHOOSE x \in Scenes : TRUE
  /\ ~Is("multiplexed") => muxScene = CHOOSE x \in MuxScenes : TRUE
NodeNext ==
  /\ UNCHANGED kind
  /\ \/ Is("ring") /\ Next /\ UNCHANGED <<directVars, muxVars>>
     \/ Is("direct") /\ Direct!Next /\ UNCHANGED <<vars, muxVars>>
     \/ Is("multiplexed") /\ Mux!Next /\ UNCHANGED <<vars, directVars>>
NodeSpec == NodeInit /\ [][NodeNext]_<<kind, vars, directVars, muxVars>> /\ WF_vars(Pop)

-----------------------------------------------------------------------------
\* Engines, valves, pumps, hold masks and overrides are records of one fact
\* that different operations write.  Whatever the order of the commands they
\* agree once the pass is over, and nothing moves a chamber both ways.
BoardSound == Direct!RecordsAgree /\ Direct!OneWay /\ Mux!BoardSound

\* Every open valve has an owner that will close it, but for those the direct
\* board forgot when it released every hold at once.
NoOrphan == Direct!NoOrphanValve /\ Mux!NoOrphanValve

\* From an emergency stop to the re-arm everything is off ("loop() keeps it
\* that way (and skips all control) while emergencyStopped is set").
Latched == Direct!StoppedIsOff /\ Mux!StoppedIsOff

\* The hold engine has no valve open while something else owns the manifold.
HoldYields == Direct!HoldYields
=============================================================================
