----------------------------- MODULE FillEngine -----------------------------
(***************************************************************************)
(* The coupled-fill supervisor of one direction without its clock          *)
(* (firmware/common/coupled_fill.h).  An engine is a record of the masks    *)
(* the board can observe; every operator is one method of the C++ Engine,   *)
(* as the set of the states it may leave once the timers and the gauges are *)
(* arbitrary.  The board modules compose two of these records, one per      *)
(* manifold; CoupledFill keeps the clock and is checked to implement them.  *)
(***************************************************************************)
EXTENDS FiniteSets

CONSTANT Chambers

Phases == {"idle", "grouping", "filling", "settling"}

Engine == [phase   : Phases,
           pending : SUBSET Chambers,   \* wants its target, not yet confirmed
           open    : SUBSET Chambers,   \* valve open in the current round
           floor   : SUBSET Chambers]   \* open, gauge bottomed out

IdleEngine == [phase |-> "idle", pending |-> {}, open |-> {}, floor |-> {}]

\* A new target: joins the group while it coalesces, the next round otherwise.
Request(e, c) ==
  [phase   |-> IF e.phase = "idle" THEN "grouping" ELSE e.phase,
   pending |-> e.pending \cup {c},
   open    |-> e.open,
   floor   |-> e.floor \ {c}]

\* The chamber leaves the sequence; its valve closes if it was open.
Drop(e, c) ==
  LET p == e.pending \ {c}
      o == e.open \ {c}
  IN  [phase   |-> IF p = {} /\ o = {} THEN "idle" ELSE e.phase,
       pending |-> p,
       open    |-> o,
       floor   |-> e.floor \ {c}]

\* Every chamber of p opens together.
OpenRound(e, p) ==
  [phase |-> "filling", pending |-> p, open |-> p, floor |-> e.floor]

GroupOutcomes(e) == {e, OpenRound(e, e.pending)}

\* Progressive close: some valves close, some survivors latch at-floor.
\* The last close, or the end of the round, starts the settle.
FillOutcomes(e) ==
  { x \in [phase : {"filling", "settling"}, pending : {e.pending},
           open : SUBSET e.open, floor : SUBSET e.open] :
      /\ x.floor \subseteq x.open
      /\ e.floor \cap x.open \subseteq x.floor
      /\ x.open # {} => x.phase = "filling"
      /\ x.open = {} /\ e.open # {} => x.phase = "settling" }

\* The isolated verdict: confirmed chambers are done, the rest re-open.
SettleOutcomes(e) ==
  {e} \cup { IF p = {} THEN [phase |-> "idle", pending |-> {},
                                       open |-> e.open, floor |-> e.floor]
                       ELSE OpenRound(e, p) : p \in SUBSET e.pending }

\* One control tick.  The sequence cap may give up from any active phase.
TickOutcomes(e) ==
  CASE e.phase = "idle"     -> {e}
    [] e.phase = "grouping" -> {IdleEngine} \cup GroupOutcomes(e)
    [] e.phase = "filling"  -> {IdleEngine} \cup FillOutcomes(e)
    [] e.phase = "settling" -> {IdleEngine} \cup SettleOutcomes(e)

\* What the masks of an engine say about its phase.
EngineShape(e) ==
  /\ e.phase = "idle" <=> e.pending = {}
  /\ e.open \subseteq e.pending
  /\ e.floor \subseteq e.open
  /\ e.open # {} => e.phase = "filling"
=============================================================================
