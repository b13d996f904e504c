----------------------------- MODULE CoupledFill -----------------------------
(***************************************************************************)
(* The coupled-fill supervisor with its clock (firmware/common/             *)
(* coupled_fill.h): one Engine driving one direction of a shared, check-    *)
(* valve-less manifold.  GROUPING coalesces requests, FILLING opens the     *)
(* group together and closes chambers one by one, SETTLING verifies each    *)
(* gauge isolated and re-opens whatever is short.                           *)
(*                                                                         *)
(* A time stamp of the code is an age here (now - stamp), advanced by each  *)
(* tick by 1..MaxStall units: the loop is a busy loop that may stall.  An   *)
(* age is 0 while its stamp means nothing.  Readings are arbitrary.         *)
(***************************************************************************)
EXTENDS Integers, FiniteSets

CONSTANTS
  Chambers,        \* chambers on the manifold (Engine::count)
  Dirs,            \* directions an engine may be built for
  GroupWindow, MinRoundSingle, MinRound, SettleTime,   \* Tuning
  RoundMax, SeqMax, ChamberMax, Debounce,              \* Tuning
  Caps,            \* positive cap_ms values a request may carry
  TailTime,        \* the tail_ms of a pull to the bottom
  MaxStall         \* longest gap between two control ticks

ASSUME TuningAssumption ==
  /\ IsFiniteSet(Chambers)
  /\ Dirs \subseteq {"inflate", "deflate"}
  /\ {GroupWindow, MinRoundSingle, MinRound, SettleTime} \subseteq Nat
  /\ {RoundMax, SeqMax, ChamberMax, Debounce, TailTime, MaxStall} \subseteq Nat \ {0}
  /\ Caps \subseteq Nat \ {0}

VARIABLES
  dir,                                        \* Engine::dir, set once
  phase, pending, open, floor, tail, blind,   \* Phase and the five masks
  below,       \* chambers whose target lies under their gauge floor
  roundCount,  \* valves the last round opened
  phaseAge, seqAge,                  \* now - phaseMs, now - seqStartMs
  openAge, accum, cap, tailMs, over, \* per chamber
  pulled       \* history: open time since the floor was first latched

masks == <<phase, pending, open, floor, tail, blind, below>>
timers == <<roundCount, phaseAge, seqAge, openAge, accum, cap, tailMs, over>>
vars == <<dir, masks, timers, pulled>>

NotLatched == -1

TypeOK ==
  /\ dir \in Dirs
  /\ phase \in {"idle", "grouping", "filling", "settling"}
  /\ pending \subseteq Chambers /\ open \subseteq Chambers
  /\ floor \subseteq Chambers /\ tail \subseteq Chambers
  /\ blind \subseteq Chambers /\ below \subseteq Chambers
  /\ roundCount \in Nat /\ phaseAge \in Nat /\ seqAge \in Nat
  /\ openAge \in [Chambers -> Nat] /\ accum \in [Chambers -> Nat]
  /\ cap \in [Chambers -> Nat] /\ tailMs \in [Chambers -> Nat]
  /\ over \in [Chambers -> Nat]
  /\ pulled \in [Chambers -> Nat \cup {NotLatched}]

Init ==
  /\ dir \in Dirs
  /\ phase = "idle"
  /\ pending = {} /\ open = {} /\ floor = {} /\ tail = {} /\ blind = {} /\ below = {}
  /\ roundCount = 0 /\ phaseAge = 0 /\ seqAge = 0
  /\ openAge = [c \in Chambers |-> 0] /\ accum = [c \in Chambers |-> 0]
  /\ cap = [c \in Chambers |-> 0] /\ tailMs = [c \in Chambers |-> 0]
  /\ over = [c \in Chambers |-> 0]
  /\ pulled = [c \in Chambers |-> NotLatched]

With(S, c, in) == IF in THEN S \cup {c} ELSE S \ {c}

CapOf(c) == IF cap[c] # 0 THEN cap[c] ELSE ChamberMax

\* What a request may ask for.  A blind one carries a time budget; a tail
\* pull aims under the gauge floor; only a deflate can bottom out.
Kinds == { k \in [cap : Caps \cup {0}, blind : BOOLEAN, below : BOOLEAN,
                  tail : {0, TailTime}] :
             /\ k.blind => k.cap # 0 /\ ~k.below
             /\ k.tail # 0 => k.below
             /\ k.below => dir = "deflate" }

\* Only a request to an idle engine starts the clocks (the second disjunct is
\* the code's guard against a sequence emptied but not yet idle).
RestartAlways == phaseAge' = 0 /\ seqAge' = seqAge
RestartSequence ==
  /\ phaseAge' = IF phase = "idle" THEN 0 ELSE phaseAge
  /\ seqAge'   = 0
RequestClock ==
  /\ phaseAge' = IF phase = "idle" THEN 0 ELSE phaseAge
  /\ seqAge'   = IF phase = "idle" \/ pending = {} THEN 0 ELSE seqAge

(* Engine::request *)
Request(c, k) ==
  /\ pending' = pending \cup {c}
  /\ floor'   = floor \ {c}
  /\ tail'    = With(tail, c, k.tail # 0)
  /\ blind'   = With(blind, c, k.blind)
  /\ below'   = With(below, c, k.below)
  /\ cap'     = [cap EXCEPT ![c] = k.cap]
  /\ tailMs'  = [tailMs EXCEPT ![c] = k.tail]
  /\ accum'   = [accum EXCEPT ![c] = 0]
  /\ pulled'  = [pulled EXCEPT ![c] = NotLatched]
  /\ phase'   = IF phase = "idle" THEN "grouping" ELSE phase
  /\ RequestClock
  /\ UNCHANGED <<open, roundCount, openAge, over>>

\* The state an engine is in when nothing is pending: no stamp means anything.
GoIdle ==
  /\ phase' = "idle" /\ phaseAge' = 0 /\ seqAge' = 0
  /\ openAge' = [c \in Chambers |-> 0]

StayInPhase(c) == /\ UNCHANGED <<phase, phaseAge, seqAge>>
                  /\ openAge' = [openAge EXCEPT ![c] = 0]
LeaveSequence(c) == IF pending' = {} /\ open' = {} THEN GoIdle ELSE StayInPhase(c)

(* Engine::drop: a reversal, a hold, a manual takeover *)
Drop(c) ==
  /\ pending' = pending \ {c}
  /\ open'    = open \ {c}
  /\ floor'   = floor \ {c}
  /\ tail'    = tail \ {c}
  /\ LeaveSequence(c)
  /\ UNCHANGED <<blind, below, roundCount, accum, cap, tailMs, over, pulled>>

ClearValvesOnly ==
  /\ open' = {} /\ floor' = {} /\ tail' = {}
  /\ GoIdle
  /\ UNCHANGED <<pending, blind, below, roundCount, accum, cap, tailMs, over, pulled>>
Clear ==
  /\ pending' = {} /\ open' = {} /\ floor' = {} /\ tail' = {}
  /\ GoIdle
  /\ UNCHANGED <<blind, below, roundCount, accum, cap, tailMs, over, pulled>>

(* Engine::abort: an emergency stop or a bench run took the hardware *)
Abort == phase # "idle" /\ Clear

-----------------------------------------------------------------------------
(* Engine::tick, dt after the previous one.  Guards split its switch. *)

Capped(dt) == seqAge + dt >= SeqMax

SeqCap(dt) == phase # "idle" /\ Capped(dt) /\ Clear

\* A valve opened in this tick is as old as the tick.  A stamp taken from
\* millis() after the loop cached its "now" would lie in the future.
FreshAge  == [c \in Chambers |-> 0]

\* openRound: every chamber of p opens now, with a fresh round clock.
OpenRound(p, dt) ==
  /\ pending' = p /\ open' = p
  /\ roundCount' = Cardinality(p)
  /\ openAge' = FreshAge
  /\ over' = [c \in Chambers |-> IF c \in p THEN 0 ELSE over[c]]
  /\ phase' = "filling" /\ phaseAge' = 0 /\ seqAge' = seqAge + dt

Group(dt) ==
  /\ phase = "grouping" /\ ~Capped(dt)
  /\ IF phaseAge + dt >= GroupWindow
       THEN OpenRound(pending, dt)
       ELSE /\ phaseAge' = phaseAge + dt /\ seqAge' = seqAge + dt
            /\ UNCHANGED <<phase, pending, open, roundCount, openAge, over>>
  /\ UNCHANGED <<floor, tail, blind, below, accum, cap, tailMs, pulled>>

\* Readings of a gauged open chamber against its target.  The gauge clamps at
\* its floor, so a target under the floor is never read as reached.
Reading(c) ==
  IF dir = "inflate" THEN {"short", "reached", "hard"}
  ELSE IF c \in below THEN {"short", "floor"} ELSE {"short", "reached"}

Used(c, dt)  == accum[c] + openAge[c] + dt
SpentThisRound(dt) == {c \in open : openAge[c] + dt >= CapOf(c)}
Spent(dt)    == {c \in open : Used(c, dt) >= CapOf(c)}
Gauged(dt)   == open \ (Spent(dt) \cup blind)
Gate         == IF roundCount > 1 THEN MinRound ELSE MinRoundSingle

\* History: blind pull so far of the chambers still latched in this request.
Pulling(dt) == [c \in Chambers |->
  IF c \in open /\ pulled[c] # NotLatched THEN pulled[c] + dt ELSE pulled[c]]

\* Armed once: a later round that latches the floor again must not restart it.
RearmTail(arming) == tailMs
DisarmTail(arming) == [c \in Chambers |-> IF c \in arming THEN 0 ELSE tailMs[c]]

\* endRound: the round cap, or one gauged reading at the inflate hard ceiling.
EndRound(dt) ==
  /\ phase = "filling" /\ ~Capped(dt)
  /\ \/ phaseAge + dt >= RoundMax
     \/ \E c \in Gauged(dt) : "hard" \in Reading(c)
  /\ accum' = [c \in Chambers |-> IF c \in open THEN Used(c, dt) ELSE accum[c]]
  /\ pulled' = Pulling(dt)
  /\ open' = {} /\ floor' = {}
  /\ openAge' = [c \in Chambers |-> 0]
  /\ phase' = "settling" /\ phaseAge' = 0 /\ seqAge' = seqAge + dt
  /\ UNCHANGED <<pending, tail, blind, below, roundCount, cap, tailMs, over>>

\* The per-chamber pass: budgets, the floor latch that arms a tail once, and
\* the debounced progressive close of chambers that reached their target.
Progress(dt) ==
  /\ phase = "filling" /\ ~Capped(dt) /\ phaseAge + dt < RoundMax
  /\ \E hit \in SUBSET {c \in Gauged(dt) : "reached" \in Reading(c)},
        bottomed \in SUBSET {c \in Gauged(dt) : "floor" \in Reading(c)} :
     LET gateOpen == phaseAge + dt >= Gate
         counted  == IF gateOpen THEN hit ELSE {}
         closing  == Spent(dt) \cup {c \in counted : over[c] + 1 >= Debounce}
         latched  == bottomed \ floor
         arming   == {c \in latched : tailMs[c] # 0}
     IN  /\ open'  = open \ closing
         /\ floor' = (floor \cup latched) \ closing
         /\ accum' = [c \in Chambers |-> IF c \in closing THEN Used(c, dt) ELSE accum[c]]
         /\ openAge' = [c \in Chambers |-> IF c \in open' THEN openAge[c] + dt ELSE 0]
         /\ cap' = [c \in Chambers |->
                      IF c \in arming THEN Used(c, dt) + tailMs[c] ELSE cap[c]]
         /\ tailMs' = DisarmTail(arming)
         /\ over' = [c \in Chambers |->
                       CASE c \in closing               -> 0
                         [] c \in counted \ closing     -> over[c] + 1
                         [] c \in Gauged(dt) \ hit      -> 0
                         [] OTHER                       -> over[c]]
         /\ pulled' = [c \in Chambers |->
                         IF c \in latched /\ pulled[c] = NotLatched
                           THEN 0 ELSE Pulling(dt)[c]]
         /\ IF closing # {} /\ open' = {}
              THEN phase' = "settling" /\ phaseAge' = 0
              ELSE phase' = phase /\ phaseAge' = phaseAge + dt
         /\ seqAge' = seqAge + dt
  /\ UNCHANGED <<pending, tail, blind, below, roundCount>>

\* Coupled gauges settle first; a one-chamber round was never coupled.
SettleWait(dt) ==
  /\ phase = "settling" /\ ~Capped(dt)
  /\ phaseAge + dt < SettleTime /\ roundCount > 1
  /\ phaseAge' = phaseAge + dt /\ seqAge' = seqAge + dt
  /\ UNCHANGED <<masks, roundCount, openAge, accum, cap, tailMs, over, pulled>>

\* A gauge says nothing of a blind chamber, nor of a pull past its floor.
Verifiable == pending \ (blind \cup tail)

\* The isolated measure: done by budget, or by a gauge that may be believed
\* (never for a blind or a tail pull); whatever is short opens another round.
Measure(dt) ==
  /\ phase = "settling" /\ ~Capped(dt)
  /\ ~(phaseAge + dt < SettleTime /\ roundCount > 1)
  /\ \E confirmed \in SUBSET Verifiable :
       LET left == {c \in pending \ confirmed : accum[c] < CapOf(c)}
       IN  IF left = {}
             THEN pending' = {} /\ GoIdle /\ UNCHANGED <<open, roundCount, over>>
             ELSE OpenRound(left, dt)
  /\ UNCHANGED <<floor, tail, blind, below, accum, cap, tailMs, pulled>>

TickFor(dt) == \/ SeqCap(dt) \/ Group(dt) \/ EndRound(dt) \/ Progress(dt)
               \/ SettleWait(dt) \/ Measure(dt)
Tick == UNCHANGED dir /\ \E dt \in 1..MaxStall : TickFor(dt)

Next == \/ \E c \in Chambers, k \in Kinds : Request(c, k) /\ UNCHANGED dir
        \/ \E c \in Chambers : Drop(c) /\ UNCHANGED dir
        \/ Abort /\ UNCHANGED dir
        \/ Tick

\* The main loop calls tick() forever, whatever the commands in between.
Fairness == WF_vars(Tick)
Spec == Init /\ [][Next]_vars /\ Fairness
-----------------------------------------------------------------------------
(* Properties *)

Eng == [phase |-> phase, pending |-> pending, open |-> open, floor |-> floor]
Abs == INSTANCE FillSpec WITH eng <- Eng

\* The masks and the phase agree after every command and tick: something is
\* pending exactly while the engine is active, valves are open only in a
\* round, for chambers still pending, and only open ones are at-floor.
FillShape == Abs!EngineShape(Eng)

\* Whatever requests and drops arrive mid-round, no valve outlives its round
\* clock and no round outlives the round cap or the sequence cap
\* (coupled_fill.h: round_max_ms, seq_max_ms).
BoundedOpening == \A c \in open : /\ openAge[c] <= phaseAge
                                  /\ phaseAge < RoundMax
                                  /\ seqAge < SeqMax

\* No tick leaves a valve open past the chamber's own time budget, counted
\* over all the rounds of the sequence (coupled_fill.h: accumMs, capOf).
BudgetEnforced ==
  [][Tick => \A c \in open' : accum'[c] + openAge'[c] < CapOf(c)']_vars

\* The blind vacuum tail is pulled once and whole. Once: from the first time the
\* gauge bottoms out, over every later round, a tail chamber is open for less than
\* tail_ms plus one stall, however often the floor latches again. Whole: a tail
\* chamber whose gauge bottomed out is only declared done once it has pulled
\* blind for tail_ms.
BlindPullBounded ==
  \A c \in tail \cap pending : pulled[c] < TailTime + MaxStall

BlindPullWhole ==
  \A c \in (pending \ pending') \cap tail :
    pulled[c] \in 0..(TailTime - 1) => ~\E dt \in 1..MaxStall : Measure(dt)

BlindPullOnce == [][BlindPullBounded' /\ BlindPullWhole]_vars

\* Every sequence ends, even under a stream of requests that never pauses:
\* only a request to an idle engine starts a new sequence clock.
AlwaysQuiesces == []<>(phase = "idle")

\* The engine with its clock does nothing the untimed engine may not do.
ImplementsFillSpec == Abs!Spec

=============================================================================
