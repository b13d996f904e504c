--------------------------- MODULE CoupledFillProofs ---------------------------
(***************************************************************************)
(* Proofs about CoupledFill for every tuning, every number of chambers and  *)
(* every stall of the control loop.                                         *)
(***************************************************************************)
EXTENDS CoupledFill, FiniteSetTheorems, TLAPS

\* The masks fit the phase, in the flat form the proofs use (FillShape).
Shape ==
  /\ phase = "idle" <=> pending = {}
  /\ open \subseteq pending
  /\ floor \subseteq open
  /\ open # {} => phase = "filling"

\* A round never opens a chamber that is out of budget.
Budgeted == phase = "grouping" => \A c \in pending : accum[c] = 0

IInv == TypeOK /\ Shape /\ BoundedOpening /\ Budgeted

-----------------------------------------------------------------------------
(* Lemmas about the helpers *)

LEMMA CapOfNat ==
  ASSUME TypeOK, NEW c \in Chambers
  PROVE  CapOf(c) \in Nat \ {0}
BY TuningAssumption DEF TypeOK, CapOf

LEMMA KindFields ==
  ASSUME NEW k \in Kinds
  PROVE  k.cap \in Caps \cup {0} /\ k.cap \in Nat /\ k.tail \in Nat
<1>1. k.cap \in Caps \cup {0} /\ k.tail \in {0, TailTime} BY DEF Kinds
<1>2. Caps \cup {0} \subseteq Nat /\ {0, TailTime} \subseteq Nat BY TuningAssumption
<1> QED BY <1>1, <1>2

LEMMA SubsetCount ==
  ASSUME NEW S \in SUBSET Chambers
  PROVE  Cardinality(S) \in Nat
BY TuningAssumption, FS_Subset, FS_CardinalityType

LEMMA UsedNat ==
  ASSUME TypeOK, NEW c \in Chambers, NEW dt \in 1..MaxStall
  PROVE  Used(c, dt) \in Nat /\ dt \in Nat
BY TuningAssumption DEF TypeOK, Used

\* A stall is a positive number of clock units.
LEMMA StallNat ==
  ASSUME NEW dt \in 1..MaxStall
  PROVE  dt \in Nat \ {0}
BY TuningAssumption

-----------------------------------------------------------------------------
(* Type correctness, one lemma per action *)

LEMMA TypeRequest ==
  ASSUME TypeOK, NEW c \in Chambers, NEW k \in Kinds, Request(c, k), UNCHANGED dir
  PROVE  TypeOK'
<1>1. k.cap \in Nat /\ k.tail \in Nat BY KindFields
<1>2. phaseAge' \in Nat /\ seqAge' \in Nat BY DEF Request, RequestClock, TypeOK
<1>3. /\ pending' \subseteq Chambers /\ open' \subseteq Chambers
      /\ floor' \subseteq Chambers /\ tail' \subseteq Chambers
      /\ blind' \subseteq Chambers /\ below' \subseteq Chambers
  BY DEF Request, TypeOK, With
<1>4. pulled' \in [Chambers -> Nat \cup {NotLatched}]
  BY DEF Request, TypeOK, NotLatched
<1> QED BY <1>1, <1>2, <1>3, <1>4 DEF Request, TypeOK

LEMMA TypeGoIdle ==
  ASSUME TypeOK, GoIdle
  PROVE  /\ phase' \in {"idle", "grouping", "filling", "settling"}
         /\ phaseAge' \in Nat /\ seqAge' \in Nat /\ openAge' \in [Chambers -> Nat]
BY DEF TypeOK, GoIdle

LEMMA TypeDrop ==
  ASSUME TypeOK, NEW c \in Chambers, Drop(c), UNCHANGED dir
  PROVE  TypeOK'
<1>1. /\ phase' \in {"idle", "grouping", "filling", "settling"}
      /\ phaseAge' \in Nat /\ seqAge' \in Nat /\ openAge' \in [Chambers -> Nat]
  BY TypeGoIdle DEF Drop, LeaveSequence, StayInPhase, TypeOK
<1> QED BY <1>1 DEF Drop, TypeOK

LEMMA TypeClear ==
  ASSUME TypeOK, Clear, UNCHANGED dir
  PROVE  TypeOK'
BY TypeGoIdle DEF Clear, TypeOK

LEMMA TypeOpenRound ==
  ASSUME TypeOK, NEW p \in SUBSET Chambers, NEW dt \in 1..MaxStall, OpenRound(p, dt)
  PROVE  /\ phase' \in {"idle", "grouping", "filling", "settling"}
         /\ pending' \subseteq Chambers /\ open' \subseteq Chambers
         /\ roundCount' \in Nat /\ phaseAge' \in Nat /\ seqAge' \in Nat
         /\ openAge' \in [Chambers -> Nat] /\ over' \in [Chambers -> Nat]
<1>1. Cardinality(p) \in Nat BY SubsetCount
<1> QED BY <1>1, StallNat DEF OpenRound, FreshAge, TypeOK

LEMMA TypeGroup ==
  ASSUME TypeOK, NEW dt \in 1..MaxStall, Group(dt), UNCHANGED dir
  PROVE  TypeOK'
<1>1. CASE phaseAge + dt >= GroupWindow
  <2>1. OpenRound(pending, dt) BY <1>1 DEF Group
  <2> QED BY <2>1, TypeOpenRound DEF Group, TypeOK
<1>2. CASE ~(phaseAge + dt >= GroupWindow)
  BY <1>2, StallNat DEF Group, TypeOK
<1> QED BY <1>1, <1>2

LEMMA TypeEndRound ==
  ASSUME TypeOK, NEW dt \in 1..MaxStall, EndRound(dt), UNCHANGED dir
  PROVE  TypeOK'
<1>1. accum' \in [Chambers -> Nat] BY UsedNat DEF EndRound, TypeOK
<1>2. pulled' \in [Chambers -> Nat \cup {NotLatched}]
  BY StallNat DEF EndRound, Pulling, TypeOK, NotLatched
<1> QED BY <1>1, <1>2, StallNat DEF EndRound, TypeOK

LEMMA TypeSettleWait ==
  ASSUME TypeOK, NEW dt \in 1..MaxStall, SettleWait(dt), UNCHANGED dir
  PROVE  TypeOK'
BY StallNat DEF SettleWait, masks, TypeOK

LEMMA TypeMeasure ==
  ASSUME TypeOK, NEW dt \in 1..MaxStall, Measure(dt), UNCHANGED dir
  PROVE  TypeOK'
<1>1. PICK confirmed \in SUBSET Verifiable :
        LET left == {c \in pending \ confirmed : accum[c] < CapOf(c)}
        IN  IF left = {}
              THEN pending' = {} /\ GoIdle /\ UNCHANGED <<open, roundCount, over>>
              ELSE OpenRound(left, dt)
  BY DEF Measure
<1> DEFINE left == {c \in pending \ confirmed : accum[c] < CapOf(c)}
<1>2. left \in SUBSET Chambers BY DEF TypeOK
<1>3. CASE left = {}
  BY <1>1, <1>3, TypeGoIdle DEF Measure, TypeOK
<1>4. CASE left # {}
  <2>1. OpenRound(left, dt) BY <1>1, <1>4
  <2> QED BY <1>2, <2>1, TypeOpenRound DEF Measure, TypeOK
<1> QED BY <1>3, <1>4

LEMMA TypeProgress ==
  ASSUME TypeOK, NEW dt \in 1..MaxStall, Progress(dt), UNCHANGED dir
  PROVE  TypeOK'
<1>0. dt \in Nat BY StallNat
<1>1. PICK hit \in SUBSET {c \in Gauged(dt) : "reached" \in Reading(c)},
           bottomed \in SUBSET {c \in Gauged(dt) : "floor" \in Reading(c)} :
     LET gateOpen == phaseAge + dt >= Gate
         counted  == IF gateOpen THEN hit ELSE {}
         closing  == Spent(dt) \cup {c \in counted : over[c] + 1 >= Debounce}
         latched  == bottomed \ floor
         arming   == {c \in latched : tailMs[c] # 0}
     IN  /\ open'  = open \ closing
         /\ floor' = (floor \cup latched) \ closing
         /\ accum' = [c \in Chambers |-> IF c \in closing THEN Used(c, dt) ELSE accum[c]]
         /\ openAge' = [c \in Chambers |-> IF c \in open' THEN openAge[c] + dt ELSE 0]
         /\ cap' = [c \in Chambers |->
                      IF c \in arming THEN Used(c, dt) + tailMs[c] ELSE cap[c]]
         /\ tailMs' = DisarmTail(arming)
         /\ over' = [c \in Chambers |->
                       CASE c \in closing               -> 0
                         [] c \in counted \ closing     -> over[c] + 1
                         [] c \in Gauged(dt) \ hit      -> 0
                         [] OTHER                       -> over[c]]
         /\ pulled' = [c \in Chambers |->
                         IF c \in latched /\ pulled[c] = NotLatched
                           THEN 0 ELSE Pulling(dt)[c]]
         /\ IF closing # {} /\ open' = {}
              THEN phase' = "settling" /\ phaseAge' = 0
              ELSE phase' = phase /\ phaseAge' = phaseAge + dt
         /\ seqAge' = seqAge + dt
  BY DEF Progress
<1>2. bottomed \subseteq Chambers BY DEF Gauged, TypeOK
<1>3. /\ open' \subseteq Chambers /\ floor' \subseteq Chambers
      /\ seqAge' \in Nat /\ phaseAge' \in Nat
      /\ phase' \in {"idle", "grouping", "filling", "settling"}
  BY <1>0, <1>1, <1>2 DEF TypeOK
<1>4. accum' \in [Chambers -> Nat] BY <1>1, UsedNat DEF TypeOK
<1>5. openAge' \in [Chambers -> Nat] BY <1>0, <1>1 DEF TypeOK
<1>6. cap' \in [Chambers -> Nat] /\ tailMs' \in [Chambers -> Nat]
  BY <1>1, UsedNat DEF TypeOK, DisarmTail
<1>7. over' \in [Chambers -> Nat] BY <1>1 DEF TypeOK
<1>8. pulled' \in [Chambers -> Nat \cup {NotLatched}]
  BY <1>0, <1>1 DEF TypeOK, Pulling, NotLatched
<1> QED BY <1>3, <1>4, <1>5, <1>6, <1>7, <1>8 DEF Progress, TypeOK

-----------------------------------------------------------------------------
(* TypeOK is inductive on its own *)

LEMMA TypeNext ==
  ASSUME TypeOK, [Next]_vars
  PROVE  TypeOK'
<1>0. UNCHANGED dir BY DEF Next, Tick, vars
<1>1. ASSUME NEW c \in Chambers, NEW k \in Kinds, Request(c, k) PROVE TypeOK'
  BY <1>0, <1>1, TypeRequest
<1>2. ASSUME NEW c \in Chambers, Drop(c) PROVE TypeOK'
  BY <1>0, <1>2, TypeDrop
<1>3. CASE Abort BY <1>0, <1>3, TypeClear DEF Abort
<1>4. CASE Tick
  <2>1. PICK dt \in 1..MaxStall : TickFor(dt) BY <1>4 DEF Tick
  <2> QED BY <1>0, <2>1, TypeClear, TypeGroup, TypeEndRound, TypeProgress,
             TypeSettleWait, TypeMeasure DEF TickFor, SeqCap
<1>5. CASE UNCHANGED vars BY <1>5 DEF vars, masks, timers, TypeOK
<1> QED BY <1>1, <1>2, <1>3, <1>4, <1>5 DEF Next

-----------------------------------------------------------------------------
(* The masks fit the phase *)

LEMMA ShapeRequest ==
  ASSUME TypeOK, Shape, NEW c \in Chambers, NEW k \in Kinds, Request(c, k)
  PROVE  Shape'
BY DEF Shape, Request

LEMMA ShapeDrop ==
  ASSUME TypeOK, Shape, NEW c \in Chambers, Drop(c)
  PROVE  Shape'
<1>1. /\ pending' = pending \ {c} /\ open' = open \ {c}
      /\ floor' = floor \ {c} /\ LeaveSequence(c)
  BY DEF Drop
<1>2. CASE pending' = {} /\ open' = {}
  BY <1>1, <1>2 DEF Shape, LeaveSequence, GoIdle
<1>3. CASE ~(pending' = {} /\ open' = {})
  <2>1. phase' = phase BY <1>1, <1>3 DEF LeaveSequence, StayInPhase
  <2>2. pending' # {} BY <1>1, <1>3 DEF Shape
  <2> QED BY <1>1, <2>1, <2>2 DEF Shape
<1> QED BY <1>2, <1>3

LEMMA ShapeClear ==
  ASSUME Clear
  PROVE  Shape'
BY DEF Clear, GoIdle, Shape

LEMMA ShapeGroup ==
  ASSUME TypeOK, Shape, NEW dt \in 1..MaxStall, Group(dt)
  PROVE  Shape'
<1>1. pending # {} /\ open = {} /\ floor = {} BY DEF Group, Shape
<1>2. CASE phaseAge + dt >= GroupWindow
  BY <1>1, <1>2 DEF Group, OpenRound, Shape
<1>3. CASE ~(phaseAge + dt >= GroupWindow)
  BY <1>1, <1>3 DEF Group, Shape
<1> QED BY <1>2, <1>3

LEMMA ShapeMeasure ==
  ASSUME TypeOK, Shape, NEW dt \in 1..MaxStall, Measure(dt)
  PROVE  Shape'
<1>1. PICK left \in SUBSET pending :
        IF left = {}
          THEN pending' = {} /\ GoIdle /\ UNCHANGED <<open, roundCount, over>>
          ELSE OpenRound(left, dt)
  BY DEF Measure
<1>2. open = {} /\ floor = {} /\ floor' = floor BY DEF Measure, Shape
<1>3. CASE left = {} BY <1>1, <1>2, <1>3 DEF GoIdle, Shape
<1>4. CASE left # {} BY <1>1, <1>2, <1>4 DEF OpenRound, Shape
<1> QED BY <1>3, <1>4

\* What the per-chamber pass does to the masks, whatever the gauges read.
LEMMA ProgressMasks ==
  ASSUME TypeOK, Shape, NEW dt \in 1..MaxStall, Progress(dt)
  PROVE  /\ pending' = pending
         /\ open' \subseteq open
         /\ floor' \subseteq open'
         /\ floor \cap open' \subseteq floor'
         /\ open # {} /\ open' = {} => phase' = "settling"
         /\ phase' \in {"filling", "settling"}
         /\ open' # {} => phase' = "filling"
         /\ phase' = "filling" => phaseAge' = phaseAge + dt
         /\ seqAge' = seqAge + dt
         /\ \A c \in open' : openAge'[c] = openAge[c] + dt
<1>1. PICK hit \in SUBSET {c \in Gauged(dt) : "reached" \in Reading(c)},
           bottomed \in SUBSET {c \in Gauged(dt) : "floor" \in Reading(c)} :
     LET counted == IF phaseAge + dt >= Gate THEN hit ELSE {}
         closing == Spent(dt) \cup {c \in counted : over[c] + 1 >= Debounce}
     IN  /\ open'  = open \ closing
         /\ floor' = (floor \cup (bottomed \ floor)) \ closing
         /\ openAge' = [c \in Chambers |-> IF c \in open' THEN openAge[c] + dt ELSE 0]
         /\ IF closing # {} /\ open' = {}
              THEN phase' = "settling" /\ phaseAge' = 0
              ELSE phase' = phase /\ phaseAge' = phaseAge + dt
         /\ seqAge' = seqAge + dt
  BY DEF Progress
<1>2. phase = "filling" /\ pending' = pending BY DEF Progress
<1>3. bottomed \subseteq open BY DEF Gauged
<1> QED BY <1>1, <1>2, <1>3 DEF Shape, TypeOK

LEMMA ShapeProgress ==
  ASSUME TypeOK, Shape, NEW dt \in 1..MaxStall, Progress(dt)
  PROVE  Shape'
<1>1. phase = "filling" BY DEF Progress
<1> QED BY <1>1, ProgressMasks DEF Shape

LEMMA ShapeNext ==
  ASSUME TypeOK, Shape, [Next]_vars
  PROVE  Shape'
<1>1. ASSUME NEW c \in Chambers, NEW k \in Kinds, Request(c, k) PROVE Shape'
  BY <1>1, ShapeRequest
<1>2. ASSUME NEW c \in Chambers, Drop(c) PROVE Shape'
  BY <1>2, ShapeDrop
<1>3. CASE Abort BY <1>3, ShapeClear DEF Abort
<1>4. CASE Tick
  <2>1. PICK dt \in 1..MaxStall : TickFor(dt) BY <1>4 DEF Tick
  <2>2. CASE EndRound(dt) BY <2>2 DEF EndRound, Shape
  <2>3. CASE SettleWait(dt) BY <2>3 DEF SettleWait, masks, Shape
  <2> QED BY <2>1, <2>2, <2>3, ShapeClear, ShapeGroup, ShapeProgress,
             ShapeMeasure DEF TickFor, SeqCap
<1>5. CASE UNCHANGED vars BY <1>5 DEF vars, masks, Shape
<1> QED BY <1>1, <1>2, <1>3, <1>4, <1>5 DEF Next

\* The flat form of the mask invariant is the one the board relies on.
LEMMA ShapeIsFillShape == Shape <=> FillShape
BY DEF Shape, FillShape, Eng, Abs!EngineShape

-----------------------------------------------------------------------------
(* No valve outlives its round, no round outlives its caps *)

LEMMA BoundedClosed ==
  ASSUME open' = {}
  PROVE  BoundedOpening'
BY DEF BoundedOpening

\* A round opens with every age at zero, under a sequence cap not yet met.
LEMMA BoundedRound ==
  ASSUME TypeOK, NEW p \in SUBSET Chambers, NEW dt \in 1..MaxStall,
         ~Capped(dt), OpenRound(p, dt)
  PROVE  BoundedOpening'
<1>1. seqAge + dt < SeqMax BY StallNat, TuningAssumption DEF Capped, TypeOK
<1> QED BY <1>1, TuningAssumption DEF OpenRound, FreshAge, BoundedOpening

LEMMA BoundedRequest ==
  ASSUME TypeOK, Shape, BoundedOpening,
         NEW c \in Chambers, NEW k \in Kinds, Request(c, k)
  PROVE  BoundedOpening'
<1>1. CASE open = {} BY <1>1, BoundedClosed DEF Request
<1>2. CASE open # {}
  <2>1. phase = "filling" /\ pending # {} BY <1>2 DEF Shape
  <2>2. phaseAge' = phaseAge /\ seqAge' = seqAge BY <2>1 DEF Request, RequestClock
  <2> QED BY <2>2 DEF Request, BoundedOpening
<1> QED BY <1>1, <1>2

LEMMA BoundedDrop ==
  ASSUME TypeOK, Shape, BoundedOpening, NEW c \in Chambers, Drop(c)
  PROVE  BoundedOpening'
<1>1. /\ open' = open \ {c} /\ LeaveSequence(c) BY DEF Drop
<1>2. CASE open' = {} BY <1>2, BoundedClosed
<1>3. CASE open' # {}
  <2>1. StayInPhase(c) BY <1>1, <1>3 DEF LeaveSequence
  <2>2. \A d \in open' : d \in Chambers /\ openAge'[d] = openAge[d]
    BY <1>1, <2>1 DEF StayInPhase, TypeOK
  <2> QED BY <1>1, <2>1, <2>2 DEF StayInPhase, BoundedOpening
<1> QED BY <1>2, <1>3

LEMMA BoundedGroup ==
  ASSUME TypeOK, Shape, NEW dt \in 1..MaxStall, Group(dt)
  PROVE  BoundedOpening'
<1>1. open = {} /\ ~Capped(dt) BY DEF Group, Shape
<1>2. CASE phaseAge + dt >= GroupWindow
  BY <1>1, <1>2, BoundedRound DEF Group, TypeOK
<1>3. CASE ~(phaseAge + dt >= GroupWindow)
  BY <1>1, <1>3, BoundedClosed DEF Group
<1> QED BY <1>2, <1>3

LEMMA BoundedMeasure ==
  ASSUME TypeOK, Shape, NEW dt \in 1..MaxStall, Measure(dt)
  PROVE  BoundedOpening'
<1>1. PICK left \in SUBSET pending :
        IF left = {}
          THEN pending' = {} /\ GoIdle /\ UNCHANGED <<open, roundCount, over>>
          ELSE OpenRound(left, dt)
  BY DEF Measure
<1>2. open = {} /\ ~Capped(dt) BY DEF Measure, Shape
<1>3. CASE left = {} BY <1>1, <1>2, <1>3, BoundedClosed
<1>4. CASE left # {} BY <1>1, <1>2, <1>4, BoundedRound DEF TypeOK
<1> QED BY <1>3, <1>4

LEMMA BoundedProgress ==
  ASSUME TypeOK, Shape, BoundedOpening, NEW dt \in 1..MaxStall, Progress(dt)
  PROVE  BoundedOpening'
<1>1. CASE open' = {} BY <1>1, BoundedClosed
<1>2. CASE open' # {}
  <2>1. phaseAge + dt < RoundMax /\ ~Capped(dt) BY DEF Progress
  <2>2. seqAge + dt < SeqMax
    BY <2>1, StallNat, TuningAssumption DEF Capped, TypeOK
  <2>3. phaseAge' = phaseAge + dt /\ seqAge' = seqAge + dt
    BY <1>2, ProgressMasks
  <2>4. ASSUME NEW c \in open'
        PROVE  openAge'[c] <= phaseAge'
    <3>1. openAge'[c] = openAge[c] + dt /\ c \in open BY <2>4, ProgressMasks
    <3>2. openAge[c] <= phaseAge BY <3>1 DEF BoundedOpening
    <3>3. openAge[c] \in Nat /\ phaseAge \in Nat BY <3>1 DEF TypeOK
    <3> QED BY <2>3, <3>1, <3>2, <3>3, StallNat
  <2> QED BY <2>1, <2>2, <2>3, <2>4 DEF BoundedOpening
<1> QED BY <1>1, <1>2

LEMMA BoundedNext ==
  ASSUME TypeOK, Shape, BoundedOpening, [Next]_vars
  PROVE  BoundedOpening'
<1>1. ASSUME NEW c \in Chambers, NEW k \in Kinds, Request(c, k) PROVE BoundedOpening'
  BY <1>1, BoundedRequest
<1>2. ASSUME NEW c \in Chambers, Drop(c) PROVE BoundedOpening'
  BY <1>2, BoundedDrop
<1>3. CASE Abort BY <1>3, BoundedClosed DEF Abort, Clear
<1>4. CASE Tick
  <2>1. PICK dt \in 1..MaxStall : TickFor(dt) BY <1>4 DEF Tick
  <2>2. CASE SeqCap(dt) BY <2>2, BoundedClosed DEF SeqCap, Clear
  <2>3. CASE EndRound(dt) BY <2>3, BoundedClosed DEF EndRound
  <2>4. CASE SettleWait(dt)
    BY <2>4, BoundedClosed DEF SettleWait, masks, Shape
  <2> QED BY <2>1, <2>2, <2>3, <2>4, BoundedGroup, BoundedProgress,
             BoundedMeasure DEF TickFor
<1>5. CASE UNCHANGED vars BY <1>5 DEF vars, masks, timers, BoundedOpening
<1> QED BY <1>1, <1>2, <1>3, <1>4, <1>5 DEF Next

-----------------------------------------------------------------------------
(* No tick leaves a valve open past its chamber's budget *)

InBudget == \A c \in open' : accum'[c] + openAge'[c] < CapOf(c)'

LEMMA BudgetedNext ==
  ASSUME TypeOK, Shape, Budgeted, [Next]_vars
  PROVE  Budgeted'
<1>1. ASSUME NEW c \in Chambers, NEW k \in Kinds, Request(c, k) PROVE Budgeted'
  <2>1. pending' = pending \cup {c} /\ accum' = [accum EXCEPT ![c] = 0]
        /\ phase' = IF phase = "idle" THEN "grouping" ELSE phase
    BY <1>1 DEF Request
  <2>2. phase = "idle" => pending = {} BY DEF Shape
  <2> QED BY <2>1, <2>2 DEF Budgeted, TypeOK
<1>2. ASSUME NEW c \in Chambers, Drop(c) PROVE Budgeted'
  BY <1>2 DEF Drop, LeaveSequence, StayInPhase, GoIdle, Budgeted
<1>3. CASE Abort BY <1>3 DEF Abort, Clear, GoIdle, Budgeted
<1>4. CASE Tick
  <2>1. PICK dt \in 1..MaxStall : TickFor(dt) BY <1>4 DEF Tick
  <2>2. CASE SeqCap(dt) BY <2>2 DEF SeqCap, Clear, GoIdle, Budgeted
  <2>3. CASE Group(dt)
    <3>1. accum' = accum /\ (pending' = pending \/ phase' = "filling")
      BY <2>3 DEF Group, OpenRound
    <3>2. phase = "grouping" BY <2>3 DEF Group
    <3> QED BY <3>1, <3>2 DEF Budgeted
  <2>4. CASE EndRound(dt) BY <2>4 DEF EndRound, Budgeted
  <2>5. CASE Progress(dt)
    <3>1. phase' # "grouping" BY <2>5, ProgressMasks
    <3> QED BY <3>1 DEF Budgeted
  <2>6. CASE SettleWait(dt) BY <2>6 DEF SettleWait, masks, Budgeted
  <2>7. CASE Measure(dt)
    <3>1. phase' # "grouping" BY <2>7 DEF Measure, GoIdle, OpenRound
    <3> QED BY <3>1 DEF Budgeted
  <2> QED BY <2>1, <2>2, <2>3, <2>4, <2>5, <2>6, <2>7 DEF TickFor
<1>5. CASE UNCHANGED vars BY <1>5 DEF vars, masks, timers, Budgeted
<1> QED BY <1>1, <1>2, <1>3, <1>4, <1>5 DEF Next

LEMMA InBudgetGroup ==
  ASSUME TypeOK, Shape, Budgeted, NEW dt \in 1..MaxStall, Group(dt)
  PROVE  InBudget
<1>1. phase = "grouping" /\ open = {} /\ accum' = accum /\ cap' = cap
  BY DEF Group, Shape
<1>2. CASE phaseAge + dt >= GroupWindow
  <2>1. open' = pending /\ \A c \in Chambers : openAge'[c] = 0
    BY <1>2 DEF Group, OpenRound, FreshAge
  <2>2. ASSUME NEW c \in open' PROVE accum'[c] + openAge'[c] < CapOf(c)'
    <3>1. c \in Chambers /\ accum[c] = 0 BY <1>1, <2>1, <2>2 DEF Budgeted, TypeOK
    <3>2. CapOf(c)' = CapOf(c) BY <1>1 DEF CapOf
    <3> QED BY <1>1, <2>1, <3>1, <3>2, CapOfNat
  <2> QED BY <2>2 DEF InBudget
<1>3. CASE ~(phaseAge + dt >= GroupWindow)
  BY <1>1, <1>3 DEF Group, InBudget
<1> QED BY <1>2, <1>3

LEMMA InBudgetProgress ==
  ASSUME TypeOK, Shape, NEW dt \in 1..MaxStall, Progress(dt)
  PROVE  InBudget
<1>1. PICK closing \in SUBSET Chambers, arming \in SUBSET Chambers :
        /\ Spent(dt) \subseteq closing
        /\ open' = open \ closing
        /\ accum' = [c \in Chambers |-> IF c \in closing THEN Used(c, dt) ELSE accum[c]]
        /\ openAge' = [c \in Chambers |-> IF c \in open' THEN openAge[c] + dt ELSE 0]
        /\ cap' = [c \in Chambers |->
                      IF c \in arming THEN Used(c, dt) + tailMs[c] ELSE cap[c]]
        /\ \A c \in arming : tailMs[c] # 0
  <2>1. PICK hit \in SUBSET {c \in Gauged(dt) : "reached" \in Reading(c)},
             bottomed \in SUBSET {c \in Gauged(dt) : "floor" \in Reading(c)} :
       LET counted == IF phaseAge + dt >= Gate THEN hit ELSE {}
           closing == Spent(dt) \cup {c \in counted : over[c] + 1 >= Debounce}
           arming  == {c \in bottomed \ floor : tailMs[c] # 0}
       IN  /\ open' = open \ closing
           /\ accum' = [c \in Chambers |-> IF c \in closing THEN Used(c, dt) ELSE accum[c]]
           /\ openAge' = [c \in Chambers |-> IF c \in open' THEN openAge[c] + dt ELSE 0]
           /\ cap' = [c \in Chambers |->
                        IF c \in arming THEN Used(c, dt) + tailMs[c] ELSE cap[c]]
    BY DEF Progress
  <2> DEFINE counted == IF phaseAge + dt >= Gate THEN hit ELSE {}
             closing == Spent(dt) \cup {c \in counted : over[c] + 1 >= Debounce}
             arming  == {c \in bottomed \ floor : tailMs[c] # 0}
  <2>2. closing \in SUBSET Chambers /\ arming \in SUBSET Chambers
    BY DEF Spent, Gauged, TypeOK
  <2> QED BY <2>1, <2>2
<1>2. ASSUME NEW c \in open' PROVE accum'[c] + openAge'[c] < CapOf(c)'
  <2>1. c \in Chambers /\ c \in open \ closing BY <1>1, <1>2 DEF TypeOK
  <2>2. ~(Used(c, dt) >= CapOf(c)) BY <1>1, <2>1 DEF Spent
  <2>3. accum'[c] = accum[c] /\ openAge'[c] = openAge[c] + dt
    BY <1>1, <1>2, <2>1
  <2>4. /\ accum[c] \in Nat /\ openAge[c] \in Nat /\ tailMs[c] \in Nat
        /\ cap[c] \in Nat /\ dt \in Nat /\ ChamberMax \in Nat
    BY <2>1, StallNat, TuningAssumption DEF TypeOK
  <2>5. CASE c \in arming
    <3>1. cap'[c] = Used(c, dt) + tailMs[c] /\ tailMs[c] # 0 BY <1>1, <2>1, <2>5
    <3> QED BY <2>3, <2>4, <3>1 DEF CapOf, Used
  <2>6. CASE c \notin arming
    <3>1. cap'[c] = cap[c] BY <1>1, <2>1, <2>6
    <3> QED BY <2>2, <2>3, <2>4, <3>1 DEF CapOf, Used
  <2> QED BY <2>5, <2>6
<1> QED BY <1>2 DEF InBudget

LEMMA InBudgetMeasure ==
  ASSUME TypeOK, Shape, NEW dt \in 1..MaxStall, Measure(dt)
  PROVE  InBudget
<1>1. PICK left \in SUBSET {c \in pending : accum[c] < CapOf(c)} :
        IF left = {}
          THEN pending' = {} /\ GoIdle /\ UNCHANGED <<open, roundCount, over>>
          ELSE OpenRound(left, dt)
  BY DEF Measure
<1>2. open = {} /\ accum' = accum /\ cap' = cap BY DEF Measure, Shape
<1>3. CASE left = {} BY <1>1, <1>2, <1>3 DEF InBudget
<1>4. CASE left # {}
  <2>1. open' = left /\ \A c \in Chambers : openAge'[c] = 0
    BY <1>1, <1>4 DEF OpenRound, FreshAge
  <2>2. ASSUME NEW c \in left PROVE accum'[c] + openAge'[c] < CapOf(c)'
    <3>1. c \in Chambers /\ accum[c] < CapOf(c) /\ accum[c] \in Nat
      BY <1>1, <2>2 DEF TypeOK
    <3>2. CapOf(c)' = CapOf(c) BY <1>2 DEF CapOf
    <3> QED BY <1>2, <2>1, <3>1, <3>2
  <2> QED BY <2>1, <2>2 DEF InBudget
<1> QED BY <1>3, <1>4

LEMMA InBudgetTick ==
  ASSUME TypeOK, Shape, Budgeted, Tick
  PROVE  InBudget
<1>1. PICK dt \in 1..MaxStall : TickFor(dt) BY DEF Tick
<1>2. CASE SeqCap(dt) BY <1>2 DEF SeqCap, Clear, InBudget
<1>3. CASE EndRound(dt) BY <1>3 DEF EndRound, InBudget
<1>4. CASE SettleWait(dt) BY <1>4 DEF SettleWait, masks, Shape, InBudget
<1> QED BY <1>1, <1>2, <1>3, <1>4, InBudgetGroup, InBudgetProgress,
           InBudgetMeasure DEF TickFor

-----------------------------------------------------------------------------
(* The engine with its clock implements the untimed engine *)

LEMMA RefRequest ==
  ASSUME NEW c \in Chambers, NEW k \in Kinds, Request(c, k)
  PROVE  Eng' = Abs!Request(Eng, c)
BY DEF Request, Eng, Abs!Request

LEMMA RefDrop ==
  ASSUME NEW c \in Chambers, Drop(c)
  PROVE  Eng' = Abs!Drop(Eng, c)
<1>1. CASE pending' = {} /\ open' = {}
  BY <1>1 DEF Drop, LeaveSequence, GoIdle, Eng, Abs!Drop
<1>2. CASE ~(pending' = {} /\ open' = {})
  BY <1>2 DEF Drop, LeaveSequence, StayInPhase, Eng, Abs!Drop
<1> QED BY <1>1, <1>2

LEMMA RefClear ==
  ASSUME Clear
  PROVE  Eng' = Abs!IdleEngine
BY DEF Clear, GoIdle, Eng, Abs!IdleEngine

LEMMA RefGroup ==
  ASSUME NEW dt \in 1..MaxStall, Group(dt)
  PROVE  Eng' \in Abs!TickOutcomes(Eng)
<1>1. Eng.phase = "grouping" BY DEF Group, Eng
<1>2. CASE phaseAge + dt >= GroupWindow
  <2>1. Eng' = Abs!OpenRound(Eng, Eng.pending)
    BY <1>2 DEF Group, OpenRound, Eng, Abs!OpenRound
  <2> QED BY <1>1, <2>1 DEF Abs!GroupOutcomes, Abs!TickOutcomes
<1>3. CASE ~(phaseAge + dt >= GroupWindow)
  <2>1. Eng' = Eng BY <1>3 DEF Group, Eng
  <2> QED BY <1>1, <2>1 DEF Abs!GroupOutcomes, Abs!TickOutcomes
<1> QED BY <1>2, <1>3

\* A pass over the open valves, in the terms of FillOutcomes.
LEMMA FillOutcome ==
  ASSUME NEW o \in SUBSET open, NEW f \in SUBSET o, floor \cap o \subseteq f,
         NEW p \in {"filling", "settling"},
         o # {} => p = "filling", o = {} /\ open # {} => p = "settling",
         Eng.phase = "filling"
  PROVE  [phase |-> p, pending |-> pending, open |-> o, floor |-> f]
           \in Abs!TickOutcomes(Eng)
<1>1. Eng.open = open /\ Eng.floor = floor /\ Eng.pending = pending BY DEF Eng
<1>2. [phase |-> p, pending |-> pending, open |-> o, floor |-> f]
        \in Abs!FillOutcomes(Eng)
  BY <1>1 DEF Abs!FillOutcomes
<1> QED BY <1>2 DEF Abs!TickOutcomes

LEMMA RefEndRound ==
  ASSUME NEW dt \in 1..MaxStall, EndRound(dt)
  PROVE  Eng' \in Abs!TickOutcomes(Eng)
<1>1. Eng.phase = "filling" BY DEF EndRound, Eng
<1>2. Eng' = [phase |-> "settling", pending |-> pending, open |-> {}, floor |-> {}]
  BY DEF EndRound, Eng
<1> QED BY <1>1, <1>2, FillOutcome

LEMMA RefProgress ==
  ASSUME TypeOK, Shape, NEW dt \in 1..MaxStall, Progress(dt)
  PROVE  Eng' \in Abs!TickOutcomes(Eng)
<1>1. Eng.phase = "filling" BY DEF Progress, Eng
<1>2. Eng' = [phase |-> phase', pending |-> pending, open |-> open', floor |-> floor']
  BY DEF Progress, Eng
<1>3. /\ open' \in SUBSET open /\ floor' \in SUBSET open'
      /\ floor \cap open' \subseteq floor'
      /\ phase' \in {"filling", "settling"}
      /\ open' # {} => phase' = "filling"
      /\ open' = {} /\ open # {} => phase' = "settling"
  BY ProgressMasks
<1> QED BY <1>1, <1>2, <1>3, FillOutcome

LEMMA RefMeasure ==
  ASSUME TypeOK, Shape, NEW dt \in 1..MaxStall, Measure(dt)
  PROVE  Eng' \in Abs!TickOutcomes(Eng)
<1>1. PICK left \in SUBSET pending :
        IF left = {}
          THEN pending' = {} /\ GoIdle /\ UNCHANGED <<open, roundCount, over>>
          ELSE OpenRound(left, dt)
  BY DEF Measure
<1>2. /\ Eng.phase = "settling" /\ Eng.pending = pending
      /\ Eng.open = open /\ Eng.floor = floor /\ floor' = floor
  BY DEF Measure, Eng
<1>3. Eng' = IF left = {} THEN [phase |-> "idle", pending |-> {},
                                open |-> Eng.open, floor |-> Eng.floor]
                          ELSE Abs!OpenRound(Eng, left)
  <2>1. CASE left = {} BY <1>1, <1>2, <2>1 DEF GoIdle, Eng
  <2>2. CASE left # {} BY <1>1, <1>2, <2>2 DEF OpenRound, Eng, Abs!OpenRound
  <2> QED BY <2>1, <2>2
<1>4. Eng' \in Abs!SettleOutcomes(Eng) BY <1>2, <1>3 DEF Abs!SettleOutcomes
<1> QED BY <1>2, <1>4 DEF Abs!TickOutcomes

LEMMA RefTick ==
  ASSUME TypeOK, Shape, Tick
  PROVE  Eng' = Abs!IdleEngine \/ Eng' \in Abs!TickOutcomes(Eng)
<1>1. PICK dt \in 1..MaxStall : TickFor(dt) BY DEF Tick
<1>2. CASE SettleWait(dt)
  <2>1. Eng' = Eng /\ Eng.phase = "settling" BY <1>2 DEF SettleWait, masks, Eng
  <2> QED BY <2>1 DEF Abs!TickOutcomes, Abs!SettleOutcomes
<1> QED BY <1>1, <1>2, RefClear, RefGroup, RefEndRound, RefProgress, RefMeasure
        DEF TickFor, SeqCap

LEMMA RefNext ==
  ASSUME TypeOK, Shape, [Next]_vars
  PROVE  [Abs!Next]_Eng
<1>1. ASSUME NEW c \in Chambers, NEW k \in Kinds, Request(c, k) PROVE Abs!Next
  BY <1>1, RefRequest DEF Abs!Next
<1>2. ASSUME NEW c \in Chambers, Drop(c) PROVE Abs!Next
  BY <1>2, RefDrop DEF Abs!Next
<1>3. CASE Abort BY <1>3, RefClear DEF Abort, Abs!Next
<1>4. CASE Tick BY <1>4, RefTick DEF Abs!Next
<1>5. CASE UNCHANGED vars BY <1>5 DEF vars, masks, Eng
<1> QED BY <1>1, <1>2, <1>3, <1>4, <1>5 DEF Next

-----------------------------------------------------------------------------
(* The inductive invariant and what follows from it *)

LEMMA InductiveInit == Init => IInv
BY DEF Init, IInv, TypeOK, NotLatched, Shape, BoundedOpening, Budgeted

LEMMA InductiveNext == IInv /\ [Next]_vars => IInv'
BY TypeNext, ShapeNext, BoundedNext, BudgetedNext DEF IInv

LEMMA Inductive == Spec => []IInv
BY InductiveInit, InductiveNext, PTL DEF Spec

\* Every mask, clock and budget keeps its type whatever the requests, the
\* readings and the stalls (the fields of coupled_fill.h Engine).
THEOREM TypeCorrect == Spec => []TypeOK
<1>1. IInv => TypeOK BY DEF IInv
<1> QED BY <1>1, Inductive, PTL

\* In every reachable state something is pending exactly while the engine is
\* active, and valves are open only in a round, for pending chambers
\* (coupled_fill.h: pendMask, openMask, floorMask against phase).
THEOREM ShapeCorrect == Spec => []FillShape
<1>1. IInv => FillShape BY ShapeIsFillShape DEF IInv
<1> QED BY <1>1, Inductive, PTL

\* Whatever is requested or dropped in mid-round, no valve is older than its
\* round, and no round reaches the round cap or the sequence cap
\* (coupled_fill.h: round_max_ms, seq_max_ms).
THEOREM BoundedCorrect == Spec => []BoundedOpening
<1>1. IInv => BoundedOpening BY DEF IInv
<1> QED BY <1>1, Inductive, PTL

\* However often a chamber is re-opened to reach its target, no control tick
\* leaves its valve open once the open time of all its rounds has met its
\* budget (coupled_fill.h: accumMs, capOf, the tail's extension of capMs).
THEOREM BudgetCorrect == Spec => BudgetEnforced
<1>1. IInv /\ [Next]_vars
        => [Tick => \A c \in open' : accum'[c] + openAge'[c] < CapOf(c)']_vars
  BY InBudgetTick DEF IInv, InBudget
<1> QED BY <1>1, Inductive, PTL DEF Spec, BudgetEnforced

\* Every behaviour of the engine with its clock, budgets, debounce and tails is
\* one of the untimed engine the boards are composed of (FillSpec).
THEOREM Refinement == Spec => ImplementsFillSpec
<1>1. Init => Abs!Init BY DEF Init, Eng, Abs!Init, Abs!IdleEngine
<1>2. IInv /\ [Next]_vars => [Abs!Next]_Eng BY RefNext DEF IInv
<1> QED BY <1>1, <1>2, Inductive, PTL DEF Spec, ImplementsFillSpec, Abs!Spec

-----------------------------------------------------------------------------
(* The blind tail is pulled once and whole *)

\* What a request for a tail pull said of its chamber stays true while the tail
\* is owed: below its gauge floor, gauged, deflating.
TailKind == \A c \in tail : c \in below /\ c \notin blind /\ dir = "deflate"
ClosedAge == \A c \in Chambers \ open : openAge[c] = 0

\* A tail not yet armed keeps its tail_ms; one that is armed has none left, and
\* its budget is what the chamber had used when the gauge bottomed out plus
\* TailTime, so the blind pull and the open time run in step.
Unarmed(c) == pulled[c] = NotLatched /\ tailMs[c] = TailTime
Armed(c) == /\ pulled[c] \in Nat /\ tailMs[c] = 0 /\ cap[c] # 0
            /\ phase # "grouping"
            /\ accum[c] + openAge[c] + TailTime = cap[c] + pulled[c]
            /\ pulled[c] < TailTime + MaxStall
            /\ c \in open => pulled[c] < TailTime
TailLedger == \A c \in tail \cap pending : Unarmed(c) \/ Armed(c)

TailInv == TailKind /\ ClosedAge /\ TailLedger

LEMMA TailRequest ==
  ASSUME TypeOK, Shape, TailInv, NEW c \in Chambers, NEW k \in Kinds, Request(c, k),
         UNCHANGED dir
  PROVE  TailInv'
<1>1. /\ k.tail \in {0, TailTime} /\ (k.blind => ~k.below)
      /\ (k.tail # 0 => k.below) /\ (k.below => dir = "deflate")
      /\ k.below \in BOOLEAN /\ k.blind \in BOOLEAN
  BY DEF Kinds
<1>2. TailKind' BY <1>1 DEF Request, With, TailInv, TailKind
<1>3. ClosedAge' BY DEF Request, TailInv, ClosedAge
<1>4. ASSUME NEW d \in tail' \cap pending' PROVE (Unarmed(d) \/ Armed(d))'
  <2>1. CASE d = c
    <3>1. k.tail = TailTime BY <1>1, <1>4, <2>1 DEF Request, With
    <3> QED BY <2>1, <3>1 DEF Request, TypeOK, Unarmed
  <2>2. CASE d # c
    <3>1. d \in tail \cap pending BY <1>4, <2>2 DEF Request, With
    <3>2. phase' = phase BY <3>1 DEF Request, Shape
    <3>3. /\ pulled'[d] = pulled[d] /\ tailMs'[d] = tailMs[d] /\ cap'[d] = cap[d]
          /\ accum'[d] = accum[d] /\ openAge'[d] = openAge[d] /\ open' = open
      BY <2>2, <3>1 DEF Request, TypeOK
    <3> QED BY <3>1, <3>2, <3>3 DEF TailInv, TailLedger, Unarmed, Armed
  <2> QED BY <2>1, <2>2
<1> QED BY <1>2, <1>3, <1>4 DEF TailInv, TailLedger

\* A chamber that stays in its tail and is left alone.
LEMMA TailKept ==
  ASSUME TypeOK, TailInv, NEW c \in tail \cap pending,
         phase' # "grouping" \/ phase' = phase,
         pulled'[c] = pulled[c], tailMs'[c] = tailMs[c], cap'[c] = cap[c],
         accum'[c] = accum[c], openAge'[c] = openAge[c],
         c \in open' => c \in open \/ (pulled[c] \in Nat => pulled[c] < TailTime)
  PROVE  (Unarmed(c) \/ Armed(c))'
BY DEF TailInv, TailLedger, Unarmed, Armed

LEMMA TailDrop ==
  ASSUME TypeOK, Shape, TailInv, NEW c \in Chambers, Drop(c), UNCHANGED dir
  PROVE  TailInv'
<1>1. TailKind' BY DEF Drop, TailInv, TailKind
<1>2. CASE pending' = {} /\ open' = {}
  BY <1>1, <1>2 DEF Drop, LeaveSequence, GoIdle, TailInv, ClosedAge, TailLedger
<1>3. CASE ~(pending' = {} /\ open' = {})
  <2>1. /\ StayInPhase(c) /\ open' = open \ {c} /\ pending' = pending \ {c}
        /\ tail' = tail \ {c} /\ UNCHANGED <<accum, cap, tailMs, pulled>>
    BY <1>3 DEF Drop, LeaveSequence
  <2>2. ClosedAge' BY <2>1 DEF StayInPhase, TailInv, ClosedAge, TypeOK
  <2>3. \A d \in tail' \cap pending' : (Unarmed(d) \/ Armed(d))'
    BY <2>1, TailKept DEF StayInPhase, TypeOK
  <2> QED BY <1>1, <2>2, <2>3 DEF TailInv, TailLedger
<1> QED BY <1>2, <1>3

LEMMA TailClear ==
  ASSUME TailInv, Clear, UNCHANGED dir
  PROVE  TailInv'
BY DEF Clear, GoIdle, TailInv, TailKind, ClosedAge, TailLedger

LEMMA TailGroup ==
  ASSUME TypeOK, Shape, TailInv, NEW dt \in 1..MaxStall, Group(dt), UNCHANGED dir
  PROVE  TailInv'
<1>1. /\ phase = "grouping" /\ open = {} /\ pending' = pending /\ tail' = tail
      /\ UNCHANGED <<accum, cap, tailMs, pulled, below, blind>>
  BY DEF Group, OpenRound, Shape
<1>2. ClosedAge' BY DEF Group, OpenRound, FreshAge, TailInv, ClosedAge
<1>3. \A c \in tail' \cap pending' : Unarmed(c)'
  BY <1>1 DEF TailInv, TailLedger, Unarmed, Armed
<1> QED BY <1>1, <1>2, <1>3 DEF TailInv, TailKind, TailLedger

LEMMA TailEndRound ==
  ASSUME TypeOK, Shape, TailInv, NEW dt \in 1..MaxStall, EndRound(dt), UNCHANGED dir
  PROVE  TailInv'
<1>1. /\ phase' = "settling" /\ open' = {} /\ pending' = pending /\ tail' = tail
      /\ UNCHANGED <<cap, tailMs, below, blind>>
      /\ openAge' = [c \in Chambers |-> 0]
      /\ pulled' = Pulling(dt)
      /\ accum' = [c \in Chambers |-> IF c \in open THEN Used(c, dt) ELSE accum[c]]
  BY DEF EndRound
<1>2. TailKind' /\ ClosedAge' BY <1>1 DEF TailInv, TailKind, ClosedAge
<1>3. ASSUME NEW c \in tail \cap pending PROVE (Unarmed(c) \/ Armed(c))'
  <2>0. /\ c \in Chambers /\ accum[c] \in Nat /\ openAge[c] \in Nat /\ cap[c] \in Nat
        /\ dt \in Nat /\ dt <= MaxStall /\ TailTime \in Nat /\ MaxStall \in Nat
    BY <1>3, StallNat, TuningAssumption DEF TypeOK
  <2>1. CASE Unarmed(c) BY <1>1, <2>0, <2>1 DEF Pulling, Unarmed
  <2>2. CASE Armed(c) /\ c \in open
    <3>1. pulled'[c] = pulled[c] + dt /\ accum'[c] = accum[c] + openAge[c] + dt
      BY <1>1, <2>0, <2>2 DEF Pulling, Used, Armed, NotLatched
    <3> QED BY <1>1, <2>0, <2>2, <3>1 DEF Armed
  <2>3. CASE Armed(c) /\ c \notin open
    <3>1. pulled'[c] = pulled[c] /\ accum'[c] = accum[c] /\ openAge[c] = 0
      BY <1>1, <2>0, <2>3 DEF Pulling, TailInv, ClosedAge
    <3> QED BY <1>1, <2>0, <2>3, <3>1 DEF Armed
  <2> QED BY <1>3, <2>1, <2>2, <2>3 DEF TailInv, TailLedger
<1> QED BY <1>1, <1>2, <1>3 DEF TailInv, TailLedger

LEMMA TailMeasure ==
  ASSUME TypeOK, Shape, TailInv, NEW dt \in 1..MaxStall, Measure(dt), UNCHANGED dir
  PROVE  TailInv'
<1>1. PICK left \in SUBSET {c \in pending : accum[c] < CapOf(c)} :
        IF left = {}
          THEN pending' = {} /\ GoIdle /\ UNCHANGED <<open, roundCount, over>>
          ELSE OpenRound(left, dt)
  BY DEF Measure
<1>2. /\ open = {} /\ tail' = tail
      /\ UNCHANGED <<below, blind, accum, cap, tailMs, pulled>>
  BY DEF Measure, Shape
<1>3. TailKind' BY <1>2 DEF TailInv, TailKind
<1>4. ClosedAge' BY <1>1 DEF GoIdle, OpenRound, FreshAge, ClosedAge
<1>5. CASE left = {} BY <1>1, <1>3, <1>4, <1>5 DEF TailInv, TailLedger
<1>6. CASE left # {}
  <2>1. /\ pending' = left /\ phase' = "filling"
        /\ openAge' = [c \in Chambers |-> 0]
    BY <1>1, <1>6 DEF OpenRound, FreshAge
  <2>2. ASSUME NEW c \in tail' \cap pending' PROVE (Unarmed(c) \/ Armed(c))'
    <3>1. c \in tail \cap pending /\ accum[c] < CapOf(c) BY <1>1, <1>2, <2>1, <2>2
    <3>2. openAge[c] = 0 /\ openAge'[c] = 0
      BY <1>2, <2>1, <3>1 DEF TailInv, ClosedAge, TypeOK
    <3>3. /\ accum[c] \in Nat /\ cap[c] \in Nat /\ TailTime \in Nat
      BY <3>1, TuningAssumption DEF TypeOK
    <3>4. pulled[c] \in Nat => pulled[c] < TailTime
      BY <3>1, <3>2, <3>3 DEF TailInv, TailLedger, Unarmed, Armed, CapOf, NotLatched
    <3> QED BY <1>2, <2>1, <3>1, <3>2, <3>4, TailKept
  <2> QED BY <1>3, <1>4, <2>2 DEF TailInv, TailLedger
<1> QED BY <1>5, <1>6

\* The pass arms every tail that bottoms out for the first time, closes only
\* chambers that are spent or read as reached, and a tail chamber never is.
LEMMA TailProgress ==
  ASSUME TypeOK, Shape, TailInv, NEW dt \in 1..MaxStall, Progress(dt), UNCHANGED dir
  PROVE  TailInv'
<1>1. PICK hit \in SUBSET {c \in Gauged(dt) : "reached" \in Reading(c)},
           bottomed \in SUBSET {c \in Gauged(dt) : "floor" \in Reading(c)} :
     LET counted  == IF phaseAge + dt >= Gate THEN hit ELSE {}
         closing  == Spent(dt) \cup {c \in counted : over[c] + 1 >= Debounce}
         latched  == bottomed \ floor
         arming   == {c \in latched : tailMs[c] # 0}
     IN  /\ open'  = open \ closing
         /\ accum' = [c \in Chambers |-> IF c \in closing THEN Used(c, dt) ELSE accum[c]]
         /\ openAge' = [c \in Chambers |-> IF c \in open' THEN openAge[c] + dt ELSE 0]
         /\ cap' = [c \in Chambers |->
                      IF c \in arming THEN Used(c, dt) + tailMs[c] ELSE cap[c]]
         /\ tailMs' = DisarmTail(arming)
         /\ pulled' = [c \in Chambers |->
                         IF c \in latched /\ pulled[c] = NotLatched
                           THEN 0 ELSE Pulling(dt)[c]]
  BY ZenonT(40) DEF Progress
<1> DEFINE counted == IF phaseAge + dt >= Gate THEN hit ELSE {}
           closing == Spent(dt) \cup {c \in counted : over[c] + 1 >= Debounce}
           latched == bottomed \ floor
           arming  == {c \in latched : tailMs[c] # 0}
<1>2. /\ pending' = pending /\ UNCHANGED <<tail, below, blind>>
      /\ phase = "filling" /\ phase' # "grouping"
  BY ProgressMasks DEF Progress
<1>3. TailKind' BY <1>2 DEF TailInv, TailKind
<1>4. ClosedAge' BY <1>1 DEF ClosedAge
<1>5. ASSUME NEW c \in tail \cap pending PROVE (Unarmed(c) \/ Armed(c))'
  <2>0. /\ c \in Chambers /\ accum[c] \in Nat /\ openAge[c] \in Nat /\ cap[c] \in Nat
        /\ dt \in Nat \ {0} /\ dt <= MaxStall /\ TailTime \in Nat \ {0}
        /\ MaxStall \in Nat
    BY <1>5, StallNat, TuningAssumption DEF TypeOK
  <2>1. c \in closing <=> c \in Spent(dt)
    BY <1>5 DEF TailInv, TailKind, Reading
  <2>2. /\ c \in latched => c \in open /\ c \notin Spent(dt)
        /\ c \in Spent(dt) <=> c \in open /\ Used(c, dt) >= CapOf(c)
    BY DEF Gauged, Spent
  <2>3. /\ accum'[c] = IF c \in Spent(dt) THEN Used(c, dt) ELSE accum[c]
        /\ openAge'[c] = IF c \in open \ Spent(dt) THEN openAge[c] + dt ELSE 0
        /\ c \in open' <=> c \in open \ Spent(dt)
        /\ cap'[c] = IF c \in arming THEN Used(c, dt) + tailMs[c] ELSE cap[c]
        /\ tailMs'[c] = IF c \in arming THEN 0 ELSE tailMs[c]
        /\ pulled'[c] = IF c \in latched /\ pulled[c] = NotLatched THEN 0
                        ELSE IF c \in open /\ pulled[c] # NotLatched THEN pulled[c] + dt
                        ELSE pulled[c]
    BY <1>1, <2>0, <2>1 DEF DisarmTail, Pulling
  <2>4. CASE Unarmed(c) /\ c \in latched
    <3>1. c \in arming /\ c \in open \ Spent(dt) BY <2>0, <2>2, <2>4 DEF Unarmed
    <3>2. /\ pulled'[c] = 0 /\ tailMs'[c] = 0 /\ accum'[c] = accum[c]
          /\ cap'[c] = accum[c] + openAge[c] + dt + TailTime
          /\ openAge'[c] = openAge[c] + dt
      BY <2>3, <2>4, <3>1 DEF Unarmed, Used
    <3> QED BY <1>2, <2>0, <3>2 DEF Armed
  <2>5. CASE Unarmed(c) /\ c \notin latched BY <2>3, <2>5 DEF Unarmed
  <2>6. CASE Armed(c) /\ c \in open
    <3>1. c \notin arming /\ pulled'[c] = pulled[c] + dt /\ pulled[c] \in Nat
      BY <2>3, <2>6 DEF Armed, NotLatched
    <3>2. tailMs'[c] = 0 /\ cap'[c] = cap[c] /\ CapOf(c) = cap[c]
      BY <2>3, <2>6, <3>1 DEF Armed, CapOf
    <3>3. CASE c \in Spent(dt)
      BY <1>2, <2>0, <2>3, <2>6, <3>1, <3>2, <3>3 DEF Armed, Used
    <3>4. CASE c \notin Spent(dt)
      <4>1. accum[c] + openAge[c] + dt < cap[c]
        BY <2>0, <2>2, <2>6, <3>2, <3>4 DEF Used
      <4>2. pulled[c] + dt < TailTime BY <2>0, <2>6, <3>1, <4>1 DEF Armed
      <4> QED BY <1>2, <2>0, <2>3, <2>6, <3>1, <3>2, <3>4, <4>2 DEF Armed
    <3> QED BY <3>3, <3>4
  <2>7. CASE Armed(c) /\ c \notin open
    <3>1. openAge[c] = 0 BY <2>0, <2>7 DEF TailInv, ClosedAge
    <3> QED BY <1>2, <2>0, <2>2, <2>3, <2>7, <3>1 DEF Armed
  <2> QED BY <1>5, <2>4, <2>5, <2>6, <2>7 DEF TailInv, TailLedger
<1> QED BY <1>2, <1>3, <1>4, <1>5 DEF TailInv, TailLedger

LEMMA TailStutter ==
  ASSUME TailInv, UNCHANGED <<dir, masks, openAge, accum, cap, tailMs, pulled>>
  PROVE  TailInv'
BY DEF masks, TailInv, TailKind, ClosedAge, TailLedger, Unarmed, Armed

LEMMA TailNext ==
  ASSUME TypeOK, Shape, TailInv, [Next]_vars
  PROVE  TailInv'
<1>0. UNCHANGED dir BY DEF Next, Tick, vars
<1>1. ASSUME NEW c \in Chambers, NEW k \in Kinds, Request(c, k) PROVE TailInv'
  BY <1>0, <1>1, TailRequest
<1>2. ASSUME NEW c \in Chambers, Drop(c) PROVE TailInv'
  BY <1>0, <1>2, TailDrop
<1>3. CASE Abort BY <1>0, <1>3, TailClear DEF Abort
<1>4. CASE Tick
  <2>1. PICK dt \in 1..MaxStall : TickFor(dt) BY <1>4 DEF Tick
  <2>2. CASE SettleWait(dt) BY <1>0, <2>2, TailStutter DEF SettleWait
  <2> QED BY <1>0, <2>1, <2>2, TailClear, TailGroup, TailEndRound, TailProgress,
             TailMeasure DEF TickFor, SeqCap
<1>5. CASE UNCHANGED vars BY <1>5, TailStutter DEF vars, timers
<1> QED BY <1>1, <1>2, <1>3, <1>4, <1>5 DEF Next

LEMMA TailBounded ==
  ASSUME TailInv
  PROVE  BlindPullBounded
<1>1. TailTime \in Nat \ {0} /\ MaxStall \in Nat \ {0} BY TuningAssumption
<1> QED BY <1>1 DEF TailInv, TailLedger, Unarmed, Armed, NotLatched, BlindPullBounded

\* A tail chamber only leaves the pending set of a measure by its budget, which
\* it meets when the blind pull has lasted TailTime.
LEMMA TailWhole ==
  ASSUME TypeOK, Shape, TailInv
  PROVE  BlindPullWhole
<1> SUFFICES ASSUME NEW c \in (pending \ pending') \cap tail,
                    pulled[c] \in 0..(TailTime - 1),
                    NEW dt \in 1..MaxStall, Measure(dt)
             PROVE  FALSE
  BY DEF BlindPullWhole
<1>1. accum[c] >= CapOf(c)
  <2>1. PICK confirmed \in SUBSET Verifiable :
          LET left == {d \in pending \ confirmed : accum[d] < CapOf(d)}
          IN  pending' = left
    <3>1. PICK confirmed \in SUBSET Verifiable :
            LET left == {d \in pending \ confirmed : accum[d] < CapOf(d)}
            IN  IF left = {}
                  THEN pending' = {} /\ GoIdle /\ UNCHANGED <<open, roundCount, over>>
                  ELSE OpenRound(left, dt)
      BY DEF Measure
    <3> QED BY <3>1 DEF OpenRound
  <2>2. c \notin Verifiable BY DEF Verifiable
  <2>3. ~(accum[c] < CapOf(c)) BY <2>1, <2>2
  <2>4. accum[c] \in Nat /\ CapOf(c) \in Nat BY CapOfNat DEF TypeOK
  <2> QED BY <2>3, <2>4
<1>2. TailTime \in Nat /\ c \in Chambers BY TuningAssumption DEF TypeOK
<1>3. open = {} /\ openAge[c] = 0
  BY <1>2 DEF Measure, Shape, TailInv, ClosedAge
<1>4. Armed(c)
  BY <1>2 DEF TailInv, TailLedger, Unarmed, NotLatched
<1>5. accum[c] \in Nat /\ cap[c] \in Nat /\ pulled[c] < TailTime
  BY <1>2 DEF TypeOK
<1> QED BY <1>1, <1>2, <1>3, <1>4, <1>5 DEF Armed, CapOf

\* However many rounds a pull under the gauge floor takes, and however often its
\* gauge latches at the floor again, the blind tail is armed once: its chamber is
\* never pulled blind for tail_ms plus a stall, and is only taken for done when it
\* has been pulled for tail_ms (coupled_fill.h: atFloor, tailMs, capMs).
THEOREM BlindPullCorrect == Spec => BlindPullOnce
<1>1. Init => TailInv
  BY DEF Init, TailInv, TailKind, ClosedAge, TailLedger
<1>2. IInv /\ TailInv /\ [Next]_vars => TailInv' BY TailNext DEF IInv
<1>3. IInv /\ TailInv /\ TailInv' => BlindPullBounded' /\ BlindPullWhole
  <2>1. ASSUME TailInv' PROVE BlindPullBounded'
    BY <2>1, TailBounded, PTL
  <2> QED BY <2>1, TailWhole DEF IInv
<1>4. IInv /\ TailInv /\ TailInv' /\ [Next]_vars
        => [BlindPullBounded' /\ BlindPullWhole]_vars
  BY <1>3
<1> QED BY <1>1, <1>2, <1>4, Inductive, PTL DEF Spec, BlindPullOnce
=============================================================================
