------------------------------ MODULE PlayProofs ------------------------------
(***************************************************************************)
(* Proofs about a unit of a scripted activity, for every behaviour whose    *)
(* handlers are armed by the phases' own programs, any number of sensors    *)
(* and of inputs, and the threads switched at any call; and about the       *)
(* rounds of a group of any size.                                           *)
(***************************************************************************)
EXTENDS Play, FiniteSetTheorems, SequenceTheorems, TLAPS

-----------------------------------------------------------------------------
(* What the state is made of *)

BodyStep == UNION {BodySteps[p] : p \in Phases}
Waits == [kind : {"none", "ms", "due", "touch"}, since : Nat]
Program(S) == [code : Seq(S), wait : Waits, over : BOOLEAN]
Reply == Program(ReplySteps)
Code0 == Seq(ReplySteps)

Programs == [body : Program(BodyStep), aux : Seq(Reply), handlers : [Events -> Seq(Code0)],
             pending : Phases \cup {None}, rounds : BOOLEAN]
GuiSections == {"idle", "reset", "forget", "disarm", "body", "expire", "expired", "jump",
                "advance", "poll", "aux", "auxrun"}
GuiStates == [at : GuiSections, back : {"idle", "poll"}, i : Nat, out : Seq(Reply),
              todo : Seq(Code0), by : {"tick", "start", "manual", "step"}]
CbSections == {"idle", "press", "look", "append", "emit", "spawn", "gesture", "button",
               "edge", "level"}
CbStates == [at : CbSections, new : SUBSET Sensors, code : Code0, stale : BOOLEAN,
             todo : Seq(Code0), n : Nat, button : BOOLEAN, pressed : BOOLEAN]
Senses == [count : [Kinds -> 0..MaxCount], elapsed : BOOLEAN, seq : 0..MaxCount,
           down : BOOLEAN, fresh : BOOLEAN]
Inputs0 == [touch : Nat, gesture : Nat, impact : Nat, press : Nat, move : Nat]

RobotShape == /\ robot = [f \in {"air", "wheels", "score"} |-> robot[f]]
              /\ robot.air \in {"low", "high"} /\ robot.wheels \in {"still", "stroke"}
Timers == {"off", "on", "paused", "done"}
PhaseOf(t) == IF t = "off" THEN {None} ELSE Phases

ProgTyped == prog \in Programs
GuiTyped == gui \in GuiStates
CbTyped == cb \in CbStates
RestTyped == /\ timer \in Timers /\ phase \in PhaseOf(timer)
             /\ sense \in Senses /\ RobotShape /\ left \in Inputs0

\* Every touch counted was one of those to come.
Counted ==
  /\ sense.seq + Cardinality(cb.new) + left.touch <= MaxCount
  /\ sense.count["touch"] <= sense.seq
  /\ sense.count["gesture"] + left.gesture + (IF cb.at = "gesture" THEN 1 ELSE 0) <=
                 MaxCount
  /\ cb.at = "gesture" => cb.n + 1 + left.gesture <= MaxCount
  /\ sense.count["impact"] + left.impact <= MaxCount

\* A wait for touch was armed at a count of touches that has been reached.
Armed ==
  /\ prog.body.wait.since <= sense.seq
  /\ \A j \in DOMAIN prog.aux : prog.aux[j].wait.since <= sense.seq
  /\ \A j \in DOMAIN gui.out : gui.out[j].wait.since <= sense.seq

\* Where the GUI thread is, and what the timer says.
Sections ==
  /\ timer = "off" => gui.at = "idle"
  /\ timer = "done" => gui.at = "idle" /\ robot.wheels = "still"
  /\ timer = "paused" => \/ gui.at = "idle"
                         \/ /\ gui.at \in Entering \cup {"body"}
                            /\ gui.by \in {"manual", "start"}
                            /\ gui.at = "body" => gui.back = "idle"
  /\ gui.at = "aux" => gui.i \in 1 .. Len(prog.aux) + 1
  /\ gui.at = "auxrun" => gui.i \in 1 .. Len(prog.aux)
  /\ cb.at = "spawn" => cb.todo # <<>>

\* The programs a pass has gone by are over or in the list it will leave.
Kept ==
  gui.at \in {"aux", "auxrun"} =>
    \A j \in DOMAIN prog.aux :
      j < gui.i => prog.aux[j].over \/ prog.aux[j] \in Range(gui.out)

\* The body runs the program of the phase in force.
Own == gui.at \notin Entering /\ phase # None =>
         prog.body.code \in Seq(BodySteps[phase])

UnitInv == /\ ProgTyped /\ GuiTyped /\ CbTyped /\ RestTyped
           /\ Counted /\ Armed /\ Sections /\ Kept /\ Own /\ HandlersCurrent

-----------------------------------------------------------------------------
(* Programs *)

LEMMA SpawnTyped == ASSUME NEW S, NEW c \in Seq(S) PROVE Spawn(c) \in Program(S)
BY DEF Spawn, NoWait, Program, Waits

LEMMA TailTyped ==
  ASSUME NEW S, NEW c \in Seq(S), c # <<>>
  PROVE  Head(c) \in S /\ Tail(c) \in Seq(S)
OBVIOUS

LEMMA AppendTyped ==
  ASSUME NEW S, NEW c \in Seq(S), NEW x \in S
  PROVE  /\ Append(c, x) \in Seq(S) /\ DOMAIN Append(c, x) = 1 .. Len(c) + 1
         /\ \A j \in 1 .. Len(c) : Append(c, x)[j] = c[j]
         /\ Append(c, x)[Len(c) + 1] = x
         /\ Range(Append(c, x)) = Range(c) \cup {x}
<1>1. /\ Append(c, x) \in Seq(S) /\ DOMAIN Append(c, x) = 1 .. Len(c) + 1
      /\ \A j \in 1 .. Len(c) : Append(c, x)[j] = c[j]
      /\ Append(c, x)[Len(c) + 1] = x /\ Len(c) \in Nat /\ DOMAIN c = 1 .. Len(c)
  OBVIOUS
<1> DEFINE a == Append(c, x)
<1> HIDE DEF a
<1>2. \A j \in 1 .. Len(c) : a[j] = c[j] BY <1>1 DEF a
<1>3. DOMAIN a = 1 .. Len(c) + 1 /\ a[Len(c) + 1] = x BY <1>1 DEF a
<1>4. Range(a) = Range(c) \cup {x} BY <1>1, <1>2, <1>3 DEF Range
<1> QED BY <1>1, <1>4 DEF a

LEMMA FewTyped ==
  ASSUME NEW S, NEW a \in S, NEW b \in S, NEW c \in S, NEW d \in S
  PROVE  /\ <<a>> \in Seq(S) /\ <<a, b>> \in Seq(S)
         /\ <<a, b, c>> \in Seq(S) /\ <<a, b, c, d>> \in Seq(S)
OBVIOUS

\* What a step stands for is made of the same steps.
LEMMA ExpandTyped ==
  ASSUME NEW S, Closed(S), NEW s \in S, s.verb \in Compound
  PROVE  Expand(s) \in Seq(S)
<1> USE DEF Closed, Compound, Expand
<1>1. CASE s.verb = "sequence" BY <1>1
<1>2. CASE s.verb = "if" BY <1>2
<1>3. CASE s.verb = "repeat"
  <2>1. s.do \in Seq(S) BY <1>3
  <2>2. CASE s.forever
    <3>1. Wait \in S BY <1>3, <2>2
    <3> HIDE DEF Closed, Expand, Compound
    <3>2. <<Wait, s>> \in Seq(S) BY <3>1, FewTyped
    <3> QED BY <1>3, <2>1, <2>2, <3>2 DEF RepeatBody, Expand
  <2>3. CASE ~s.forever /\ s.times = 0 BY <1>3, <2>3 DEF RepeatBody
  <2>4. CASE ~s.forever /\ s.times # 0
    <3>1. <<[s EXCEPT !.times = @ - 1]>> \in Seq(S) BY <1>3, <2>4
    <3> QED BY <1>3, <2>1, <2>4, <3>1 DEF RepeatBody
  <2> QED BY <2>2, <2>3, <2>4
<1>4. CASE s.verb = "beat"
  <2>1. Pressure("high") \in S /\ Pressure("low") \in S /\ Wait \in S BY <1>4
  <2>2. Expand(s) = <<Pressure("high"), Wait, Pressure("low"), Wait>> BY <1>4
  <2> HIDE DEF Closed, Expand, Compound
  <2> QED BY <2>1, <2>2, FewTyped
<1>5. CASE s.verb = "fade"
  <2>1. Wait \in S /\ Expand(s) = <<Wait>> BY <1>5
  <2> HIDE DEF Closed, Expand, Compound
  <2> QED BY <2>1, FewTyped
<1>6. CASE s.verb = "thymio_drive"
  <2>1. Motors("stroke") \in S /\ Motors("still") \in S /\ Wait \in S BY <1>6
  <2>2. Expand(s) = <<Motors("stroke"), Wait, Motors("still")>> BY <1>6
  <2> HIDE DEF Closed, Expand, Compound
  <2> QED BY <2>1, <2>2, FewTyped
<1> QED BY <1>1, <1>2, <1>3, <1>4, <1>5, <1>6

LEMMA BodyClosed ==
  ASSUME NEW p \in Phases
  PROVE  Closed(BodySteps[p]) /\ BodySteps[p] \subseteq BodyStep
BY BehaviourAssumption DEF BodyStep

LEMMA NoneYet == ASSUME NEW S PROVE <<>> \in Seq(S) /\ DOMAIN <<>> = {} /\ Len(<<>>) = 0
OBVIOUS

LEMMA BodyProgram ==
  ASSUME NEW p \in Phases
  PROVE  /\ Behaviour[p].do \in Seq(BodySteps[p])
         /\ Spawn(Behaviour[p].do) \in Program(BodyStep)
<1>1. Behaviour[p].do \in Seq(BodySteps[p]) BY BehaviourAssumption
<1>2. \A c : c \in Seq(BodySteps[p]) => c \in Seq(BodyStep) BY BodyClosed
<1> QED BY <1>1, <1>2, SpawnTyped

LEMMA NoCountTyped == NoCount \in [Kinds -> 0..MaxCount] /\ \A k \in Kinds : NoCount[k] = 0
BY BudgetAssumption DEF NoCount

\* Where the transitions of a phase lead.
LEMMA MovesTyped ==
  ASSUME NEW p \in Phases
  PROVE  /\ \A i \in DOMAIN Behaviour[p].moves : Behaviour[p].moves[i].to \in Phases
         /\ NextPhase(p) \in Phases \cup {None}
<1> DEFINE moves == Behaviour[p].moves
<1>1. moves \in Seq(Range(moves)) /\ \A m \in Range(moves) : m.to \in Phases
  BY BehaviourAssumption
<1> HIDE DEF moves
<1>2. \A i \in DOMAIN moves : moves[i].to \in Phases BY <1>1 DEF Range
<1>3. moves # <<>> => 1 \in DOMAIN moves BY <1>1
<1> QED BY <1>2, <1>3 DEF NextPhase, moves

\* One program of a list replaced.
LEMMA ReplaceTyped ==
  ASSUME NEW S, NEW a \in Seq(S), NEW i \in 1 .. Len(a), NEW x \in S
  PROVE  LET b == [a EXCEPT ![i] = x]
         IN  /\ b \in Seq(S) /\ Len(b) = Len(a) /\ DOMAIN b = DOMAIN a
             /\ \A j \in DOMAIN a : b[j] = IF j = i THEN x ELSE a[j]
OBVIOUS

LEMMA OverTyped ==
  ASSUME NEW S, NEW r \in Program(S)
  PROVE  LET p == [r EXCEPT !.over = TRUE]
         IN  p \in Program(S) /\ p.code = r.code /\ p.wait = r.wait /\ p.over
BY DEF Program

-----------------------------------------------------------------------------
(* The program that runs *)

LEMMA BodyHere ==
  ASSUME UnitInv, gui.at = "body"
  PROVE  /\ phase \in Phases /\ Code = prog.body.code /\ Code \in Seq(BodySteps[phase])
         /\ Closed(BodySteps[phase])
         /\ \A c \in Seq(BodySteps[phase]) : c \in Seq(BodyStep)
<1>1. phase \in Phases /\ phase # None
  BY BehaviourAssumption DEF UnitInv, RestTyped, PhaseOf, Sections
<1>2. prog.body.code \in Seq(BodySteps[phase]) BY <1>1 DEF UnitInv, Own, Entering
<1>3. \A c \in Seq(BodySteps[phase]) : c \in Seq(BodyStep) BY <1>1, BodyClosed
<1> QED BY <1>1, <1>2, <1>3, BodyClosed DEF Code

LEMMA ReplyHere ==
  ASSUME UnitInv, gui.at = "auxrun"
  PROVE  /\ gui.i \in 1 .. Len(prog.aux) /\ DOMAIN prog.aux = 1 .. Len(prog.aux)
         /\ prog.aux \in Seq(Reply) /\ Len(prog.aux) \in Nat /\ prog.aux[gui.i] \in Reply
         /\ Code = prog.aux[gui.i].code /\ Code \in Seq(ReplySteps)
         /\ Closed(ReplySteps) /\ \A s \in ReplySteps : s.verb # "when"
<1>1. prog.aux \in Seq(Reply) /\ gui.i \in 1 .. Len(prog.aux)
  BY DEF UnitInv, ProgTyped, Programs, Sections
<1>2. prog.aux[gui.i] \in Reply BY <1>1
<1>3. prog.aux[gui.i].code \in Seq(ReplySteps) BY <1>2 DEF Reply, Program
<1>4. Code = prog.aux[gui.i].code BY DEF Code
<1> QED BY <1>1, <1>2, <1>3, <1>4, BehaviourAssumption

LEMMA JoinTyped ==
  ASSUME NEW S, NEW c \in Seq(S), NEW d \in Seq(S)
  PROVE  c \o d \in Seq(S)
OBVIOUS

-----------------------------------------------------------------------------
(* The steps.  What a step does not read or write it keeps. *)

LEMMA Untouched ==
  ASSUME UnitInv
  PROVE  /\ gui' = gui => GuiTyped'
         /\ prog' = prog => ProgTyped'
         /\ cb' = cb => CbTyped'
         /\ UNCHANGED <<timer, phase, sense, robot, left>> => RestTyped'
         /\ UNCHANGED <<sense, cb, left>> => Counted'
         /\ UNCHANGED <<prog, sense, gui>> => Armed'
         /\ UNCHANGED <<timer, robot, gui, prog, cb>> => Sections'
         /\ UNCHANGED <<prog, gui>> => Kept'
         /\ UNCHANGED <<phase, gui, prog>> => Own' /\ HandlersCurrent'
BY DEF UnitInv, GuiTyped, ProgTyped, CbTyped, RestTyped, RobotShape, Counted, Armed,
       Sections, Kept, Own, HandlersCurrent

LEMMA StepEnterReset == ASSUME UnitInv, EnterReset PROVE UnitInv'
<1>0. /\ gui.at = "reset"
      /\ gui' = [at |-> "forget", back |-> gui.back, i |-> gui.i, out |-> gui.out,
                 todo |-> gui.todo, by |-> gui.by]
      /\ sense' = [count |-> NoCount, elapsed |-> FALSE, seq |-> sense.seq,
                   down |-> sense.down, fresh |-> sense.fresh]
      /\ UNCHANGED <<timer, phase, prog, robot, cb, left>>
  BY DEF UnitInv, EnterReset, GuiTyped, GuiStates, RestTyped, Senses
<1>1. GuiTyped' BY <1>0 DEF UnitInv, GuiTyped, GuiStates, GuiSections
<1>2. RestTyped' BY <1>0, NoCountTyped
      DEF UnitInv, RestTyped, Senses, RobotShape, Timers, PhaseOf, Inputs0
<1>3. Counted' BY <1>0, BudgetAssumption, NoCountTyped
      DEF UnitInv, Counted, Kinds, RestTyped, Senses, Inputs0
<1>4. Armed' BY <1>0 DEF UnitInv, Armed
<1>5. Sections' BY <1>0 DEF UnitInv, Sections, Entering
<1>6. Kept' BY <1>0 DEF UnitInv, Kept
<1>7. Own' BY <1>0 DEF UnitInv, Own, Entering
<1>8. HandlersCurrent' BY <1>0 DEF UnitInv, HandlersCurrent, Entering
<1> QED BY <1>0, Untouched, <1>1, <1>2, <1>3, <1>4, <1>5, <1>6, <1>7, <1>8 DEF UnitInv

LEMMA StepEnterForget == ASSUME UnitInv, EnterForget PROVE UnitInv'
<1>0. /\ gui.at = "forget"
      /\ gui' = [at |-> "disarm", back |-> gui.back, i |-> gui.i, out |-> gui.out,
                 todo |-> gui.todo, by |-> gui.by]
      /\ prog' = [body |-> prog.body, aux |-> <<>>, handlers |-> prog.handlers,
                  pending |-> None, rounds |-> prog.rounds]
      /\ UNCHANGED <<timer, phase, sense, robot, cb, left>>
  BY DEF UnitInv, EnterForget, GuiTyped, GuiStates, ProgTyped, Programs
<1>a. <<>> \in Seq(Reply) BY NoneYet
<1>1. GuiTyped' BY <1>0 DEF UnitInv, GuiTyped, GuiStates, GuiSections
<1>2. ProgTyped' BY <1>0, <1>a DEF UnitInv, ProgTyped, Programs
<1>3. Armed' BY <1>0, NoneYet DEF UnitInv, Armed
<1>4. Sections' BY <1>0 DEF UnitInv, Sections, Entering
<1>5. Kept' BY <1>0, NoneYet DEF UnitInv, Kept
<1>6. Own' BY <1>0 DEF UnitInv, Own, Entering
<1>7. HandlersCurrent' BY <1>0 DEF UnitInv, HandlersCurrent, Entering
<1> QED BY <1>0, Untouched, <1>1, <1>2, <1>3, <1>4, <1>5, <1>6, <1>7 DEF UnitInv

LEMMA StepEnterDisarm == ASSUME UnitInv, EnterDisarm PROVE UnitInv'
<1>0. /\ gui.at = "disarm"
      /\ gui' = [at |-> "body", back |-> "idle", i |-> gui.i, out |-> gui.out,
                 todo |-> gui.todo, by |-> gui.by]
      /\ prog' = [body |-> Spawn(Behaviour[phase].do), aux |-> prog.aux,
                  handlers |-> NoHandlers, pending |-> prog.pending, rounds |-> FALSE]
      /\ UNCHANGED <<timer, phase, sense, robot, cb, left>>
  BY DEF UnitInv, EnterDisarm, GuiTyped, GuiStates, ProgTyped, Programs
<1>a. phase \in Phases BY <1>0 DEF UnitInv, RestTyped, Sections, Timers, PhaseOf
<1>b. Spawn(Behaviour[phase].do) \in Program(BodyStep) BY <1>a, BodyProgram
<1>c. NoHandlers \in [Events -> Seq(Code0)] BY DEF NoHandlers
<1>1. GuiTyped' BY <1>0 DEF UnitInv, GuiTyped, GuiStates, GuiSections
<1>2. ProgTyped' BY <1>0, <1>b, <1>c DEF UnitInv, ProgTyped, Programs
<1>3. Armed' BY <1>0 DEF UnitInv, Armed, Spawn, NoWait, RestTyped, Senses
<1>4. Sections' BY <1>0 DEF UnitInv, Sections, Entering
<1>5. Kept' BY <1>0 DEF UnitInv, Kept
<1>6. Own' BY <1>0, <1>a, BehaviourAssumption DEF UnitInv, Own, Entering, Spawn
<1>7. HandlersCurrent' BY <1>0 DEF UnitInv, HandlersCurrent, Entering, NoHandlers, Range
<1> QED BY <1>0, Untouched, <1>1, <1>2, <1>3, <1>4, <1>5, <1>6, <1>7 DEF UnitInv

LEMMA StepStart == ASSUME UnitInv, Start PROVE UnitInv'
<1>0. /\ timer = "off" /\ timer' = "on" /\ phase' = Initial
      /\ gui' = [at |-> "reset", back |-> "idle", i |-> 0, out |-> <<>>, todo |-> <<>>,
                 by |-> "start"]
      /\ UNCHANGED <<sense, prog, robot, cb, left>>
  BY DEF UnitInv, Start, GuiTyped, GuiStates, Enter, IdleGui
<1>z. <<>> \in Seq(Reply) /\ <<>> \in Seq(Code0) BY NoneYet
<1>1. GuiTyped' BY <1>0, <1>z DEF UnitInv, GuiTyped, GuiStates, GuiSections
<1>2. RestTyped' BY <1>0, BehaviourAssumption
      DEF UnitInv, RestTyped, Senses, RobotShape, Timers, PhaseOf, Inputs0
<1>3. Armed' BY <1>0, NoneYet DEF UnitInv, Armed
<1>4. Sections' BY <1>0 DEF UnitInv, Sections, Entering
<1>5. Kept' BY <1>0 DEF UnitInv, Kept
<1>6. Own' BY <1>0 DEF UnitInv, Own, Entering
<1>7. HandlersCurrent' BY <1>0 DEF UnitInv, HandlersCurrent, Entering
<1> QED BY <1>0, Untouched, <1>1, <1>2, <1>3, <1>4, <1>5, <1>6, <1>7 DEF UnitInv

LEMMA StepPause == ASSUME UnitInv, Pause PROVE UnitInv'
<1>0. /\ timer = "on" /\ gui.at = "idle" /\ timer' = "paused"
      /\ UNCHANGED <<phase, sense, prog, robot, gui, cb, left>>
  BY DEF UnitInv, Pause
<1>1. RestTyped' BY <1>0 DEF UnitInv, RestTyped, Senses, RobotShape, Timers, PhaseOf,
      Inputs0
<1>2. Sections' BY <1>0 DEF UnitInv, Sections, Entering
<1> QED BY <1>0, Untouched, <1>1, <1>2 DEF UnitInv

LEMMA StepResume == ASSUME UnitInv, Resume PROVE UnitInv'
<1>0. /\ timer = "paused" /\ gui.at = "idle" /\ timer' = "on"
      /\ UNCHANGED <<phase, sense, prog, robot, gui, cb, left>>
  BY DEF UnitInv, Resume
<1>1. RestTyped' BY <1>0 DEF UnitInv, RestTyped, Senses, RobotShape, Timers, PhaseOf,
      Inputs0
<1>2. Sections' BY <1>0 DEF UnitInv, Sections, Entering
<1> QED BY <1>0, Untouched, <1>1, <1>2 DEF UnitInv

LEMMA StepStop == ASSUME UnitInv, Stop PROVE UnitInv'
<1>0. /\ timer \in {"on", "paused"} /\ gui.at = "idle" /\ timer' = "done"
      /\ robot' = [robot EXCEPT !.wheels = "still"]
      /\ UNCHANGED <<phase, sense, prog, gui, cb, left>>
  BY DEF UnitInv, Stop
<1>1. RestTyped' BY <1>0 DEF UnitInv, RestTyped, Senses, RobotShape, Timers, PhaseOf,
      Inputs0
<1>2. Sections' BY <1>0 DEF UnitInv, Sections, Entering, RestTyped, RobotShape
<1> QED BY <1>0, Untouched, <1>1, <1>2 DEF UnitInv

LEMMA StepStepPhase == ASSUME UnitInv, StepPhase PROVE UnitInv'
<1>y. phase \in Phases BY DEF UnitInv, RestTyped, PhaseOf, StepPhase
<1>x. phase' \in Phases BY <1>y, MovesTyped DEF StepPhase, PrevPhases, Enter
<1>0. /\ timer \in {"on", "paused"} /\ gui.at = "idle" /\ Spend("move", 1)
      /\ phase' \in Phases
      /\ gui' = [at |-> "reset", back |-> "idle", i |-> 0, out |-> <<>>, todo |-> <<>>,
                 by |-> "manual"]
      /\ UNCHANGED <<timer, sense, prog, robot, cb>>
  BY <1>x DEF UnitInv, StepPhase, GuiTyped, GuiStates, Enter, IdleGui
<1>z. <<>> \in Seq(Reply) /\ <<>> \in Seq(Code0) BY NoneYet
<1>1. GuiTyped' BY <1>0, <1>z DEF UnitInv, GuiTyped, GuiStates, GuiSections
<1>2. RestTyped' BY <1>0 DEF UnitInv, RestTyped, Senses, RobotShape, Timers, PhaseOf,
      Inputs0, Spend
<1>3. Counted' BY <1>0 DEF UnitInv, Counted, Spend, RestTyped, Inputs0
<1>4. Armed' BY <1>0, NoneYet DEF UnitInv, Armed
<1>5. Sections' BY <1>0 DEF UnitInv, Sections, Entering
<1>6. Kept' BY <1>0 DEF UnitInv, Kept
<1>7. Own' BY <1>0 DEF UnitInv, Own, Entering
<1>8. HandlersCurrent' BY <1>0 DEF UnitInv, HandlersCurrent, Entering
<1> QED BY <1>0, Untouched, <1>1, <1>2, <1>3, <1>4, <1>5, <1>6, <1>7, <1>8 DEF UnitInv

LEMMA StepTick == ASSUME UnitInv, Tick PROVE UnitInv'
<1>0. /\ timer = "on" /\ gui.at = "idle"
      /\ gui' = [at |-> IF sense.down /\ ~sense.fresh THEN "expire" ELSE "jump",
                 back |-> gui.back, i |-> gui.i, out |-> gui.out, todo |-> gui.todo,
                      by |-> "tick"]
      /\ UNCHANGED <<timer, phase, sense, prog, robot, cb, left>>
  BY DEF UnitInv, Tick, GuiTyped, GuiStates
<1>1. GuiTyped' BY <1>0 DEF UnitInv, GuiTyped, GuiStates, GuiSections
<1>2. Armed' BY <1>0 DEF UnitInv, Armed
<1>3. Sections' BY <1>0 DEF UnitInv, Sections, Entering
<1>4. Kept' BY <1>0 DEF UnitInv, Kept
<1>5. Own' BY <1>0 DEF UnitInv, Own, Entering
<1>6. HandlersCurrent' BY <1>0 DEF UnitInv, HandlersCurrent, Entering
<1> QED BY <1>0, Untouched, <1>1, <1>2, <1>3, <1>4, <1>5, <1>6 DEF UnitInv

LEMMA StepExpireButton == ASSUME UnitInv, ExpireButton PROVE UnitInv'
<1>0. /\ gui.at = "expire"
      /\ gui' = [at |-> "expired", back |-> gui.back, i |-> gui.i, out |-> gui.out,
                 todo |-> IF sense.down THEN prog.handlers["button_released"] ELSE <<>>,
                      by |-> gui.by]
      /\ UNCHANGED <<timer, phase, sense, prog, robot, cb, left>>
  BY DEF UnitInv, ExpireButton, GuiTyped, GuiStates
<1>a. prog.handlers["button_released"] \in Seq(Code0) /\ <<>> \in Seq(Code0)
  BY NoneYet DEF UnitInv, ProgTyped, Programs, Events
<1>1. GuiTyped' BY <1>0, <1>a DEF UnitInv, GuiTyped, GuiStates, GuiSections
<1>2. Armed' BY <1>0 DEF UnitInv, Armed
<1>3. Sections' BY <1>0 DEF UnitInv, Sections, Entering
<1>4. Kept' BY <1>0 DEF UnitInv, Kept
<1>5. Own' BY <1>0 DEF UnitInv, Own, Entering
<1>6. HandlersCurrent' BY <1>0 DEF UnitInv, HandlersCurrent, Entering
<1> QED BY <1>0, Untouched, <1>1, <1>2, <1>3, <1>4, <1>5, <1>6 DEF UnitInv

LEMMA StepButtonExpired == ASSUME UnitInv, ButtonExpired PROVE UnitInv'
<1>0. /\ gui.at = "expired"
      /\ gui' = [at |-> "jump", back |-> gui.back, i |-> gui.i, out |-> gui.out,
                 todo |-> gui.todo, by |-> gui.by]
      /\ sense' = [count |-> sense.count, elapsed |-> sense.elapsed, seq |-> sense.seq,
                   down |-> FALSE, fresh |-> sense.fresh]
      /\ UNCHANGED <<timer, phase, prog, robot, cb, left>>
  BY DEF UnitInv, ButtonExpired, GuiTyped, GuiStates, RestTyped, Senses
<1>1. GuiTyped' BY <1>0 DEF UnitInv, GuiTyped, GuiStates, GuiSections
<1>2. RestTyped' BY <1>0 DEF UnitInv, RestTyped, Senses, RobotShape, Timers, PhaseOf,
      Inputs0
<1>3. Counted' BY <1>0 DEF UnitInv, Counted
<1>4. Armed' BY <1>0 DEF UnitInv, Armed
<1>5. Sections' BY <1>0 DEF UnitInv, Sections, Entering
<1>6. Kept' BY <1>0 DEF UnitInv, Kept
<1>7. Own' BY <1>0 DEF UnitInv, Own, Entering
<1>8. HandlersCurrent' BY <1>0 DEF UnitInv, HandlersCurrent, Entering
<1> QED BY <1>0, Untouched, <1>1, <1>2, <1>3, <1>4, <1>5, <1>6, <1>7, <1>8 DEF UnitInv

LEMMA StepApplyPending == ASSUME UnitInv, ApplyPending PROVE UnitInv'
<1>0. /\ gui.at = "jump" /\ prog.pending \in Phases
      /\ phase' = prog.pending
      /\ gui' = [at |-> "reset", back |-> "idle", i |-> 0, out |-> <<>>, todo |-> <<>>,
                 by |-> "step"]
      /\ prog' = [body |-> prog.body, aux |-> prog.aux, handlers |-> prog.handlers,
                  pending |-> None, rounds |-> prog.rounds]
      /\ UNCHANGED <<timer, sense, robot, cb, left>>
  BY DEF UnitInv, ApplyPending, GuiTyped, GuiStates, ProgTyped, Programs, Enter, IdleGui
<1>z. <<>> \in Seq(Reply) /\ <<>> \in Seq(Code0) BY NoneYet
<1>1. GuiTyped' BY <1>0, <1>z DEF UnitInv, GuiTyped, GuiStates, GuiSections
<1>2. ProgTyped' BY <1>0 DEF UnitInv, ProgTyped, Programs
<1>3. RestTyped' BY <1>0 DEF UnitInv, RestTyped, Senses, RobotShape, Timers, PhaseOf,
      Inputs0, Sections
<1>4. Armed' BY <1>0, NoneYet DEF UnitInv, Armed
<1>5. Sections' BY <1>0 DEF UnitInv, Sections, Entering
<1>6. Kept' BY <1>0 DEF UnitInv, Kept
<1>7. Own' BY <1>0 DEF UnitInv, Own, Entering
<1>8. HandlersCurrent' BY <1>0 DEF UnitInv, HandlersCurrent, Entering
<1> QED BY <1>0, Untouched, <1>1, <1>2, <1>3, <1>4, <1>5, <1>6, <1>7, <1>8 DEF UnitInv

LEMMA StepStay == ASSUME UnitInv, CheckTransitions, gui'.at = "advance" PROVE UnitInv'
<1>0. /\ gui.at = "jump"
      /\ gui' = [at |-> "advance", back |-> gui.back, i |-> gui.i, out |-> gui.out,
                 todo |-> gui.todo, by |-> gui.by]
      /\ UNCHANGED <<timer, phase, sense, prog, robot, cb, left>>
  BY DEF UnitInv, CheckTransitions, GuiTyped, GuiStates, Enter, IdleGui
<1>1. GuiTyped' BY <1>0 DEF UnitInv, GuiTyped, GuiStates, GuiSections
<1>2. Armed' BY <1>0 DEF UnitInv, Armed
<1>3. Sections' BY <1>0 DEF UnitInv, Sections, Entering
<1>4. Kept' BY <1>0 DEF UnitInv, Kept
<1>5. Own' BY <1>0 DEF UnitInv, Own, Entering
<1>6. HandlersCurrent' BY <1>0 DEF UnitInv, HandlersCurrent, Entering
<1> QED BY <1>0, Untouched, <1>1, <1>2, <1>3, <1>4, <1>5, <1>6 DEF UnitInv

LEMMA StepLeave == ASSUME UnitInv, CheckTransitions, gui'.at # "advance" PROVE UnitInv'
<1>y. gui.at = "jump" /\ phase \in Phases
  BY DEF UnitInv, RestTyped, PhaseOf, Sections, CheckTransitions
<1>w. gui' # [gui EXCEPT !.at = "advance"] BY DEF UnitInv, GuiTyped, GuiStates
<1>x. phase' \in Phases BY <1>w, <1>y, MovesTyped DEF CheckTransitions, Enabled, Enter
<1>0. /\ gui.at = "jump"
      /\ phase' \in Phases
      /\ gui' = [at |-> "reset", back |-> "idle", i |-> 0, out |-> <<>>, todo |-> <<>>,
                 by |-> "tick"]
      /\ UNCHANGED <<timer, sense, prog, robot, cb, left>>
  BY <1>x DEF UnitInv, CheckTransitions, GuiTyped, GuiStates, Enter, IdleGui
<1>z. <<>> \in Seq(Reply) /\ <<>> \in Seq(Code0) BY NoneYet
<1>1. GuiTyped' BY <1>0, <1>z DEF UnitInv, GuiTyped, GuiStates, GuiSections
<1>2. RestTyped' BY <1>0, <1>y DEF UnitInv, RestTyped, Senses, RobotShape, Timers,
      PhaseOf, Inputs0, Sections
<1>3. Armed' BY <1>0, NoneYet DEF UnitInv, Armed
<1>4. Sections' BY <1>0 DEF UnitInv, Sections, Entering
<1>5. Kept' BY <1>0 DEF UnitInv, Kept
<1>6. Own' BY <1>0 DEF UnitInv, Own, Entering
<1>7. HandlersCurrent' BY <1>0 DEF UnitInv, HandlersCurrent, Entering
<1> QED BY <1>0, Untouched, <1>1, <1>2, <1>3, <1>4, <1>5, <1>6, <1>7 DEF UnitInv

LEMMA StepWaits == ASSUME UnitInv, Advance, gui'.at = "poll" PROVE UnitInv'
<1>0. /\ gui.at = "advance"
      /\ gui' = [at |-> "poll", back |-> gui.back, i |-> gui.i, out |-> gui.out,
                 todo |-> gui.todo, by |-> gui.by]
      /\ UNCHANGED <<timer, phase, sense, prog, robot, cb, left>>
  BY DEF UnitInv, Advance, GuiTyped, GuiStates
<1>1. GuiTyped' BY <1>0 DEF UnitInv, GuiTyped, GuiStates, GuiSections
<1>2. Armed' BY <1>0 DEF UnitInv, Armed
<1>3. Sections' BY <1>0 DEF UnitInv, Sections, Entering
<1>4. Kept' BY <1>0 DEF UnitInv, Kept
<1>5. Own' BY <1>0 DEF UnitInv, Own, Entering
<1>6. HandlersCurrent' BY <1>0 DEF UnitInv, HandlersCurrent, Entering
<1> QED BY <1>0, Untouched, <1>1, <1>2, <1>3, <1>4, <1>5, <1>6 DEF UnitInv

LEMMA StepGoes == ASSUME UnitInv, Advance, gui'.at # "poll" PROVE UnitInv'
<1> DEFINE b == [prog.body EXCEPT !.wait = NoWait]
<1>s. /\ gui.at = "advance" /\ gui' = [gui EXCEPT !.at = "body", !.back = "poll"]
      /\ prog' = [prog EXCEPT !.body = b]
      /\ UNCHANGED <<timer, phase, sense, robot, cb, left>>
  BY DEF Advance, UnitInv, GuiTyped, GuiStates
<1>b. b \in Program(BodyStep) /\ b.code = prog.body.code /\ b.wait.since = 0
  BY DEF UnitInv, ProgTyped, Programs, Program, Waits, NoWait
<1> HIDE DEF b
<1>0. /\ gui.at = "advance"
      /\ gui' = [at |-> "body", back |-> "poll", i |-> gui.i, out |-> gui.out,
                 todo |-> gui.todo, by |-> gui.by]
      /\ prog' = [body |-> b, aux |-> prog.aux, handlers |-> prog.handlers,
                  pending |-> prog.pending, rounds |-> prog.rounds]
      /\ UNCHANGED <<timer, phase, sense, robot, cb, left>>
  BY <1>s DEF UnitInv, Advance, GuiTyped, GuiStates, ProgTyped, Programs
<1>1. GuiTyped' BY <1>0 DEF UnitInv, GuiTyped, GuiStates, GuiSections
<1>2. ProgTyped' BY <1>0, <1>b DEF UnitInv, ProgTyped, Programs
<1>3. Armed' BY <1>0, <1>b DEF UnitInv, Armed, RestTyped, Senses
<1>4. Sections' BY <1>0 DEF UnitInv, Sections, Entering
<1>5. Kept' BY <1>0 DEF UnitInv, Kept
<1>6. Own' BY <1>0, <1>b DEF UnitInv, Own, Entering
<1>7. HandlersCurrent' BY <1>0 DEF UnitInv, HandlersCurrent, Entering
<1> QED BY <1>0, Untouched, <1>1, <1>2, <1>3, <1>4, <1>5, <1>6, <1>7 DEF UnitInv

LEMMA StepPollRounds == ASSUME UnitInv, PollRounds PROVE UnitInv'
<1>y. PICK t \in Seq(Code0) : gui' = [gui EXCEPT !.at = "aux", !.i = 1, !.out = <<>>,
     !.todo = t]
  <2>1. prog.handlers["round"] \in Seq(Code0) /\ <<>> \in Seq(Code0)
    BY NoneYet DEF UnitInv, ProgTyped, Programs, Events
  <2> QED BY <2>1 DEF PollRounds
<1>0. /\ gui.at = "poll"
      /\ gui' = [at |-> "aux", back |-> gui.back, i |-> 1, out |-> <<>>, todo |-> t,
                 by |-> gui.by]
      /\ UNCHANGED <<timer, phase, sense, prog, robot, cb, left>>
  BY <1>y DEF UnitInv, PollRounds, GuiTyped, GuiStates
<1>z. <<>> \in Seq(Reply) /\ <<>> \in Seq(Code0) BY NoneYet
<1>1. GuiTyped' BY <1>0, <1>y, <1>z DEF UnitInv, GuiTyped, GuiStates, GuiSections
<1>2. Armed' BY <1>0, NoneYet DEF UnitInv, Armed
<1>3. Sections' BY <1>0 DEF UnitInv, Sections, Entering, ProgTyped, Programs
<1>4. Kept' BY <1>0 DEF UnitInv, Kept, ProgTyped, Programs
<1>5. Own' BY <1>0 DEF UnitInv, Own, Entering
<1>6. HandlersCurrent' BY <1>0 DEF UnitInv, HandlersCurrent, Entering
<1> QED BY <1>0, Untouched, <1>1, <1>2, <1>3, <1>4, <1>5, <1>6 DEF UnitInv

LEMMA StepGuiEmit == ASSUME UnitInv, GuiEmit PROVE UnitInv'
<1> DEFINE x == Spawn(Head(gui.todo))
           a == Append(prog.aux, x)
<1>0. /\ gui.at \in {"expired", "aux"} /\ gui.todo # <<>>
      /\ gui' = [at |-> gui.at, back |-> gui.back, i |-> gui.i, out |-> gui.out,
                 todo |-> Tail(gui.todo), by |-> gui.by]
      /\ prog' = [body |-> prog.body, aux |-> a, handlers |-> prog.handlers,
                  pending |-> prog.pending, rounds |-> prog.rounds]
      /\ UNCHANGED <<timer, phase, sense, robot, cb, left>>
  BY DEF UnitInv, GuiEmit, GuiTyped, GuiStates, ProgTyped, Programs
<1>a. x \in Reply /\ x.wait = NoWait BY <1>0, TailTyped, SpawnTyped
      DEF Reply, Spawn, UnitInv, GuiTyped, GuiStates, Code0
<1>b. /\ a \in Seq(Reply) /\ DOMAIN a = 1 .. Len(prog.aux) + 1 /\ Len(a) = Len(prog.aux) + 1
      /\ \A j \in 1 .. Len(prog.aux) : a[j] = prog.aux[j]
      /\ a[Len(prog.aux) + 1] = x /\ DOMAIN prog.aux = 1 .. Len(prog.aux) /\ Len(prog.aux)
           \in Nat
  BY <1>a, AppendTyped DEF UnitInv, ProgTyped, Programs
<1> HIDE DEF x, a
<1>1. GuiTyped' BY <1>0, TailTyped DEF UnitInv, GuiTyped, GuiStates, GuiSections
<1>2. ProgTyped' BY <1>0, <1>b DEF UnitInv, ProgTyped, Programs
<1>3. Armed'
  <2>1. x.wait.since = 0 /\ sense.seq >= 0 BY <1>a DEF NoWait, UnitInv, RestTyped, Senses
  <2>2. \A j \in DOMAIN a : a[j].wait.since <= sense.seq BY <1>b, <2>1 DEF UnitInv, Armed
  <2> QED BY <1>0, <2>2 DEF UnitInv, Armed
<1>4. Sections' BY <1>0, <1>b DEF UnitInv, Sections, Entering, GuiTyped, GuiStates
<1>5. Kept'
  <2>1. SUFFICES ASSUME gui.at \in {"aux", "auxrun"}, NEW j \in DOMAIN a, j < gui.i
                 PROVE  a[j].over \/ a[j] \in Range(gui.out)
    BY <1>0 DEF Kept
  <2>2. j \in 1 .. Len(prog.aux) BY <1>b, <2>1 DEF UnitInv, Sections, GuiTyped, GuiStates
  <2> QED BY <1>b, <2>1, <2>2 DEF UnitInv, Kept
<1>6. Own' BY <1>0 DEF UnitInv, Own, Entering
<1>7. HandlersCurrent' BY <1>0 DEF UnitInv, HandlersCurrent, Entering
<1> QED BY <1>0, Untouched, <1>1, <1>2, <1>3, <1>4, <1>5, <1>6, <1>7 DEF UnitInv

LEMMA StepAuxStarts == ASSUME UnitInv, AuxNext, gui'.at = "auxrun" PROVE UnitInv'
<1>0. /\ gui.at = "aux" /\ gui.i <= Len(prog.aux)
      /\ gui' = [at |-> "auxrun", back |-> gui.back, i |-> gui.i, out |-> gui.out,
                 todo |-> gui.todo, by |-> gui.by]
      /\ UNCHANGED <<timer, phase, sense, prog, robot, cb, left>>
  BY DEF UnitInv, AuxNext, GuiTyped, GuiStates
<1>1. GuiTyped' BY <1>0 DEF UnitInv, GuiTyped, GuiStates, GuiSections
<1>2. Armed' BY <1>0 DEF UnitInv, Armed
<1>3. Sections' BY <1>0 DEF UnitInv, Sections, Entering
<1>4. Kept' BY <1>0 DEF UnitInv, Kept
<1>5. Own' BY <1>0 DEF UnitInv, Own, Entering
<1>6. HandlersCurrent' BY <1>0 DEF UnitInv, HandlersCurrent, Entering
<1> QED BY <1>0, Untouched, <1>1, <1>2, <1>3, <1>4, <1>5, <1>6 DEF UnitInv

LEMMA StepAuxWaits == ASSUME UnitInv, AuxNext, gui'.at # "auxrun" PROVE UnitInv'
<1> DEFINE o == Append(gui.out, prog.aux[gui.i])
<1>0. /\ gui.at = "aux" /\ gui.i <= Len(prog.aux)
      /\ gui' = [at |-> gui.at, back |-> gui.back, i |-> gui.i + 1, out |-> o,
                 todo |-> gui.todo, by |-> gui.by]
      /\ UNCHANGED <<timer, phase, sense, prog, robot, cb, left>>
  BY DEF UnitInv, AuxNext, GuiTyped, GuiStates
<1>a. /\ gui.i \in DOMAIN prog.aux /\ gui.i \in Nat /\ Len(prog.aux) \in Nat
      /\ prog.aux[gui.i] \in Reply
  BY <1>0 DEF UnitInv, Sections, ProgTyped, Programs
<1>b. /\ o \in Seq(Reply) /\ DOMAIN o = 1 .. Len(gui.out) + 1
      /\ \A j \in 1 .. Len(gui.out) : o[j] = gui.out[j]
      /\ o[Len(gui.out) + 1] = prog.aux[gui.i] /\ Range(o) = Range(gui.out) \cup
           {prog.aux[gui.i]}
      /\ DOMAIN gui.out = 1 .. Len(gui.out) /\ Len(gui.out) \in Nat
  BY <1>a, AppendTyped DEF UnitInv, GuiTyped, GuiStates
<1> HIDE DEF o
<1>1. GuiTyped' BY <1>0, <1>a, <1>b DEF UnitInv, GuiTyped, GuiStates, GuiSections
<1>2. Armed'
  <2>1. ASSUME NEW j \in DOMAIN o PROVE o[j].wait.since <= sense.seq
    <3>1. CASE j = Len(gui.out) + 1 BY <1>a, <1>b, <3>1 DEF UnitInv, Armed
    <3>2. CASE j \in 1 .. Len(gui.out) BY <1>b, <3>2 DEF UnitInv, Armed
    <3> QED BY <1>b, <3>1, <3>2
  <2> QED BY <1>0, <2>1 DEF UnitInv, Armed
<1>3. Sections' BY <1>0, <1>a DEF UnitInv, Sections, Entering
<1>4. Kept' BY <1>0, <1>a, <1>b DEF UnitInv, Kept, ProgTyped, Programs
<1>5. Own' BY <1>0 DEF UnitInv, Own, Entering
<1>6. HandlersCurrent' BY <1>0 DEF UnitInv, HandlersCurrent, Entering
<1> QED BY <1>0, Untouched, <1>1, <1>2, <1>3, <1>4, <1>5, <1>6 DEF UnitInv

LEMMA StepAuxEnd == ASSUME UnitInv, AuxEnd PROVE UnitInv'
<1>0. /\ gui.at = "aux" /\ gui.i > Len(prog.aux)
      /\ gui' = [at |-> "idle", back |-> "idle", i |-> 0, out |-> <<>>, todo |-> <<>>,
                 by |-> "tick"]
      /\ prog' = [body |-> prog.body, aux |-> gui.out, handlers |-> prog.handlers,
                  pending |-> prog.pending, rounds |-> prog.rounds]
      /\ cb' = [at |-> cb.at, new |-> cb.new, code |-> cb.code,
                stale |-> (cb.at = "append"), todo |-> cb.todo, n |-> cb.n,
                     button |-> cb.button, pressed |-> cb.pressed]
      /\ UNCHANGED <<timer, phase, sense, robot, left>>
  BY DEF UnitInv, AuxEnd, GuiTyped, GuiStates, ProgTyped, Programs, CbTyped, CbStates,
     IdleGui
<1>z. <<>> \in Seq(Reply) /\ <<>> \in Seq(Code0) BY NoneYet
<1>1. GuiTyped' BY <1>0, <1>z DEF UnitInv, GuiTyped, GuiStates, GuiSections
<1>2. ProgTyped' BY <1>0 DEF UnitInv, ProgTyped, Programs, GuiTyped, GuiStates
<1>3. CbTyped' BY <1>0 DEF UnitInv, CbTyped, CbStates, CbSections
<1>4. Counted' BY <1>0 DEF UnitInv, Counted
<1>5. Armed' BY <1>0, NoneYet DEF UnitInv, Armed
<1>6. Sections' BY <1>0 DEF UnitInv, Sections, Entering
<1>7. Kept' BY <1>0 DEF UnitInv, Kept
<1>8. Own' BY <1>0 DEF UnitInv, Own, Entering
<1>9. HandlersCurrent' BY <1>0 DEF UnitInv, HandlersCurrent, Entering
<1> QED BY <1>0, Untouched, <1>1, <1>2, <1>3, <1>4, <1>5, <1>6, <1>7, <1>8, <1>9
   DEF UnitInv

LEMMA StepRunCompoundBody == ASSUME UnitInv, RunCompound, gui.at = "body" PROVE UnitInv'
<1>y. /\ phase \in Phases /\ Code = prog.body.code /\ Code \in Seq(BodySteps[phase])
      /\ Closed(BodySteps[phase]) /\ \A c \in Seq(BodySteps[phase]) : c \in Seq(BodyStep)
  BY BodyHere
<1> DEFINE x == Expand(Head(Code)) \o Tail(Code)
<1>x. x \in Seq(BodySteps[phase])
  <2>1. Head(Code) \in BodySteps[phase] /\ Tail(Code) \in Seq(BodySteps[phase]) /\
       Head(Code).verb \in Compound
    BY <1>y, TailTyped DEF RunCompound, At
  <2>2. Expand(Head(Code)) \in Seq(BodySteps[phase]) BY <1>y, <2>1, ExpandTyped
  <2> QED BY <2>1, <2>2, JoinTyped
<1>0. /\ gui.at = "body"
      /\ prog' = [body |-> [code |-> x, wait |-> prog.body.wait, over |-> prog.body.over],
                  aux |-> prog.aux, handlers |-> prog.handlers, pending |-> prog.pending,
                       rounds |-> prog.rounds]
      /\ UNCHANGED <<timer, phase, sense, robot, gui, cb, left>>
  BY <1>y DEF UnitInv, RunCompound, ProgTyped, Programs, At, Running, WithCode, Program
<1> HIDE DEF x
<1>1. ProgTyped' BY <1>0, <1>y, <1>x DEF UnitInv, ProgTyped, Programs, Program
<1>2. Armed' BY <1>0 DEF UnitInv, Armed, RestTyped, Senses
<1>3. Sections' BY <1>0 DEF UnitInv, Sections, Entering
<1>4. Kept' BY <1>0 DEF UnitInv, Kept
<1>5. Own' BY <1>0, <1>y, <1>x DEF UnitInv, Own, Entering
<1>6. HandlersCurrent' BY <1>0 DEF UnitInv, HandlersCurrent, Entering
<1> QED BY <1>0, Untouched, <1>1, <1>2, <1>3, <1>4, <1>5, <1>6 DEF UnitInv

LEMMA StepRunCompoundReply ==
  ASSUME UnitInv, RunCompound, gui.at # "body"
  PROVE  UnitInv'
<1>y. /\ gui.i \in 1 .. Len(prog.aux) /\ DOMAIN prog.aux = 1 .. Len(prog.aux)
      /\ prog.aux \in Seq(Reply) /\ Len(prog.aux) \in Nat /\ prog.aux[gui.i] \in Reply
      /\ gui.at = "auxrun" /\ Code = prog.aux[gui.i].code /\ Code \in Seq(ReplySteps)
      /\ Closed(ReplySteps) /\ \A s \in ReplySteps : s.verb # "when"
  BY ReplyHere DEF RunCompound, At, Running
<1> DEFINE x == Expand(Head(Code)) \o Tail(Code)
           y == [code |-> x, wait |-> prog.aux[gui.i].wait, over |-> prog.aux[gui.i].over]
           a == [prog.aux EXCEPT ![gui.i] = y]
<1>x. x \in Seq(ReplySteps)
  <2>1. Head(Code) \in ReplySteps /\ Tail(Code) \in Seq(ReplySteps) /\ Head(Code).verb \in
       Compound
    BY <1>y, TailTyped DEF RunCompound, At
  <2>2. Expand(Head(Code)) \in Seq(ReplySteps) BY <1>y, <2>1, ExpandTyped
  <2> QED BY <2>1, <2>2, JoinTyped
<1>v. a = [prog.aux EXCEPT ![gui.i].code = x]
  <2> HIDE DEF x
  <2>1. [prog.aux[gui.i] EXCEPT !.code = x] = y BY <1>y DEF Reply, Program
  <2> QED BY <2>1
<1>0. /\ gui.at = "auxrun"
      /\ prog' = [body |-> prog.body, aux |-> a, handlers |-> prog.handlers,
                  pending |-> prog.pending, rounds |-> prog.rounds]
      /\ UNCHANGED <<timer, phase, sense, robot, gui, cb, left>>
  BY <1>v, <1>y DEF UnitInv, RunCompound, ProgTyped, Programs, At, Running, WithCode
<1>a. y \in Reply /\ y.wait = prog.aux[gui.i].wait /\ y.over = prog.aux[gui.i].over
  <2> HIDE DEF x
  <2> QED BY <1>x, <1>y DEF Reply, Program
<1> HIDE DEF x, y
<1>b. /\ a \in Seq(Reply) /\ Len(a) = Len(prog.aux) /\ DOMAIN a = DOMAIN prog.aux
      /\ \A j \in DOMAIN prog.aux : a[j] = IF j = gui.i THEN y ELSE prog.aux[j]
  BY <1>a, <1>y, ReplaceTyped
<1> HIDE DEF a
<1>1. ProgTyped' BY <1>0, <1>b DEF UnitInv, ProgTyped, Programs
<1>2. Armed' BY <1>0, <1>a, <1>b, <1>y DEF UnitInv, Armed
<1>3. Sections' BY <1>0, <1>b DEF UnitInv, Sections, Entering
<1>4. Kept'
  <2>1. SUFFICES ASSUME NEW j \in DOMAIN prog.aux, j < gui.i
                 PROVE  a[j].over \/ a[j] \in Range(gui.out)
    BY <1>0, <1>b DEF Kept
  <2>2. a[j] = prog.aux[j] BY <1>b, <1>y, <2>1
  <2> QED BY <1>0, <2>1, <2>2 DEF UnitInv, Kept
<1>5. Own' BY <1>0 DEF UnitInv, Own, Entering
<1>6. HandlersCurrent' BY <1>0 DEF UnitInv, HandlersCurrent, Entering
<1> QED BY <1>0, Untouched, <1>1, <1>2, <1>3, <1>4, <1>5, <1>6 DEF UnitInv

LEMMA StepRunGroupRhythmBody ==
  ASSUME UnitInv, RunGroupRhythm, gui.at = "body"
  PROVE  UnitInv'
<1>y. /\ phase \in Phases /\ Code = prog.body.code /\ Code \in Seq(BodySteps[phase])
      /\ Closed(BodySteps[phase]) /\ \A c \in Seq(BodySteps[phase]) : c \in Seq(BodyStep)
  BY BodyHere
<1> DEFINE x == Tail(Code)
<1>x. x \in Seq(BodySteps[phase]) BY <1>y, TailTyped DEF RunGroupRhythm, At
<1>0. /\ gui.at = "body"
      /\ prog' = [body |-> [code |-> x, wait |-> prog.body.wait, over |-> prog.body.over],
                  aux |-> prog.aux, handlers |-> prog.handlers, pending |-> prog.pending,
                       rounds |-> TRUE]
      /\ UNCHANGED <<timer, phase, sense, robot, gui, cb, left>>
  BY <1>y DEF UnitInv, RunGroupRhythm, ProgTyped, Programs, At, Running, WithCode, Program
<1> HIDE DEF x
<1>1. ProgTyped' BY <1>0, <1>y, <1>x DEF UnitInv, ProgTyped, Programs, Program
<1>2. Armed' BY <1>0 DEF UnitInv, Armed, RestTyped, Senses
<1>3. Sections' BY <1>0 DEF UnitInv, Sections, Entering
<1>4. Kept' BY <1>0 DEF UnitInv, Kept
<1>5. Own' BY <1>0, <1>y, <1>x DEF UnitInv, Own, Entering
<1>6. HandlersCurrent' BY <1>0 DEF UnitInv, HandlersCurrent, Entering
<1> QED BY <1>0, Untouched, <1>1, <1>2, <1>3, <1>4, <1>5, <1>6 DEF UnitInv

LEMMA StepRunGroupRhythmReply ==
  ASSUME UnitInv, RunGroupRhythm, gui.at # "body"
  PROVE  UnitInv'
<1>y. /\ gui.i \in 1 .. Len(prog.aux) /\ DOMAIN prog.aux = 1 .. Len(prog.aux)
      /\ prog.aux \in Seq(Reply) /\ Len(prog.aux) \in Nat /\ prog.aux[gui.i] \in Reply
      /\ gui.at = "auxrun" /\ Code = prog.aux[gui.i].code /\ Code \in Seq(ReplySteps)
      /\ Closed(ReplySteps) /\ \A s \in ReplySteps : s.verb # "when"
  BY ReplyHere DEF RunGroupRhythm, At, Running
<1> DEFINE x == Tail(Code)
           y == [code |-> x, wait |-> prog.aux[gui.i].wait, over |-> prog.aux[gui.i].over]
           a == [prog.aux EXCEPT ![gui.i] = y]
<1>x. x \in Seq(ReplySteps) BY <1>y, TailTyped DEF RunGroupRhythm, At
<1>v. a = [prog.aux EXCEPT ![gui.i].code = x]
  <2> HIDE DEF x
  <2>1. [prog.aux[gui.i] EXCEPT !.code = x] = y BY <1>y DEF Reply, Program
  <2> QED BY <2>1
<1>0. /\ gui.at = "auxrun"
      /\ prog' = [body |-> prog.body, aux |-> a, handlers |-> prog.handlers,
                  pending |-> prog.pending, rounds |-> TRUE]
      /\ UNCHANGED <<timer, phase, sense, robot, gui, cb, left>>
  BY <1>v, <1>y DEF UnitInv, RunGroupRhythm, ProgTyped, Programs, At, Running, WithCode
<1>a. y \in Reply /\ y.wait = prog.aux[gui.i].wait /\ y.over = prog.aux[gui.i].over
  <2> HIDE DEF x
  <2> QED BY <1>x, <1>y DEF Reply, Program
<1> HIDE DEF x, y
<1>b. /\ a \in Seq(Reply) /\ Len(a) = Len(prog.aux) /\ DOMAIN a = DOMAIN prog.aux
      /\ \A j \in DOMAIN prog.aux : a[j] = IF j = gui.i THEN y ELSE prog.aux[j]
  BY <1>a, <1>y, ReplaceTyped
<1> HIDE DEF a
<1>1. ProgTyped' BY <1>0, <1>b DEF UnitInv, ProgTyped, Programs
<1>2. Armed' BY <1>0, <1>a, <1>b, <1>y DEF UnitInv, Armed
<1>3. Sections' BY <1>0, <1>b DEF UnitInv, Sections, Entering
<1>4. Kept'
  <2>1. SUFFICES ASSUME NEW j \in DOMAIN prog.aux, j < gui.i
                 PROVE  a[j].over \/ a[j] \in Range(gui.out)
    BY <1>0, <1>b DEF Kept
  <2>2. a[j] = prog.aux[j] BY <1>b, <1>y, <2>1
  <2> QED BY <1>0, <2>1, <2>2 DEF UnitInv, Kept
<1>5. Own' BY <1>0 DEF UnitInv, Own, Entering
<1>6. HandlersCurrent' BY <1>0 DEF UnitInv, HandlersCurrent, Entering
<1> QED BY <1>0, Untouched, <1>1, <1>2, <1>3, <1>4, <1>5, <1>6 DEF UnitInv

LEMMA StepRunProgressBody == ASSUME UnitInv, RunProgress, gui.at = "body" PROVE UnitInv'
<1>y. /\ phase \in Phases /\ Code = prog.body.code /\ Code \in Seq(BodySteps[phase])
      /\ Closed(BodySteps[phase]) /\ \A c \in Seq(BodySteps[phase]) : c \in Seq(BodyStep)
  BY BodyHere
<1> DEFINE x == Tail(Code)
<1>x. x \in Seq(BodySteps[phase]) BY <1>y, TailTyped DEF RunProgress, At
<1>0. /\ gui.at = "body"
      /\ prog' = [body |-> [code |-> x, wait |-> prog.body.wait, over |-> prog.body.over],
                  aux |-> prog.aux, handlers |-> prog.handlers,
                       pending |-> IF sense.count["touch"] >= Head(Code).segments THEN
                            Head(Code).to ELSE prog.pending, rounds |-> prog.rounds]
      /\ UNCHANGED <<timer, phase, sense, robot, gui, cb, left>>
  BY <1>y DEF UnitInv, RunProgress, ProgTyped, Programs, At, Running, WithCode, Program
<1> HIDE DEF x
<1>w. Head(Code).to \in Phases
  <2>1. Head(Code) \in BodySteps[phase] /\ Head(Code).verb = "touch_progress"
    BY <1>y, TailTyped DEF RunProgress, At
  <2> QED BY <1>y, <2>1 DEF Closed
<1>1. ProgTyped' BY <1>0, <1>y, <1>x, <1>w DEF UnitInv, ProgTyped, Programs, Program
<1>2. Armed' BY <1>0 DEF UnitInv, Armed, RestTyped, Senses
<1>3. Sections' BY <1>0 DEF UnitInv, Sections, Entering
<1>4. Kept' BY <1>0 DEF UnitInv, Kept
<1>5. Own' BY <1>0, <1>y, <1>x DEF UnitInv, Own, Entering
<1>6. HandlersCurrent' BY <1>0 DEF UnitInv, HandlersCurrent, Entering
<1> QED BY <1>0, Untouched, <1>1, <1>2, <1>3, <1>4, <1>5, <1>6 DEF UnitInv

LEMMA StepRunProgressReply ==
  ASSUME UnitInv, RunProgress, gui.at # "body"
  PROVE  UnitInv'
<1>y. /\ gui.i \in 1 .. Len(prog.aux) /\ DOMAIN prog.aux = 1 .. Len(prog.aux)
      /\ prog.aux \in Seq(Reply) /\ Len(prog.aux) \in Nat /\ prog.aux[gui.i] \in Reply
      /\ gui.at = "auxrun" /\ Code = prog.aux[gui.i].code /\ Code \in Seq(ReplySteps)
      /\ Closed(ReplySteps) /\ \A s \in ReplySteps : s.verb # "when"
  BY ReplyHere DEF RunProgress, At, Running
<1> DEFINE x == Tail(Code)
           y == [code |-> x, wait |-> prog.aux[gui.i].wait, over |-> prog.aux[gui.i].over]
           a == [prog.aux EXCEPT ![gui.i] = y]
<1>x. x \in Seq(ReplySteps) BY <1>y, TailTyped DEF RunProgress, At
<1>v. a = [prog.aux EXCEPT ![gui.i].code = x]
  <2> HIDE DEF x
  <2>1. [prog.aux[gui.i] EXCEPT !.code = x] = y BY <1>y DEF Reply, Program
  <2> QED BY <2>1
<1>0. /\ gui.at = "auxrun"
      /\ prog' = [body |-> prog.body, aux |-> a, handlers |-> prog.handlers,
                  pending |-> IF sense.count["touch"] >= Head(Code).segments THEN
                       Head(Code).to ELSE prog.pending, rounds |-> prog.rounds]
      /\ UNCHANGED <<timer, phase, sense, robot, gui, cb, left>>
  BY <1>v, <1>y DEF UnitInv, RunProgress, ProgTyped, Programs, At, Running, WithCode
<1>a. y \in Reply /\ y.wait = prog.aux[gui.i].wait /\ y.over = prog.aux[gui.i].over
  <2> HIDE DEF x
  <2> QED BY <1>x, <1>y DEF Reply, Program
<1> HIDE DEF x, y
<1>b. /\ a \in Seq(Reply) /\ Len(a) = Len(prog.aux) /\ DOMAIN a = DOMAIN prog.aux
      /\ \A j \in DOMAIN prog.aux : a[j] = IF j = gui.i THEN y ELSE prog.aux[j]
  BY <1>a, <1>y, ReplaceTyped
<1> HIDE DEF a
<1>w. Head(Code).to \in Phases
  <2>1. Head(Code) \in ReplySteps /\ Head(Code).verb = "touch_progress"
    BY <1>y, TailTyped DEF RunProgress, At
  <2> QED BY <1>y, <2>1 DEF Closed
<1>1. ProgTyped' BY <1>0, <1>b, <1>w DEF UnitInv, ProgTyped, Programs
<1>2. Armed' BY <1>0, <1>a, <1>b, <1>y DEF UnitInv, Armed
<1>3. Sections' BY <1>0, <1>b DEF UnitInv, Sections, Entering
<1>4. Kept'
  <2>1. SUFFICES ASSUME NEW j \in DOMAIN prog.aux, j < gui.i
                 PROVE  a[j].over \/ a[j] \in Range(gui.out)
    BY <1>0, <1>b DEF Kept
  <2>2. a[j] = prog.aux[j] BY <1>b, <1>y, <2>1
  <2> QED BY <1>0, <2>1, <2>2 DEF UnitInv, Kept
<1>5. Own' BY <1>0 DEF UnitInv, Own, Entering
<1>6. HandlersCurrent' BY <1>0 DEF UnitInv, HandlersCurrent, Entering
<1> QED BY <1>0, Untouched, <1>1, <1>2, <1>3, <1>4, <1>5, <1>6 DEF UnitInv

LEMMA StepRunActionBody == ASSUME UnitInv, RunAction, gui.at = "body" PROVE UnitInv'
<1>y. /\ phase \in Phases /\ Code = prog.body.code /\ Code \in Seq(BodySteps[phase])
      /\ Closed(BodySteps[phase]) /\ \A c \in Seq(BodySteps[phase]) : c \in Seq(BodyStep)
  BY BodyHere
<1> DEFINE x == Tail(Code)
<1>x. x \in Seq(BodySteps[phase]) BY <1>y, TailTyped DEF RunAction, At
<1>0. /\ gui.at = "body"
      /\ prog' = [body |-> [code |-> x, wait |-> prog.body.wait, over |-> prog.body.over],
                  aux |-> prog.aux, handlers |-> prog.handlers, pending |-> prog.pending,
                       rounds |-> prog.rounds]
      /\ UNCHANGED <<timer, phase, sense, gui, cb, left>>
  BY <1>y DEF UnitInv, RunAction, ProgTyped, Programs, At, Running, WithCode, Program
<1> HIDE DEF x
<1>w. RobotShape'
  <2>1. Head(Code) \in BodySteps[phase] /\ Head(Code).verb \in {"set_pressure",
       "set_motors", "change_value", "log"}
    BY <1>y, TailTyped DEF RunAction, At
  <2>2. /\ Head(Code).verb = "set_pressure" => Head(Code).pct \in {"low", "high"}
        /\ Head(Code).verb = "set_motors" => Head(Code).to \in {"still", "stroke"}
    BY <1>y, <2>1 DEF Closed
  <2> QED BY <2>1, <2>2 DEF RunAction, RobotShape, UnitInv, RestTyped
<1>1. ProgTyped' BY <1>0, <1>y, <1>x DEF UnitInv, ProgTyped, Programs, Program
<1>2. RestTyped' BY <1>0, <1>w DEF UnitInv, RestTyped
<1>3. Armed' BY <1>0 DEF UnitInv, Armed, RestTyped, Senses
<1>4. Sections' BY <1>0 DEF UnitInv, Sections, Entering
<1>5. Kept' BY <1>0 DEF UnitInv, Kept
<1>6. Own' BY <1>0, <1>y, <1>x DEF UnitInv, Own, Entering
<1>7. HandlersCurrent' BY <1>0 DEF UnitInv, HandlersCurrent, Entering
<1> QED BY <1>0, Untouched, <1>1, <1>2, <1>3, <1>4, <1>5, <1>6, <1>7 DEF UnitInv

LEMMA StepRunActionReply == ASSUME UnitInv, RunAction, gui.at # "body" PROVE UnitInv'
<1>y. /\ gui.i \in 1 .. Len(prog.aux) /\ DOMAIN prog.aux = 1 .. Len(prog.aux)
      /\ prog.aux \in Seq(Reply) /\ Len(prog.aux) \in Nat /\ prog.aux[gui.i] \in Reply
      /\ gui.at = "auxrun" /\ Code = prog.aux[gui.i].code /\ Code \in Seq(ReplySteps)
      /\ Closed(ReplySteps) /\ \A s \in ReplySteps : s.verb # "when"
  BY ReplyHere DEF RunAction, At, Running
<1> DEFINE x == Tail(Code)
           y == [code |-> x, wait |-> prog.aux[gui.i].wait, over |-> prog.aux[gui.i].over]
           a == [prog.aux EXCEPT ![gui.i] = y]
<1>x. x \in Seq(ReplySteps) BY <1>y, TailTyped DEF RunAction, At
<1>v. a = [prog.aux EXCEPT ![gui.i].code = x]
  <2> HIDE DEF x
  <2>1. [prog.aux[gui.i] EXCEPT !.code = x] = y BY <1>y DEF Reply, Program
  <2> QED BY <2>1
<1>0. /\ gui.at = "auxrun"
      /\ prog' = [body |-> prog.body, aux |-> a, handlers |-> prog.handlers,
                  pending |-> prog.pending, rounds |-> prog.rounds]
      /\ UNCHANGED <<timer, phase, sense, gui, cb, left>>
  BY <1>v, <1>y DEF UnitInv, RunAction, ProgTyped, Programs, At, Running, WithCode
<1>a. y \in Reply /\ y.wait = prog.aux[gui.i].wait /\ y.over = prog.aux[gui.i].over
  <2> HIDE DEF x
  <2> QED BY <1>x, <1>y DEF Reply, Program
<1> HIDE DEF x, y
<1>b. /\ a \in Seq(Reply) /\ Len(a) = Len(prog.aux) /\ DOMAIN a = DOMAIN prog.aux
      /\ \A j \in DOMAIN prog.aux : a[j] = IF j = gui.i THEN y ELSE prog.aux[j]
  BY <1>a, <1>y, ReplaceTyped
<1> HIDE DEF a
<1>w. RobotShape'
  <2>1. Head(Code) \in ReplySteps /\ Head(Code).verb \in {"set_pressure", "set_motors",
       "change_value", "log"}
    BY <1>y, TailTyped DEF RunAction, At
  <2>2. /\ Head(Code).verb = "set_pressure" => Head(Code).pct \in {"low", "high"}
        /\ Head(Code).verb = "set_motors" => Head(Code).to \in {"still", "stroke"}
    BY <1>y, <2>1 DEF Closed
  <2> QED BY <2>1, <2>2 DEF RunAction, RobotShape, UnitInv, RestTyped
<1>1. ProgTyped' BY <1>0, <1>b DEF UnitInv, ProgTyped, Programs
<1>2. RestTyped' BY <1>0, <1>w DEF UnitInv, RestTyped
<1>3. Armed' BY <1>0, <1>a, <1>b, <1>y DEF UnitInv, Armed
<1>4. Sections' BY <1>0, <1>b DEF UnitInv, Sections, Entering
<1>5. Kept'
  <2>1. SUFFICES ASSUME NEW j \in DOMAIN prog.aux, j < gui.i
                 PROVE  a[j].over \/ a[j] \in Range(gui.out)
    BY <1>0, <1>b DEF Kept
  <2>2. a[j] = prog.aux[j] BY <1>b, <1>y, <2>1
  <2> QED BY <1>0, <2>1, <2>2 DEF UnitInv, Kept
<1>6. Own' BY <1>0 DEF UnitInv, Own, Entering
<1>7. HandlersCurrent' BY <1>0 DEF UnitInv, HandlersCurrent, Entering
<1> QED BY <1>0, Untouched, <1>1, <1>2, <1>3, <1>4, <1>5, <1>6, <1>7 DEF UnitInv

LEMMA StepRunWaitBodyEnds ==
  ASSUME UnitInv, RunWait, gui.at = "body", gui.back = "idle"
  PROVE  UnitInv'
<1>y. /\ phase \in Phases /\ Code = prog.body.code /\ Code \in Seq(BodySteps[phase])
      /\ Closed(BodySteps[phase]) /\ \A c \in Seq(BodySteps[phase]) : c \in Seq(BodyStep)
  BY BodyHere
<1> DEFINE w == IF Head(Code).verb = "wait" THEN [kind |-> "ms", since |-> 0]
                ELSE [kind |-> "touch", since |-> sense.seq]
           p == [Spawn(Tail(Code)) EXCEPT !.wait = w]
<1>x. Tail(Code) \in Seq(BodySteps[phase]) BY <1>y, TailTyped DEF RunWait, At
<1>w. w \in Waits /\ w.since <= sense.seq BY DEF Waits, UnitInv, RestTyped, Senses
<1>s. prog' = [prog EXCEPT !.body = p] /\ gui' = IdleGui
      /\ UNCHANGED <<timer, phase, sense, robot, cb, left>>
  BY <1>y DEF RunWait
<1>p. p \in Program(BodySteps[phase]) /\ p.code = Tail(Code) /\ p.wait = w
  <2> DEFINE S == BodySteps[phase]
  <2>1. w \in Waits /\ Tail(Code) \in Seq(S) BY <1>w, <1>x
  <2> HIDE DEF w, S
  <2>2. p \in Program(S) /\ p.code = Tail(Code) /\ p.wait = w BY <2>1
        DEF Spawn, NoWait, Program
  <2> QED BY <2>2 DEF S
<1> HIDE DEF w, p
<1>0. /\ gui.at = "body" /\ gui.back = "idle"
      /\ gui' = [at |-> "idle", back |-> "idle", i |-> 0, out |-> <<>>, todo |-> <<>>,
                 by |-> "tick"]
      /\ prog' = [body |-> p, aux |-> prog.aux, handlers |-> prog.handlers,
                  pending |-> prog.pending, rounds |-> prog.rounds]
      /\ UNCHANGED <<timer, phase, sense, robot, cb, left>>
  BY <1>s DEF UnitInv, RunWait, GuiTyped, GuiStates, ProgTyped, Programs, IdleGui
<1>q. p \in Program(BodyStep) BY <1>p, <1>x, <1>y DEF Program
<1>z. <<>> \in Seq(Reply) /\ <<>> \in Seq(Code0) BY NoneYet
<1>1. GuiTyped' BY <1>0, <1>z DEF UnitInv, GuiTyped, GuiStates, GuiSections
<1>2. ProgTyped' BY <1>0, <1>q DEF UnitInv, ProgTyped, Programs
<1>3. Armed' BY <1>0, <1>p, <1>w, NoneYet DEF UnitInv, Armed
<1>4. Sections' BY <1>0 DEF UnitInv, Sections, Entering
<1>5. Kept' BY <1>0 DEF UnitInv, Kept
<1>6. Own' BY <1>0, <1>p, <1>x DEF UnitInv, Own, Entering
<1>7. HandlersCurrent' BY <1>0 DEF UnitInv, HandlersCurrent, Entering
<1> QED BY <1>0, Untouched, <1>1, <1>2, <1>3, <1>4, <1>5, <1>6, <1>7 DEF UnitInv

LEMMA StepRunEndBodyEnds ==
  ASSUME UnitInv, RunEnd, gui.at = "body", gui.back = "idle"
  PROVE  UnitInv'
<1>y. /\ phase \in Phases /\ Code = prog.body.code /\ Code \in Seq(BodySteps[phase])
      /\ Closed(BodySteps[phase]) /\ \A c \in Seq(BodySteps[phase]) : c \in Seq(BodyStep)
  BY BodyHere
<1> DEFINE p == [prog.body EXCEPT !.over = TRUE]
<1>s. prog' = [prog EXCEPT !.body = p] /\ gui' = IdleGui
      /\ UNCHANGED <<timer, phase, sense, robot, cb, left>>
  BY DEF RunEnd
<1>p. p \in Program(BodyStep) /\ p.code = prog.body.code /\ p.wait = prog.body.wait
  BY OverTyped DEF UnitInv, ProgTyped, Programs
<1> HIDE DEF p
<1>0. /\ gui.at = "body" /\ gui.back = "idle"
      /\ gui' = [at |-> "idle", back |-> "idle", i |-> 0, out |-> <<>>, todo |-> <<>>,
                 by |-> "tick"]
      /\ prog' = [body |-> p, aux |-> prog.aux, handlers |-> prog.handlers,
                  pending |-> prog.pending, rounds |-> prog.rounds]
      /\ UNCHANGED <<timer, phase, sense, robot, cb, left>>
  BY <1>s DEF UnitInv, RunEnd, GuiTyped, GuiStates, ProgTyped, Programs, IdleGui
<1>z. <<>> \in Seq(Reply) /\ <<>> \in Seq(Code0) BY NoneYet
<1>1. GuiTyped' BY <1>0, <1>z DEF UnitInv, GuiTyped, GuiStates, GuiSections
<1>2. ProgTyped' BY <1>0, <1>p DEF UnitInv, ProgTyped, Programs
<1>3. Armed' BY <1>0, <1>p, NoneYet DEF UnitInv, Armed
<1>4. Sections' BY <1>0 DEF UnitInv, Sections, Entering
<1>5. Kept' BY <1>0 DEF UnitInv, Kept
<1>6. Own' BY <1>0, <1>p, <1>y DEF UnitInv, Own, Entering
<1>7. HandlersCurrent' BY <1>0 DEF UnitInv, HandlersCurrent, Entering
<1> QED BY <1>0, Untouched, <1>1, <1>2, <1>3, <1>4, <1>5, <1>6, <1>7 DEF UnitInv

LEMMA StepRunWaitBodyYields ==
  ASSUME UnitInv, RunWait, gui.at = "body", gui.back = "poll"
  PROVE  UnitInv'
<1>y. /\ phase \in Phases /\ Code = prog.body.code /\ Code \in Seq(BodySteps[phase])
      /\ Closed(BodySteps[phase]) /\ \A c \in Seq(BodySteps[phase]) : c \in Seq(BodyStep)
  BY BodyHere
<1> DEFINE w == IF Head(Code).verb = "wait" THEN [kind |-> "ms", since |-> 0]
                ELSE [kind |-> "touch", since |-> sense.seq]
           p == [Spawn(Tail(Code)) EXCEPT !.wait = w]
<1>x. Tail(Code) \in Seq(BodySteps[phase]) BY <1>y, TailTyped DEF RunWait, At
<1>w. w \in Waits /\ w.since <= sense.seq BY DEF Waits, UnitInv, RestTyped, Senses
<1>s. prog' = [prog EXCEPT !.body = p] /\ gui' = [gui EXCEPT !.at = "poll"]
      /\ UNCHANGED <<timer, phase, sense, robot, cb, left>>
  BY <1>y DEF RunWait
<1>p. p \in Program(BodySteps[phase]) /\ p.code = Tail(Code) /\ p.wait = w
  <2> DEFINE S == BodySteps[phase]
  <2>1. w \in Waits /\ Tail(Code) \in Seq(S) BY <1>w, <1>x
  <2> HIDE DEF w, S
  <2>2. p \in Program(S) /\ p.code = Tail(Code) /\ p.wait = w BY <2>1
        DEF Spawn, NoWait, Program
  <2> QED BY <2>2 DEF S
<1> HIDE DEF w, p
<1>0. /\ gui.at = "body" /\ gui.back = "poll"
      /\ gui' = [at |-> "poll", back |-> gui.back, i |-> gui.i, out |-> gui.out,
                 todo |-> gui.todo, by |-> gui.by]
      /\ prog' = [body |-> p, aux |-> prog.aux, handlers |-> prog.handlers,
                  pending |-> prog.pending, rounds |-> prog.rounds]
      /\ UNCHANGED <<timer, phase, sense, robot, cb, left>>
  BY <1>s DEF UnitInv, RunWait, GuiTyped, GuiStates, ProgTyped, Programs, IdleGui
<1>q. p \in Program(BodyStep) BY <1>p, <1>x, <1>y DEF Program
<1>1. GuiTyped' BY <1>0 DEF UnitInv, GuiTyped, GuiStates, GuiSections
<1>2. ProgTyped' BY <1>0, <1>q DEF UnitInv, ProgTyped, Programs
<1>3. Armed' BY <1>0, <1>p, <1>w DEF UnitInv, Armed
<1>4. Sections' BY <1>0 DEF UnitInv, Sections, Entering
<1>5. Kept' BY <1>0 DEF UnitInv, Kept
<1>6. Own' BY <1>0, <1>p, <1>x DEF UnitInv, Own, Entering
<1>7. HandlersCurrent' BY <1>0 DEF UnitInv, HandlersCurrent, Entering
<1> QED BY <1>0, Untouched, <1>1, <1>2, <1>3, <1>4, <1>5, <1>6, <1>7 DEF UnitInv

LEMMA StepRunEndBodyYields ==
  ASSUME UnitInv, RunEnd, gui.at = "body", gui.back = "poll"
  PROVE  UnitInv'
<1>y. /\ phase \in Phases /\ Code = prog.body.code /\ Code \in Seq(BodySteps[phase])
      /\ Closed(BodySteps[phase]) /\ \A c \in Seq(BodySteps[phase]) : c \in Seq(BodyStep)
  BY BodyHere
<1> DEFINE p == [prog.body EXCEPT !.over = TRUE]
<1>s. prog' = [prog EXCEPT !.body = p] /\ gui' = [gui EXCEPT !.at = "poll"]
      /\ UNCHANGED <<timer, phase, sense, robot, cb, left>>
  BY DEF RunEnd
<1>p. p \in Program(BodyStep) /\ p.code = prog.body.code /\ p.wait = prog.body.wait
  BY OverTyped DEF UnitInv, ProgTyped, Programs
<1> HIDE DEF p
<1>0. /\ gui.at = "body" /\ gui.back = "poll"
      /\ gui' = [at |-> "poll", back |-> gui.back, i |-> gui.i, out |-> gui.out,
                 todo |-> gui.todo, by |-> gui.by]
      /\ prog' = [body |-> p, aux |-> prog.aux, handlers |-> prog.handlers,
                  pending |-> prog.pending, rounds |-> prog.rounds]
      /\ UNCHANGED <<timer, phase, sense, robot, cb, left>>
  BY <1>s DEF UnitInv, RunEnd, GuiTyped, GuiStates, ProgTyped, Programs, IdleGui
<1>1. GuiTyped' BY <1>0 DEF UnitInv, GuiTyped, GuiStates, GuiSections
<1>2. ProgTyped' BY <1>0, <1>p DEF UnitInv, ProgTyped, Programs
<1>3. Armed' BY <1>0, <1>p DEF UnitInv, Armed
<1>4. Sections' BY <1>0 DEF UnitInv, Sections, Entering
<1>5. Kept' BY <1>0 DEF UnitInv, Kept
<1>6. Own' BY <1>0, <1>p, <1>y DEF UnitInv, Own, Entering
<1>7. HandlersCurrent' BY <1>0 DEF UnitInv, HandlersCurrent, Entering
<1> QED BY <1>0, Untouched, <1>1, <1>2, <1>3, <1>4, <1>5, <1>6, <1>7 DEF UnitInv

LEMMA StepRunWaitReply == ASSUME UnitInv, RunWait, gui.at # "body" PROVE UnitInv'
<1>y. /\ gui.i \in 1 .. Len(prog.aux) /\ DOMAIN prog.aux = 1 .. Len(prog.aux)
      /\ prog.aux \in Seq(Reply) /\ Len(prog.aux) \in Nat /\ prog.aux[gui.i] \in Reply
      /\ gui.at = "auxrun" /\ Code = prog.aux[gui.i].code /\ Code \in Seq(ReplySteps)
  BY ReplyHere DEF RunWait, At, Running
<1> DEFINE w == IF Head(Code).verb = "wait" THEN [kind |-> "ms", since |-> 0]
                ELSE [kind |-> "touch", since |-> sense.seq]
           p == [Spawn(Tail(Code)) EXCEPT !.wait = w]
<1>x. Tail(Code) \in Seq(ReplySteps) BY <1>y, TailTyped DEF RunWait, At
<1>w. w \in Waits /\ w.since <= sense.seq BY DEF Waits, UnitInv, RestTyped, Senses
<1>s. /\ prog' = [prog EXCEPT !.aux[gui.i] = p]
      /\ gui' = [gui EXCEPT !.at = "aux", !.i = @ + 1, !.out = Append(@, p)]
      /\ UNCHANGED <<timer, phase, sense, robot, cb, left>>
  BY <1>y DEF RunWait
<1>p. p \in Program(ReplySteps) /\ p.code = Tail(Code) /\ p.wait = w
  <2> DEFINE S == ReplySteps
  <2>1. w \in Waits /\ Tail(Code) \in Seq(S) BY <1>w, <1>x
  <2> HIDE DEF w, S
  <2>2. p \in Program(S) /\ p.code = Tail(Code) /\ p.wait = w BY <2>1
        DEF Spawn, NoWait, Program
  <2> QED BY <2>2 DEF S
<1> HIDE DEF w, p
<1> DEFINE a == [prog.aux EXCEPT ![gui.i] = p]
<1>b. /\ a \in Seq(Reply) /\ Len(a) = Len(prog.aux) /\ DOMAIN a = DOMAIN prog.aux
      /\ \A j \in DOMAIN prog.aux : a[j] = IF j = gui.i THEN p ELSE prog.aux[j]
  BY <1>p, <1>y, ReplaceTyped DEF Reply
<1> DEFINE o == Append(gui.out, p)
<1>0. /\ gui.at = "auxrun"
      /\ prog' = [body |-> prog.body, aux |-> a, handlers |-> prog.handlers,
                  pending |-> prog.pending, rounds |-> prog.rounds]
      /\ gui' = [at |-> "aux", back |-> gui.back, i |-> gui.i + 1, out |-> o,
                 todo |-> gui.todo, by |-> gui.by]
      /\ UNCHANGED <<timer, phase, sense, robot, cb, left>>
  BY <1>s, <1>y DEF UnitInv, RunWait, ProgTyped, Programs, GuiTyped, GuiStates
<1> HIDE DEF a
<1>d. /\ o \in Seq(Reply) /\ DOMAIN o = 1 .. Len(gui.out) + 1
      /\ \A j \in 1 .. Len(gui.out) : o[j] = gui.out[j]
      /\ o[Len(gui.out) + 1] = p /\ Range(o) = Range(gui.out) \cup {p}
      /\ DOMAIN gui.out = 1 .. Len(gui.out) /\ Len(gui.out) \in Nat
  BY <1>p, AppendTyped DEF UnitInv, GuiTyped, GuiStates, Reply
<1> HIDE DEF o
<1>1. GuiTyped' BY <1>0, <1>d, <1>y DEF UnitInv, GuiTyped, GuiStates, GuiSections
<1>2. ProgTyped' BY <1>0, <1>b DEF UnitInv, ProgTyped, Programs
<1>3. Armed'
  <2>1. \A j \in DOMAIN a : a[j].wait.since <= sense.seq BY <1>p, <1>b, <1>w
        DEF UnitInv, Armed
  <2>2. ASSUME NEW j \in DOMAIN o PROVE o[j].wait.since <= sense.seq
    <3>1. CASE j = Len(gui.out) + 1 BY <1>p, <1>d, <1>w, <3>1
    <3>2. CASE j \in 1 .. Len(gui.out) BY <1>d, <3>2 DEF UnitInv, Armed
    <3> QED BY <1>d, <3>1, <3>2
  <2> QED BY <1>0, <2>1, <2>2 DEF UnitInv, Armed
<1>4. Sections' BY <1>0, <1>b, <1>y DEF UnitInv, Sections, Entering
<1>5. Kept'
  <2>1. SUFFICES ASSUME NEW j \in DOMAIN prog.aux, j < gui.i + 1
                 PROVE  a[j].over \/ a[j] \in Range(o)
    BY <1>0, <1>b DEF Kept
  <2>2. CASE j = gui.i BY <1>b, <1>d, <1>y, <2>1, <2>2
  <2>3. CASE j < gui.i
    <3>1. a[j] = prog.aux[j] BY <1>b, <1>y, <2>1, <2>3
    <3>2. prog.aux[j].over \/ prog.aux[j] \in Range(gui.out)
      BY <1>0, <2>1, <2>3 DEF UnitInv, Kept
    <3> QED BY <1>d, <3>1, <3>2
  <2> QED BY <1>y, <2>1, <2>2, <2>3
<1>6. Own' BY <1>0 DEF UnitInv, Own, Entering
<1>7. HandlersCurrent' BY <1>0 DEF UnitInv, HandlersCurrent, Entering
<1> QED BY <1>0, Untouched, <1>1, <1>2, <1>3, <1>4, <1>5, <1>6, <1>7 DEF UnitInv

LEMMA StepRunEndReply == ASSUME UnitInv, RunEnd, gui.at # "body" PROVE UnitInv'
<1>y. /\ gui.i \in 1 .. Len(prog.aux) /\ DOMAIN prog.aux = 1 .. Len(prog.aux)
      /\ prog.aux \in Seq(Reply) /\ Len(prog.aux) \in Nat /\ prog.aux[gui.i] \in Reply
      /\ gui.at = "auxrun" /\ Code = prog.aux[gui.i].code /\ Code \in Seq(ReplySteps)
  BY ReplyHere DEF RunEnd, At, Running
<1> DEFINE p == [prog.aux[gui.i] EXCEPT !.over = TRUE]
<1>s. /\ prog' = [prog EXCEPT !.aux[gui.i] = p] /\ gui' = [gui EXCEPT !.at = "aux",
                  !.i = @ + 1]
      /\ UNCHANGED <<timer, phase, sense, robot, cb, left>>
  BY <1>y DEF RunEnd
<1>p. p \in Program(ReplySteps) /\ p.wait = prog.aux[gui.i].wait /\ p.over
  BY <1>y, OverTyped DEF Reply
<1> HIDE DEF p
<1> DEFINE a == [prog.aux EXCEPT ![gui.i] = p]
<1>b. /\ a \in Seq(Reply) /\ Len(a) = Len(prog.aux) /\ DOMAIN a = DOMAIN prog.aux
      /\ \A j \in DOMAIN prog.aux : a[j] = IF j = gui.i THEN p ELSE prog.aux[j]
  BY <1>p, <1>y, ReplaceTyped DEF Reply
<1>0. /\ gui.at = "auxrun"
      /\ prog' = [body |-> prog.body, aux |-> a, handlers |-> prog.handlers,
                  pending |-> prog.pending, rounds |-> prog.rounds]
      /\ gui' = [at |-> "aux", back |-> gui.back, i |-> gui.i + 1, out |-> gui.out,
                 todo |-> gui.todo, by |-> gui.by]
      /\ UNCHANGED <<timer, phase, sense, robot, cb, left>>
  BY <1>s, <1>y DEF UnitInv, RunEnd, ProgTyped, Programs, GuiTyped, GuiStates
<1> HIDE DEF a
<1>1. GuiTyped' BY <1>0, <1>y DEF UnitInv, GuiTyped, GuiStates, GuiSections
<1>2. ProgTyped' BY <1>0, <1>b DEF UnitInv, ProgTyped, Programs
<1>3. Armed' BY <1>0, <1>p, <1>b, <1>y DEF UnitInv, Armed
<1>4. Sections' BY <1>0, <1>b, <1>y DEF UnitInv, Sections, Entering
<1>5. Kept'
  <2>1. SUFFICES ASSUME NEW j \in DOMAIN prog.aux, j < gui.i + 1
                 PROVE  a[j].over \/ a[j] \in Range(gui.out)
    BY <1>0, <1>b DEF Kept
  <2>2. CASE j = gui.i BY <1>p, <1>b, <1>y, <2>1, <2>2
  <2>3. CASE j < gui.i
    <3>1. a[j] = prog.aux[j] BY <1>b, <1>y, <2>1, <2>3
    <3> QED BY <1>0, <2>1, <2>3, <3>1 DEF UnitInv, Kept
  <2> QED BY <1>y, <2>1, <2>2, <2>3
<1>6. Own' BY <1>0 DEF UnitInv, Own, Entering
<1>7. HandlersCurrent' BY <1>0 DEF UnitInv, HandlersCurrent, Entering
<1> QED BY <1>0, Untouched, <1>1, <1>2, <1>3, <1>4, <1>5, <1>6, <1>7 DEF UnitInv

LEMMA StepRunWhenBody == ASSUME UnitInv, RunWhen, gui.at = "body" PROVE UnitInv'
<1>y. /\ phase \in Phases /\ Code = prog.body.code /\ Code \in Seq(BodySteps[phase])
      /\ Closed(BodySteps[phase]) /\ \A c \in Seq(BodySteps[phase]) : c \in Seq(BodyStep)
  BY BodyHere
<1> DEFINE x == Tail(Code)
<1>x. x \in Seq(BodySteps[phase]) BY <1>y, TailTyped DEF RunWhen, At
<1> DEFINE h == [prog.handlers EXCEPT ![Head(Code).event] = Append(@, Head(Code).do)]
<1>0. /\ gui.at = "body"
      /\ prog' = [body |-> [code |-> x, wait |-> prog.body.wait, over |-> prog.body.over],
                  aux |-> prog.aux, handlers |-> h, pending |-> prog.pending,
                       rounds |-> prog.rounds]
      /\ UNCHANGED <<timer, phase, sense, robot, gui, cb, left>>
  BY <1>y DEF UnitInv, RunWhen, ProgTyped, Programs, At, Running, WithCode, Program
<1> HIDE DEF x
<1>w. /\ Head(Code).event \in Events /\ Head(Code).do \in Code0
      /\ Head(Code).do \in ArmedIn(phase, Head(Code).event)
  <2>1. Head(Code) \in BodySteps[phase] /\ Head(Code).verb = "when"
    BY <1>y, TailTyped DEF RunWhen, At
  <2> QED BY <1>y, <2>1, BehaviourAssumption DEF ArmedIn, Code0
<1>h. /\ h \in [Events -> Seq(Code0)]
      /\ \A e \in Events : e # Head(Code).event => h[e] = prog.handlers[e]
      /\ h[Head(Code).event] = Append(prog.handlers[Head(Code).event], Head(Code).do)
  BY <1>w DEF UnitInv, ProgTyped, Programs
<1> HIDE DEF h
<1>1. ProgTyped' BY <1>0, <1>y, <1>x, <1>h DEF UnitInv, ProgTyped, Programs, Program
<1>2. Armed' BY <1>0 DEF UnitInv, Armed, RestTyped, Senses
<1>3. Sections' BY <1>0 DEF UnitInv, Sections, Entering
<1>4. Kept' BY <1>0 DEF UnitInv, Kept
<1>5. Own' BY <1>0, <1>y, <1>x DEF UnitInv, Own, Entering
<1>6. HandlersCurrent'
  <2>1. \A e \in Events : Range(prog.handlers[e]) \subseteq ArmedIn(phase, e)
    BY <1>0, <1>y, BehaviourAssumption DEF UnitInv, HandlersCurrent, Entering
  <2>2. prog.handlers[Head(Code).event] \in Seq(Code0)
    BY <1>w DEF UnitInv, ProgTyped, Programs
  <2>3. Range(h[Head(Code).event]) = Range(prog.handlers[Head(Code).event]) \cup
       {Head(Code).do}
    <3>1. \A f \in Seq(Code0), g \in Code0 : Range(Append(f, g)) = Range(f) \cup {g}
      BY AppendTyped
    <3> QED BY <1>h, <1>w, <2>2, <3>1
  <2>4. \A e \in Events : Range(h[e]) \subseteq ArmedIn(phase, e)
    BY <1>h, <1>w, <2>1, <2>3
  <2> QED BY <1>0, <2>4 DEF HandlersCurrent, ArmedIn
<1> QED BY <1>0, Untouched, <1>1, <1>2, <1>3, <1>4, <1>5, <1>6 DEF UnitInv

LEMMA NoReplyArms == ASSUME UnitInv, RunWhen, gui.at # "body" PROVE FALSE
<1>1. gui.at = "auxrun" BY DEF RunWhen, At, Running
<1>2. Head(Code) \in ReplySteps /\ Head(Code).verb = "when"
  BY <1>1, ReplyHere, TailTyped DEF RunWhen, At
<1> QED BY <1>1, <1>2, ReplyHere

-----------------------------------------------------------------------------
(* The gateway thread *)

LEMMA Counts ==
  ASSUME UnitInv
  PROVE  /\ IsFiniteSet(cb.new) /\ Cardinality(cb.new) \in Nat /\ MaxCount \in Nat
         /\ sense.seq \in 0..MaxCount /\ sense.count \in [Kinds -> 0..MaxCount]
         /\ left \in Inputs0 /\ cb.n \in Nat
<1>1. IsFiniteSet(cb.new)
  BY BudgetAssumption, FS_Subset DEF UnitInv, CbTyped, CbStates
<1> QED BY <1>1, FS_CardinalityType, BudgetAssumption
        DEF UnitInv, RestTyped, Senses, CbTyped, CbStates

LEMMA SpawningTyped ==
  ASSUME UnitInv, NEW d \in Seq(Code0)
  PROVE  LET c == Spawning(d)
         IN  /\ c \in CbStates /\ c.new = cb.new /\ c.at # "gesture"
             /\ c.at = "spawn" => c.todo # <<>>
<1>1. <<>> \in Seq(Code0) /\ <<>> \in Code0 BY NoneYet DEF Code0
<1>2. cb \in CbStates BY DEF UnitInv, CbTyped
<1>3. CASE d # <<>> BY <1>2, <1>3 DEF Spawning, CbStates, CbSections
<1>4. CASE d = <<>> BY <1>1, <1>2, <1>4 DEF Spawning, CbStates, CbSections, IdleCb
<1> QED BY <1>3, <1>4

LEMMA HandlerTyped ==
  ASSUME UnitInv, NEW e \in Events
  PROVE  prog.handlers[e] \in Seq(Code0)
BY DEF UnitInv, ProgTyped, Programs

LEMMA SinceTyped ==
  ASSUME NEW a \in Seq(Reply), NEW j \in DOMAIN a
  PROVE  a[j].wait.since \in Nat
<1>1. a[j] \in Reply OBVIOUS
<1>2. a[j].wait \in Waits BY <1>1 DEF Reply, Program
<1> QED BY <1>2 DEF Waits

LEMMA StepOnMagnet == ASSUME UnitInv, OnMagnet PROVE UnitInv'
<1>y. PICK n \in SUBSET Sensors : /\ Spend("touch", Cardinality(n))
                                  /\ cb' = [cb EXCEPT !.at = "press", !.new = n]
  BY DEF OnMagnet
<1>x. Cardinality(n) \in Nat BY BudgetAssumption, FS_Subset, FS_CardinalityType
<1>0. /\ cb.at = "idle" /\ left.touch >= Cardinality(n) /\ Cardinality(n) \in Nat
      /\ cb' = [at |-> "press", new |-> n, code |-> cb.code, stale |-> cb.stale,
                todo |-> cb.todo, n |-> cb.n, button |-> cb.button, pressed |-> cb.pressed]
      /\ left' = [left EXCEPT !.touch = @ - Cardinality(n)]
      /\ UNCHANGED <<timer, phase, sense, prog, robot, gui>>
  BY <1>x, <1>y DEF UnitInv, OnMagnet, CbTyped, CbStates, CanHear, Spend
<1>1. CbTyped' BY <1>0 DEF UnitInv, CbTyped, CbStates, CbSections
<1>2. RestTyped' BY <1>0, Counts
      DEF UnitInv, RestTyped, Senses, RobotShape, Timers, PhaseOf, Inputs0
<1>3. Counted'
  <2>1. /\ left'.touch = left.touch - Cardinality(n) /\ left'.gesture = left.gesture
        /\ left'.impact = left.impact /\ left.touch \in Nat /\ left.gesture \in Nat
    BY <1>0, Counts DEF Inputs0
  <2>2. sense.seq + left.touch <= MaxCount BY <2>1, Counts DEF UnitInv, Counted
  <2>3. sense.seq + Cardinality(n) + left'.touch <= MaxCount BY <1>0, <2>1, <2>2, Counts
  <2> QED BY <1>0, <2>1, <2>3 DEF UnitInv, Counted
<1>4. Sections' BY <1>0 DEF UnitInv, Sections, Entering
<1> QED BY <1>0, Untouched, <1>1, <1>2, <1>3, <1>4 DEF UnitInv

LEMMA StepOnPress == ASSUME UnitInv, OnPress PROVE UnitInv'
<1> DEFINE c == [sense.count EXCEPT !["touch"] = @ + 1]
<1>y. PICK s \in cb.new : cb' = [cb EXCEPT !.new = @ \ {s}, !.at = "look"] BY DEF OnPress
<1> DEFINE n == cb.new \ {s}
<1>0. /\ cb.at = "press"
      /\ cb' = [at |-> "look", new |-> n, code |-> cb.code, stale |-> cb.stale,
                todo |-> cb.todo, n |-> cb.n, button |-> cb.button, pressed |-> cb.pressed]
      /\ sense' = [count |-> c, elapsed |-> sense.elapsed, seq |-> sense.seq + 1,
                   down |-> sense.down, fresh |-> sense.fresh]
      /\ UNCHANGED <<timer, phase, prog, robot, gui, left>>
  BY <1>y DEF UnitInv, OnPress, CbTyped, CbStates, RestTyped, Senses
<1>a. n \in SUBSET Sensors BY DEF UnitInv, CbTyped, CbStates
<1>b. Cardinality(n) = Cardinality(cb.new) - 1 /\ Cardinality(n) \in Nat
  BY Counts, <1>y, FS_RemoveElement, FS_CardinalityType
<1> HIDE DEF n
<1>c. sense.seq + 1 \in 0..MaxCount BY <1>b, Counts DEF UnitInv, Counted, Inputs0
<1>d. sense.count["touch"] + 1 \in 0..MaxCount
  BY <1>c, Counts DEF UnitInv, Counted, Kinds
<1>e. c \in [Kinds -> 0..MaxCount] /\ c["touch"] = sense.count["touch"] + 1
      /\ c["gesture"] = sense.count["gesture"] /\ c["impact"] = sense.count["impact"]
  BY <1>d, Counts DEF Kinds
<1> HIDE DEF c
<1>1. CbTyped' BY <1>0, <1>a DEF UnitInv, CbTyped, CbStates, CbSections
<1>2. RestTyped' BY <1>0, <1>c, <1>e
      DEF UnitInv, RestTyped, Senses, RobotShape, Timers, PhaseOf, Inputs0
<1>3. Counted' BY <1>0, <1>b, <1>c, <1>e, Counts DEF UnitInv, Counted, Inputs0, Kinds
<1>4. Armed'
  <2>1. prog.body.wait.since \in Nat BY DEF UnitInv, ProgTyped, Programs, Program, Waits
  <2>2. \A j \in DOMAIN prog.aux : prog.aux[j].wait.since \in Nat
    BY SinceTyped DEF UnitInv, ProgTyped, Programs
  <2>3. \A j \in DOMAIN gui.out : gui.out[j].wait.since \in Nat
    BY SinceTyped DEF UnitInv, GuiTyped, GuiStates
  <2>4. \A k \in Nat : k <= sense.seq => k <= sense.seq + 1 BY Counts
  <2> QED BY <1>0, <2>1, <2>2, <2>3, <2>4 DEF UnitInv, Armed
<1>5. Sections' BY <1>0 DEF UnitInv, Sections, Entering
<1> QED BY <1>0, Untouched, <1>1, <1>2, <1>3, <1>4, <1>5 DEF UnitInv

LEMMA StepFetches == ASSUME UnitInv, FetchOnTouch, cb'.at # "emit" PROVE UnitInv'
<1>0. /\ cb.at = "look" /\ phase \in Phases
      /\ cb' = [at |-> "append", new |-> cb.new, code |-> Behaviour[phase].onTouch,
                stale |-> FALSE, todo |-> cb.todo, n |-> cb.n, button |-> cb.button,
                     pressed |-> cb.pressed]
      /\ UNCHANGED <<timer, phase, sense, prog, robot, gui, left>>
  BY DEF UnitInv, FetchOnTouch, CbTyped, CbStates, RestTyped, PhaseOf
<1>1. CbTyped' BY <1>0, <1>0, BehaviourAssumption
      DEF UnitInv, CbTyped, CbStates, CbSections, Code0
<1>2. Counted' BY <1>0 DEF UnitInv, Counted
<1>3. Sections' BY <1>0 DEF UnitInv, Sections, Entering
<1> QED BY <1>0, Untouched, <1>1, <1>2, <1>3 DEF UnitInv

LEMMA StepSkips == ASSUME UnitInv, FetchOnTouch, cb'.at = "emit" PROVE UnitInv'
<1>0. /\ cb.at = "look"
      /\ cb' = [at |-> "emit", new |-> cb.new, code |-> cb.code, stale |-> cb.stale,
                todo |-> cb.todo, n |-> cb.n, button |-> cb.button, pressed |-> cb.pressed]
      /\ UNCHANGED <<timer, phase, sense, prog, robot, gui, left>>
  BY DEF UnitInv, FetchOnTouch, CbTyped, CbStates, RestTyped, PhaseOf
<1>1. CbTyped' BY <1>0 DEF UnitInv, CbTyped, CbStates, CbSections
<1>2. Counted' BY <1>0 DEF UnitInv, Counted
<1>3. Sections' BY <1>0 DEF UnitInv, Sections, Entering
<1> QED BY <1>0, Untouched, <1>1, <1>2, <1>3 DEF UnitInv

LEMMA StepAppendsInVain == ASSUME UnitInv, AppendOnTouch, cb.stale PROVE UnitInv'
<1>0. /\ cb.at = "append"
      /\ cb' = [at |-> "emit", new |-> cb.new, code |-> <<>>, stale |-> FALSE,
                todo |-> cb.todo, n |-> cb.n, button |-> cb.button, pressed |-> cb.pressed]
      /\ UNCHANGED <<timer, phase, sense, prog, robot, gui, left>>
  BY DEF UnitInv, AppendOnTouch, CbTyped, CbStates
<1>z. <<>> \in Code0 BY NoneYet DEF Code0
<1>1. CbTyped' BY <1>0, <1>z DEF UnitInv, CbTyped, CbStates, CbSections
<1>2. Counted' BY <1>0 DEF UnitInv, Counted
<1>3. Sections' BY <1>0 DEF UnitInv, Sections, Entering
<1> QED BY <1>0, Untouched, <1>1, <1>2, <1>3 DEF UnitInv

LEMMA StepAppendsReply == ASSUME UnitInv, AppendOnTouch, ~cb.stale PROVE UnitInv'
<1> DEFINE x == Spawn(cb.code)
           a == Append(prog.aux, x)
<1>0. /\ cb.at = "append"
      /\ cb' = [at |-> "emit", new |-> cb.new, code |-> <<>>, stale |-> FALSE,
                todo |-> cb.todo, n |-> cb.n, button |-> cb.button, pressed |-> cb.pressed]
      /\ prog' = [body |-> prog.body, aux |-> a, handlers |-> prog.handlers,
                  pending |-> prog.pending, rounds |-> prog.rounds]
      /\ UNCHANGED <<timer, phase, sense, robot, gui, left>>
  BY DEF UnitInv, AppendOnTouch, CbTyped, CbStates, ProgTyped, Programs
<1>a. x \in Reply /\ x.wait = NoWait BY <1>0, SpawnTyped
      DEF Reply, Spawn, UnitInv, CbTyped, CbStates, Code0
<1>b. /\ a \in Seq(Reply) /\ DOMAIN a = 1 .. Len(prog.aux) + 1 /\ Len(a) = Len(prog.aux) + 1
      /\ \A j \in 1 .. Len(prog.aux) : a[j] = prog.aux[j]
      /\ a[Len(prog.aux) + 1] = x /\ DOMAIN prog.aux = 1 .. Len(prog.aux) /\ Len(prog.aux)
           \in Nat
  BY <1>a, AppendTyped DEF UnitInv, ProgTyped, Programs
<1> HIDE DEF x, a
<1>z. <<>> \in Code0 BY NoneYet DEF Code0
<1>1. ProgTyped' BY <1>0, <1>b DEF UnitInv, ProgTyped, Programs
<1>2. CbTyped' BY <1>0, <1>z DEF UnitInv, CbTyped, CbStates, CbSections
<1>3. Counted' BY <1>0 DEF UnitInv, Counted
<1>4. Armed'
  <2>1. x.wait.since = 0 /\ sense.seq >= 0 BY <1>a DEF NoWait, UnitInv, RestTyped, Senses
  <2>2. \A j \in DOMAIN a : a[j].wait.since <= sense.seq BY <1>b, <2>1 DEF UnitInv, Armed
  <2> QED BY <1>0, <2>2 DEF UnitInv, Armed
<1>5. Sections' BY <1>0, <1>b DEF UnitInv, Sections, Entering, GuiTyped, GuiStates
<1>6. Kept'
  <2>1. SUFFICES ASSUME gui.at \in {"aux", "auxrun"}, NEW j \in DOMAIN a, j < gui.i
                 PROVE  a[j].over \/ a[j] \in Range(gui.out)
    BY <1>0 DEF Kept
  <2>2. j \in 1 .. Len(prog.aux) BY <1>b, <2>1 DEF UnitInv, Sections, GuiTyped, GuiStates
  <2> QED BY <1>b, <2>1, <2>2 DEF UnitInv, Kept
<1>7. Own' BY <1>0 DEF UnitInv, Own, Entering
<1>8. HandlersCurrent' BY <1>0 DEF UnitInv, HandlersCurrent, Entering
<1> QED BY <1>0, Untouched, <1>1, <1>2, <1>3, <1>4, <1>5, <1>6, <1>7, <1>8 DEF UnitInv

LEMMA StepEmitTouch == ASSUME UnitInv, EmitTouch PROVE UnitInv'
<1> DEFINE d == prog.handlers["touch"]
           c == Spawning(d)
<1>d. d \in Seq(Code0) BY HandlerTyped DEF Events
<1>0. /\ cb.at = "emit"
      /\ cb' = c
      /\ UNCHANGED <<timer, phase, sense, prog, robot, gui, left>>
  BY DEF UnitInv, EmitTouch
<1>c. c \in CbStates /\ c.new = cb.new /\ c.at # "gesture" /\ (c.at = "spawn" => c.todo #
     <<>>)
  BY <1>d, SpawningTyped
<1> HIDE DEF d, c
<1>1. CbTyped' BY <1>0, <1>c DEF UnitInv, CbTyped, CbStates, CbSections
<1>2. Counted' BY <1>0, <1>c, Counts DEF UnitInv, Counted, Inputs0
<1>3. Sections' BY <1>0, <1>c DEF UnitInv, Sections, Entering
<1> QED BY <1>0, Untouched, <1>1, <1>2, <1>3 DEF UnitInv

LEMMA StepCbSpawn == ASSUME UnitInv, CbSpawn PROVE UnitInv'
<1> DEFINE d == Tail(cb.todo)
           c == Spawning(d)
<1>e. cb.todo \in Seq(Code0) /\ cb.todo # <<>> /\ Head(cb.todo) \in Code0 /\ Tail(cb.todo)
     \in Seq(Code0)
  <2>1. cb.todo \in Seq(Code0) /\ cb.todo # <<>> BY
        DEF UnitInv, CbTyped, CbStates, Sections, CbSpawn
  <2> QED BY <2>1, TailTyped
<1>d. d \in Seq(Code0) BY <1>e
<1> DEFINE x == Spawn(Head(cb.todo))
           a == Append(prog.aux, x)
<1>0. /\ cb.at = "spawn"
      /\ cb' = c
      /\ prog' = [body |-> prog.body, aux |-> a, handlers |-> prog.handlers,
                  pending |-> prog.pending, rounds |-> prog.rounds]
      /\ UNCHANGED <<timer, phase, sense, robot, gui, left>>
  BY DEF UnitInv, CbSpawn, ProgTyped, Programs
<1>c. c \in CbStates /\ c.new = cb.new /\ c.at # "gesture" /\ (c.at = "spawn" => c.todo #
     <<>>)
  BY <1>d, SpawningTyped
<1> HIDE DEF d, c
<1>a. x \in Reply /\ x.wait = NoWait BY <1>0, <1>e, SpawnTyped DEF Reply, Spawn, Code0
<1>b. /\ a \in Seq(Reply) /\ DOMAIN a = 1 .. Len(prog.aux) + 1 /\ Len(a) = Len(prog.aux) + 1
      /\ \A j \in 1 .. Len(prog.aux) : a[j] = prog.aux[j]
      /\ a[Len(prog.aux) + 1] = x /\ DOMAIN prog.aux = 1 .. Len(prog.aux) /\ Len(prog.aux)
           \in Nat
  BY <1>a, AppendTyped DEF UnitInv, ProgTyped, Programs
<1> HIDE DEF x, a
<1>1. ProgTyped' BY <1>0, <1>b DEF UnitInv, ProgTyped, Programs
<1>2. CbTyped' BY <1>0, <1>c DEF UnitInv, CbTyped, CbStates, CbSections
<1>3. Counted' BY <1>0, <1>c, Counts DEF UnitInv, Counted, Inputs0
<1>4. Armed'
  <2>1. x.wait.since = 0 /\ sense.seq >= 0 BY <1>a DEF NoWait, UnitInv, RestTyped, Senses
  <2>2. \A j \in DOMAIN a : a[j].wait.since <= sense.seq BY <1>b, <2>1 DEF UnitInv, Armed
  <2> QED BY <1>0, <2>2 DEF UnitInv, Armed
<1>5. Sections' BY <1>0, <1>b, <1>c DEF UnitInv, Sections, Entering, GuiTyped, GuiStates
<1>6. Kept'
  <2>1. SUFFICES ASSUME gui.at \in {"aux", "auxrun"}, NEW j \in DOMAIN a, j < gui.i
                 PROVE  a[j].over \/ a[j] \in Range(gui.out)
    BY <1>0 DEF Kept
  <2>2. j \in 1 .. Len(prog.aux) BY <1>b, <2>1 DEF UnitInv, Sections, GuiTyped, GuiStates
  <2> QED BY <1>b, <2>1, <2>2 DEF UnitInv, Kept
<1>7. Own' BY <1>0 DEF UnitInv, Own, Entering
<1>8. HandlersCurrent' BY <1>0 DEF UnitInv, HandlersCurrent, Entering
<1> QED BY <1>0, Untouched, <1>1, <1>2, <1>3, <1>4, <1>5, <1>6, <1>7, <1>8 DEF UnitInv

LEMMA StepOnGesture == ASSUME UnitInv, OnGesture PROVE UnitInv'
<1>0. /\ cb.at = "idle" /\ left.gesture >= 1
      /\ cb' = [at |-> "gesture", new |-> cb.new, code |-> cb.code, stale |-> cb.stale,
                todo |-> cb.todo, n |-> sense.count["gesture"], button |-> cb.button,
                     pressed |-> cb.pressed]
      /\ left' = [left EXCEPT !.gesture = @ - 1]
      /\ UNCHANGED <<timer, phase, sense, prog, robot, gui>>
  BY DEF UnitInv, OnGesture, CbTyped, CbStates, CanHear, Spend
<1>1. CbTyped' BY <1>0, Counts DEF UnitInv, CbTyped, CbStates, CbSections, Kinds
<1>2. RestTyped' BY <1>0, Counts
      DEF UnitInv, RestTyped, Senses, RobotShape, Timers, PhaseOf, Inputs0
<1>3. Counted' BY <1>0, Counts DEF UnitInv, Counted, Inputs0, Kinds
<1>4. Sections' BY <1>0 DEF UnitInv, Sections, Entering
<1> QED BY <1>0, Untouched, <1>1, <1>2, <1>3, <1>4 DEF UnitInv

LEMMA StepCountGesture == ASSUME UnitInv, CountGesture PROVE UnitInv'
<1> DEFINE d == prog.handlers["gesture"]
           c == Spawning(d)
<1>d. d \in Seq(Code0) BY HandlerTyped DEF Events
<1> DEFINE k == [sense.count EXCEPT !["gesture"] = cb.n + 1]
<1>0. /\ cb.at = "gesture"
      /\ cb' = [c EXCEPT !.n = 0]
      /\ sense' = [count |-> k, elapsed |-> sense.elapsed, seq |-> sense.seq,
                   down |-> sense.down, fresh |-> sense.fresh]
      /\ UNCHANGED <<timer, phase, prog, robot, gui, left>>
  BY DEF UnitInv, CountGesture, RestTyped, Senses
<1>c. c \in CbStates /\ c.new = cb.new /\ c.at # "gesture" /\ (c.at = "spawn" => c.todo #
     <<>>)
  BY <1>d, SpawningTyped
<1> HIDE DEF d, c
<1>e. cb.n + 1 \in 0..MaxCount BY <1>0, Counts DEF UnitInv, Counted, Inputs0
<1>f. k \in [Kinds -> 0..MaxCount] /\ k["gesture"] = cb.n + 1
      /\ k["touch"] = sense.count["touch"] /\ k["impact"] = sense.count["impact"]
  BY <1>e, Counts DEF Kinds
<1>g. cb'.new = cb.new /\ cb'.at # "gesture" BY <1>0, <1>c DEF CbStates
<1> HIDE DEF k
<1>1. CbTyped' BY <1>0, <1>c DEF UnitInv, CbTyped, CbStates, CbSections
<1>2. RestTyped' BY <1>0, <1>f DEF UnitInv, RestTyped, Senses, RobotShape, Timers,
      PhaseOf, Inputs0
<1>3. Counted' BY <1>0, <1>g, <1>f, Counts DEF UnitInv, Counted, Inputs0
<1>4. Armed' BY <1>0 DEF UnitInv, Armed
<1>5. Sections' BY <1>0, <1>c DEF UnitInv, Sections, Entering, CbStates
<1> QED BY <1>0, Untouched, <1>1, <1>2, <1>3, <1>4, <1>5 DEF UnitInv

LEMMA StepOnImpact == ASSUME UnitInv, OnImpact PROVE UnitInv'
<1> DEFINE k == [sense.count EXCEPT !["impact"] = @ + 1]
<1>0. /\ left.impact >= 1
      /\ sense' = [count |-> k, elapsed |-> sense.elapsed, seq |-> sense.seq,
                   down |-> sense.down, fresh |-> sense.fresh]
      /\ left' = [left EXCEPT !.impact = @ - 1]
      /\ UNCHANGED <<timer, phase, prog, robot, gui, cb>>
  BY DEF UnitInv, OnImpact, RestTyped, Senses, Spend
<1>e. sense.count["impact"] + 1 \in 0..MaxCount
  BY <1>0, Counts DEF UnitInv, Counted, Inputs0, Kinds
<1>f. k \in [Kinds -> 0..MaxCount] /\ k["impact"] = sense.count["impact"] + 1
      /\ k["touch"] = sense.count["touch"] /\ k["gesture"] = sense.count["gesture"]
  BY <1>e, Counts DEF Kinds
<1> HIDE DEF k
<1>1. RestTyped' BY <1>0, <1>f, Counts
      DEF UnitInv, RestTyped, Senses, RobotShape, Timers, PhaseOf, Inputs0
<1>2. Counted' BY <1>0, <1>f, Counts DEF UnitInv, Counted, Inputs0, Kinds
<1>3. Armed' BY <1>0 DEF UnitInv, Armed
<1> QED BY <1>0, Untouched, <1>1, <1>2, <1>3 DEF UnitInv

LEMMA StepPushButton == ASSUME UnitInv, PushButton PROVE UnitInv'
<1>0. /\ cb.at = "idle" /\ left.press >= 1
      /\ cb' = [at |-> "button", new |-> cb.new, code |-> cb.code, stale |-> cb.stale,
                todo |-> cb.todo, n |-> cb.n, button |-> TRUE, pressed |-> TRUE]
      /\ left' = [left EXCEPT !.press = @ - 1]
      /\ UNCHANGED <<timer, phase, sense, prog, robot, gui>>
  BY DEF UnitInv, PushButton, CbTyped, CbStates, CanHear, Spend, Report
<1>1. CbTyped' BY <1>0 DEF UnitInv, CbTyped, CbStates, CbSections
<1>2. RestTyped' BY <1>0, Counts
      DEF UnitInv, RestTyped, Senses, RobotShape, Timers, PhaseOf, Inputs0
<1>3. Counted' BY <1>0, Counts DEF UnitInv, Counted, Inputs0
<1>4. Sections' BY <1>0 DEF UnitInv, Sections, Entering
<1> QED BY <1>0, Untouched, <1>1, <1>2, <1>3, <1>4 DEF UnitInv

LEMMA StepHeartbeat == ASSUME UnitInv, Heartbeat PROVE UnitInv'
<1>0. /\ cb.at = "idle"
      /\ cb' = [at |-> "button", new |-> cb.new, code |-> cb.code, stale |-> cb.stale,
                todo |-> cb.todo, n |-> cb.n, button |-> TRUE, pressed |-> TRUE]
      /\ UNCHANGED <<timer, phase, sense, prog, robot, gui, left>>
  BY DEF UnitInv, Heartbeat, CbTyped, CbStates, CanHear, Report
<1>1. CbTyped' BY <1>0 DEF UnitInv, CbTyped, CbStates, CbSections
<1>2. Counted' BY <1>0 DEF UnitInv, Counted
<1>3. Sections' BY <1>0 DEF UnitInv, Sections, Entering
<1> QED BY <1>0, Untouched, <1>1, <1>2, <1>3 DEF UnitInv

LEMMA StepLetGoHeard == ASSUME UnitInv, LetGo, cb' # cb PROVE UnitInv'
<1>0. /\ cb.at = "idle"
      /\ cb' = [at |-> "button", new |-> cb.new, code |-> cb.code, stale |-> cb.stale,
                todo |-> cb.todo, n |-> cb.n, button |-> TRUE, pressed |-> FALSE]
      /\ UNCHANGED <<timer, phase, sense, prog, robot, gui, left>>
  BY DEF UnitInv, LetGo, CbTyped, CbStates, CanHear, Report
<1>1. CbTyped' BY <1>0 DEF UnitInv, CbTyped, CbStates, CbSections
<1>2. Counted' BY <1>0 DEF UnitInv, Counted
<1>3. Sections' BY <1>0 DEF UnitInv, Sections, Entering
<1> QED BY <1>0, Untouched, <1>1, <1>2, <1>3 DEF UnitInv

LEMMA StepLetGoLost == ASSUME UnitInv, LetGo, cb' = cb PROVE UnitInv'
<1>1. UNCHANGED <<timer, phase, sense, prog, robot, gui, cb, left>> BY DEF LetGo
<1> QED BY <1>1, Untouched DEF UnitInv

LEMMA StepOnPressed == ASSUME UnitInv, OnButton, cb.pressed PROVE UnitInv'
<1> DEFINE k == [sense.count EXCEPT !["press"] = IF sense.down \/ @ = MaxCount THEN @ ELSE
     @ + 1]
<1>0. /\ cb.at = "button"
      /\ cb' = [at |-> "edge", new |-> cb.new, code |-> cb.code, stale |-> cb.stale,
                todo |-> cb.todo, n |-> cb.n, button |-> cb.button, pressed |-> cb.pressed]
      /\ sense' = [count |-> k, elapsed |-> sense.elapsed, seq |-> sense.seq,
                   down |-> sense.down, fresh |-> TRUE]
      /\ UNCHANGED <<timer, phase, prog, robot, gui, left>>
  BY DEF UnitInv, OnButton, CbTyped, CbStates, RestTyped, Senses
<1>f. k \in [Kinds -> 0..MaxCount] /\ k["impact"] = sense.count["impact"]
      /\ k["touch"] = sense.count["touch"] /\ k["gesture"] = sense.count["gesture"]
  BY Counts DEF Kinds
<1> HIDE DEF k
<1>1. CbTyped' BY <1>0 DEF UnitInv, CbTyped, CbStates, CbSections
<1>2. RestTyped' BY <1>0, <1>f DEF UnitInv, RestTyped, Senses, RobotShape, Timers,
      PhaseOf, Inputs0
<1>3. Counted' BY <1>0, <1>f DEF UnitInv, Counted
<1>4. Armed' BY <1>0 DEF UnitInv, Armed
<1>5. Sections' BY <1>0 DEF UnitInv, Sections, Entering
<1> QED BY <1>0, Untouched, <1>1, <1>2, <1>3, <1>4, <1>5 DEF UnitInv

LEMMA StepOnReleased == ASSUME UnitInv, OnButton, ~cb.pressed PROVE UnitInv'
<1>0. /\ cb.at = "button"
      /\ cb' = [at |-> "edge", new |-> cb.new, code |-> cb.code, stale |-> cb.stale,
                todo |-> cb.todo, n |-> cb.n, button |-> cb.button, pressed |-> cb.pressed]
      /\ UNCHANGED <<timer, phase, sense, prog, robot, gui, left>>
  BY DEF UnitInv, OnButton, CbTyped, CbStates
<1>1. CbTyped' BY <1>0 DEF UnitInv, CbTyped, CbStates, CbSections
<1>2. Counted' BY <1>0 DEF UnitInv, Counted
<1>3. Sections' BY <1>0 DEF UnitInv, Sections, Entering
<1> QED BY <1>0, Untouched, <1>1, <1>2, <1>3 DEF UnitInv

LEMMA StepEmitButton == ASSUME UnitInv, EmitButton PROVE UnitInv'
<1> DEFINE d == IF cb.pressed = sense.down THEN <<>> ELSE prog.handlers[ButtonEvent]
           c == Spawning(d)
<1>d. d \in Seq(Code0) BY HandlerTyped, NoneYet DEF ButtonEvent, Events
<1>0. /\ cb.at = "edge"
      /\ cb' = c
      /\ UNCHANGED <<timer, phase, sense, prog, robot, gui, left>>
  BY DEF UnitInv, EmitButton
<1>c. c \in CbStates /\ c.new = cb.new /\ c.at # "gesture" /\ (c.at = "spawn" => c.todo #
     <<>>)
  BY <1>d, SpawningTyped
<1> HIDE DEF d, c
<1>1. CbTyped' BY <1>0, <1>c DEF UnitInv, CbTyped, CbStates, CbSections
<1>2. Counted' BY <1>0, <1>c, Counts DEF UnitInv, Counted, Inputs0
<1>3. Sections' BY <1>0, <1>c DEF UnitInv, Sections, Entering
<1> QED BY <1>0, Untouched, <1>1, <1>2, <1>3 DEF UnitInv

LEMMA StepButtonDone == ASSUME UnitInv, ButtonDone PROVE UnitInv'
<1>0. /\ cb.at = "level"
      /\ cb' = [at |-> "idle", new |-> {}, code |-> <<>>, stale |-> FALSE, todo |-> <<>>,
                n |-> 0, button |-> FALSE, pressed |-> FALSE]
      /\ sense' = [count |-> sense.count, elapsed |-> sense.elapsed, seq |-> sense.seq,
                   down |-> cb.pressed, fresh |-> (sense.fresh /\ cb.pressed)]
      /\ UNCHANGED <<timer, phase, prog, robot, gui, left>>
  BY DEF UnitInv, ButtonDone, CbTyped, CbStates, RestTyped, Senses, IdleCb
<1>z. <<>> \in Code0 /\ <<>> \in Seq(Code0) BY NoneYet DEF Code0
<1>1. CbTyped' BY <1>0, <1>z DEF UnitInv, CbTyped, CbStates, CbSections
<1>2. RestTyped' BY <1>0 DEF UnitInv, RestTyped, Senses, RobotShape, Timers, PhaseOf,
      Inputs0, CbTyped, CbStates
<1>3. Counted' BY <1>0, Counts, FS_EmptySet DEF UnitInv, Counted, Inputs0
<1>4. Armed' BY <1>0 DEF UnitInv, Armed
<1>5. Sections' BY <1>0 DEF UnitInv, Sections, Entering
<1> QED BY <1>0, Untouched, <1>1, <1>2, <1>3, <1>4, <1>5 DEF UnitInv

-----------------------------------------------------------------------------
(* Time *)

LEMMA DueTyped ==
  ASSUME NEW S, NEW r \in Program(S)
  PROVE  LET p == [r EXCEPT !.wait.kind = "due"]
         IN  p \in Program(S) /\ p.code = r.code /\ p.wait.since = r.wait.since
BY DEF Program, Waits

LEMMA StepPass == ASSUME UnitInv, NEW D, Pass(D) PROVE UnitInv'
<1> DEFINE b == [prog.body EXCEPT !.wait.kind = IF <<"body", 0>> \in D THEN "due" ELSE @]
           a == [i \in DOMAIN prog.aux |-> IF <<"aux", i>> \in D
                  THEN [prog.aux[i] EXCEPT !.wait.kind = "due"] ELSE prog.aux[i]]
<1>0. /\ gui.at = "idle"
      /\ prog' = [body |-> b, aux |-> a, handlers |-> prog.handlers,
                  pending |-> prog.pending, rounds |-> prog.rounds]
      /\ sense' = [count |-> sense.count, elapsed |-> (sense.elapsed \/ <<"phase",
                   0>> \in D), seq |-> sense.seq, down |-> sense.down,
                        fresh |-> (sense.fresh /\ <<"button", 0>> \notin D)]
      /\ UNCHANGED <<timer, phase, robot, gui, cb, left>>
  BY DEF UnitInv, Pass, ProgTyped, Programs, RestTyped, Senses
<1>t. prog.body \in Program(BodyStep) /\ prog.aux \in Seq(Reply)
  BY DEF UnitInv, ProgTyped, Programs
<1>p. b \in Program(BodyStep) /\ b.code = prog.body.code /\ b.wait.since =
     prog.body.wait.since
  BY <1>t DEF Program, Waits
<1>b. ASSUME NEW j \in DOMAIN prog.aux
      PROVE  a[j] \in Reply /\ a[j].wait.since = prog.aux[j].wait.since
  <2>1. prog.aux[j] \in Reply BY <1>t
  <2>2. CASE <<"aux", j>> \in D BY <2>1, <2>2, DueTyped DEF Reply
  <2>3. CASE <<"aux", j>> \notin D BY <2>1, <2>3
  <2> QED BY <2>2, <2>3
<1>d. DOMAIN a = DOMAIN prog.aux /\ a = [j \in DOMAIN prog.aux |-> a[j]] OBVIOUS
<1> HIDE DEF a, b
<1>a. a \in Seq(Reply)
  <2>1. a = [j \in 1 .. Len(prog.aux) |-> a[j]] /\ Len(prog.aux) \in Nat BY <1>d, <1>t
  <2> QED BY <1>b, <1>t, <2>1, SeqDef
<1>1. ProgTyped' BY <1>0, <1>p, <1>a DEF UnitInv, ProgTyped, Programs
<1>2. RestTyped' BY <1>0 DEF UnitInv, RestTyped, Senses, RobotShape, Timers, PhaseOf,
      Inputs0
<1>3. Counted' BY <1>0 DEF UnitInv, Counted
<1>4. Armed' BY <1>0, <1>p, <1>b, <1>d DEF UnitInv, Armed
<1>5. Sections' BY <1>0 DEF UnitInv, Sections, Entering
<1>6. Kept' BY <1>0 DEF UnitInv, Kept
<1>7. Own' BY <1>0, <1>p DEF UnitInv, Own, Entering
<1>8. HandlersCurrent' BY <1>0 DEF UnitInv, HandlersCurrent, Entering
<1> QED BY <1>0, Untouched, <1>1, <1>2, <1>3, <1>4, <1>5, <1>6, <1>7, <1>8 DEF UnitInv

-----------------------------------------------------------------------------
(* What every behaviour keeps *)

LEMMA UnitInit == ASSUME Init PROVE UnitInv
<1>1. /\ timer = "off" /\ phase = None
      /\ sense = [count |-> NoCount, elapsed |-> FALSE, seq |-> 0, down |-> FALSE,
                  fresh |-> FALSE]
      /\ prog = [body |-> [Spawn(<<>>) EXCEPT !.over = TRUE], aux |-> <<>>,
                 handlers |-> NoHandlers, pending |-> None, rounds |-> FALSE]
      /\ robot = [air |-> "low", wheels |-> "still", score |-> 0]
      /\ gui = IdleGui /\ cb = IdleCb /\ left \in Budgets
  BY DEF Init
<1>2. <<>> \in Seq(Reply) /\ <<>> \in Seq(Code0) /\ <<>> \in Code0 /\ <<>> \in Seq(BodyStep)
  BY NoneYet DEF Code0
<1>3. NoHandlers \in [Events -> Seq(Code0)] BY <1>2 DEF NoHandlers
<1>4. /\ prog.body \in Program(BodyStep) /\ prog.body.wait.since = 0
  <2>1. Spawn(<<>>) \in Program(BodyStep) BY <1>2, SpawnTyped
  <2>2. Spawn(<<>>).wait.since = 0 BY DEF Spawn, NoWait
  <2> QED BY <1>1, <2>1, <2>2, OverTyped
<1>5. /\ left \in [touch : 0..MaxCount, gesture : 0..MaxCount, impact : 0..MaxCount,
                   press : Nat, move : Nat]
      /\ MaxCount \in Nat
  BY <1>1, BudgetAssumption
<1>a. ProgTyped BY <1>1, <1>2, <1>3, <1>4 DEF ProgTyped, Programs
<1>b. GuiTyped BY <1>1, <1>2 DEF GuiTyped, GuiStates, GuiSections, IdleGui
<1>c. CbTyped BY <1>1, <1>2 DEF CbTyped, CbStates, CbSections, IdleCb
<1>d. RestTyped
  BY <1>1, <1>5, NoCountTyped DEF RestTyped, Timers, PhaseOf, Senses, RobotShape, Inputs0
<1>e. Counted BY <1>1, <1>5, NoCountTyped, FS_EmptySet DEF Counted, IdleCb, Kinds
<1>f. Armed BY <1>1, <1>4, NoneYet DEF Armed, IdleGui
<1>g. Sections BY <1>1 DEF Sections, IdleGui, IdleCb
<1>h. Kept BY <1>1 DEF Kept, IdleGui
<1>i. Own /\ HandlersCurrent BY <1>1 DEF Own, HandlersCurrent
<1> QED BY <1>a, <1>b, <1>c, <1>d, <1>e, <1>f, <1>g, <1>h, <1>i DEF UnitInv

LEMMA UnitNext == ASSUME UnitInv, Next PROVE UnitInv'
<1>1. CASE TickStep
  <2>1. CASE CheckTransitions BY <2>1, StepStay, StepLeave
  <2>2. CASE Advance BY <2>2, StepWaits, StepGoes
  <2>3. CASE AuxNext BY <2>3, StepAuxStarts, StepAuxWaits
  <2> QED BY <1>1, <2>1, <2>2, <2>3, StepTick, StepExpireButton, StepButtonExpired,
             StepApplyPending, StepPollRounds, StepGuiEmit, StepAuxEnd DEF TickStep
<1>2. CASE RunStep
  <2>1. gui.at = "body" => gui.back \in {"idle", "poll"} BY DEF UnitInv, GuiTyped, GuiStates
  <2>2. CASE RunCompound BY <2>2, StepRunCompoundBody, StepRunCompoundReply
  <2>3. CASE RunWait
    BY <2>1, <2>3, StepRunWaitBodyEnds, StepRunWaitBodyYields, StepRunWaitReply
  <2>4. CASE RunWhen BY <2>4, StepRunWhenBody, NoReplyArms
  <2>5. CASE RunGroupRhythm BY <2>5, StepRunGroupRhythmBody, StepRunGroupRhythmReply
  <2>6. CASE RunProgress BY <2>6, StepRunProgressBody, StepRunProgressReply
  <2>7. CASE RunAction BY <2>7, StepRunActionBody, StepRunActionReply
  <2>8. CASE RunEnd BY <2>1, <2>8, StepRunEndBodyEnds, StepRunEndBodyYields, StepRunEndReply
  <2> QED BY <1>2, <2>2, <2>3, <2>4, <2>5, <2>6, <2>7, <2>8 DEF RunStep
<1>3. CASE EnterStep BY <1>3, StepEnterReset, StepEnterForget, StepEnterDisarm DEF EnterStep
<1>4. CASE Operator
  BY <1>4, StepStart, StepPause, StepResume, StepStop, StepStepPhase DEF Operator
<1>5. CASE Inputs
  BY <1>5, StepOnMagnet, StepOnGesture, StepOnImpact, StepPushButton, StepHeartbeat,
     StepLetGoHeard, StepLetGoLost DEF Inputs
<1>6. CASE Handler
  BY <1>6, StepOnPress, StepFetches, StepSkips, StepAppendsInVain, StepAppendsReply,
     StepEmitTouch, StepCbSpawn, StepCountGesture, StepOnPressed, StepOnReleased,
     StepEmitButton, StepButtonDone DEF Handler
<1>7. CASE TimePasses BY <1>7, StepPass DEF TimePasses
<1> QED BY <1>1, <1>2, <1>3, <1>4, <1>5, <1>6, <1>7 DEF Next

LEMMA PlayStep == ASSUME UnitInv, [PlayNext]_<<view, vars, group>> PROVE UnitInv'
<1>1. CASE Next BY <1>1, UnitNext
<1>2. CASE UNCHANGED vars
  <2>1. UNCHANGED <<timer, phase, sense, prog, robot, gui, cb, left>> BY <1>2 DEF vars
  <2> QED BY <2>1, Untouched DEF UnitInv
<1> QED BY <1>1, <1>2 DEF PlayNext

LEMMA UnitAlways == PlaySpec => []UnitInv
<1>1. PlayInit => UnitInv BY UnitInit DEF PlayInit
<1>2. UnitInv /\ [PlayNext]_<<view, vars, group>> => UnitInv' BY PlayStep
<1> QED BY <1>1, <1>2, PTL DEF PlaySpec

-----------------------------------------------------------------------------
(* What is owed *)

\* Each program handed over is one that remains, or one that was lost.
Walking == {"aux", "auxrun"}
Tallied == /\ tally \in [owed : Nat, lost : Nat]
           /\ Remaining + tally.lost = tally.owed

LEMMA Lengths ==
  ASSUME UnitInv
  PROVE  /\ prog.aux \in Seq(Reply) /\ Len(prog.aux) \in Nat /\ DOMAIN prog.aux = 1 .. Len(prog.aux)
         /\ gui.out \in Seq(Reply) /\ Len(gui.out) \in Nat /\ gui.i \in Nat
         /\ gui.at \in Walking => Remaining = Len(gui.out) + Len(prog.aux) - (gui.i - 1)
         /\ gui.at \notin Walking => Remaining = Len(prog.aux)
         /\ Remaining \in Int
BY DEF UnitInv, ProgTyped, Programs, GuiTyped, GuiStates, Remaining, Walking

LEMMA LengthsNext ==
  ASSUME UnitInv'
  PROVE  /\ prog'.aux \in Seq(Reply) /\ Len(prog'.aux) \in Nat
         /\ DOMAIN prog'.aux = 1 .. Len(prog'.aux)
         /\ gui'.out \in Seq(Reply) /\ Len(gui'.out) \in Nat /\ gui'.i \in Nat
         /\ gui'.at \in Walking => Remaining' = Len(gui'.out) + Len(prog'.aux) - (gui'.i - 1)
         /\ gui'.at \notin Walking => Remaining' = Len(prog'.aux)
         /\ Remaining' \in Int
BY DEF UnitInv, ProgTyped, Programs, GuiTyped, GuiStates, Remaining, Walking

LEMMA TallyKeeps ==
  ASSUME UnitInv, UnitInv', Tallied, tally' = tally, DOMAIN prog'.aux = DOMAIN prog.aux,
         \/ gui.at \notin Walking /\ gui'.at \notin Walking
         \/ /\ gui.at \in Walking /\ gui'.at \in Walking
            /\ gui'.i = gui.i /\ Len(gui'.out) = Len(gui.out)
  PROVE  Tallied'
<1>1. /\ Len(prog.aux) \in Nat /\ DOMAIN prog.aux = 1 .. Len(prog.aux)
      /\ gui.at \in Walking => Remaining = Len(gui.out) + Len(prog.aux) - (gui.i - 1)
      /\ gui.at \notin Walking => Remaining = Len(prog.aux)
  BY Lengths
<1>2. /\ Len(prog'.aux) \in Nat /\ DOMAIN prog'.aux = 1 .. Len(prog'.aux)
      /\ gui'.at \in Walking => Remaining' = Len(gui'.out) + Len(prog'.aux) - (gui'.i - 1)
      /\ gui'.at \notin Walking => Remaining' = Len(prog'.aux)
  BY LengthsNext
<1>3. Len(prog'.aux) = Len(prog.aux) BY <1>1, <1>2
<1>4. Remaining' = Remaining BY <1>1, <1>2, <1>3
<1> QED BY <1>4 DEF Tallied

\* A program is added to the list.
LEMMA TallyAdds ==
  ASSUME UnitInv, UnitInv', Tallied, HandOver, gui'.at = gui.at, gui'.i = gui.i,
         gui'.out = gui.out, Len(prog'.aux) = Len(prog.aux) + 1
  PROVE  Tallied'
<1>1. /\ Len(prog.aux) \in Nat /\ Len(gui.out) \in Nat /\ gui.i \in Nat
      /\ gui.at \in Walking => Remaining = Len(gui.out) + Len(prog.aux) - (gui.i - 1)
      /\ gui.at \notin Walking => Remaining = Len(prog.aux)
  BY Lengths
<1>2. /\ gui'.at \in Walking => Remaining' = Len(gui'.out) + Len(prog'.aux) - (gui'.i - 1)
      /\ gui'.at \notin Walking => Remaining' = Len(prog'.aux)
  BY LengthsNext
<1>3. Remaining' = Remaining + 1 /\ Remaining \in Int BY <1>1, <1>2
<1>4. tally' = [owed |-> tally.owed + 1, lost |-> tally.lost] BY DEF HandOver, Tallied
<1> QED BY <1>3, <1>4 DEF Tallied

\* A pass goes by one program, and keeps it or not.
LEMMA GoneBy ==
  ASSUME NEW o \in Nat, NEW a \in Nat, NEW i \in Nat
  PROVE  /\ (o + 1) + a - ((i + 1) - 1) = o + a - (i - 1)
         /\ o + a - ((i + 1) - 1) = (o + a - (i - 1)) - 1
         /\ i + 1 \in 1 .. a + 1 => o + a - ((i + 1) - 1) \in Nat
         /\ o + a - (i - 1) \in Int
OBVIOUS

LEMMA TallyStep == ASSUME UnitInv, Next, UnitInv', Tallied PROVE Tallied'
<1>0. prog \in Programs /\ gui \in GuiStates BY DEF UnitInv, ProgTyped, GuiTyped
<1>a. ASSUME UNCHANGED <<prog, gui, tally>> PROVE Tallied'
  BY <1>a, TallyKeeps
<1>b. ASSUME DOMAIN prog'.aux = DOMAIN prog.aux, UNCHANGED <<gui, tally>> PROVE Tallied'
  BY <1>b, TallyKeeps
<1>c. ASSUME DOMAIN prog'.aux = DOMAIN prog.aux, UNCHANGED tally,
             gui.at \notin Walking, gui'.at \notin Walking
      PROVE  Tallied'
  BY <1>c, TallyKeeps
<1>1. CASE EnterStep
  <2>1. CASE EnterForget
    <3>1. gui'.at \notin Walking /\ prog'.aux = <<>> /\ tally' = NothingOwed
      BY <1>0, <2>1 DEF EnterForget, Walking, Programs, GuiStates
    <3>2. Remaining' = 0 BY <3>1, LengthsNext
    <3> QED BY <3>1, <3>2 DEF Tallied, NothingOwed
  <2>2. CASE EnterReset BY <1>0, <1>c, <2>2 DEF EnterReset, Walking, GuiStates
  <2>3. CASE EnterDisarm BY <1>0, <1>c, <2>3 DEF EnterDisarm, Walking, Programs, GuiStates
  <2> QED BY <1>1, <2>1, <2>2, <2>3 DEF EnterStep
<1>2. CASE Operator
  <2>1. CASE Start \/ StepPhase
    BY <1>c, <2>1 DEF Start, StepPhase, Enter, IdleGui, Walking, UnitInv, Sections
  <2>2. CASE Pause \/ Resume \/ Stop BY <1>a, <2>2 DEF Pause, Resume, Stop
  <2> QED BY <1>2, <2>1, <2>2 DEF Operator
<1>3. CASE Inputs
  <2>1. UNCHANGED <<prog, gui, tally>>
    BY <1>3 DEF Inputs, OnMagnet, OnGesture, OnImpact, PushButton, Heartbeat, LetGo
  <2> QED BY <1>a, <2>1
<1>4. CASE Handler
  <2>1. CASE AppendOnTouch
    <3>1. CASE cb.stale
      <4>1. UNCHANGED <<prog, gui>> /\ Len(prog.aux) \in Nat /\ Remaining' = Remaining
            /\ tally' = [owed |-> tally.owed + 1, lost |-> tally.lost + 1]
        BY <2>1, <3>1, Lengths DEF AppendOnTouch, Remaining
      <4>2. Remaining \in Int BY Lengths
      <4> QED BY <4>1, <4>2 DEF Tallied
    <3>2. CASE ~cb.stale
      <4>1. HandOver /\ gui' = gui /\ prog'.aux = Append(prog.aux, Spawn(cb.code))
        BY <1>0, <2>1, <3>2 DEF AppendOnTouch, Programs
      <4>2. Len(prog'.aux) = Len(prog.aux) + 1 BY <4>1, Lengths
      <4> QED BY <4>1, <4>2, TallyAdds
    <3> QED BY <3>1, <3>2
  <2>2. CASE CbSpawn
    <3>1. HandOver /\ gui' = gui /\ prog'.aux = Append(prog.aux, Spawn(Head(cb.todo)))
      BY <1>0, <2>2 DEF CbSpawn, Programs
    <3>2. Len(prog'.aux) = Len(prog.aux) + 1 BY <3>1, Lengths
    <3> QED BY <3>1, <3>2, TallyAdds
  <2>3. CASE OnPress \/ FetchOnTouch \/ EmitTouch \/ CountGesture \/ OnButton
             \/ EmitButton \/ ButtonDone
    <3>1. UNCHANGED <<prog, gui, tally>>
      BY <2>3 DEF OnPress, FetchOnTouch, EmitTouch, CountGesture, OnButton, EmitButton,
         ButtonDone
    <3> QED BY <1>a, <3>1
  <2> QED BY <1>4, <2>1, <2>2, <2>3 DEF Handler
<1>5. CASE TimePasses
  <2>1. PICK D : Pass(D) BY <1>5 DEF TimePasses
  <2>2. DOMAIN prog'.aux = DOMAIN prog.aux /\ UNCHANGED <<gui, tally>>
    BY <1>0, <2>1 DEF Pass, Programs
  <2> QED BY <1>b, <2>2
<1>6. CASE RunStep
  <2>0. gui.at \in {"body", "auxrun"} BY <1>6 DEF RunStep, RunCompound, RunWait, RunWhen,
          RunGroupRhythm, RunProgress, RunAction, RunEnd, At, Running
  <2>1. \A code : /\ DOMAIN WithCode(prog, code).aux = DOMAIN prog.aux
                  /\ WithCode(prog, code) = [body |-> WithCode(prog, code).body,
                        aux |-> WithCode(prog, code).aux, handlers |-> prog.handlers,
                        pending |-> prog.pending, rounds |-> prog.rounds]
    BY <1>0 DEF WithCode, Programs
  <2>2. CASE RunCompound \/ RunWhen \/ RunGroupRhythm \/ RunProgress \/ RunAction
    <3>1. DOMAIN prog'.aux = DOMAIN prog.aux /\ UNCHANGED <<gui, tally>>
      BY <2>1, <2>2 DEF RunCompound, RunWhen, RunGroupRhythm, RunProgress, RunAction
    <3> QED BY <1>b, <3>1
  <2>3. CASE RunWait /\ gui.at = "body"
    <3>1. /\ DOMAIN prog'.aux = DOMAIN prog.aux /\ UNCHANGED tally
          /\ \/ gui' = IdleGui
             \/ gui' = [gui EXCEPT !.at = gui.back]
      BY <1>0, <2>3 DEF RunWait, Programs
    <3>2. gui'.at \notin Walking
      BY <1>0, <3>1 DEF Walking, IdleGui, GuiStates
    <3> QED BY <1>c, <2>3, <3>1, <3>2 DEF Walking
  <2>4. CASE RunEnd /\ gui.at = "body"
    <3>1. /\ DOMAIN prog'.aux = DOMAIN prog.aux /\ UNCHANGED tally
          /\ \/ gui' = IdleGui
             \/ gui' = [gui EXCEPT !.at = gui.back]
      BY <1>0, <2>4 DEF RunEnd, Programs
    <3>2. gui'.at \notin Walking
      BY <1>0, <3>1 DEF Walking, IdleGui, GuiStates
    <3> QED BY <1>c, <2>4, <3>1, <3>2 DEF Walking
  <2>5. CASE RunWait /\ gui.at = "auxrun"
    <3> DEFINE w == IF Head(Code).verb = "wait" THEN [kind |-> "ms", since |-> 0]
                    ELSE [kind |-> "touch", since |-> sense.seq]
               p == [Spawn(Tail(Code)) EXCEPT !.wait = w]
    <3>1. /\ prog' = [prog EXCEPT !.aux[gui.i] = p] /\ tally' = tally
          /\ gui' = [gui EXCEPT !.at = "aux", !.i = @ + 1, !.out = Append(@, p)]
      BY <2>5 DEF RunWait
    <3> HIDE DEF p
    <3>2. /\ DOMAIN prog'.aux = DOMAIN prog.aux
          /\ gui'.at = "aux" /\ gui'.i = gui.i + 1 /\ gui'.out = Append(gui.out, p)
      BY <1>0, <3>1 DEF Programs, GuiStates
    <3>a. Len(prog.aux) \in Nat /\ Len(gui.out) \in Nat /\ DOMAIN prog.aux = 1 .. Len(prog.aux)
          /\ gui.out \in Seq(Reply) BY Lengths
    <3>b. Len(prog'.aux) \in Nat /\ DOMAIN prog'.aux = 1 .. Len(prog'.aux) BY LengthsNext
    <3>3. Len(gui'.out) = Len(gui.out) + 1 /\ Len(prog'.aux) = Len(prog.aux)
      BY <3>2, <3>a, <3>b
    <3>4. Remaining = Len(gui.out) + Len(prog.aux) - (gui.i - 1) /\ gui.i \in Nat
      BY <2>5, Lengths DEF Walking
    <3>5. Remaining' = Len(gui'.out) + Len(prog'.aux) - (gui'.i - 1)
      BY <3>2, LengthsNext DEF Walking
    <3>g. Remaining' = (Len(gui.out) + 1) + Len(prog.aux) - ((gui.i + 1) - 1)
      BY <3>2, <3>3, <3>5
    <3>6. Remaining' = Remaining BY <3>a, <3>4, <3>g, GoneBy
    <3> QED BY <3>1, <3>6 DEF Tallied
  <2>6. CASE RunEnd /\ gui.at = "auxrun"
    <3>1. /\ prog' = [prog EXCEPT !.aux[gui.i].over = TRUE]
          /\ tally' = [tally EXCEPT !.owed = @ - 1]
          /\ gui' = [gui EXCEPT !.at = "aux", !.i = @ + 1]
      BY <2>6 DEF RunEnd
    <3>2. DOMAIN prog'.aux = DOMAIN prog.aux BY <1>0, <3>1 DEF Programs
    <3>3. gui'.at = "aux" /\ gui'.i = gui.i + 1 /\ gui'.out = gui.out
      BY <1>0, <3>1 DEF GuiStates
    <3>a. Len(prog.aux) \in Nat /\ Len(gui.out) \in Nat /\ DOMAIN prog.aux = 1 .. Len(prog.aux)
      BY Lengths
    <3>b. Len(prog'.aux) \in Nat /\ DOMAIN prog'.aux = 1 .. Len(prog'.aux) BY LengthsNext
    <3>4. Len(prog'.aux) = Len(prog.aux) BY <3>2, <3>a, <3>b
    <3>5. Remaining = Len(gui.out) + Len(prog.aux) - (gui.i - 1) /\ gui.i \in Nat
      BY <2>6, Lengths DEF Walking
    <3>6. Remaining' = Len(gui'.out) + Len(prog'.aux) - (gui'.i - 1)
      BY <3>3, LengthsNext DEF Walking
    <3>7. gui'.i \in 1 .. Len(prog'.aux) + 1 BY <3>3 DEF UnitInv, Sections
    <3>g. Remaining' = Len(gui.out) + Len(prog.aux) - ((gui.i + 1) - 1)
      BY <3>3, <3>4, <3>6
    <3>h. gui.i + 1 \in 1 .. Len(prog.aux) + 1 BY <3>3, <3>4, <3>7
    <3>8. Remaining' = Remaining - 1 /\ Remaining' \in Nat /\ Remaining \in Int
      BY <3>a, <3>5, <3>g, <3>h, GoneBy
    <3>9. tally' = [owed |-> tally.owed - 1, lost |-> tally.lost] BY <3>1 DEF Tallied
    <3> QED BY <3>8, <3>9 DEF Tallied
  <2> QED BY <1>6, <2>0, <2>2, <2>3, <2>4, <2>5, <2>6 DEF RunStep
<1>7. CASE TickStep
  <2>1. CASE GuiEmit
    <3>1. HandOver /\ gui'.at = gui.at /\ gui'.i = gui.i /\ gui'.out = gui.out
          /\ prog'.aux = Append(prog.aux, Spawn(Head(gui.todo)))
      BY <1>0, <2>1 DEF GuiEmit, Programs, GuiStates
    <3>2. Len(prog'.aux) = Len(prog.aux) + 1 BY <3>1, Lengths
    <3> QED BY <3>1, <3>2, TallyAdds
  <2>2. CASE PollRounds
    <3>1. gui.at = "poll" /\ gui'.at = "aux" /\ gui'.i = 1 /\ gui'.out = <<>>
          /\ UNCHANGED <<prog, tally>>
      BY <1>0, <2>2 DEF PollRounds, GuiStates
    <3>2. Remaining' = Remaining BY <3>1, Lengths, LengthsNext DEF Walking
    <3> QED BY <3>1, <3>2 DEF Tallied
  <2>3. CASE AuxNext
    <3>1. CASE gui'.at = "auxrun"
      <4>1. gui'.i = gui.i /\ gui'.out = gui.out /\ gui.at = "aux" /\ UNCHANGED <<prog, tally>>
        BY <1>0, <2>3, <3>1 DEF AuxNext, GuiStates
      <4> QED BY <3>1, <4>1, TallyKeeps DEF Walking
    <3>2. CASE gui'.at # "auxrun"
      <4>1. /\ gui.at = "aux" /\ gui'.at = "aux" /\ gui'.i = gui.i + 1
            /\ gui'.out = Append(gui.out, prog.aux[gui.i]) /\ UNCHANGED <<prog, tally>>
        BY <1>0, <2>3, <3>2 DEF AuxNext, GuiStates
      <4>a. Len(prog.aux) \in Nat /\ Len(gui.out) \in Nat /\ gui.out \in Seq(Reply)
        BY Lengths
      <4>2. Len(gui'.out) = Len(gui.out) + 1 BY <4>1, <4>a
      <4>b. Remaining = Len(gui.out) + Len(prog.aux) - (gui.i - 1) /\ gui.i \in Nat
        BY <4>1, Lengths DEF Walking
      <4>c. Remaining' = Len(gui'.out) + Len(prog'.aux) - (gui'.i - 1)
        BY <4>1, LengthsNext DEF Walking
      <4>g. Remaining' = (Len(gui.out) + 1) + Len(prog.aux) - ((gui.i + 1) - 1)
        BY <4>1, <4>2, <4>c
      <4>3. Remaining' = Remaining BY <4>a, <4>b, <4>g, GoneBy
      <4> QED BY <4>1, <4>3 DEF Tallied
    <3> QED BY <3>1, <3>2
  <2>4. CASE AuxEnd
    <3>1. /\ gui.at = "aux" /\ gui.i > Len(prog.aux) /\ gui'.at = "idle"
          /\ prog'.aux = gui.out /\ UNCHANGED tally
      BY <1>0, <2>4 DEF AuxEnd, Programs, IdleGui
    <3>2. gui.i \in 1 .. Len(prog.aux) + 1 BY <3>1 DEF UnitInv, Sections
    <3>3. gui.i = Len(prog.aux) + 1 BY <3>1, <3>2, Lengths
    <3>4. Remaining' = Remaining BY <3>1, <3>3, Lengths, LengthsNext DEF Walking
    <3> QED BY <3>1, <3>4 DEF Tallied
  <2>5. CASE Tick \/ ExpireButton \/ ButtonExpired \/ CheckTransitions
    BY <1>0, <1>c, <2>5
    DEF Tick, ExpireButton, ButtonExpired, CheckTransitions, Enter, IdleGui, Walking, GuiStates
  <2>6. CASE ApplyPending
    BY <1>0, <1>c, <2>6 DEF ApplyPending, Enter, IdleGui, Walking, Programs
  <2>7. CASE Advance
    <3>1. DOMAIN prog'.aux = DOMAIN prog.aux /\ UNCHANGED tally
          /\ gui.at = "advance" /\ gui'.at \in {"poll", "body"}
      BY <1>0, <2>7 DEF Advance, Programs, GuiStates
    <3> QED BY <1>c, <3>1 DEF Walking
  <2> QED BY <1>7, <2>1, <2>2, <2>3, <2>4, <2>5, <2>6, <2>7 DEF TickStep
<1> QED BY <1>1, <1>2, <1>3, <1>4, <1>5, <1>6, <1>7 DEF Next

LEMMA TallyInit == ASSUME Init PROVE Tallied
<1>1. prog.aux = <<>> /\ gui.at = "idle" /\ tally = NothingOwed BY DEF Init, IdleGui
<1>2. Remaining = 0 BY <1>1 DEF Remaining
<1> QED BY <1>1, <1>2 DEF Tallied, NothingOwed

LEMMA TallyAlways == PlaySpec => []Tallied
<1>1. PlayInit => Tallied BY TallyInit DEF PlayInit
<1>2. ASSUME UnitInv, UnitInv', [PlayNext]_<<view, vars, group>>, Tallied PROVE Tallied'
  <2>1. CASE Next BY <1>2, <2>1, TallyStep
  <2>2. CASE UNCHANGED vars BY <1>2, <2>2 DEF vars, Tallied, Remaining
  <2> QED BY <1>2, <2>1, <2>2 DEF PlayNext
<1> QED BY <1>1, <1>2, UnitAlways, PTL DEF PlaySpec

-----------------------------------------------------------------------------
LEMMA UnitInvSound == ASSUME UnitInv, Tallied PROVE UnitSound
<1>1. sense.seq \in 0..MaxCount /\ MaxCount \in Nat BY Counts
<1>2. WellFormed(prog.body)
  <2>1. prog.body.wait \in Waits /\ prog.body.over \in BOOLEAN
    BY DEF UnitInv, ProgTyped, Programs, Program
  <2> QED BY <1>1, <2>1 DEF UnitInv, Armed, WellFormed, Waits
<1>3. ASSUME NEW j \in DOMAIN prog.aux PROVE WellFormed(prog.aux[j])
  <2>1. prog.aux[j] \in Reply BY DEF UnitInv, ProgTyped, Programs
  <2>2. prog.aux[j].wait \in Waits /\ prog.aux[j].over \in BOOLEAN
    BY <2>1 DEF Reply, Program
  <2>3. prog.aux[j].wait.since <= sense.seq BY DEF UnitInv, Armed
  <2> QED BY <1>1, <2>2, <2>3 DEF WellFormed, Waits
<1>4. /\ timer \in Timers /\ phase \in PhaseOf(timer) /\ sense \in Senses /\ RobotShape
      /\ prog.pending \in Phases \cup {None}
  BY DEF UnitInv, RestTyped, ProgTyped, Programs
<1>5. TypeOK BY <1>2, <1>3, <1>4 DEF TypeOK, Timers, PhaseOf, Senses, RobotShape, Tallied
<1> QED BY <1>5 DEF UnitSound, UnitInv

\* Types hold, every count and every wait for a touch stays within what was sensed,
\* and the handlers that may answer an event were armed by the program of the phase
\* in force (_enter_state, _apply_action), wherever the two threads are switched.
THEOREM UnitCorrect == PlaySpec => []UnitSound
<1>1. UnitInv /\ Tallied => UnitSound BY UnitInvSound
<1> QED BY <1>1, UnitAlways, TallyAlways, PTL

-----------------------------------------------------------------------------
(* What a step may not do *)

LEMMA PassEnds ==
  ASSUME UnitInv, Next, gui.at = "aux", gui'.at = "idle"
  PROVE  AuxEnd
<1>1. gui \in GuiStates BY DEF UnitInv, GuiTyped
<1>2. gui' # gui OBVIOUS
<1>3. CASE TickStep
  BY <1>1, <1>3 DEF TickStep, Tick, ExpireButton, ButtonExpired, ApplyPending,
     CheckTransitions, Advance, PollRounds, GuiEmit, AuxNext, GuiStates
<1>4. CASE RunStep
  BY <1>4 DEF RunStep, RunCompound, RunWait, RunWhen, RunGroupRhythm, RunProgress,
     RunAction, RunEnd, At, Running
<1>5. CASE EnterStep BY <1>5 DEF EnterStep, EnterReset, EnterForget, EnterDisarm
<1>6. CASE Operator
  BY <1>6 DEF Operator, Start, Pause, Resume, Stop, StepPhase, Enter, UnitInv, Sections
<1>7. CASE Inputs
  BY <1>2, <1>7 DEF Inputs, OnMagnet, OnGesture, OnImpact, PushButton, Heartbeat, LetGo
<1>8. CASE Handler
  BY <1>2, <1>8 DEF Handler, OnPress, FetchOnTouch, AppendOnTouch, EmitTouch, CbSpawn,
     CountGesture, OnButton, EmitButton, ButtonDone
<1>9. CASE TimePasses BY <1>9 DEF TimePasses, Pass
<1> QED BY <1>3, <1>4, <1>5, <1>6, <1>7, <1>8, <1>9 DEF Next

\* Every program handed over in a phase remains until it ends, or was appended to a
\* list that the end of a pass had replaced; and that end keeps every program that has
\* not ended (_advance_aux, _on_press, _emit).
THEOREM ProgramsCorrect == PlaySpec => ProgramsAccounted
<1> DEFINE Keeps == gui.at = "aux" /\ gui'.at = "idle" =>
                      \A i \in DOMAIN prog.aux :
                        prog.aux[i].over \/ prog.aux[i] \in Range(prog'.aux)
<1>1. ASSUME UnitInv, [PlayNext]_<<view, vars, group>> PROVE [Keeps]_vars
  <2>1. CASE Next
    <3>1. SUFFICES ASSUME gui.at = "aux", gui'.at = "idle", NEW i \in DOMAIN prog.aux
                   PROVE  prog.aux[i].over \/ prog.aux[i] \in Range(prog'.aux)
      OBVIOUS
    <3>2. gui.i > Len(prog.aux) /\ prog' = [prog EXCEPT !.aux = gui.out]
      BY <1>1, <2>1, <3>1, PassEnds DEF AuxEnd
    <3>3. prog'.aux = gui.out BY <1>1, <3>2 DEF UnitInv, ProgTyped, Programs
    <3>4. i < gui.i
      <4>1. prog.aux \in Seq(Reply) /\ gui.i \in Nat
        BY <1>1 DEF UnitInv, ProgTyped, Programs, GuiTyped, GuiStates
      <4>2. i \in 1 .. Len(prog.aux) /\ Len(prog.aux) \in Nat BY <3>1, <4>1
      <4> QED BY <3>2, <4>1, <4>2
    <3> QED BY <1>1, <3>1, <3>3, <3>4 DEF UnitInv, Kept
  <2>2. CASE UNCHANGED vars BY <2>2
  <2> QED BY <1>1, <2>1, <2>2 DEF PlayNext
<1>2. Tallied => Remaining + tally.lost = tally.owed BY DEF Tallied
<1> QED BY <1>1, <1>2, UnitAlways, TallyAlways, PTL DEF PlaySpec, ProgramsAccounted

LEMMA RobotMoves == ASSUME Next, robot' # robot PROVE RunAction \/ Stop
<1>1. CASE TickStep
  BY <1>1 DEF TickStep, Tick, ExpireButton, ButtonExpired, ApplyPending,
     CheckTransitions, Advance, PollRounds, GuiEmit, AuxNext, AuxEnd
<1>2. CASE RunStep
  BY <1>2 DEF RunStep, RunCompound, RunWait, RunWhen, RunGroupRhythm, RunProgress, RunEnd
<1>3. CASE EnterStep BY <1>3 DEF EnterStep, EnterReset, EnterForget, EnterDisarm
<1>4. CASE Operator BY <1>4 DEF Operator, Start, Pause, Resume, StepPhase
<1>5. CASE Inputs
  BY <1>5 DEF Inputs, OnMagnet, OnGesture, OnImpact, PushButton, Heartbeat, LetGo
<1>6. CASE Handler
  BY <1>6 DEF Handler, OnPress, FetchOnTouch, AppendOnTouch, EmitTouch, CbSpawn,
     CountGesture, OnButton, EmitButton, ButtonDone
<1>7. CASE TimePasses BY <1>7 DEF TimePasses, Pass
<1> QED BY <1>1, <1>2, <1>3, <1>4, <1>5, <1>6, <1>7 DEF Next

\* A paused activity tells the robot nothing new but what the operator's own step
\* through the phases runs; a stopped one stands still for good (pause, stop, _on_tick).
THEOREM HaltedTellsNothing == PlaySpec => HaltedIsQuiet
<1> DEFINE Still ==
      /\ timer = "paused" /\ robot' # robot => gui.by \in {"manual",
           "start"} \/ timer' = "done"
      /\ timer = "done" => robot' = robot /\ robot.wheels = "still"
<1>1. ASSUME UnitInv, [PlayNext]_<<view, vars, group>> PROVE [Still]_vars
  <2>1. CASE Next
    <3>1. CASE RunAction BY <1>1, <3>1 DEF RunAction, At, Running, UnitInv, Sections
    <3>2. CASE Stop BY <1>1, <3>2 DEF Stop, UnitInv, Sections
    <3>3. CASE robot' = robot BY <1>1, <3>3 DEF UnitInv, Sections
    <3> QED BY <2>1, <3>1, <3>2, <3>3, RobotMoves
  <2>2. CASE UNCHANGED vars BY <2>2
  <2> QED BY <1>1, <2>1, <2>2 DEF PlayNext
<1> QED BY <1>1, UnitAlways, PTL DEF PlaySpec, HaltedIsQuiet
-----------------------------------------------------------------------------
(* The rounds of a group, between the read thread and the tick *)

RoundFields == /\ rounds = [joined |-> rounds.joined, last |-> rounds.last, start |-> rounds.start,
                            open |-> rounds.open, beat |-> rounds.beat, out |-> rounds.out]
               /\ rounds.joined \subseteq Pads /\ DOMAIN rounds.open \subseteq Pads
               /\ rounds.start \in Int

\* A press the read thread is at was made now: time stands still until it is filed.
RoundTyped ==
  /\ rules \in Rules /\ now \in 0 .. Rounds!Horizon /\ events \subseteq (0 .. LastPress) \X Pads
  /\ RoundFields
  /\ reader = [at |-> reader.at, s |-> reader.s, t |-> reader.t]
  /\ reader.at \in {"idle", "joining", "late"}
  /\ reader.at # "idle" => reader.s \in Pads /\ reader.t = now /\ now <= LastPress
  /\ clock = [at |-> clock.at, done |-> clock.done]
  /\ clock.at \in {"idle", "poll", "closed"} /\ clock.done \in BOOLEAN

\* A tick that has only begun has not judged anything yet.
RoundInv ==
  /\ RoundTyped /\ Rounds!StraysJudged
  /\ clock.at # "idle" => ~clock.done

LEMMA RoundFacts ==
  /\ PhaseTol \in Nat /\ LastPress \in Nat /\ Rounds!Horizon = LastPress + PhaseTol + 2
  /\ Rounds!None = -1
BY PlayAssumption DEF Rounds!RoundParameters, Rounds!Horizon, Rounds!None

\* Closing a round leaves it where it is and only adds what was made of it.
LEMMA ClosedKeeps ==
  ASSUME RoundFields
  PROVE  LET tr == Rounds!ClosedRound(rounds)
         IN  /\ tr = [joined |-> tr.joined, last |-> tr.last, start |-> tr.start,
                      open |-> tr.open, beat |-> tr.beat, out |-> tr.out]
             /\ tr.joined = rounds.joined /\ tr.open = rounds.open /\ tr.start = rounds.start
<1>1. PICK j, l, s, o, b, u : rounds = [joined |-> j, last |-> l, start |-> s,
                                        open |-> o, beat |-> b, out |-> u]
  BY DEF RoundFields
<1>2. \E bt, ou : Rounds!ClosedRound(rounds) = [joined |-> j, last |-> l, start |-> s,
                                                open |-> o, beat |-> bt, out |-> ou]
  <2> DEFINE beat == Rounds!Beat(rounds.open)
             more(x) == Append(rounds.out, x)
  <2>1. \/ Rounds!ClosedRound(rounds) = rounds
        \/ Rounds!ClosedRound(rounds) = [rounds EXCEPT !.out = Append(@, "missed")]
        \/ \E x : Rounds!ClosedRound(rounds) = [rounds EXCEPT !.beat = beat, !.out = Append(@, x)]
    BY DEF Rounds!ClosedRound
  <2> HIDE DEF beat
  <2> QED BY <1>1, <2>1
<1> QED BY <1>1, <1>2

LEMMA RoundInitial == ASSUME Rounds!RoundsInit PROVE RoundInv
<1>1. RoundFields BY RoundFacts DEF Rounds!RoundsInit, RoundFields
<1>2. RoundTyped BY <1>1, RoundFacts DEF Rounds!RoundsInit, RoundTyped, Rounds!Idle
<1> QED BY <1>2 DEF RoundInv, Rounds!RoundsInit, Rounds!StraysJudged

LEMMA PressKeeps == ASSUME RoundInv, NEW s \in Pads, Rounds!Press(s) PROVE RoundInv'
<1> USE RoundFacts
<1>1. RoundFields /\ now \in 0 .. Rounds!Horizon /\ now <= LastPress
  BY DEF RoundInv, RoundTyped, Rounds!Press
<1>2. PICK j, l, st, o, b, u : rounds = [joined |-> j, last |-> l, start |-> st,
                                         open |-> o, beat |-> b, out |-> u]
  BY <1>1 DEF RoundFields
<1>3. /\ j \subseteq Pads /\ DOMAIN o \subseteq Pads /\ st \in Int
      /\ rounds.joined = j /\ rounds.open = o /\ rounds.start = st
  BY <1>1, <1>2 DEF RoundFields
<1>4. \/ rounds' = rounds
      \/ \E ls : rounds' = [joined |-> j \cup {s}, last |-> ls, start |-> st,
                            open |-> o, beat |-> b, out |-> u]
      \/ \E ls : rounds' = [joined |-> j \cup {s}, last |-> ls, start |-> now,
                            open |-> Rounds!Opened(s, now), beat |-> b, out |-> u]
  BY <1>2 DEF Rounds!Press
<1>5. DOMAIN Rounds!Opened(s, now) = {s} BY DEF Rounds!Opened
<1>6. RoundFields' BY <1>1, <1>2, <1>3, <1>4, <1>5 DEF RoundFields
<1>7. rounds'.start = rounds.start \/ rounds'.start = now BY <1>2, <1>3, <1>4
<1>8. /\ events' = events \/ events' = events \cup {<<now, s>>}
      /\ reader' = Rounds!Idle \/ reader' = [at |-> "joining", s |-> s, t |-> now]
      /\ UNCHANGED <<rules, now, clock>>
  BY DEF Rounds!Press, Rounds!Recorded
<1>9. RoundTyped'
  <2>1. <<now, s>> \in (0 .. LastPress) \X Pads BY <1>1
  <2>2. events' \subseteq (0 .. LastPress) \X Pads BY <1>8, <2>1 DEF RoundInv, RoundTyped
  <2>3. /\ reader' = [at |-> reader'.at, s |-> reader'.s, t |-> reader'.t]
        /\ reader'.at \in {"idle", "joining", "late"}
        /\ reader'.at # "idle" => reader'.s \in Pads /\ reader'.t = now /\ now <= LastPress
    BY <1>1, <1>8 DEF Rounds!Idle
  <2> QED BY <1>6, <1>8, <2>2, <2>3 DEF RoundInv, RoundTyped
<1>10. Rounds!StraysJudged' BY <1>1, <1>7, <1>8 DEF RoundInv, Rounds!StraysJudged
<1> QED BY <1>8, <1>9, <1>10 DEF RoundInv

LEMMA RecordKeeps == ASSUME RoundInv, Rounds!Record PROVE RoundInv'
<1> USE RoundFacts
<1>0. RoundFields /\ now \in 0 .. Rounds!Horizon BY DEF RoundInv, RoundTyped
<1>1. UNCHANGED <<rules, now, clock>> /\ reader.at # "idle"
  BY DEF Rounds!Record, Rounds!Join, Rounds!Abandon, Rounds!CloseLate, Rounds!OpenNext,
     Rounds!Reader
<1>2. reader.s \in Pads /\ reader.t = now /\ now <= LastPress
  BY <1>1 DEF RoundInv, RoundTyped
<1>3. PICK j, l, st, o, b, u : rounds = [joined |-> j, last |-> l, start |-> st,
                                         open |-> o, beat |-> b, out |-> u]
  BY <1>0 DEF RoundFields
<1>4. /\ j \subseteq Pads /\ DOMAIN o \subseteq Pads /\ st \in Int
      /\ rounds.joined = j /\ rounds.open = o /\ rounds.start = st
  BY <1>0, <1>3 DEF RoundFields
<1>5. RoundFields' /\ (rounds'.start = rounds.start \/ rounds'.start = now)
  <2>1. CASE Rounds!Join
    <3>1. rounds' = [joined |-> j, last |-> l, start |-> st,
                     open |-> Rounds!Joined(o, reader.s, reader.t), beat |-> b, out |-> u]
      BY <1>3, <2>1 DEF Rounds!Join
    <3>2. DOMAIN Rounds!Joined(o, reader.s, reader.t) \subseteq Pads
      BY <1>2, <1>4 DEF Rounds!Joined
    <3> QED BY <1>4, <3>1, <3>2 DEF RoundFields
  <2>2. CASE Rounds!Abandon BY <1>0, <2>2 DEF Rounds!Abandon, RoundFields
  <2>3. CASE Rounds!CloseLate
    <3>1. rounds' = Rounds!ClosedRound(rounds) BY <2>3 DEF Rounds!CloseLate
    <3> QED BY <1>0, <3>1, ClosedKeeps DEF RoundFields
  <2>4. CASE Rounds!OpenNext
    <3>1. rounds' = [joined |-> j, last |-> l, start |-> reader.t,
                     open |-> Rounds!Opened(reader.s, reader.t), beat |-> b, out |-> u]
      BY <1>3, <2>4 DEF Rounds!OpenNext
    <3>2. DOMAIN Rounds!Opened(reader.s, reader.t) \subseteq Pads BY <1>2 DEF Rounds!Opened
    <3> QED BY <1>0, <1>2, <1>4, <3>1, <3>2 DEF RoundFields
  <2> QED BY <2>1, <2>2, <2>3, <2>4 DEF Rounds!Record
<1>6. /\ events' = events \/ events' = events \cup {<<reader.t, reader.s>>}
      /\ reader' = Rounds!Idle \/ reader' = [reader EXCEPT !.at = "late"]
  BY DEF Rounds!Record, Rounds!Join, Rounds!Abandon, Rounds!CloseLate, Rounds!OpenNext,
     Rounds!Recorded
<1>7. RoundTyped'
  <2>1. <<reader.t, reader.s>> \in (0 .. LastPress) \X Pads BY <1>0, <1>2
  <2>2. events' \subseteq (0 .. LastPress) \X Pads BY <1>6, <2>1 DEF RoundInv, RoundTyped
  <2>3. \/ reader' = [at |-> "idle", s |-> Rounds!None, t |-> Rounds!None]
        \/ reader' = [at |-> "late", s |-> reader.s, t |-> reader.t]
    BY <1>6 DEF RoundInv, RoundTyped, Rounds!Idle
  <2> QED BY <1>1, <1>2, <1>5, <2>2, <2>3 DEF RoundInv, RoundTyped
<1>8. Rounds!StraysJudged' BY <1>0, <1>1, <1>5 DEF RoundInv, Rounds!StraysJudged
<1> QED BY <1>1, <1>7, <1>8 DEF RoundInv

LEMMA TickKeeps == ASSUME RoundInv, Rounds!Tick PROVE RoundInv'
<1> USE RoundFacts
<1>0. RoundTyped /\ RoundFields /\ now \in 0 .. Rounds!Horizon
      /\ clock = [at |-> clock.at, done |-> clock.done]
  BY DEF RoundInv, RoundTyped
<1>1. UNCHANGED <<rules, now, events, reader>>
  BY DEF Rounds!Tick, Rounds!LogRounds, Rounds!Expire, Rounds!TakeOutcomes, Rounds!Timer
<1>2. CASE Rounds!LogRounds
  <2>1. clock' = [at |-> "poll", done |-> clock.done] /\ ~clock.done /\ rounds' = rounds
    BY <1>0, <1>2 DEF Rounds!LogRounds
  <2> QED BY <1>0, <1>1, <2>1 DEF RoundInv, RoundTyped, RoundFields, Rounds!StraysJudged
<1>3. CASE Rounds!Expire
  <2>1. clock' = [at |-> "closed", done |-> clock.done] /\ clock.at = "poll"
    BY <1>0, <1>3 DEF Rounds!Expire, Rounds!At
  <2>2. rounds' = Rounds!ClosedRound(rounds) BY <1>3 DEF Rounds!Expire
  <2>3. RoundFields' BY <1>0, <2>2, ClosedKeeps DEF RoundFields
  <2>4. ~clock'.done BY <2>1 DEF RoundInv
  <2> QED BY <1>0, <1>1, <2>1, <2>3, <2>4 DEF RoundInv, RoundTyped, Rounds!StraysJudged
<1>4. CASE Rounds!TakeOutcomes
  <2>1. PICK j, l, st, o, b, u : rounds = [joined |-> j, last |-> l, start |-> st,
                                           open |-> o, beat |-> b, out |-> u]
    BY <1>0 DEF RoundFields
  <2>2. /\ j \subseteq Pads /\ DOMAIN o \subseteq Pads /\ st \in Int
        /\ rounds.start = st /\ rounds.joined = j /\ rounds.open = o
    BY <1>0, <2>1 DEF RoundFields
  <2>3. clock' = [at |-> "idle", done |-> TRUE] BY <1>4 DEF Rounds!TakeOutcomes
  <2>4. CASE Rounds!At("closed")
    <3>1. rounds' = [joined |-> j, last |-> l, start |-> Rounds!None,
                     open |-> <<>>, beat |-> b, out |-> <<>>]
      BY <1>4, <2>1, <2>4 DEF Rounds!TakeOutcomes
    <3>2. RoundFields' /\ rounds'.start = Rounds!None BY <2>2, <3>1 DEF RoundFields
    <3> QED BY <1>0, <1>1, <2>3, <3>2 DEF RoundInv, RoundTyped, Rounds!StraysJudged
  <2>5. CASE ~Rounds!At("closed")
    <3>1. rounds' = [joined |-> j, last |-> l, start |-> st,
                     open |-> o, beat |-> b, out |-> <<>>] /\ ~Rounds!Over
      BY <1>4, <2>1, <2>5 DEF Rounds!TakeOutcomes
    <3>2. RoundFields' /\ rounds'.start = rounds.start BY <2>2, <3>1 DEF RoundFields
    <3>3. rounds.start # Rounds!None => now - rounds.start <= PhaseTol
      BY <1>0, <2>2, <3>1 DEF Rounds!Over
    <3> QED BY <1>0, <1>1, <2>3, <3>2, <3>3 DEF RoundInv, RoundTyped, Rounds!StraysJudged
  <2> QED BY <2>4, <2>5
<1> QED BY <1>2, <1>3, <1>4 DEF Rounds!Tick

LEMMA RoundStep ==
  ASSUME RoundInv, [PlayNext]_<<view, vars, group>>
  PROVE  RoundInv'
<1>1. CASE Rounds!RoundsNext
  <2>1. CASE \E s \in Pads : Rounds!Press(s) BY <2>1, PressKeeps
  <2>2. CASE Rounds!Advance
    <3>1. /\ now' = now + 1 /\ now < Rounds!Horizon /\ reader.at = "idle"
          /\ clock' = [at |-> "idle", done |-> FALSE]
          /\ UNCHANGED <<rules, events, rounds, reader>>
      BY <2>2 DEF Rounds!Advance
    <3>2. now' \in 0 .. Rounds!Horizon BY <3>1, RoundFacts DEF RoundInv, RoundTyped
    <3> QED BY <3>1, <3>2 DEF RoundInv, RoundTyped, RoundFields, Rounds!StraysJudged
  <2> QED BY <1>1, <2>1, <2>2, RecordKeeps, TickKeeps DEF Rounds!RoundsNext
<1>2. CASE UNCHANGED group
  BY <1>2 DEF group, RoundInv, RoundTyped, RoundFields, Rounds!StraysJudged
<1> QED BY <1>1, <1>2 DEF PlayNext

LEMMA RoundImplies == ASSUME RoundInv PROVE Rounds!RoundsTypeOK /\ Rounds!StraysJudged
BY DEF RoundInv, RoundTyped, RoundFields, Rounds!RoundsTypeOK

\* "A lone stray press is judged without waiting for the next one" (touch_rhythm.py:
\* 496): wherever the read thread and the tick switch, for any group and any presses,
\* a tick leaves no round open past its window.
THEOREM StraysStayJudged == PlaySpec => [](Rounds!RoundsTypeOK /\ Rounds!StraysJudged)
<1>1. PlayInit => RoundInv BY RoundInitial DEF PlayInit
<1>2. RoundInv /\ [PlayNext]_<<view, vars, group>> => RoundInv' BY RoundStep
<1> QED BY <1>1, <1>2, RoundImplies, PTL DEF PlaySpec
=============================================================================
