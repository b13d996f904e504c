---------------------------- MODULE ScriptedUnit ----------------------------
(***************************************************************************)
(* One unit (a skin, or a bare Thymio) run by a scripted activity           *)
(* (activities/scripted_activity.py): a timeline of phases, each with a body *)
(* program, an on_touch program, `when' handlers and transitions.           *)
(*                                                                         *)
(* Two threads meet on the unit.  The GUI thread ticks every 50 ms, enters   *)
(* phases and runs the programs; gui.at is the section it is in.  The        *)
(* gateway thread brings presses, gestures and button reports; cb.at is the  *)
(* section of its callback.  There is no lock: the interpreter may switch    *)
(* threads at every call, and the sections are the code between calls.       *)
(*                                                                         *)
(* A generator is the sequence of steps it has yet to run.  Time is due or   *)
(* not due; pixels, colours and duties are left out.                        *)
(***************************************************************************)
EXTENDS Naturals, FiniteSets, SequencesExt

CONSTANTS Phases, Initial,  \* spec["states"], spec["initial"]
          Behaviour,        \* phase -> [do, onTouch : programs, moves : transitions]
          BodySteps,        \* phase -> the steps its `do' program may come to
          ReplySteps,       \* the steps an on_touch program or a handler may come to
          Sensors,          \* touch sensors of the skin
          MaxCount,         \* bound of each per-phase count
          Budgets           \* how often each input, and a manual move, may happen

None    == "none"
Kinds   == {"touch", "gesture", "impact", "press"}   \* counted per phase
Events  == {"touch", "gesture", "button_pressed", "button_released", "round"}

VARIABLES timer,   \* the 50 ms QTimer: "off", "on", "paused", "done"
          phase,   \* unit.state
          sense,   \* inputs seen since the phase was entered, and the button: down,
                   \* and heard of lately (which matters only while it is down)
          prog,    \* the programs: body, aux, handlers, pending_state, rounds_on
          robot,   \* what the programs last told the robot, and the score
          gui, cb, \* where the two threads are
          held,    \* somebody holds the button down
          left,    \* inputs and manual moves still to come
          tally    \* history: programs handed over in this phase that have not ended,
                   \* and those of them that were handed to a list nobody reads
vars == <<timer, phase, sense, prog, robot, gui, cb, held, left, tally>>

-----------------------------------------------------------------------------
(* Programs *)

Wait       == [verb |-> "wait"]
Pressure(p) == [verb |-> "set_pressure", pct |-> p]
Motors(w)  == [verb |-> "set_motors", to |-> w]

NoWait    == [kind |-> "none", since |-> 0]
Spawn(code) == [code |-> code, wait |-> NoWait, over |-> FALSE]

Basic(c) ==
  CASE c.on = "elapsed_ms"     -> sense.elapsed
    [] c.on \in Kinds          -> sense.count[c.on] >= c.min
    [] c.on = "button_pressed" -> sense.down
    [] c.on = "value_is"       -> robot.score >= c.min
    [] c.on = "always"         -> TRUE
\* Conditions nest once: any / all / not of basic ones.
EvalCond(c) ==
  CASE c.on = "any" -> \E s \in c.of : Basic(s)
    [] c.on = "all" -> \A s \in c.of : Basic(s)
    [] c.on = "not" -> \A s \in c.of : ~Basic(s)
    [] OTHER        -> Basic(c)

\* The steps a compound step stands for.  A beat raises and releases; a timed
\* stroke drives and then stops; both are cut short when their program is.
RepeatBody(s) ==
  IF s.forever THEN s.do \o <<Wait, s>>
  ELSE IF s.times = 0 THEN <<>> ELSE s.do \o <<[s EXCEPT !.times = @ - 1]>>
Expand(s) ==
  CASE s.verb = "sequence" -> s.do
    [] s.verb = "if"       -> IF EvalCond(s.cond) THEN s.do ELSE s.else
    [] s.verb = "repeat"   -> RepeatBody(s)
    [] s.verb = "beat"     -> <<Pressure("high"), Wait, Pressure("low"), Wait>>
    [] s.verb = "fade"     -> <<Wait>>
    [] s.verb = "thymio_drive" -> <<Motors("stroke"), Wait, Motors("still")>>
Compound == {"sequence", "if", "repeat", "beat", "fade", "thymio_drive"}

\* A set of steps that holds what each of them stands for.
Closed(S) ==
  \A s \in S :
    /\ s.verb \in {"sequence", "if", "repeat"} => s.do \in Seq(S)
    /\ s.verb = "if" => s.else \in Seq(S)
    /\ s.verb = "repeat" => IF s.forever THEN Wait \in S
                           ELSE s.times = 0 \/ [s EXCEPT !.times = @ - 1] \in S
    /\ s.verb \in {"beat", "fade", "thymio_drive"} => Wait \in S
    /\ s.verb = "beat" => {Pressure("high"), Pressure("low")} \subseteq S
    /\ s.verb = "thymio_drive" => {Motors("stroke"), Motors("still")} \subseteq S
    /\ s.verb = "set_pressure" => s.pct \in {"low", "high"}
    /\ s.verb = "set_motors" => s.to \in {"still", "stroke"}
    /\ s.verb = "touch_progress" => s.to \in Phases

\* A spec that validate_spec takes, whose `when' blocks are where their help text
\* puts them: "Put it in the phase's 'do'" (catalog.py).
ASSUME BehaviourAssumption ==
  /\ Initial \in Phases /\ None \notin Phases
  /\ \A p \in Phases :
       LET moves == Behaviour[p].moves
       IN  moves \in Seq(Range(moves)) /\ \A m \in Range(moves) : m.to \in Phases
  /\ \A p \in Phases :
       /\ Behaviour[p].do \in Seq(BodySteps[p]) /\ Closed(BodySteps[p])
       /\ \A s \in BodySteps[p] : s.verb = "when" => s.event \in Events /\ s.do \in Seq(ReplySteps)
       /\ Behaviour[p].onTouch \in Seq(ReplySteps)
  /\ Closed(ReplySteps) /\ \A s \in ReplySteps : s.verb # "when"

\* No more is counted than may happen.
ASSUME BudgetAssumption ==
  /\ IsFiniteSet(Sensors) /\ MaxCount \in Nat
  /\ \A b \in Budgets :
       b \in [touch : 0..MaxCount, gesture : 0..MaxCount, impact : 0..MaxCount,
              press : Nat, move : Nat]

-----------------------------------------------------------------------------
IdleGui == [at |-> "idle", back |-> "idle", i |-> 0, out |-> <<>>, todo |-> <<>>,
            by |-> "tick"]
IdleCb  == [at |-> "idle", new |-> {}, code |-> <<>>, stale |-> FALSE, todo |-> <<>>,
            n |-> 0, button |-> FALSE, pressed |-> FALSE]

NothingOwed == [owed |-> 0, lost |-> 0]
HandOver    == tally' = [tally EXCEPT !.owed = @ + 1]

NoCount    == [k \in Kinds |-> 0]
NoHandlers == [e \in Events |-> <<>>]

Init ==
  /\ timer = "off" /\ phase = None /\ held = FALSE
  /\ sense = [count |-> NoCount, elapsed |-> FALSE, seq |-> 0,
              down |-> FALSE, fresh |-> FALSE]
  /\ prog = [body |-> [Spawn(<<>>) EXCEPT !.over = TRUE], aux |-> <<>>,
             handlers |-> NoHandlers, pending |-> None, rounds |-> FALSE]
  /\ robot = [air |-> "low", wheels |-> "still", score |-> 0]
  /\ gui = IdleGui /\ cb = IdleCb
  /\ left \in Budgets /\ tally = NothingOwed

-----------------------------------------------------------------------------
(* Phases: _enter_state, in the order it resets the unit *)

Entering == {"reset", "forget", "disarm"}

Spend(what, n) == left[what] >= n /\ left' = [left EXCEPT ![what] = @ - n]

Enter(p, by) ==
  /\ phase' = p
  /\ gui' = [IdleGui EXCEPT !.at = "reset", !.by = by]

EnterReset ==
  /\ gui.at = "reset" /\ gui' = [gui EXCEPT !.at = "forget"]
  /\ sense' = [sense EXCEPT !.count = NoCount, !.elapsed = FALSE]
  /\ UNCHANGED <<timer, phase, prog, robot, cb, held, left, tally>>

EnterForget ==
  /\ gui.at = "forget" /\ gui' = [gui EXCEPT !.at = "disarm"]
  /\ prog' = [prog EXCEPT !.pending = None, !.aux = <<>>] /\ tally' = NothingOwed
  /\ UNCHANGED <<timer, phase, sense, robot, cb, held, left>>

EnterKeepsHandlers ==
  /\ gui.at = "disarm" /\ gui' = [gui EXCEPT !.at = "body", !.back = "idle"]
  /\ prog' = [prog EXCEPT !.rounds = FALSE, !.body = Spawn(Behaviour[phase].do)]
  /\ UNCHANGED <<timer, phase, sense, robot, cb, held, left, tally>>
EnterDisarm ==
  /\ gui.at = "disarm" /\ gui' = [gui EXCEPT !.at = "body", !.back = "idle"]
  /\ prog' = [prog EXCEPT !.handlers = NoHandlers, !.rounds = FALSE,
                          !.body = Spawn(Behaviour[phase].do)]
  /\ UNCHANGED <<timer, phase, sense, robot, cb, held, left, tally>>

(* The timeline as the operator steps through it *)

NextPhase(p) == IF Behaviour[p].moves = <<>> THEN None ELSE Behaviour[p].moves[1].to
PrevPhases(p) == {q \in Phases \ {p} : NextPhase(q) = p}

Start == /\ timer = "off" /\ timer' = "on"
         /\ Enter(Initial, "start")
         /\ UNCHANGED <<sense, prog, robot, cb, held, left, tally>>

Pause  == /\ timer = "on" /\ gui.at = "idle" /\ timer' = "paused"
          /\ UNCHANGED <<phase, sense, prog, robot, gui, cb, held, left, tally>>
Resume == /\ timer = "paused" /\ gui.at = "idle" /\ timer' = "on"
          /\ UNCHANGED <<phase, sense, prog, robot, gui, cb, held, left, tally>>

StopOnlyTimer ==
  /\ timer \in {"on", "paused"} /\ gui.at = "idle" /\ timer' = "done"
  /\ UNCHANGED <<phase, sense, prog, robot, gui, cb, held, left, tally>>
\* stop(): the tick ends, the wheels are stopped, the listeners detached.
Stop == /\ timer \in {"on", "paused"} /\ gui.at = "idle" /\ timer' = "done"
        /\ robot' = [robot EXCEPT !.wheels = "still"]
        /\ UNCHANGED <<phase, sense, prog, gui, cb, held, left, tally>>

StepPhase ==
  /\ timer \in {"on", "paused"} /\ gui.at = "idle" /\ Spend("move", 1)
  /\ \E p \in ({NextPhase(phase)} \ {None}) \cup PrevPhases(phase) : Enter(p, "manual")
  /\ UNCHANGED <<timer, sense, prog, robot, cb, held, tally>>

-----------------------------------------------------------------------------
(* _on_tick *)

\* _expire_button: silence for longer than the repeat period lets the button go.
Tick ==
  /\ timer = "on" /\ gui.at = "idle"
  /\ gui' = [gui EXCEPT !.by = "tick",
               !.at = IF sense.down /\ ~sense.fresh THEN "expire" ELSE "jump"]
  /\ UNCHANGED <<timer, phase, sense, prog, robot, cb, held, left, tally>>

ExpireButton ==
  /\ gui.at = "expire"
  /\ gui' = [gui EXCEPT !.at = "expired",
               !.todo = IF sense.down THEN prog.handlers["button_released"] ELSE <<>>]
  /\ UNCHANGED <<timer, phase, sense, prog, robot, cb, held, left, tally>>

ButtonExpired ==
  /\ gui.at = "expired" /\ gui.todo = <<>> /\ gui' = [gui EXCEPT !.at = "jump"]
  /\ sense' = [sense EXCEPT !.down = FALSE]
  /\ UNCHANGED <<timer, phase, prog, robot, cb, held, left, tally>>

EnabledOnceOver(p) ==
  {i \in DOMAIN Behaviour[p].moves : prog.body.over /\ EvalCond(Behaviour[p].moves[i].when)}
Enabled(p) == {i \in DOMAIN Behaviour[p].moves : EvalCond(Behaviour[p].moves[i].when)}

\* A jump requested by a step comes first, then the first transition that holds.
ApplyPending ==
  /\ gui.at = "jump" /\ prog.pending # None
  /\ Enter(prog.pending, "step") /\ prog' = [prog EXCEPT !.pending = None]
  /\ UNCHANGED <<timer, sense, robot, cb, held, left, tally>>

CheckTransitions ==
  /\ gui.at = "jump" /\ prog.pending = None
  /\ LET E == Enabled(phase)
     IN  IF E # {}
           THEN \E i \in E : /\ \A j \in E : i <= j
                             /\ Enter(Behaviour[phase].moves[i].to, "tick")
           ELSE gui' = [gui EXCEPT !.at = "advance"] /\ UNCHANGED phase
  /\ UNCHANGED <<timer, sense, prog, robot, cb, held, left, tally>>

WaitDone(w) == \/ w.kind \in {"none", "due"}
               \/ w.kind = "touch" /\ sense.seq > w.since

Advance ==
  /\ gui.at = "advance"
  /\ IF prog.body.over \/ ~WaitDone(prog.body.wait)
       THEN gui' = [gui EXCEPT !.at = "poll"] /\ UNCHANGED prog
       ELSE /\ gui' = [gui EXCEPT !.at = "body", !.back = "poll"]
            /\ prog' = [prog EXCEPT !.body.wait = NoWait]
  /\ UNCHANGED <<timer, phase, sense, robot, cb, held, left, tally>>

\* _poll_rounds: a round that ended since the last tick raises its event.
PollRounds ==
  /\ gui.at = "poll"
  /\ \E ended \in IF prog.rounds THEN BOOLEAN ELSE {FALSE} :
       gui' = [gui EXCEPT !.at = "aux", !.i = 1, !.out = <<>>,
                 !.todo = IF ended THEN prog.handlers["round"] ELSE <<>>]
  /\ UNCHANGED <<timer, phase, sense, prog, robot, cb, held, left, tally>>

\* _emit spawns one program per handler of its snapshot.
GuiEmit ==
  /\ gui.at \in {"expired", "aux"} /\ gui.todo # <<>>
  /\ gui' = [gui EXCEPT !.todo = Tail(@)]
  /\ prog' = [prog EXCEPT !.aux = Append(@, Spawn(Head(gui.todo)))] /\ HandOver
  /\ UNCHANGED <<timer, phase, sense, robot, cb, held, left>>

AuxNextForgets ==
  /\ gui.at = "aux" /\ gui.todo = <<>> /\ gui.i <= Len(prog.aux)
  /\ gui' = IF WaitDone(prog.aux[gui.i].wait) THEN [gui EXCEPT !.at = "auxrun"]
             ELSE [gui EXCEPT !.i = @ + 1]
  /\ UNCHANGED <<timer, phase, sense, prog, robot, cb, held, left, tally>>
\* _advance_aux walks the live list, so what a callback appends is seen ...
AuxNext ==
  /\ gui.at = "aux" /\ gui.todo = <<>> /\ gui.i <= Len(prog.aux)
  /\ LET a == prog.aux[gui.i]
     IN  gui' = IF WaitDone(a.wait) THEN [gui EXCEPT !.at = "auxrun"]
                ELSE [gui EXCEPT !.i = @ + 1, !.out = Append(@, a)]
  /\ UNCHANGED <<timer, phase, sense, prog, robot, cb, held, left, tally>>

\* ... and then replaces it: a callback that had fetched the old list appends
\* to a list nobody reads.
AuxEnd ==
  /\ gui.at = "aux" /\ gui.todo = <<>> /\ gui.i > Len(prog.aux)
  /\ prog' = [prog EXCEPT !.aux = gui.out]
  /\ cb' = [cb EXCEPT !.stale = cb.at = "append"]
  /\ gui' = IdleGui
  /\ UNCHANGED <<timer, phase, sense, robot, held, left, tally>>

-----------------------------------------------------------------------------
(* The running program: _run_step, _apply_action *)

Running == gui.at \in {"body", "auxrun"}
Code == IF gui.at = "body" THEN prog.body.code ELSE prog.aux[gui.i].code
WithCode(p, code) == IF gui.at = "body" THEN [p EXCEPT !.body.code = code]
                                        ELSE [p EXCEPT !.aux[gui.i].code = code]
At(verbs) == Running /\ Code # <<>> /\ Head(Code).verb \in verbs

RunCompound ==
  /\ At(Compound)
  /\ prog' = WithCode(prog, Expand(Head(Code)) \o Tail(Code))
  /\ UNCHANGED <<timer, phase, sense, robot, gui, cb, held, left, tally>>

\* _arm_wait, and back to the scheduler until the wait is over.
RunWait ==
  /\ At({"wait", "wait_for_touch"})
  /\ LET w == IF Head(Code).verb = "wait" THEN [kind |-> "ms", since |-> 0]
              ELSE [kind |-> "touch", since |-> sense.seq]
         p == [Spawn(Tail(Code)) EXCEPT !.wait = w]
     IN  IF gui.at = "body"
           THEN /\ prog' = [prog EXCEPT !.body = p]
                /\ gui' = IF gui.back = "idle" THEN IdleGui ELSE [gui EXCEPT !.at = gui.back]
           ELSE /\ prog' = [prog EXCEPT !.aux[gui.i] = p]
                /\ gui' = [gui EXCEPT !.at = "aux", !.i = @ + 1, !.out = Append(@, p)]
  /\ UNCHANGED <<timer, phase, sense, robot, cb, held, left, tally>>

RunWhen ==
  /\ At({"when"})
  /\ prog' = [WithCode(prog, Tail(Code)) EXCEPT
                !.handlers[Head(Code).event] = Append(@, Head(Code).do)]
  /\ UNCHANGED <<timer, phase, sense, robot, gui, cb, held, left, tally>>

RunGroupRhythm ==
  /\ At({"group_rhythm"})
  /\ prog' = [WithCode(prog, Tail(Code)) EXCEPT !.rounds = TRUE]
  /\ UNCHANGED <<timer, phase, sense, robot, gui, cb, held, left, tally>>

\* touch_progress, zone_fill and score_fill: full, they ask for their phase.
RunProgress ==
  /\ At({"touch_progress"})
  /\ prog' = [WithCode(prog, Tail(Code)) EXCEPT
                !.pending = IF sense.count["touch"] >= Head(Code).segments
                              THEN Head(Code).to ELSE @]
  /\ UNCHANGED <<timer, phase, sense, robot, gui, cb, held, left, tally>>

Clamp(v, lo, hi) == IF v < lo THEN lo ELSE IF v > hi THEN hi ELSE v
RunAction ==
  /\ At({"set_pressure", "set_motors", "change_value", "log"})
  /\ LET s == Head(Code)
     IN  robot' = CASE s.verb = "set_pressure" -> [robot EXCEPT !.air = s.pct]
                    [] s.verb = "set_motors"   -> [robot EXCEPT !.wheels = s.to]
                    [] s.verb = "change_value" ->
                         [robot EXCEPT !.score = Clamp(@ + s.by, 0, s.highest)]
                    [] OTHER -> robot
  /\ prog' = WithCode(prog, Tail(Code))
  /\ UNCHANGED <<timer, phase, sense, gui, cb, held, left, tally>>

\* The program ends, or a step raised: either way it is dropped.
RunEnd ==
  /\ Running /\ ~(Code # <<>> /\ Head(Code).verb # "bad")
  /\ IF gui.at = "body"
       THEN /\ prog' = [prog EXCEPT !.body.over = TRUE] /\ UNCHANGED tally
            /\ gui' = IF gui.back = "idle" THEN IdleGui ELSE [gui EXCEPT !.at = gui.back]
       ELSE /\ prog' = [prog EXCEPT !.aux[gui.i].over = TRUE]
            /\ tally' = [tally EXCEPT !.owed = @ - 1]
            /\ gui' = [gui EXCEPT !.at = "aux", !.i = @ + 1]
  /\ UNCHANGED <<timer, phase, sense, robot, cb, held, left>>

-----------------------------------------------------------------------------
(* The gateway thread.  Listeners are attached from _setup until stop(). *)

CanHear == timer # "done" /\ cb.at = "idle"

\* A frame of the magnet board: the newly active sensors are pressed in turn.
\* Frames that only release a sensor change nothing here, so any sensor may be
\* newly active.
OnMagnet ==
  /\ CanHear
  /\ \E new \in SUBSET Sensors \ {{}} :
       /\ Spend("touch", Cardinality(new))
       /\ cb' = [cb EXCEPT !.at = "press", !.new = new]
  /\ UNCHANGED <<timer, phase, sense, prog, robot, gui, held, tally>>

OnPress ==
  /\ cb.at = "press"
  /\ \E s \in cb.new : cb' = [cb EXCEPT !.new = @ \ {s}, !.at = "look"]
  /\ sense' = [sense EXCEPT !.count["touch"] = @ + 1, !.seq = @ + 1]
  /\ UNCHANGED <<timer, phase, prog, robot, gui, held, left, tally>>

\* unit.aux.append((self._run_steps(...), None)): the list is fetched first.
FetchOnTouch ==
  /\ cb.at = "look"
  /\ LET code == IF phase = None THEN <<>> ELSE Behaviour[phase].onTouch
     IN  cb' = IF code = <<>> THEN [cb EXCEPT !.at = "emit"]
               ELSE [cb EXCEPT !.at = "append", !.code = code, !.stale = FALSE]
  /\ UNCHANGED <<timer, phase, sense, prog, robot, gui, held, left, tally>>

AppendOnTouch ==
  /\ cb.at = "append" /\ cb' = [cb EXCEPT !.at = "emit", !.code = <<>>, !.stale = FALSE]
  /\ IF cb.stale THEN /\ tally' = [owed |-> tally.owed + 1, lost |-> tally.lost + 1]
                      /\ UNCHANGED prog
     ELSE HandOver /\ prog' = [prog EXCEPT !.aux = Append(@, Spawn(cb.code))]
  /\ UNCHANGED <<timer, phase, sense, robot, gui, held, left>>

\* What is left of an _emit, and of the frame after it.
Spawning(todo) ==
  IF todo # <<>> THEN [cb EXCEPT !.at = "spawn", !.todo = todo]
  ELSE IF cb.button THEN [cb EXCEPT !.at = "level", !.todo = <<>>]
  ELSE IF cb.new # {} THEN [cb EXCEPT !.at = "press", !.todo = <<>>]
  ELSE IdleCb

EmitTouch ==
  /\ cb.at = "emit" /\ cb' = Spawning(prog.handlers["touch"])
  /\ UNCHANGED <<timer, phase, sense, prog, robot, gui, held, left, tally>>

CbSpawn ==
  /\ cb.at = "spawn" /\ cb' = Spawning(Tail(cb.todo))
  /\ prog' = [prog EXCEPT !.aux = Append(@, Spawn(Head(cb.todo)))] /\ HandOver
  /\ UNCHANGED <<timer, phase, sense, robot, gui, held, left>>

\* gesture_counts[label] = gesture_counts.get(label, 0) + 1: read, then store.
OnGesture ==
  /\ CanHear /\ Spend("gesture", 1)
  /\ cb' = [cb EXCEPT !.at = "gesture", !.n = sense.count["gesture"]]
  /\ UNCHANGED <<timer, phase, sense, prog, robot, gui, held, tally>>

CountGesture ==
  /\ cb.at = "gesture"
  /\ sense' = [sense EXCEPT !.count["gesture"] = cb.n + 1]
  /\ cb' = [Spawning(prog.handlers["gesture"]) EXCEPT !.n = 0]
  /\ UNCHANGED <<timer, phase, prog, robot, gui, held, left, tally>>

\* The Thymio's read thread: one increment, and the list of levels.
OnImpact ==
  /\ timer # "done" /\ Spend("impact", 1)
  /\ sense' = [sense EXCEPT !.count["impact"] = @ + 1]
  /\ UNCHANGED <<timer, phase, prog, robot, gui, cb, held, tally>>

(* The push button.  The board repeats "pressed" while it is held and sends *)
(* "released" once; that one frame may be lost.                            *)

Report(pressed) == cb' = [cb EXCEPT !.at = "button", !.button = TRUE, !.pressed = pressed]

PushButton ==
  /\ CanHear /\ Spend("press", 1) /\ ~held /\ held' = TRUE /\ Report(TRUE)
  /\ UNCHANGED <<timer, phase, sense, prog, robot, gui, tally>>
Heartbeat ==
  /\ CanHear /\ held /\ Report(TRUE)
  /\ UNCHANGED <<timer, phase, sense, prog, robot, gui, held, left, tally>>
LetGo ==
  /\ held /\ held' = FALSE
  /\ (CanHear /\ Report(FALSE)) \/ UNCHANGED cb
  /\ UNCHANGED <<timer, phase, sense, prog, robot, gui, left, tally>>

\* A heartbeat after a silence is counted as a press too; the count saturates
\* at MaxCount.
OnButton ==
  /\ cb.at = "button" /\ cb' = [cb EXCEPT !.at = "edge"]
  /\ sense' = IF ~cb.pressed THEN sense
              ELSE [sense EXCEPT !.fresh = TRUE,
                      !.count["press"] =
                        IF sense.down \/ @ = MaxCount THEN @ ELSE @ + 1]
  /\ UNCHANGED <<timer, phase, prog, robot, gui, held, left, tally>>

ButtonEvent == IF cb.pressed THEN "button_pressed" ELSE "button_released"
EmitButton ==
  /\ cb.at = "edge"
  /\ cb' = Spawning(IF cb.pressed = sense.down THEN <<>> ELSE prog.handlers[ButtonEvent])
  /\ UNCHANGED <<timer, phase, sense, prog, robot, gui, held, left, tally>>

ButtonDone ==
  /\ cb.at = "level" /\ cb' = IdleCb
  /\ sense' = [sense EXCEPT !.down = cb.pressed, !.fresh = @ /\ cb.pressed]
  /\ UNCHANGED <<timer, phase, prog, robot, gui, held, left, tally>>

-----------------------------------------------------------------------------
(* Time.  Each deadline is polled at most once in a tick, so it may as well  *)
(* pass between two of them.                                               *)

Timed(p) == p # None /\ \E i \in DOMAIN Behaviour[p].moves :
                           Behaviour[p].moves[i].when.on = "elapsed_ms"
Deadlines ==
  (IF sense.elapsed \/ ~Timed(phase) THEN {} ELSE {<<"phase", 0>>})
  \cup (IF sense.fresh THEN {<<"button", 0>>} ELSE {})
  \cup (IF prog.body.wait.kind = "ms" THEN {<<"body", 0>>} ELSE {})
  \cup {<<"aux", i>> : i \in {j \in DOMAIN prog.aux : prog.aux[j].wait.kind = "ms"}}

Pass(D) ==
  /\ D # {} /\ gui.at = "idle"
  /\ sense' = [sense EXCEPT !.elapsed = @ \/ <<"phase", 0>> \in D,
                            !.fresh = @ /\ <<"button", 0>> \notin D]
  /\ prog' = [prog EXCEPT
       !.body.wait.kind = IF <<"body", 0>> \in D THEN "due" ELSE @,
       !.aux = [i \in DOMAIN @ |-> IF <<"aux", i>> \in D
                                     THEN [@[i] EXCEPT !.wait.kind = "due"] ELSE @[i]]]
  /\ UNCHANGED <<timer, phase, robot, gui, cb, held, left, tally>>

TimePasses == \E D \in SUBSET Deadlines : Pass(D)

-----------------------------------------------------------------------------
TickStep ==
  \/ Tick \/ ExpireButton \/ ButtonExpired \/ ApplyPending \/ CheckTransitions
  \/ Advance \/ PollRounds \/ GuiEmit \/ AuxNext \/ AuxEnd
RunStep == \/ RunCompound \/ RunWait \/ RunWhen \/ RunGroupRhythm \/ RunProgress
           \/ RunAction \/ RunEnd
EnterStep == EnterReset \/ EnterForget \/ EnterDisarm
Operator  == Start \/ Pause \/ Resume \/ Stop \/ StepPhase
Inputs  == OnMagnet \/ OnGesture \/ OnImpact \/ PushButton \/ Heartbeat \/ LetGo
Handler == \/ OnPress \/ FetchOnTouch \/ AppendOnTouch \/ EmitTouch \/ CbSpawn
           \/ CountGesture \/ OnButton \/ EmitButton \/ ButtonDone

Next == TickStep \/ RunStep \/ EnterStep \/ Operator \/ Inputs \/ Handler \/ TimePasses

\* The timer fires while it runs, both threads are scheduled, time passes.
Fairness == /\ WF_vars(TickStep) /\ WF_vars(RunStep \/ EnterStep) /\ WF_vars(Handler)
            /\ SF_vars(Pass(Deadlines))
Spec == Init /\ [][Next]_vars /\ Fairness
-----------------------------------------------------------------------------
(* Properties *)

WellFormed(a) == /\ a.wait.kind \in {"none", "ms", "due", "touch"}
                 /\ a.wait.since \in 0..sense.seq /\ a.over \in BOOLEAN

TypeOK ==
  /\ timer \in {"off", "on", "paused", "done"} /\ phase \in IF timer = "off" THEN {None} ELSE Phases
  /\ sense.count \in [Kinds -> 0..MaxCount] /\ sense.seq \in 0..MaxCount
  /\ WellFormed(prog.body) /\ \A i \in DOMAIN prog.aux : WellFormed(prog.aux[i])
  /\ prog.pending \in Phases \cup {None}
  /\ robot.air \in {"low", "high"} /\ robot.wheels \in {"still", "stroke"}
  /\ tally \in [owed : Nat, lost : Nat]

\* What a phase's own program arms.
ArmedIn(p, e) ==
  {s.do : s \in {x \in BodySteps[p] : x.verb = "when" /\ x.event = e}}

\* "when blocks armed in the current state" (scripted_activity.py:150): outside
\* an entry no handler of an earlier phase is left to answer an event, although
\* phases are entered in the middle of callbacks.
HandlersCurrent ==
  gui.at \notin Entering /\ phase # None =>
    \A e \in Events : Range(prog.handlers[e]) \subseteq ArmedIn(phase, e)

\* The programs a pass has yet to come to and those it keeps (_advance_aux).
Remaining == IF gui.at \in {"aux", "auxrun"} THEN Len(gui.out) + Len(prog.aux) - (gui.i - 1)
             ELSE Len(prog.aux)

\* Every program handed over in a phase is in the list until it ends, or was
\* appended to a list that the end of a pass had replaced meanwhile; and that
\* end keeps every one that has not ended, those that callbacks appended during
\* the pass included (_advance_aux, _on_press, _emit).  The list is replaced on one
\* thread and appended to on another, so the second way is taken, against
\* "spawned per touch press" (catalog.py).
ProgramsAccounted ==
  /\ [](Remaining + tally.lost = tally.owed)
  /\ [][gui.at = "aux" /\ gui'.at = "idle" =>
         \A i \in DOMAIN prog.aux :
           prog.aux[i].over \/ prog.aux[i] \in Range(prog'.aux)]_vars

\* While the timer is paused nothing new is said to the robot unless the operator
\* steps through the phases by hand; what it was told last, a stroke of the
\* wheels for one, goes on.  A stopped unit stands still for good, whatever
\* callbacks were under way.
HaltedIsQuiet ==
  [][/\ timer = "paused" /\ robot' # robot => gui.by \in {"manual", "start"} \/ timer' = "done"
     /\ timer = "done" => robot' = robot /\ robot.wheels = "still"]_vars

\* What must happen must happen while the timer runs.
On == timer = "on"

\* Every spawned program is started (or its phase ends): none starves behind
\* programs that wait or repeat for ever.
Unstarted == \E i \in DOMAIN prog.aux : prog.aux[i].wait = NoWait
EveryProgramStarts == (On /\ Unstarted) ~> (~On \/ ~Unstarted)

\* A body that waits for a touch goes on once one has arrived, whichever side
\* of the arming the press fell on (_arm_wait, _wait_done).
Touched == prog.body.wait.kind = "touch" /\ sense.seq > prog.body.wait.since
TouchWaitEnds == (On /\ Touched) ~> (~On \/ ~Touched)

\* A phase with a time limit is left, whatever its programs do.
OverTime == Timed(phase) /\ sense.elapsed
PhaseTimesOut == (On /\ OverTime) ~> (~On \/ ~OverTime)

\* "if that one frame is lost the button would stay down for ever"
\* (_expire_button): it does not.
ButtonComesUp == (On /\ sense.down /\ ~held) ~> (~On \/ ~sense.down \/ held)

\* Types, and the handlers belong to the phase in force.
UnitSound == TypeOK /\ HandlersCurrent

\* What is waiting comes about: programs start, touches end waits, time limits
\* end phases and a silent button comes up.
KeepsGoing == EveryProgramStarts /\ TouchWaitEnds /\ PhaseTimesOut /\ ButtonComesUp
=============================================================================
