------------------------------- MODULE MCPlay -------------------------------
(* A short behaviour with a wait for touch, a timed stroke, touch and round    *)
(* handlers, an endless beat and the three ways of leaving a phase; and groups  *)
(* of two among three children.                                                 *)
EXTENDS Play

When(e, do)  == [verb |-> "when", event |-> e, do |-> do]
Forever(do)  == [verb |-> "repeat", forever |-> TRUE, times |-> 0, do |-> do]
Do(v)        == [verb |-> v]
Move(c, to)  == [when |-> c, to |-> to]
Score        == [verb |-> "change_value", by |-> 1, highest |-> 1]

Story ==
  [calm |-> [do      |-> <<When("touch", <<Pressure("high"), Wait, Pressure("low")>>),
                           Do("wait_for_touch"), Do("thymio_drive")>>,
             onTouch |-> <<[verb |-> "touch_progress", segments |-> 2, to |-> "play"]>>,
             moves   |-> <<Move([on |-> "gesture", min |-> 2], "play"),
                           Move([on |-> "elapsed_ms"], "play")>>],
   play |-> [do      |-> <<Do("group_rhythm"), When("round", <<Score>>),
                           When("button_released", <<Do("bad")>>), Forever(<<>>)>>,
             onTouch |-> <<>>,
             moves   |-> <<Move([on |-> "any", of |-> {[on |-> "value_is", min |-> 1],
                                                      [on |-> "press", min |-> 1]}], "end")>>],
   end  |-> [do      |-> <<[verb |-> "if", cond |-> [on |-> "impact", min |-> 1],
                            do |-> <<Do("log")>>, else |-> <<Do("beat")>>], Do("wait_for_touch")>>,
             onTouch |-> <<>>, moves |-> <<>>]]
Primitives == {Wait, Pressure("high"), Pressure("low"), Motors("stroke"), Motors("still"),
               Do("log"), Do("beat")}
StoryBody  == [p \in DOMAIN Story |-> Range(Story[p].do) \cup Primitives]
StoryReply == Primitives \cup Range(Story["calm"].onTouch) \cup {Score, Do("bad")}
NoInput == [touch |-> 0, gesture |-> 0, impact |-> 0, press |-> 0, move |-> 0]
Mixes == {[NoInput EXCEPT !.touch = 2],
          [NoInput EXCEPT !.impact = 1],
          [NoInput EXCEPT !.touch = 1, !.gesture = 1],
          [NoInput EXCEPT !.touch = 1, !.move = 1],
          [NoInput EXCEPT !.press = 1, !.move = 1]}
StoryPhases == {"calm", "play", "end"}

Block(auto, racing, selected) ==
  [auto |-> auto, racing |-> racing, participants |-> 2, selected |-> selected, needed |-> 2]
Groups == {Block(FALSE, FALSE, {0, 1}), Block(FALSE, TRUE, {0, 1}), Block(TRUE, FALSE, {})}
InTurn == {Block(FALSE, FALSE, {0, 1})}
=============================================================================
