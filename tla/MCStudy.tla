------------------------------- MODULE MCStudy ------------------------------
(* Days with the session panel; a calibration of every kind of job alone and of *)
(* two chambers in a batch; and a skin of two sensors and two chambers.         *)
EXTENDS Study

Setup(kids, k1, k2, robots, record) ==
  [kids |-> kids, robots |-> robots, record |-> record,
   who |-> [k \in Skins |-> IF k = "k1" THEN k1 ELSE k2]]
Alone    == Setup({}, None, None, TRUE, TRUE)
OnTouch  == Setup(People, None, None, TRUE, FALSE)
Half     == Setup(People, "p1", None, TRUE, TRUE)
Whole    == Setup(People, "p1", "p2", TRUE, TRUE)
NoRobots == Setup(People, None, None, FALSE, FALSE)
Nothing == [crash |-> 0, close |-> 0, touch |-> 0, release |-> 0, button |-> 0,
            trash |-> 0, careful |-> TRUE, faulty |-> FALSE,
            setups |-> {Alone}, starts |-> {"running"}]
\* Touches and assignments across a restart, the trash with its restarts, a
\* writer that fails, and the buttons.
Days == {[Nothing EXCEPT !.touch = 3, !.crash = 1, !.setups = {OnTouch}],
         [Nothing EXCEPT !.touch = 1, !.release = 1, !.close = 1, !.faulty = TRUE,
                         !.setups = {Half, NoRobots}],
         [Nothing EXCEPT !.trash = 3, !.crash = 1, !.touch = 1, !.setups = {Whole}],
         [Nothing EXCEPT !.button = 4, !.crash = 1, !.starts = {"running", "failed"}]}

CONSTANTS ch1, ch2
One(c, kind) == [ch |-> c, kind |-> kind]
Jobs == { <<One(ch1, "duty")>>, <<One(ch1, "hold")>>,
          <<One(ch1, "fill"), One(ch2, "fill")>>,
          <<One(ch2, "deflate"), One(ch1, "deflate")>> }

CONSTANTS s0, s1
\* Chamber ch1 lies under the first sensor, ch2 under both and against the first;
\* together they move the first less than their sum.
Pull ==
  [l \in [Chambers -> 0 .. Top] |->
    [s \in Sensors |->
      IF s = s0 THEN (4 * l[ch1]) - (2 * l[ch2]) - (IF l[ch1] > 0 /\ l[ch2] > 0 THEN 1 ELSE 0)
               ELSE 3 * l[ch2]]]
Tuning(on, g, v, m, sup, un) ==
  [enabled |-> on, guard |-> g, vec |-> v, margin |-> m, suppress |-> sup, unmeasured |-> un]
Plain    == Tuning(FALSE, FALSE, FALSE, 0, 9, {})
Scalar   == Tuning(TRUE, FALSE, FALSE, 0, 9, {})
Guarded  == Tuning(TRUE, TRUE, TRUE, 0, 9, {})
Cautious == Tuning(TRUE, FALSE, TRUE, 1, 2, {{ch1, ch2}})
Settings == {Plain, Scalar, Guarded, Cautious}
GuardOn  == {Guarded}
=============================================================================
