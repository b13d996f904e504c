SPECIFICATION StudySpec
CONSTANTS
  Sessions = {1, 2}
  Skins = {"k1", "k2"}
  People = {"p1", "p2"}
  Mixes <- Days
  ch1 = ch1
  ch2 = ch2
  Chambers = {ch1, ch2}
  Batches <- Jobs
  Modes = {"none", "drop", "silent", "slow"}
  Clicks = 2
  Stops = 1
  s0 = s0
  s1 = s1
  Sensors = {s0, s1}
  Top = 2
  Step = 2
  Field <- Pull
  Fingers = {0, 5}
  Threshold = 4
  Exit = 1
  Spike = 1
  Moves = 4
  Tunings <- GuardOn
INVARIANT MovingIsQuiet
CHECK_DEADLOCK FALSE
