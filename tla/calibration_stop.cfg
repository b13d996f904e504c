CONSTANTS
  a = a
  b = b
  Chambers = {a, b}
  Batches <- TwoFills
  Modes = {"none"}
  Clicks = 1
  Stops = 1
SPECIFICATION Spec
INVARIANT RunsOnlyWhenAsked
CHECK_DEADLOCK FALSE
