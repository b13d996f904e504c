SPECIFICATION Spec
CONSTANTS
  Chambers = {c1, c2}
  Dirs = {"inflate", "deflate"}
  GroupWindow = 1
  MinRoundSingle = 1
  MinRound = 2
  SettleTime = 2
  RoundMax = 3
  SeqMax = 10
  ChamberMax = 3
  Debounce = 2
  Caps <- CapsSmall
  TailTime = 3
  MaxStall = 2
INVARIANTS FillShape BoundedOpening
PROPERTIES BlindPullOnce BudgetEnforced AlwaysQuiesces ImplementsFillSpec
