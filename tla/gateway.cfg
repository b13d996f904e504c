CONSTANTS
  n1 = n1
  a = a
  b = b
  Nodes = {n1}
  Listeners = {a, b}
  WireCap = 2
  Hasty = FALSE
  Mixes <- MCMixes
  Slots = {0, 1}
  Named = {1}
  Speeds = {0, 1}
  Prompt = FALSE
  Plans <- MCPlans
SPECIFICATION LinksSpec
INVARIANT LinksSound
INVARIANT PanelHonest
PROPERTY PanelComesRight
PROPERTY WheelsObey
CHECK_DEADLOCK FALSE
