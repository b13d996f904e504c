SPECIFICATION NodeSpec
CONSTANTS
  Slots = 4
  Cmds = {stop, fill}
  Words = {w1, w2}
  NumChambers = 2
  Scenes <- DirectScenes
  Manifolds <- TwoManifolds
  MuxScenes <- MultiplexedScenes
INVARIANTS NoSharedSlot BoardSound NoOrphan Latched HoldYields
PROPERTIES ImplementsFifo Drains
