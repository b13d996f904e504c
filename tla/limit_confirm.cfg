SPECIFICATION Spec
CONSTANTS
  Workers = {"w1", "w2"}
  CtrlOf <- OneController
  ChamberOf <- OwnChamber
  Wanted <- Config
  Slots = {"w1"}
  HardMin <- VacuumFloor
  HardMax = 100
  Eps = 1
  DefaultMin = 0
  DefaultMax = 8
  LeftOver <- Left
  MaxSends = 2
  MaxPushes = 1
  MaxReboots = 1
  MaxFrames = 2
INVARIANTS LimitsSane ConfirmedInForce AckMeansApplied
CHECK_DEADLOCK FALSE
