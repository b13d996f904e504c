SPECIFICATION Spec
CONSTANTS
  a = a
  b = b
  Jobs <- TwoNodes
  Lines = 3
  StoreWindow = 4
  AckEvery = 2
  RxLines = 8
  Resends = 1
  Resets = 0
INVARIANT RightImage
CHECK_DEADLOCK FALSE
