SPECIFICATION Spec
CONSTANTS
  Chambers = {c1}
  Mixes <- OpsOrPower
  MaxFrames = 1
INVARIANTS HoldSound BenchExclusive KeptAlive
PROPERTIES NoLateKeepalive HoldsEnd
