SPECIFICATION Spec
CONSTANTS
  Web = {w1, w2}
  Delays = {0, 1}
  Default = 0
  Corrections = {c1, c2}
  MaxOps = 3
  MaxFaults = 1
INVARIANTS
  DspInStep
  GateFollowsCalibration
  OpenOnlyWhenHealthy
  PreviousKept
SYMMETRY Symmetric
CHECK_DEADLOCK FALSE
