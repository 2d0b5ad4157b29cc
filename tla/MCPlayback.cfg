SPECIFICATION FairSpec
CONSTANTS
  Lead = 1
  MaxNow = 2
  Prefill = 2
  Capacity = 2
  Target = 0
  TonePackets = 1
  MaxPackets = 3
  MaxCopies = 1
CHECK_DEADLOCK FALSE
INVARIANT LossNeverUndercounted
PROPERTIES EarlyOnlyWhenFull BufferDrains
