SPECIFICATION Spec
CONSTANTS
  Writers = {"web"}
  Fields = {"volume", "delay"}
  Values = {0, 1}
  Inodes = {1, 2, 3}
  MaxCrashes = 2
  MaxFaults = 1
INVARIANTS NeverPartial MemoryMatchesDisk
PROPERTIES KeepsRegister
