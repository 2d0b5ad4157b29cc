SPECIFICATION FairSpec
CONSTANTS
  MaxNow = 4
  Callers = {"web1", "web2"}
  Lead = 2
  Lengths = {0, 1, 2}
  MaxPlays = 2
  MaxBlocks = 3
CHECK_DEADLOCK FALSE
INVARIANT TrailingBlock
PROPERTIES KeepsContract SenderStops
