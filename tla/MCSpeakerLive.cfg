SPECIFICATION FairSpec
CONSTANTS
  MaxQueue = 1
  Actors = {"network", "tone", "calibration", "peer"}
  ErrorLimit = 1
  AmpBoards = {FALSE}
PROPERTIES TeardownCompletes EarlySignalStops
