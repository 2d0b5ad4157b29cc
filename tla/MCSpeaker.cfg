SPECIFICATION Spec
CONSTANTS
  MaxQueue = 1
  Actors = {"stream", "network", "watchdog", "pairing", "reset", "reboot"}
  ErrorLimit = 2
  AmpBoards = {TRUE}
INVARIANTS TypeOK SilentWithoutStream PlayingIsBacked SearchFollowsState CleanExit
PROPERTIES BootGate NoBackslide
