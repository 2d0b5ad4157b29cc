SPECIFICATION SetupSpec
CONSTANTS
  Joiners = {"pairing"}
  MaxJoins = 1
  MaxLinkChanges = 0
  MaxQueue = 1
PROPERTY HotspotRestored
