SPECIFICATION SetupSpec
CONSTANTS
  Joiners = {"web", "streamerAp"}
  MaxJoins = 1
  MaxLinkChanges = 2
  MaxQueue = 1
INVARIANT ChannelsMatchCache
PROPERTIES CacheConverges ChannelsFollowUplink
