SPECIFICATION FairSpec
CONSTANTS
  Neighbours = {"other"}
  Workers = {"w1", "w2"}
  LastHost = 4
  MaxChanges = 3
  MaxTicks = 1
  MaxBrowses = 1
  MaxFailures = 1
INVARIANTS CallbacksOwnTheirContext LookupsFindAll
PROPERTIES AdvertisedAgain
