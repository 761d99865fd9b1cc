CONSTANTS
  Interval = 3
  Ttl = 10
  MaxTroubles = 3
SPECIFICATION FairDiscoverySpec
PROPERTIES LiveStaysListed NeighboursFindEachOther
