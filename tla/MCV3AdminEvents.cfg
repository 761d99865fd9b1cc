CONSTANTS
  Period = 1
  LastRevision = 3
  MaxClockSet = 1
  MaxHistory = 1
  MaxMishaps = 1
SPECIFICATION FairEventsSpec
INVARIANTS NewestIsOnItsWay
PROPERTIES EmissionsAreSpaced PageCatchesUp
CHECK_DEADLOCK FALSE
