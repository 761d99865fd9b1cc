\* One press or screen beside a recovery at start, and one trouble.
SPECIFICATION FairSpec
CONSTANTS
  MaxRevision = 2
  MaxWire = 1
  MaxUser = 1
  MaxTroubles = 1
PROPERTY MemoryNeverGoesBack
PROPERTY SettledIsAnswered
PROPERTY PressesEnd
PROPERTY NoUploadAfterCancelIntent
\* An upload comes to rest.
CHECK_DEADLOCK FALSE
