\* Two chunks, two coroutines, two offers, two controls, one trouble.
CONSTANTS
  j1 = j1
  j2 = j2
  Jobs = {j1, j2}
  LastChunk = 2
  MaxOffers = 2
  MaxControls = 2
  MaxTroubles = 1
SPECIFICATION FairSpec
INVARIANTS CompletedIsKept ShownIsReceived
PROPERTIES DownloadsEnd
\* Everything can have ended at the bounds.
CHECK_DEADLOCK FALSE
