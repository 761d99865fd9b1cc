\* Two controls in a row; every upload and every shutdown ends.
CONSTANTS
  c1 = c1
  c2 = c2
  d1 = d1
  d2 = d2
  phone = phone
  m1 = m1
  Chunks = {c1, c2}
  Digests = {d1}
  Devices = {phone}
  Sender = phone
  Manifests = {m1}
  NoDigest = NoDigest
  NoRoot = NoRoot
  None = None
  NoJob = NoJob
  Torn = Torn
  BatchSize = 1
  MaxQueuedChunks = 2
  MaxQueuedRequests = 2
  MaxQueuedRequestsPerTransfer = 2
  MaxJobs = 2
  MaxControls = 2
  MaxFaults = 1
  MaxStops = 1
SPECIFICATION FairSpec
INVARIANTS EndedIsNotWritten
PROPERTIES OnlyFailuresStop ChunksSettle CloseEnds
\* Requests may stop arriving: a quiescent Agent is no deadlock.
CHECK_DEADLOCK FALSE
