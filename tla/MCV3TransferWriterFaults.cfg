\* Conflicting uploads; database errors, failed writes, crashes.
CONSTANTS
  c1 = c1
  c2 = c2
  d1 = d1
  d2 = d2
  phone = phone
  m1 = m1
  Chunks = {c1, c2}
  Digests = {d1, d2}
  Devices = {phone}
  Sender = phone
  Manifests = {m1}
  NoDigest = NoDigest
  NoRoot = NoRoot
  None = None
  NoJob = NoJob
  Torn = Torn
  BatchSize = 2
  MaxQueuedChunks = 2
  MaxQueuedRequests = 2
  MaxQueuedRequestsPerTransfer = 2
  MaxJobs = 3
  MaxControls = 1
  MaxFaults = 1
  MaxStops = 1
SPECIFICATION Spec
INVARIANTS DurableIsOnDisk AckedIsDurable SealedQueueIsDrained
PROPERTIES ImplementsStore
\* Requests may stop arriving: a quiescent Agent is no deadlock.
CHECK_DEADLOCK FALSE
SYMMETRY Symmetry
