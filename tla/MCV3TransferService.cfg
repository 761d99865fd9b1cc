\* Completion, verification and cancellation with one error and one crash; fair, with
\* repeated requests of the phone.
CONSTANTS
  c1 = c1
  d1 = d1
  d2 = d2
  phone = phone
  m1 = m1
  s1 = s1
  s2 = s2
  Chunks = {c1}
  Digests = {d1}
  Devices = {phone}
  Sender = phone
  Slots = {s1, s2}
  Manifests = {m1}
  NoDigest = NoDigest
  NoRoot = NoRoot
  None = None
  MaxFaults = 1
  MaxStops = 1
SPECIFICATION FairSpec
INVARIANTS CancelledIsQuiet FilesHaveOneUser StagingKept
PROPERTIES CompletingEnds CancelledIsRemoved
