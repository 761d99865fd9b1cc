\* Two acknowledgements in flight, controls, failed writes, a crash.
CONSTANTS
  c1 = c1
  c2 = c2
  a1 = a1
  a2 = a2
  Chunks = {c1, c2}
  Acks = {a1, a2}
  NoChunk = NoChunk
  MaxRevision = 7
  MaxFaults = 1
  MaxCrashes = 2
  MaxOthers = 1
SPECIFICATION Spec
INVARIANTS CompletionIsExact NothingUnsaved
PROPERTIES FileNeverGoesBack
\* Nothing is left to do at the bounds.
CHECK_DEADLOCK FALSE
