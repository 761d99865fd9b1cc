CONSTANTS
  m1 = m1
  m2 = m2
  Messages = {m1, m2}
  Offset = 0
  Skew = 1
  NonceTtl = 2
  MaxNonces = 1
  MaxOutstanding = 2
  MaxStep = 1
  MaxAge = 2
  MaxTroubles = 2
SPECIFICATION FairSpec
INVARIANTS SentIsStored AcceptedOnce StoredWasAllowed
PROPERTIES SendEnds
CHECK_DEADLOCK FALSE
