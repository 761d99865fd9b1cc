CONSTANTS
  t1 = t1
  k1 = k1
  k2 = k2
  m1 = m1
  NoPeer = NoPeer
  Transfers = {t1}
  Connections = {k1, k2}
  Texts = {m1}
  MaxWriteFaults = 1
  MaxBreaks = 1
SPECIFICATION FairRuntimeSpec
PROPERTIES ReconnectOffers PhoneReconnects LiveTextIsSaved
CHECK_DEADLOCK FALSE
