\* MCV3TransferStore: all transactions on one row, in every order.
CONSTANTS
  c1 = c1
  c2 = c2
  d1 = d1
  d2 = d2
  phone = phone
  other = other
  m1 = m1
  m2 = m2
  Chunks = {c1, c2}
  Digests = {d1, d2}
  Devices = {phone, other}
  Manifests = {m1, m2}
  NoDigest = NoDigest
  NoRoot = NoRoot
  None = None
  MaxRevision = 9
SPECIFICATION Spec
INVARIANTS CompletedIsVerified
PROPERTIES TerminalIsFinal
