CONSTANTS
  code = code
  Codes = {code}
  SessionTtl = 1
  ApprovalTtl = 1
  OutcomeTtl = 1
  ClientWait = 2
  MaxAsks = 2
  MaxSockets = 3
  MaxTroubles = 1
SPECIFICATION FairSpec
INVARIANTS RequestIsBound KeysAgree
PROPERTIES PairingEnds
