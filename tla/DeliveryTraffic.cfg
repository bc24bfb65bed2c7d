CONSTANTS
  Agents = {a1, a2}
  LeaseTimes = {}
  ReportedLifecycles = {}
  PeerCap = 2
  MaxTime = 3
  MaxExecutions = 1
  MaxTokens = 1
  MessageIds = {m1, m2}
  ReservationIds = {r1, r2}
  RemotePrincipals = {}
  Humans = {}
  Keys = {k1}
  ExpiryTimes = {0, 1}
  InboxLimits = {1}
  ReservationTTL = 2
  TxTime = 1
  MessageBacklogCap = 2
  None = None
SYMMETRY AllSymmetry
SPECIFICATION LinkedSpec
INVARIANTS
  DeliveredInTime
  IdempotentSends
PROPERTIES
  RetentionKeepsObligations
