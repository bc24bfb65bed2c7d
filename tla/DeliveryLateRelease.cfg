CONSTANTS
  Agents = {a1, a2}
  LeaseTimes = {}
  ReportedLifecycles = {}
  PeerCap = 2
  MaxTime = 3
  MaxExecutions = 1
  MaxTokens = 1
  MessageIds = {m1}
  ReservationIds = {r1, r2}
  RemotePrincipals = {}
  Humans = {}
  Keys = {k1}
  ExpiryTimes = {0, 2}
  InboxLimits = {1, 2}
  ReservationTTL = 1
  TxTime = 0
  MessageBacklogCap = 2
  None = None
SYMMETRY AllSymmetry
SPECIFICATION LinkedSpec
PROPERTIES
  ExpiryMaterializedBeforeRelease
