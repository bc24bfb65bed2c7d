CONSTANTS
  Agents = {a1, a2}
  LeaseTimes = {2}
  ReportedLifecycles = {"ready"}
  PeerCap = 2
  MaxTime = 4
  MaxExecutions = 2
  MaxTokens = 2
  MessageIds = {m1}
  ReservationIds = {r1, r2}
  RemotePrincipals = {}
  Humans = {}
  Keys = {}
  ExpiryTimes = {0, 2}
  InboxLimits = {1}
  ReservationTTL = 2
  TxTime = 0
  MessageBacklogCap = 2
  None = None
SYMMETRY AllSymmetry
SPECIFICATION DeliverySpec
INVARIANTS
  ReservationsSound
  RotationRevokes
PROPERTIES
  AuthorityNeverReturns
  ImplementsMailbox
