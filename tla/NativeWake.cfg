CONSTANTS
  Agents = {a1}
  LeaseTimes = {}
  ReportedLifecycles = {}
  PeerCap = 2
  MaxTime = 5
  MaxExecutions = 1
  MaxTokens = 1
  MessageIds = {m1, m2}
  ReservationIds = {}
  RemotePrincipals = {}
  Humans = {h1}
  Keys = {}
  ExpiryTimes = {1}
  InboxLimits = {1}
  ReservationTTL = 1
  TxTime = 0
  MessageBacklogCap = 2
  None = None
  Listeners = {l1, l2}
  WakeSpacing = 1
  WakeStale = 1
  WakeTries = 2
  WakeBatch = 2
  MaxAttempts = 3
SYMMETRY WakeSymmetry
SPECIFICATION MCWakeSpec
INVARIANTS
  PromptsSound
  AttemptsBounded
