CONSTANTS
  Agents = {a1, a2}
  LeaseTimes = {3}
  ReportedLifecycles = {}
  PeerCap = 0
  MaxTime = 4
  MaxExecutions = 2
  MaxTokens = 1
  MessageIds = {m1}
  ReservationIds = {r1}
  RemotePrincipals = {}
  Humans = {h1}
  Keys = {}
  ExpiryTimes = {0}
  InboxLimits = {1}
  ReservationTTL = 2
  TxTime = 0
  MessageBacklogCap = 1
  None = None
  Waiters = {w1, w2}
  WaitTimes = {2}
  PollInterval = 0
  ChannelIds = {c1, c2, c3}
  MaxInboxWaitersPerAgent = 2
  MaxInboxWaitersPerScope = 2
  MaxPending = 1
SYMMETRY WaitSymmetry
SPECIFICATION PollSpec
INVARIANTS
  PlacesExact
  NoWorkMissed
