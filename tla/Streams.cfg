CONSTANTS
  Clients = {c1, c2}
  Instants = {1, 2}
  BatchSizes = {1, 3}
  EventLimits = {1, 2}
  Hosted = TRUE
  EventCap = 4
  TrimStep = 2
  MaxRevision = 6
  MaxScopeEventWaiters = 1
  Polls = FALSE
  MaxScopeTokens = 2
  MaxUnannounced = 1
  Agents = {a1}
  LeaseTimes = {3, 4}
  ReportedLifecycles = {"ready"}
  PeerCap = 0
  MaxTime = 5
  MaxExecutions = 2
  MaxTokens = 2
  StreamIds = {s1}
  PrincipalIds = {p1}
  Retentions = {1, 2}
  OutputLimits = {1, 2}
  MaxOutputStreams = 1
  MaxOutputPublishers = 1
  MaxPrincipals = 1
  PublishRate = 2
  ReadRate = 1
  Minute = 2
  MaxSequence = 3
  MaxSecrets = 2
  MessageIds = {m1}
  ReservationIds = {r1}
  RemotePrincipals = {}
  Humans = {}
  Keys = {}
  ExpiryTimes = {0}
  InboxLimits = {1}
  ReservationTTL = 2
  TxTime = 0
  MessageBacklogCap = 1
  None = None
  Waiters = {w1}
  WaitTimes = {2}
  PollInterval = 0
  ChannelIds = {g1, g2}
  MaxInboxWaitersPerAgent = 2
  MaxInboxWaitersPerScope = 2
  MaxPending = 1
SPECIFICATION StreamsSpec
CHECK_DEADLOCK FALSE
INVARIANTS
  LogSound
  LongPollsSound
  OutputsSound
PROPERTIES
  RecentEventsStay
  OldTokenReadsNothing
  LongPollsEnd
