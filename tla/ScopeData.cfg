CONSTANTS
  Parts = {"channels", "history", "files", "sessions"}
  m1 = m1
  m2 = m2
  q1 = q1
  q2 = q2
  Agents = {a1, a2}
  LeaseTimes = {2}
  ReportedLifecycles = {"ready"}
  PeerCap = 2
  MaxTime = 3
  MaxExecutions = 2
  MaxTokens = 1
  MessageIds = {m1, m2}
  ReservationIds = {r1}
  RemotePrincipals = {}
  Humans = {h1}
  Keys = {k1}
  ExpiryTimes = {0}
  InboxLimits = {2}
  ReservationTTL = 1
  TxTime = 0
  MessageBacklogCap = 2
  None = None
  ChannelIds = {c1}
  PostIds = {1, 2, 3}
  HistoryLimits = {1, 2}
  MaxChannels = 1
  MaxSubscribers = 2
  MaxPosts = 3
  Week = 1
  AttachmentIds = {i1}
  UploadKeys = {u1}
  Requests = {q1, q2}
  Backends = {"sqlite", "postgres"}
  Nobody = Nobody
  MaxAttachments = 2
  MaxFaults = 1
  s1 = s1
  s2 = s2
  Managed = {s1, s2}
  AgentOfSession <- SameAgent
  Retrying = {s1}
  SessionLease = 2
  RetryMargin = 1
  MaxStates = 1
  MaxLosses = 1
SPECIFICATION DataSpec
CHECK_DEADLOCK FALSE
INVARIANTS
  FanOutComplete
  ThreadsKept
  PagesComplete
  RowsHaveFiles
  LocksAcyclic
  SessionHonest
PROPERTIES
  GarbageGoes
  SessionSettles
