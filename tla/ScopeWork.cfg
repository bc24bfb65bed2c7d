CONSTANTS
  k1 = k1
  k2 = k2
  Agents = {a1}
  LeaseTimes = {1}
  ReportedLifecycles = {}
  PeerCap = 2
  MaxTime = 2
  MaxExecutions = 3
  MaxTokens = 2
  MessageIds = {m1, m2, m3}
  ReservationIds = {r1}
  RemotePrincipals = {c1}
  Humans = {h1}
  Keys = {e1, k1, k2}
  ExpiryTimes = {0, 1}
  InboxLimits = {2}
  ReservationTTL = 1
  TxTime = 0
  MessageBacklogCap = 2
  None = None
  EscalationIds = {e1}
  PendingPerAgent = 1
  PendingPerScope = 2
  PublicationIds = {p1}
  RemoteTaskIds = {t1, t2}
  CredentialCap = 1
  PrincipalMessageLimit = 2
  MaxRemoteBacklog = 1
  MaxVersions = 2
SYMMETRY WorkSymmetry
SPECIFICATION WorkSpec
CHECK_DEADLOCK FALSE
INVARIANTS
  AnswersKept
  TasksFollowMessages
  BacklogShared
  Exportable
PROPERTIES
  TaskTransitionsLegal
