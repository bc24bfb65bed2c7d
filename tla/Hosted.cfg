CONSTANTS
  w1 = w1
  w2 = w2
  u1 = u1
  u2 = u2
  c1 = c1
  c2 = c2
  d1 = d1
  d2 = d2
  s1 = s1
  s2 = s2
  q1 = q1
  q2 = q2
  Workspaces = {w1, w2}
  Users = {u1, u2}
  Invites = {i1}
  Devices = {d1, d2}
  Sessions = {s1, s2}
  Approvals = {p1, q1, q2}
  Pairings = {p1}
  MaxRefreshes = 2
  Calls = {c1, c2}
  Nothing = Nothing
  OwnedLimit = 1
  MemberLimit = 2
  InviteLimit = 1
  ConnectionLimit = 1
  SessionLimit = 1
  MaxGeneration = 2
  Intervals = {"month", "year"}
  CheckoutLife = 2
  ReplayWindow = 1
  Grace = 0
  Period = 2
  MonthLength = 2
  DeliveryLimit = 3
  TrialLimit = 2
  TrialEnds = 4
  MaxAttempts = 2
  MaxHours = 5
  MaxChanges = 2
  MaxFailures = 1
SPECIFICATION HostedSpec
CHECK_DEADLOCK FALSE
INVARIANTS
  ExecutionHasAuthority
  AccountsSound
  SingleChain
  PurchasesSound
PROPERTIES
  OldFamilyHarmless
  BillingSettles
