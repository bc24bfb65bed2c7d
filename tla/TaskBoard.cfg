CONSTANTS
  Agents = {a1, a2}
  LeaseTimes = {2}
  ReportedLifecycles = {"ready"}
  PeerCap = 0
  MaxTime = 4
  MaxExecutions = 2
  MaxTokens = 2
  TaskIds = {t1, t2, t3}
  TextSizes = {1, 2}
  ActiveTaskCap = 2
  MaxListedTasks = 2
  MaxProgressEvents = 2
  MaxProgressBytes = 3
SYMMETRY BoardSymmetry
SPECIFICATION PartSpec
INVARIANTS
  BoardSound
  DependenciesHold
  BoardExportable
PROPERTIES
  WorkKept
