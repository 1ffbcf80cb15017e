SPECIFICATION ServingSpec
CHECK_DEADLOCK FALSE
CONSTANTS
  MaxPlanned = 4
  Plans <- SmallPlans
  MaxSubTasks = 3
  Budgets = {2, 8}
  MaxOverrun = 1
  LiveStreams = {s1, s2}
  s1 = s1
  s2 = s2
  LiveSlots = 1
  LiveIterations = 1
  PoolCallers = {p1, p2, p3}
  p1 = p1
  p2 = p2
  p3 = p3
  MaxPools = 2
INVARIANTS
  DependenciesFirst
  BudgetHeld
  CompletedMeansAll
  ReportSound
  PoolSafe
PROPERTIES
  InvokeEnds
  LiveKept
  PoolServes
